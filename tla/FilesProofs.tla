------------------------------ MODULE FilesProofs -----------------------------
(***************************************************************************)
(* Proved of the disk, for any files and any number of open copies, and of *)
(* the tables of descriptors, for any processes, any length of a table,    *)
(* any size of a pointer and any number of handles.                        *)
(*                                                                         *)
(* No block ever has two owners: every block that an inode names, on the   *)
(* disk or in memory, has one owner, a place in a file; a block that is    *)
(* being allocated has none yet, and a new indirect block none whose table *)
(* may be read.  The owner of a block changes only then.                   *)
(*                                                                         *)
(* Every entry of the root directory has an inode of its own: the one that *)
(* is being made has it from the start, before its entry has a name.       *)
(*                                                                         *)
(* What was written completely survives: the inode in memory has all that  *)
(* the one on the disk has, and as blocks have one owner, nothing that is  *)
(* written later is written there.                                         *)
(*                                                                         *)
(* All this is until a create that was stopped half-way makes the next one *)
(* zero what lies behind the directory; the invariant holds before.        *)
(*                                                                         *)
(* Descriptors do not move each other, fork keeps positions, and an open   *)
(* descriptor stays on its file: only stale descriptors have the address   *)
(* at which a handle is made, and a table that copy_handles changes has    *)
(* its parent's pointers only where it is low.                             *)
(***************************************************************************)
EXTENDS Files, FiniteSetTheorems, SequenceTheorems, WellFoundedInduction, TLAPS

\* A set of naturals that is not empty has a smallest element.
LEMMA SmallestExists ==
  ASSUME NEW S \in SUBSET Nat, S # {}
  PROVE  \E x \in S : \A y \in S : x <= y
<1>1. \E x \in S : \A y \in S : ~ (<<y, x>> \in OpToRel(<, Nat))
  BY NatLessThanWellFounded, WFMin, Zenon
<1>2. PICK x \in S : \A y \in S : ~ (y < x)
  BY <1>1 DEF OpToRel
<1> QED BY <1>2

\* Blocks are numbers, so the scan of the bitmap finds a first one.
LEMMA FirstOne ==
  ASSUME NEW S \in SUBSET Nat, S # {}
  PROVE  FirstOf(S) \in S
BY SmallestExists DEF FirstOf

-----------------------------------------------------------------------------
(* Types, and what each stage of a write knows *)

INodes == [dbp : [DirectSlots -> Blocks \cup {0}], sibp : Blocks \cup {0}]
Stages == {"idle", "block", "count", "zero", "table", "entry", "header", "name", "inode", "group",
           "panic", "full", "overrun"}
Writing == {"block", "count", "zero", "table"}

OpType ==
  /\ op = [stage |-> op.stage, entry |-> op.entry, from |-> op.from, size |-> op.size,
           done |-> op.done, val |-> op.val, with |-> op.with, name |-> op.name]
  /\ op.stage \in Stages /\ op.from \in Nat /\ op.done \in Nat

Types ==
  /\ block_bm \in SUBSET Blocks
  /\ inodes \in [Inodes -> INodes]
  /\ core \in [Entries -> INodes \cup {NotOpen}]
  /\ tables \in [Blocks -> [SinglySlots -> Blocks \cup {0}]]
  /\ OpType

StageKnows ==
  /\ op.stage \in Writing => op.entry \in Entries /\ core[op.entry] \in INodes
  /\ op.stage = "count" => Lacks(core[op.entry], Slot) # "nothing"
  /\ op.stage \in {"count", "table"} => op.with \in Blocks
  /\ op.stage = "zero" => core[op.entry].sibp \in Blocks
  /\ op.stage = "table" => core[op.entry].sibp \in Blocks /\ Slot \in FileSlots \ DirectSlots

-----------------------------------------------------------------------------
(* Owners *)

Owner(i, kind, k) == <<i, <<kind, k>>>>
OwnerKinds == {"direct", "slot", "indirect", "new", "reserved"}
Owners == (Inodes \cup {0}) \X (OwnerKinds \X Int)
Reserved == Owner(0, "reserved", 0)

\* What inode v of file i names is allocated in the bitmap bm, and f gives it to the place
\* that names it; an indirect block that is still to be cleared is "new".
Owned(f, bm, i, v, kind) ==
  /\ \A k \in DirectSlots : v.dbp[k] # 0 =>
       v.dbp[k] \in bm /\ f[v.dbp[k]] = Owner(i, "direct", k)
  /\ v.sibp \in Blocks => v.sibp \in bm /\ f[v.sibp] = Owner(i, kind, 0)

Kind(e) == IF op.stage = "zero" /\ op.entry = e THEN "new" ELSE "indirect"

OwnedTables(f, bm, tabs) ==
  \A b \in Blocks, i \in Inodes, k \in SinglySlots :
    f[b] = Owner(i, "indirect", 0) /\ tabs[b][k] # 0 =>
      tabs[b][k] \in bm /\ f[tabs[b][k]] = Owner(i, "slot", k)

InodesOwned(f) == \A i \in Inodes : Owned(f, block_bm, i, inodes[i], "indirect")
CoreOwned(f) == \A e \in Entries : Owned(f, block_bm, InodeOf(e), core[e], Kind(e))
WithReserved(f) == op.stage \in {"count", "table"} => op.with \in block_bm /\ f[op.with] = Reserved

OwnedBy(f) ==
  InodesOwned(f) /\ CoreOwned(f) /\ OwnedTables(f, block_bm, tables) /\ WithReserved(f)

HasOwners == \E f \in [Blocks -> Owners] : OwnedBy(f)

IInv == Types /\ StageKnows /\ HasOwners

-----------------------------------------------------------------------------
(* A block that no inode names may be given an owner *)

LEMMA OwnersDiffer ==
  ASSUME NEW i, NEW j, NEW a, NEW b, NEW k, NEW l
  PROVE  Owner(i, a, k) = Owner(j, b, l) <=> i = j /\ a = b /\ k = l
BY DEF Owner

LEMMA OwnerType ==
  ASSUME NEW i \in Inodes \cup {0}, NEW kind \in OwnerKinds, NEW k \in Int
  PROVE  Owner(i, kind, k) \in Owners
BY DEF Owner, Owners

\* Block x has no owner, or one that an inode of this kind does not speak for.
Spare(f, bm, x, kind) ==
  \/ x \notin bm
  \/ \E j, c, l : c \notin {"direct", kind} /\ f[x] = Owner(j, c, l)

LEMMA OwnedFrame ==
  ASSUME NEW f \in [Blocks -> Owners], NEW bm \in SUBSET Blocks, NEW i, NEW v, NEW kind,
         NEW x \in Blocks, NEW o, Owned(f, bm, i, v, kind), Spare(f, bm, x, kind)
  PROVE  Owned([f EXCEPT ![x] = o], bm, i, v, kind)
<1> DEFINE g == [f EXCEPT ![x] = o]
<1>1. \A b \in Blocks : b # x => g[b] = f[b]
  OBVIOUS
<1>2. ASSUME NEW b \in bm, NEW k, f[b] = Owner(i, "direct", k) \/ f[b] = Owner(i, kind, k)
      PROVE  b # x
  BY <1>2, OwnersDiffer DEF Spare
<1>3. ASSUME NEW k \in DirectSlots, v.dbp[k] # 0
      PROVE  v.dbp[k] \in bm /\ g[v.dbp[k]] = Owner(i, "direct", k)
  <2>1. v.dbp[k] \in bm /\ f[v.dbp[k]] = Owner(i, "direct", k)
    BY <1>3 DEF Owned
  <2> QED BY <2>1, <1>1, <1>2
<1>4. ASSUME v.sibp \in Blocks
      PROVE  v.sibp \in bm /\ g[v.sibp] = Owner(i, kind, 0)
  <2>1. v.sibp \in bm /\ f[v.sibp] = Owner(i, kind, 0)
    BY <1>4 DEF Owned
  <2> QED BY <2>1, <1>1, <1>2
<1> QED BY <1>3, <1>4 DEF Owned

\* The same for the tables; the new owner is not an indirect block.
LEMMA TablesFrame ==
  ASSUME NEW f \in [Blocks -> Owners], NEW bm \in SUBSET Blocks, NEW x \in Blocks,
         NEW j, NEW c, NEW l, c # "indirect",
         OwnedTables(f, bm, tables), Spare(f, bm, x, "slot")
  PROVE  OwnedTables([f EXCEPT ![x] = Owner(j, c, l)], bm, tables)
<1> DEFINE g == [f EXCEPT ![x] = Owner(j, c, l)]
<1> SUFFICES ASSUME NEW b \in Blocks, NEW i \in Inodes, NEW k \in SinglySlots,
                    g[b] = Owner(i, "indirect", 0), tables[b][k] # 0
             PROVE  tables[b][k] \in bm /\ g[tables[b][k]] = Owner(i, "slot", k)
  BY DEF OwnedTables
<1>1. b # x /\ f[b] = Owner(i, "indirect", 0)
  BY OwnersDiffer
<1>2. tables[b][k] \in bm /\ f[tables[b][k]] = Owner(i, "slot", k)
  BY <1>1 DEF OwnedTables
<1>3. tables[b][k] # x
  BY <1>2, OwnersDiffer DEF Spare
<1> QED BY <1>2, <1>3

\* With owners for all, what an inode names at a place belongs to that place.
LEMMA PlaceOwned ==
  ASSUME Types, NEW f \in [Blocks -> Owners], OwnedTables(f, block_bm, tables),
         NEW i \in Inodes, NEW v \in INodes, Owned(f, block_bm, i, v, "indirect"),
         NEW p \in Places(v)
  PROVE  At(v, p) \in block_bm /\ f[At(v, p)] = <<i, p>>
<1>1. CASE \E k \in DirectSlots : v.dbp[k] # 0 /\ p = <<"direct", k>>
  <2>1. PICK k \in DirectSlots : v.dbp[k] # 0 /\ p = <<"direct", k>>
    BY <1>1
  <2>2. At(v, p) = v.dbp[k]
    BY <2>1 DEF At
  <2> QED BY <2>1, <2>2 DEF Owned, Owner
<1>2. CASE v.sibp # 0 /\ p = <<"indirect", 0>>
  <2>1. At(v, p) = v.sibp /\ v.sibp \in Blocks
    BY <1>2 DEF At, INodes
  <2> QED BY <1>2, <2>1 DEF Owned, Owner
<1>3. CASE v.sibp # 0 /\ \E k \in SinglySlots : tables[v.sibp][k] # 0 /\ p = <<"slot", k>>
  <2>1. PICK k \in SinglySlots : tables[v.sibp][k] # 0 /\ p = <<"slot", k>>
    BY <1>3
  <2>2. At(v, p) = tables[v.sibp][k]
    BY <2>1 DEF At
  <2>3. v.sibp \in Blocks /\ f[v.sibp] = Owner(i, "indirect", 0)
    BY <1>3 DEF INodes, Owned
  <2>4. tables[v.sibp][k] \in block_bm /\ f[tables[v.sibp][k]] = Owner(i, "slot", k)
    BY <2>1, <2>3 DEF OwnedTables
  <2> QED BY <2>1, <2>2, <2>4 DEF Owner
<1> QED BY <1>1, <1>2, <1>3 DEF Places

LEMMA OwnersSuffice ==
  IInv => BlocksOwnedOnce
<1> SUFFICES ASSUME IInv
             PROVE  BlocksOwnedOnce
  OBVIOUS
<1>1. PICK f \in [Blocks -> Owners] : OwnedBy(f)
  BY DEF IInv, HasOwners
<1>2. ASSUME NEW i \in Inodes, NEW p \in Places(inodes[i])
      PROVE  At(inodes[i], p) \in block_bm /\ f[At(inodes[i], p)] = <<i, p>>
  BY <1>1, PlaceOwned DEF IInv, OwnedBy, InodesOwned, Types
<1>3. DiskBlocksOwned
  BY <1>2 DEF DiskBlocksOwned
<1>4. ASSUME NEW e \in Entries, core[e] # NotOpen, op.stage # "zero", NEW p \in Places(core[e])
      PROVE  At(core[e], p) \in block_bm /\ f[At(core[e], p)] = <<InodeOf(e), p>>
  <2>1. core[e] \in INodes
    BY <1>4 DEF IInv, Types
  <2>2. InodeOf(e) \in Inodes
    BY DEF Entries, InodeOf, Inodes
  <2>3. Owned(f, block_bm, InodeOf(e), core[e], "indirect")
    BY <1>1, <1>4 DEF OwnedBy, CoreOwned, Kind
  <2> QED BY <1>1, <2>1, <2>2, <2>3, PlaceOwned DEF IInv, OwnedBy
<1>5. CoreBlocksOwned
  <2> SUFFICES ASSUME NEW e \in Entries, core[e] # NotOpen, op.stage # "zero",
                      NEW p \in Places(core[e]), NEW j \in Inodes \ {InodeOf(e)},
                      NEW q \in Places(inodes[j])
               PROVE  At(core[e], p) \in block_bm /\ At(core[e], p) # At(inodes[j], q)
    BY <1>4 DEF CoreBlocksOwned
  <2> QED BY <1>2, <1>4
<1> QED BY <1>3, <1>5 DEF BlocksOwnedOnce

-----------------------------------------------------------------------------
(* Init and the steps: types and what the stages know *)

LEMMA NewINodeType ==
  /\ NewINode \in INodes
  /\ NewINode.sibp = 0 /\ NotOpen.sibp \notin Blocks /\ 0 \notin Blocks
  /\ \A k \in DirectSlots : NewINode.dbp[k] = 0 /\ NotOpen.dbp[k] = 0
BY BlocksAssumption DEF NewINode, NotOpen, INode, INodes

\* An inode without blocks needs no owner, and what is owned stays owned.
LEMMA NothingToOwn ==
  ASSUME NEW f, NEW bm, NEW i, NEW kind
  PROVE  Owned(f, bm, i, NewINode, kind) /\ Owned(f, bm, i, NotOpen, kind)
BY NewINodeType DEF Owned

LEMMA InitIInv ==
  ASSUME Init
  PROVE  IInv
<1>1. Types
  <2>1. inodes \in [Inodes -> INodes] /\ core \in [Entries -> INodes \cup {NotOpen}]
    BY NewINodeType DEF Init
  <2>2. tables \in [Blocks -> [SinglySlots -> Blocks \cup {0}]]
    <3>1. (CHOOSE x \in Blocks : TRUE) \in Blocks
      BY BlocksAssumption
    <3> QED BY <3>1 DEF Init
  <2>3. OpType
    BY DEF Init, OpType, Idle, Op, Stages
  <2> QED BY <2>1, <2>2, <2>3 DEF Types, Init
<1>2. op.stage = "idle"
  BY DEF Init, Idle, Op
<1>3. StageKnows
  BY <1>2 DEF StageKnows, Writing
<1>4. HasOwners
  <2> DEFINE f == [b \in Blocks |-> Reserved]
  <2>1. f \in [Blocks -> Owners]
    BY OwnerType DEF Reserved, OwnerKinds
  <2>2. InodesOwned(f) /\ CoreOwned(f)
    BY NothingToOwn DEF InodesOwned, CoreOwned, Init
  <2>3. OwnedTables(f, block_bm, tables)
    BY OwnersDiffer DEF OwnedTables, Reserved
  <2> QED BY <1>2, <2>1, <2>2, <2>3 DEF HasOwners, OwnedBy, WithReserved
<1> QED BY <1>1, <1>3, <1>4 DEF IInv

LEMMA FirstUnused ==
  ASSUME Unused(block_bm) # {}
  PROVE  FirstOf(Unused(block_bm)) \in Blocks \ block_bm
<1>1. Unused(block_bm) \in SUBSET Nat
  BY BlocksAssumption DEF Unused
<1> QED BY <1>1, FirstOne DEF Unused

LEMMA SlotType ==
  ASSUME Types
  PROVE  Slot \in Nat
BY DEF Types, OpType, Slot

LEMMA LacksCases ==
  ASSUME Types, NEW e \in Entries, core[e] \in INodes
  PROVE  /\ Lacks(core[e], Slot) = "direct" => Slot \in DirectSlots /\ core[e].dbp[Slot] = 0
         /\ Lacks(core[e], Slot) = "indirect" => core[e].sibp = 0
         /\ Lacks(core[e], Slot) \notin {"direct", "indirect", "nothing"} =>
              Slot \in FileSlots \ DirectSlots /\ core[e].sibp \in Blocks
<1>1. core[e].sibp \in Blocks \cup {0}
  BY DEF INodes
<1>2. CASE Slot \in DirectSlots
  BY <1>1, <1>2 DEF Lacks
<1>3. CASE Slot \in FileSlots \ DirectSlots
  BY <1>1, <1>3 DEF Lacks
<1>4. CASE Slot \notin FileSlots /\ Slot \notin DirectSlots
  BY <1>1, <1>4 DEF Lacks
<1> QED BY <1>2, <1>3, <1>4

\* Every step keeps the types and what the stage of a write knows.
LEMMA StepTypes ==
  ASSUME Types, StageKnows, Next
  PROVE  Types' /\ StageKnows'
<1> USE DEF Writing, Stages
<1>a. op.from \in Nat /\ op.done \in Nat /\ Slot \in Nat
  BY SlotType DEF Types, OpType
<1>1. ASSUME NEW e \in Entries, NEW from \in FileSlots, NEW n \in 1 .. MaxWrite,
             NEW val \in Values, write(e, from, n, val)
      PROVE  Types' /\ StageKnows'
  <2>1. from \in Nat
    BY SlotsAssumption DEF FileSlots
  <2>2. core[e] \in INodes
    BY <1>1 DEF write, Types
  <2>3. OpType' /\ op'.stage = "block" /\ op'.entry = e
    BY <1>1, <2>1 DEF write, OpType, Op
  <2> QED BY <1>1, <2>2, <2>3 DEF write, Types, StageKnows, disk
<1>2. CASE WriteBlock
  <2>1. OpType' /\ op'.stage = "block" /\ op'.entry = op.entry
    BY <1>2, <1>a DEF WriteBlock, Types, OpType
  <2> QED BY <1>2, <2>1 DEF WriteBlock, Types, StageKnows
<1>3. CASE MarkBlock
  <2>1. CASE Unused(block_bm) = {}
    <3>1. OpType' /\ op'.stage = "idle"
      BY <1>3, <2>1 DEF MarkBlock, OpType, Idle, Op
    <3> QED BY <1>3, <2>1, <3>1 DEF MarkBlock, Types, StageKnows
  <2>2. CASE Unused(block_bm) # {}
    <3>1. OpType' /\ op'.stage = "count" /\ op'.entry = op.entry
          /\ op'.from = op.from /\ op'.done = op.done /\ op'.with \in Blocks
      BY <1>3, <2>2, FirstUnused DEF MarkBlock, Types, OpType
    <3>2. block_bm' \in SUBSET Blocks
      BY <1>3, <2>2, FirstUnused DEF MarkBlock, Types
    <3>3. Lacks(core[op.entry], Slot) # "nothing" /\ Slot' = Slot
      BY <1>3, <3>1 DEF MarkBlock, Slot
    <3>4. Lacks(core[op.entry], Slot)' # "nothing"
      BY <1>3, <3>1, <3>3 DEF MarkBlock, Lacks, BlockAt
    <3> QED BY <1>3, <3>1, <3>2, <3>4 DEF MarkBlock, Types, StageKnows
  <2> QED BY <2>1, <2>2
<1>4. CASE CountBlock
  <2> DEFINE e == op.entry
             lacks == Lacks(core[e], Slot)
  <2>1. e \in Entries /\ core[e] \in INodes /\ lacks # "nothing"
    BY <1>4 DEF CountBlock, StageKnows
  <2>2. OpType' /\ op'.entry = e /\ op'.from = op.from /\ op'.done = op.done
        /\ op'.with = op.with
        /\ op'.stage = CASE lacks = "direct"   -> "block"
                         [] lacks = "indirect" -> "zero"
                         [] OTHER              -> "table"
    BY <1>4 DEF CountBlock, Types, OpType
  <2>3. Slot' = Slot /\ op.with \in Blocks
    BY <1>4, <2>2 DEF Slot, CountBlock, StageKnows
  <2>4. CASE lacks = "direct"
    <3>1. Slot \in DirectSlots
      BY <2>1, <2>4, LacksCases
    <3>2. core' = [core EXCEPT ![e].dbp[Slot] = op.with]
      BY <1>4, <2>4 DEF CountBlock
    <3>3. core' \in [Entries -> INodes \cup {NotOpen}] /\ core'[e] \in INodes
      BY <2>1, <2>3, <3>1, <3>2 DEF Types, INodes
    <3> QED BY <1>4, <2>1, <2>2, <2>4, <3>3 DEF CountBlock, Types, StageKnows, disk
  <2>5. CASE lacks = "indirect"
    <3>1. core' = [core EXCEPT ![e].sibp = op.with]
      BY <1>4, <2>5 DEF CountBlock
    <3>2. core' \in [Entries -> INodes \cup {NotOpen}] /\ core'[e] \in INodes
          /\ core'[e].sibp = op.with
      BY <2>1, <2>3, <3>1 DEF Types, INodes
    <3> QED BY <1>4, <2>1, <2>2, <2>3, <2>5, <3>2 DEF CountBlock, Types, StageKnows, disk
  <2>6. CASE lacks \notin {"direct", "indirect"}
    <3>1. core' = core
      BY <1>4, <2>6 DEF CountBlock
    <3>2. Slot \in FileSlots \ DirectSlots /\ core[e].sibp \in Blocks
      BY <2>1, <2>6, LacksCases
    <3>3. op'.stage = "table"
      BY <2>2, <2>6
    <3>4. StageKnows'
      <4> HIDE DEF lacks
      <4> QED BY <2>1, <2>2, <2>3, <3>1, <3>2, <3>3 DEF StageKnows, FileSlots, DirectSlots
    <3> QED BY <1>4, <2>1, <2>2, <3>1, <3>4 DEF CountBlock, Types, disk
  <2> QED BY <2>4, <2>5, <2>6
<1>5. CASE ZeroTable
  <2>1. OpType' /\ op'.stage = "block" /\ op'.entry = op.entry
    BY <1>5 DEF ZeroTable, Types, OpType
  <2>2. tables' \in [Blocks -> [SinglySlots -> Blocks \cup {0}]]
    BY <1>5 DEF ZeroTable, Types, NoTable
  <2> QED BY <1>5, <2>1, <2>2 DEF ZeroTable, Types, StageKnows
<1>6. CASE WriteTable
  <2>1. OpType' /\ op'.stage = "block" /\ op'.entry = op.entry
    BY <1>6 DEF WriteTable, Types, OpType
  <2>2. op.with \in Blocks /\ core[op.entry].sibp \in Blocks
    BY <1>6 DEF WriteTable, StageKnows
  <2>3. tables' \in [Blocks -> [SinglySlots -> Blocks \cup {0}]]
    BY <1>6, <2>2 DEF WriteTable, Types
  <2> QED BY <1>6, <2>1, <2>3 DEF WriteTable, Types, StageKnows
<1>7. CASE FinishWrite
  <2>1. OpType' /\ op'.stage = "idle"
    BY <1>7 DEF FinishWrite, OpType, Idle, Op
  <2>2. inodes' \in [Inodes -> INodes]
    BY <1>7 DEF FinishWrite, Types, StageKnows, Written
  <2> QED BY <1>7, <2>1, <2>2 DEF FinishWrite, Types, StageKnows
<1>8. ASSUME NEW e \in Entries, open(e)
      PROVE  Types' /\ StageKnows'
  <2>1. inodes[InodeOf(e)] \in INodes
    BY <1>8 DEF open, Types, Inodes
  <2> QED BY <1>8, <2>1 DEF open, Types, StageKnows, OpType, disk
<1>9. ASSUME NEW name \in Names, create(name)
      PROVE  Types' /\ StageKnows'
  <2>1. OpType' /\ op'.stage \in {"panic", "entry"}
    <3>1. CASE op' = [Idle EXCEPT !.stage = "panic"]
      BY <3>1 DEF OpType, Idle, Op
    <3>2. ASSUME NEW i, op' = [Idle EXCEPT !.stage = "entry", !.with = i, !.name = name]
          PROVE  OpType' /\ op'.stage = "entry"
      BY <3>2 DEF OpType, Idle, Op
    <3> QED BY <1>9, <3>1, <3>2 DEF create
  <2> QED BY <1>9, <2>1 DEF create, Types, StageKnows
<1>10. CASE CutEntry \/ WriteHeader
  <2>1. OpType' /\ op'.stage \in {"header", "full", "overrun", "name"}
    BY <1>10 DEF CutEntry, WriteHeader, Types, OpType
  <2> QED BY <1>10, <2>1 DEF CutEntry, WriteHeader, Types, StageKnows
<1>11. CASE WriteName
  <2>1. OpType' /\ op'.stage = "inode"
    BY <1>11 DEF WriteName, Types, OpType
  <2> QED BY <1>11, <2>1 DEF WriteName, Types, StageKnows
<1>12. CASE WriteNewInode
  <2>1. OpType' /\ op'.stage = "group"
    BY <1>12 DEF WriteNewInode, Types, OpType
  <2>2. inodes' \in [Inodes -> INodes]
    BY <1>12, NewINodeType DEF WriteNewInode, Types
  <2> QED BY <1>12, <2>1, <2>2 DEF WriteNewInode, Types, StageKnows
<1>13. CASE WriteGroup
  <2>1. OpType' /\ op'.stage = "idle"
    BY <1>13 DEF WriteGroup, OpType, Idle, Op
  <2>2. core' \in [Entries -> INodes \cup {NotOpen}]
    BY <1>13, NewINodeType DEF WriteGroup, Types
  <2> QED BY <1>13, <2>1, <2>2 DEF WriteGroup, Types, StageKnows
<1>14. CASE reboot
  <2>1. OpType' /\ op'.stage = "idle"
    BY <1>14 DEF reboot, OpType, Idle, Op
  <2>2. \A e \in Entries : InodeOf(e) \in Inodes
    BY DEF Entries, InodeOf, Inodes
  <2>3. core' \in [Entries -> INodes \cup {NotOpen}]
    BY <1>14, <2>2 DEF reboot, Types
  <2> QED BY <1>14, <2>1, <2>3 DEF reboot, Types, StageKnows, disk
<1>15. ASSUME NEW e \in Entries, set_size(e)
       PROVE  Types' /\ StageKnows'
  <2>1. core[e] \in INodes /\ inodes' = [inodes EXCEPT ![InodeOf(e)] = core[e]]
    BY <1>15 DEF set_size, Types
  <2>2. inodes' \in [Inodes -> INodes]
    BY <2>1 DEF Types
  <2> QED BY <1>15, <2>2 DEF set_size, Types, StageKnows, OpType
<1> QED BY <1>1, <1>2, <1>3, <1>4, <1>5, <1>6, <1>7, <1>8, <1>9, <1>10, <1>11, <1>12,
           <1>13, <1>14, <1>15 DEF Next

-----------------------------------------------------------------------------
(* The steps: owners *)

LEMMA EntriesOfInodes ==
  ASSUME NEW e \in Entries
  PROVE  InodeOf(e) \in Inodes
BY DEF Entries, InodeOf, Inodes

\* Steps that leave the bitmap and the tables alone, bring no block into an inode that was
\* not in one of the same file, and end no stage in which an owner changes.
LEMMA QuietStep ==
  ASSUME NEW f \in [Blocks -> Owners], OwnedBy(f),
         UNCHANGED <<block_bm, tables>>,
         op.stage # "zero", op'.stage # "zero",
         op'.stage \in {"count", "table"} => op.stage \in {"count", "table"} /\ op'.with = op.with,
         \A i \in Inodes : Owned(f, block_bm, i, inodes'[i], "indirect"),
         \A e \in Entries : Owned(f, block_bm, InodeOf(e), core'[e], "indirect")
  PROVE  HasOwners'
<1>1. InodesOwned(f)' /\ OwnedTables(f, block_bm, tables)'
  BY DEF OwnedBy, InodesOwned
<1>2. CoreOwned(f)'
  BY DEF CoreOwned, Kind
<1>3. WithReserved(f)'
  BY DEF OwnedBy, WithReserved
<1> QED BY <1>1, <1>2, <1>3 DEF HasOwners, OwnedBy

\* Nothing that is named is named anew: an owner is there for all inodes as before.
LEMMA OwnedIndirect ==
  ASSUME NEW f, OwnedBy(f), op.stage # "zero"
  PROVE  /\ \A i \in Inodes : Owned(f, block_bm, i, inodes[i], "indirect")
         /\ \A e \in Entries : Owned(f, block_bm, InodeOf(e), core[e], "indirect")
BY DEF OwnedBy, InodesOwned, CoreOwned, Kind

\* A block that was free is reserved.
LEMMA MarkOwners ==
  ASSUME Types, NEW f \in [Blocks -> Owners], OwnedBy(f), MarkBlock
  PROVE  HasOwners'
<1>1. op.stage = "block"
  BY DEF MarkBlock
<1>2. CASE Unused(block_bm) = {}
  <2>1. op'.stage = "idle" /\ UNCHANGED <<block_bm, tables, inodes, core>>
    BY <1>2 DEF MarkBlock, Idle, Op
  <2> QED BY <1>1, <2>1, QuietStep, OwnedIndirect
<1>3. CASE Unused(block_bm) # {}
  <2>1. PICK x \in Blocks \ block_bm : x = FirstOf(Unused(block_bm))
    BY <1>3, FirstUnused
  <2> DEFINE g == [f EXCEPT ![x] = Reserved]
  <2>2. block_bm' = block_bm \cup {x} /\ op'.stage = "count" /\ op'.with = x
        /\ UNCHANGED <<inodes, core, tables>>
    BY <1>3, <2>1 DEF MarkBlock, Types, OpType
  <2>3. g \in [Blocks -> Owners]
    BY <2>1, OwnerType DEF Reserved, OwnerKinds
  <2>4. ASSUME NEW i, NEW v, Owned(f, block_bm, i, v, "indirect")
        PROVE  Owned(g, block_bm', i, v, "indirect")
    <3>1. Owned(g, block_bm, i, v, "indirect")
      BY <2>1, <2>4, OwnedFrame DEF Spare, Types
    <3> QED BY <2>2, <3>1 DEF Owned
  <2>5. OwnedTables(g, block_bm', tables)
    <3>1. OwnedTables(g, block_bm, tables)
      BY <2>1, TablesFrame DEF Spare, Types, Reserved, OwnedBy
    <3> QED BY <2>2, <3>1 DEF OwnedTables
  <2>6. InodesOwned(g)' /\ CoreOwned(g)'
    BY <1>1, <2>2, <2>4, OwnedIndirect DEF InodesOwned, CoreOwned, Kind
  <2>7. WithReserved(g)'
    BY <2>1, <2>2 DEF WithReserved
  <2> QED BY <2>2, <2>3, <2>5, <2>6, <2>7 DEF HasOwners, OwnedBy
<1> QED BY <1>2, <1>3

\* The reserved block gets its owner as it enters the inode in memory.
LEMMA CountOwners ==
  ASSUME Types, StageKnows, NEW f \in [Blocks -> Owners], OwnedBy(f), CountBlock
  PROVE  HasOwners'
<1>1. PICK e \in Entries, x \in Blocks, k \in Nat, i \in Inodes :
        e = op.entry /\ x = op.with /\ k = Slot /\ i = InodeOf(e)
  BY SlotType, EntriesOfInodes DEF CountBlock, StageKnows, Writing
<1>2. core[e] \in INodes /\ op.stage = "count" /\ x \in block_bm /\ f[x] = Reserved
  BY <1>1 DEF CountBlock, StageKnows, Writing, OwnedBy, WithReserved
<1>3. UNCHANGED <<block_bm, inodes, tables>> /\ op'.entry = e /\ op'.with = x
  BY <1>1 DEF CountBlock, Types, OpType, disk
<1>4. \A kind \in {"slot", "indirect"} : Spare(f, block_bm, x, kind)
  BY <1>2 DEF Spare, Reserved
<1>5. CASE Lacks(core[e], Slot) = "direct"
  <2> DEFINE g == [f EXCEPT ![x] = Owner(i, "direct", k)]
  <2>1. core' = [core EXCEPT ![e].dbp[k] = x] /\ op'.stage = "block" /\ k \in DirectSlots
    BY <1>1, <1>2, <1>5, LacksCases DEF CountBlock, Types, OpType
  <2>2. g \in [Blocks -> Owners]
    BY OwnerType DEF OwnerKinds
  <2>3. /\ \A j \in Inodes : Owned(g, block_bm, j, inodes[j], "indirect")
        /\ \A d \in Entries : Owned(g, block_bm, InodeOf(d), core[d], "indirect")
    BY <1>2, <1>4, OwnedFrame, OwnedIndirect DEF Types
  <2>4. ASSUME NEW d \in Entries
        PROVE  Owned(g, block_bm, InodeOf(d), core'[d], "indirect")
    <3>1. CASE d # e
      BY <2>1, <2>3, <3>1 DEF Types
    <3>2. CASE d = e
      <4>1. core'[e].sibp = core[e].sibp /\ core'[e].dbp = [core[e].dbp EXCEPT ![k] = x]
        BY <1>2, <2>1 DEF Types, INodes
      <4>2. core'[e].dbp[k] = x /\ \A l \in DirectSlots \ {k} : core'[e].dbp[l] = core[e].dbp[l]
        BY <1>2, <2>1, <4>1 DEF INodes
      <4>3. g[x] = Owner(i, "direct", k)
        OBVIOUS
      <4> HIDE DEF g
      <4> QED BY <1>1, <1>2, <2>1, <2>3, <3>2, <4>1, <4>2, <4>3 DEF Owned
    <3> QED BY <3>1, <3>2
  <2>5. OwnedTables(g, block_bm, tables)
    BY <1>4, TablesFrame DEF OwnedBy, Types
  <2> HIDE DEF g
  <2>6. InodesOwned(g)' /\ CoreOwned(g)' /\ WithReserved(g)'
    BY <1>3, <2>1, <2>3, <2>4 DEF InodesOwned, CoreOwned, WithReserved, Kind
  <2> QED BY <1>3, <2>2, <2>5, <2>6 DEF HasOwners, OwnedBy
<1>6. CASE Lacks(core[e], Slot) = "indirect"
  <2> DEFINE g == [f EXCEPT ![x] = Owner(i, "new", 0)]
  <2>1. core' = [core EXCEPT ![e].sibp = x] /\ op'.stage = "zero"
    BY <1>1, <1>6 DEF CountBlock, Types, OpType
  <2>2. g \in [Blocks -> Owners]
    BY OwnerType DEF OwnerKinds
  <2>3. /\ \A j \in Inodes : Owned(g, block_bm, j, inodes[j], "indirect")
        /\ \A d \in Entries : Owned(g, block_bm, InodeOf(d), core[d], "indirect")
    BY <1>2, <1>4, OwnedFrame, OwnedIndirect DEF Types
  <2>4. Owned(g, block_bm, i, core'[e], "new")
    <3>1. core'[e].sibp = x /\ core'[e].dbp = core[e].dbp
      BY <1>2, <2>1 DEF Types, INodes
    <3>2. g[x] = Owner(i, "new", 0)
      OBVIOUS
    <3> HIDE DEF g
    <3> QED BY <1>1, <1>2, <2>3, <3>1, <3>2 DEF Owned
  <2>5. OwnedTables(g, block_bm, tables)
    BY <1>4, TablesFrame DEF OwnedBy, Types
  <2> HIDE DEF g
  <2>6. \A d \in Entries \ {e} : core'[d] = core[d]
    BY <2>1 DEF Types
  <2>7. InodesOwned(g)' /\ CoreOwned(g)' /\ WithReserved(g)'
    BY <1>1, <1>3, <2>1, <2>3, <2>4, <2>6 DEF InodesOwned, CoreOwned, WithReserved, Kind
  <2> QED BY <1>3, <2>2, <2>5, <2>7 DEF HasOwners, OwnedBy
<1>7. CASE Lacks(core[e], Slot) \notin {"direct", "indirect"}
  <2>1. core' = core /\ op'.stage = "table"
    BY <1>1, <1>7 DEF CountBlock, Types, OpType
  <2> QED BY <1>1, <1>2, <1>3, <2>1, QuietStep, OwnedIndirect
<1> QED BY <1>5, <1>6, <1>7

\* The indirect block, cleared, may be read.
LEMMA ZeroOwners ==
  ASSUME Types, StageKnows, NEW f \in [Blocks -> Owners], OwnedBy(f), ZeroTable
  PROVE  HasOwners'
<1>1. PICK e \in Entries, x \in Blocks, i \in Inodes :
        e = op.entry /\ x = core[e].sibp /\ i = InodeOf(e)
  BY EntriesOfInodes DEF ZeroTable, StageKnows, Writing
<1> DEFINE g == [f EXCEPT ![x] = Owner(i, "indirect", 0)]
<1>2. op.stage = "zero" /\ op'.stage = "block" /\ UNCHANGED <<block_bm, inodes, core>>
      /\ tables' = [tables EXCEPT ![x] = NoTable]
  BY <1>1 DEF ZeroTable, Types, OpType
<1>3. Owned(f, block_bm, i, core[e], "new")
  BY <1>1, <1>2 DEF OwnedBy, CoreOwned, Kind
<1>4. x \in block_bm /\ f[x] = Owner(i, "new", 0)
  BY <1>1, <1>3 DEF Owned
<1>5. Spare(f, block_bm, x, "indirect")
  BY <1>4 DEF Spare
<1>6. g \in [Blocks -> Owners]
  BY OwnerType DEF OwnerKinds
<1>7. ASSUME NEW j, NEW v, Owned(f, block_bm, j, v, "indirect")
      PROVE  Owned(g, block_bm, j, v, "indirect")
  BY <1>5, <1>7, OwnedFrame DEF Types
<1>8. InodesOwned(g)'
  BY <1>2, <1>7 DEF OwnedBy, InodesOwned
<1>9. CoreOwned(g)'
  <2>1. ASSUME NEW d \in Entries, d # e
        PROVE  Owned(g, block_bm, InodeOf(d), core[d], "indirect")
    BY <1>1, <1>7, <2>1 DEF OwnedBy, CoreOwned, Kind
  <2>2. Owned(g, block_bm, i, core[e], "indirect")
    <3>1. ASSUME NEW k \in DirectSlots, core[e].dbp[k] # 0
          PROVE  core[e].dbp[k] \in block_bm /\ g[core[e].dbp[k]] = Owner(i, "direct", k)
      <4>1. core[e].dbp[k] \in block_bm /\ f[core[e].dbp[k]] = Owner(i, "direct", k)
        BY <1>3, <3>1 DEF Owned
      <4> QED BY <1>4, <4>1, OwnersDiffer DEF Types
    <3>2. core[e].sibp \in block_bm /\ g[core[e].sibp] = Owner(i, "indirect", 0)
      BY <1>1, <1>4
    <3> QED BY <3>1, <3>2 DEF Owned
  <2> QED BY <1>1, <1>2, <2>1, <2>2 DEF CoreOwned, Kind
<1>10. OwnedTables(g, block_bm, tables)'
  <2> SUFFICES ASSUME NEW b \in Blocks, NEW j \in Inodes, NEW k \in SinglySlots,
                      g[b] = Owner(j, "indirect", 0), tables'[b][k] # 0
               PROVE  tables'[b][k] \in block_bm /\ g[tables'[b][k]] = Owner(j, "slot", k)
    BY <1>2 DEF OwnedTables
  <2>1. b # x
    BY <1>2 DEF Types, NoTable
  <2>2. tables'[b] = tables[b] /\ f[b] = Owner(j, "indirect", 0)
    BY <1>2, <2>1 DEF Types
  <2>3. tables[b][k] \in block_bm /\ f[tables[b][k]] = Owner(j, "slot", k)
    BY <2>2 DEF OwnedBy, OwnedTables
  <2>4. tables[b][k] # x
    BY <1>4, <2>3, OwnersDiffer
  <2> QED BY <2>2, <2>3, <2>4 DEF Types
<1>11. WithReserved(g)'
  BY <1>2 DEF WithReserved
<1> QED BY <1>6, <1>8, <1>9, <1>10, <1>11 DEF HasOwners, OwnedBy

\* The reserved block gets its owner as it enters the table.
LEMMA TableOwners ==
  ASSUME Types, StageKnows, NEW f \in [Blocks -> Owners], OwnedBy(f), WriteTable
  PROVE  HasOwners'
<1>1. PICK e \in Entries, x \in Blocks, t \in Blocks, i \in Inodes, n \in SinglySlots :
        e = op.entry /\ x = op.with /\ t = core[e].sibp /\ i = InodeOf(e) /\ n = Slot - Direct
  <2>1. Slot - Direct \in SinglySlots
    BY SlotsAssumption DEF WriteTable, StageKnows, FileSlots, DirectSlots, SinglySlots
  <2> QED BY <2>1, EntriesOfInodes DEF WriteTable, StageKnows, Writing
<1> DEFINE g == [f EXCEPT ![x] = Owner(i, "slot", n)]
<1>2. op.stage = "table" /\ op'.stage = "block" /\ UNCHANGED <<block_bm, inodes, core>>
      /\ tables' = [tables EXCEPT ![t][n] = x]
  BY <1>1 DEF WriteTable, Types, OpType
<1>3. x \in block_bm /\ f[x] = Reserved
  BY <1>1, <1>2 DEF OwnedBy, WithReserved
<1>4. \A kind \in {"slot", "indirect"} : Spare(f, block_bm, x, kind)
  BY <1>3 DEF Spare, Reserved
<1>5. f[t] = Owner(i, "indirect", 0)
  BY <1>1, <1>2, OwnedIndirect DEF Owned
<1>6. g \in [Blocks -> Owners]
  BY OwnerType DEF OwnerKinds, SinglySlots
<1>7. /\ \A j \in Inodes : Owned(g, block_bm, j, inodes[j], "indirect")
      /\ \A d \in Entries : Owned(g, block_bm, InodeOf(d), core[d], "indirect")
  BY <1>2, <1>4, OwnedFrame, OwnedIndirect DEF Types
<1>8. OwnedTables(g, block_bm, tables)
  BY <1>4, TablesFrame DEF OwnedBy, Types
<1>9. OwnedTables(g, block_bm, tables)'
  <2> SUFFICES ASSUME NEW b \in Blocks, NEW j \in Inodes, NEW k \in SinglySlots,
                      g[b] = Owner(j, "indirect", 0), tables'[b][k] # 0
               PROVE  tables'[b][k] \in block_bm /\ g[tables'[b][k]] = Owner(j, "slot", k)
    BY <1>2 DEF OwnedTables
  <2>1. CASE b = t /\ k = n
    <3>1. tables'[b][k] = x
      BY <1>2, <2>1 DEF Types
    <3>2. b # x
      BY OwnersDiffer
    <3>3. j = i
      BY <1>5, <2>1, <3>2, OwnersDiffer
    <3> QED BY <1>3, <2>1, <3>1, <3>3
  <2>2. CASE ~(b = t /\ k = n)
    <3>1. tables'[b][k] = tables[b][k]
      BY <1>2, <2>2 DEF Types
    <3> HIDE DEF g
    <3> QED BY <1>8, <3>1 DEF OwnedTables
  <2> QED BY <2>1, <2>2
<1> HIDE DEF g
<1>10. InodesOwned(g)' /\ CoreOwned(g)' /\ WithReserved(g)'
  BY <1>2, <1>7 DEF InodesOwned, CoreOwned, WithReserved, Kind
<1> QED BY <1>6, <1>9, <1>10 DEF HasOwners, OwnedBy

\* The other steps give no block away: they write what is owned, copy an inode of the same
\* file between disk and memory, or make an inode without blocks.
LEMMA OtherOwners ==
  ASSUME Types, StageKnows, NEW f \in [Blocks -> Owners], OwnedBy(f), Next,
         ~MarkBlock, ~CountBlock, ~ZeroTable, ~WriteTable
  PROVE  HasOwners'
<1>1. ASSUME op.stage # "zero", op'.stage \notin {"zero", "count", "table"},
             UNCHANGED <<block_bm, tables, inodes, core>>
      PROVE  HasOwners'
  BY <1>1, QuietStep, OwnedIndirect
<1>2. ASSUME NEW e \in Entries, NEW from \in FileSlots, NEW n \in 1 .. MaxWrite,
             NEW val \in Values, write(e, from, n, val)
      PROVE  HasOwners'
  BY <1>1, <1>2 DEF write, Op, disk
<1>3. CASE WriteBlock
  <2>1. op'.stage = "block"
    BY <1>3 DEF WriteBlock, Types, OpType
  <2> QED BY <1>1, <1>3, <2>1 DEF WriteBlock
<1>4. CASE FinishWrite
  <2>1. op.stage = "block" /\ op'.stage = "idle" /\ UNCHANGED <<block_bm, tables, core>>
        /\ inodes' = [inodes EXCEPT ![InodeOf(op.entry)] = core[op.entry]]
        /\ op.entry \in Entries
    BY <1>4 DEF FinishWrite, Written, Idle, Op, StageKnows, Writing
  <2>2. \A i \in Inodes : Owned(f, block_bm, i, inodes'[i], "indirect")
    BY <2>1, OwnedIndirect DEF Types
  <2> QED BY <2>1, <2>2, QuietStep, OwnedIndirect
<1>5. ASSUME NEW e \in Entries, open(e)
      PROVE  HasOwners'
  <2>1. op.stage = "idle" /\ UNCHANGED <<block_bm, tables, inodes, op>>
        /\ core' = [core EXCEPT ![e] = inodes[InodeOf(e)]]
    BY <1>5 DEF open, disk
  <2>2. \A d \in Entries : Owned(f, block_bm, InodeOf(d), core'[d], "indirect")
    BY <2>1, OwnedIndirect, EntriesOfInodes DEF Types
  <2> QED BY <2>1, <2>2, QuietStep, OwnedIndirect
<1>6. ASSUME NEW name \in Names, create(name)
      PROVE  HasOwners'
  <2>1. op'.stage \in {"panic", "entry"}
    BY <1>6 DEF create, Idle, Op
  <2> QED BY <1>1, <1>6, <2>1 DEF create
<1>7. CASE CutEntry \/ WriteHeader
  <2>1. op'.stage \in {"header", "full", "overrun", "name"}
    BY <1>7 DEF CutEntry, WriteHeader, Types, OpType
  <2> QED BY <1>1, <1>7, <2>1 DEF CutEntry, WriteHeader
<1>8. CASE WriteName
  <2>1. op'.stage = "inode"
    BY <1>8 DEF WriteName, Types, OpType
  <2> QED BY <1>1, <1>8, <2>1 DEF WriteName
<1>9. CASE WriteNewInode
  <2>1. op.stage = "inode" /\ op'.stage = "group" /\ UNCHANGED <<block_bm, tables, core>>
        /\ inodes' = [inodes EXCEPT ![op.with] = NewINode]
    BY <1>9 DEF WriteNewInode, Types, OpType
  <2>2. \A i \in Inodes : Owned(f, block_bm, i, inodes'[i], "indirect")
    BY <2>1, OwnedIndirect, NothingToOwn DEF Types
  <2> QED BY <2>1, <2>2, QuietStep, OwnedIndirect
<1>10. CASE WriteGroup
  <2>1. op.stage = "group" /\ op'.stage = "idle" /\ UNCHANGED <<block_bm, tables, inodes>>
        /\ core' = [core EXCEPT ![<<op.with, 0>>] = NewINode]
    BY <1>10 DEF WriteGroup, Idle, Op
  <2>2. \A d \in Entries : Owned(f, block_bm, InodeOf(d), core'[d], "indirect")
    BY <2>1, OwnedIndirect, NothingToOwn DEF Types
  <2> QED BY <2>1, <2>2, QuietStep, OwnedIndirect
<1>11. CASE reboot
  <2>1. op'.stage = "idle" /\ UNCHANGED <<block_bm, tables, inodes>>
    BY <1>11 DEF reboot, Idle, Op, disk
  <2>2. InodesOwned(f)'
    BY <2>1 DEF OwnedBy, InodesOwned
  <2>3. CoreOwned(f)'
    <3> SUFFICES ASSUME NEW e \in Entries
                 PROVE  Owned(f, block_bm, InodeOf(e), core'[e], "indirect")
      BY <2>1 DEF CoreOwned, Kind
    <3>1. core'[e] = inodes[InodeOf(e)] \/ core'[e] = NotOpen
      BY <1>11 DEF reboot
    <3> QED BY <3>1, EntriesOfInodes, NothingToOwn DEF OwnedBy, InodesOwned
  <2>4. OwnedTables(f, block_bm, tables)' /\ WithReserved(f)'
    BY <2>1 DEF OwnedBy, WithReserved
  <2> QED BY <2>2, <2>3, <2>4 DEF HasOwners, OwnedBy
<1>12. ASSUME NEW e \in Entries, set_size(e)
       PROVE  HasOwners'
  <2>1. op.stage = "idle" /\ UNCHANGED <<block_bm, tables, core, op>>
        /\ inodes' = [inodes EXCEPT ![InodeOf(e)] = core[e]]
    BY <1>12 DEF set_size
  <2>2. \A i \in Inodes : Owned(f, block_bm, i, inodes'[i], "indirect")
    BY <2>1, OwnedIndirect DEF Types
  <2> QED BY <2>1, <2>2, QuietStep, OwnedIndirect
<1> QED BY <1>2, <1>3, <1>4, <1>5, <1>6, <1>7, <1>8, <1>9, <1>10, <1>11, <1>12 DEF Next

-----------------------------------------------------------------------------
(* The theorem *)

LEMMA StepIInv ==
  IInv /\ [Next]_vars => IInv'
<1> SUFFICES ASSUME IInv, [Next]_vars
             PROVE  IInv'
  OBVIOUS
<1>1. PICK f \in [Blocks -> Owners] : OwnedBy(f)
  BY DEF IInv, HasOwners
<1>2. CASE Next
  <2>1. Types' /\ StageKnows'
    BY <1>2, StepTypes DEF IInv
  <2>2. HasOwners'
    BY <1>1, <1>2, MarkOwners, CountOwners, ZeroOwners, TableOwners, OtherOwners DEF IInv
  <2> QED BY <2>1, <2>2 DEF IInv
<1>3. CASE UNCHANGED vars
  <2>1. Types' /\ StageKnows'
    BY <1>3 DEF IInv, vars, Types, OpType, StageKnows, Slot, Lacks, BlockAt
  <2>2. OwnedBy(f)'
    BY <1>1, <1>3 DEF vars, OwnedBy, InodesOwned, CoreOwned, Kind, WithReserved
  <2> QED BY <1>1, <2>1, <2>2 DEF IInv, HasOwners
<1> QED BY <1>2, <1>3

\* Whenever the machine stops, and whatever copies of inodes are in memory, no block of the
\* disk has two owners, and none that belongs to a file is free: for a disk, files, direct
\* slots and indirect slots of any number, and any number of open copies.
THEOREM NoBlockHasTwoOwners ==
  Spec => []BlocksOwnedOnce
<1>1. Init => IInv
  BY InitIInv
<1> QED BY <1>1, StepIInv, OwnersSuffice, PTL DEF Spec

-----------------------------------------------------------------------------
(* The root directory *)

Creating == {"entry", "header", "name", "inode", "group", "full", "overrun"}

\* The bitmap of inodes holds the files of subdirectories and every entry's inode.
DirTypes ==
  /\ inode_bm \in SUBSET Inodes /\ SubFiles \subseteq inode_bm
  /\ unallocated_inodes \in Int
  /\ \A d \in dir : d = DirEntry(d.name, d.inode) /\ d.inode \in inode_bm

\* An entry that is being made has an inode of its own, and a name that no other has.
NewEntry ==
  /\ op.stage \in Creating => op.with \in inode_bm \ SubFiles
  /\ op.stage \in {"entry", "header"} => \A d \in dir : d.inode # op.with
  /\ op.stage \in {"entry", "header", "name"} => \A d \in dir : d.name = op.name => op.name = NoName
  /\ op.stage = "name" => DirEntry(NoName, op.with) \in dir

\* No two entries share an inode or a name.
EntriesDiffer ==
  /\ \A c, d \in dir : c.inode = d.inode => c = d
  /\ \A c, d \in dir : c.name = d.name /\ c.name # NoName => c = d

\* The group's count is the number of free inodes and of those that it has still to be
\* told of, or more if a restart came before it was told.
Announced == IF op.stage \in Creating THEN 1 ELSE 0

CountsInodes ==
  /\ unallocated_inodes >= Cardinality(Inodes \ inode_bm) + Announced
  /\ ~reboots => unallocated_inodes = Cardinality(Inodes \ inode_bm) + Announced
  /\ op.stage = "panic" => reboots

\* The last entry is cut short for a step of create, or since a restart after that step.
CutShort ==
  /\ cut => op.stage = "header" \/ reboots
  /\ op.stage = "overrun" => reboots

DirInv == DirTypes /\ NewEntry /\ EntriesDiffer /\ CountsInodes /\ CutShort

LEMMA InitDir ==
  ASSUME Init
  PROVE  DirInv
<1>1. op.stage = "idle"
  BY DEF Init, Idle, Op
<1>2. Inodes \ inode_bm = RootFiles /\ IsFiniteSet(RootFiles)
  <2>1. Inodes \ inode_bm = RootFiles
    BY FilesAssumption DEF Init, Inodes
  <2> QED BY <2>1, FilesAssumption, FS_Subset
<1>3. unallocated_inodes = Cardinality(Inodes \ inode_bm) /\ Cardinality(RootFiles) \in Nat
  BY <1>2, FS_CardinalityType DEF Init
<1>4. DirTypes
  BY <1>2, <1>3 DEF Init, DirTypes, Inodes
<1>5. NewEntry /\ EntriesDiffer
  BY <1>1 DEF Init, NewEntry, EntriesDiffer, Creating
<1>6. CountsInodes /\ CutShort
  BY <1>1, <1>2, <1>3 DEF Init, CountsInodes, CutShort, Announced, Creating
<1> QED BY <1>4, <1>5, <1>6 DEF DirInv

LEMMA FreeInodes ==
  ASSUME NEW S
  PROVE  IsFiniteSet(Inodes \ S) /\ Cardinality(Inodes \ S) \in Nat
<1>1. IsFiniteSet(Inodes) /\ Inodes \ S \in SUBSET Inodes
  BY FilesAssumption DEF Inodes
<1>2. IsFiniteSet(Inodes \ S)
  BY <1>1, FS_Subset
<1> QED BY <1>2, FS_CardinalityType

\* Setting the bit of a free inode leaves one free inode less.
LEMMA InodeTaken ==
  ASSUME NEW i \in Inodes \ inode_bm
  PROVE  Cardinality(Inodes \ (inode_bm \cup {i})) = Cardinality(Inodes \ inode_bm) - 1
<1>1. Inodes \ (inode_bm \cup {i}) = (Inodes \ inode_bm) \ {i}
  OBVIOUS
<1> QED BY <1>1, FreeInodes, FS_RemoveElement

\* Steps that leave the directory, its inodes and their count alone, and begin or end no
\* creation.
LEMMA QuietDir ==
  ASSUME DirInv, UNCHANGED <<inode_bm, unallocated_inodes, dir, cut>>,
         op.stage \notin Creating, op'.stage \notin Creating \cup {"panic"},
         reboots' = reboots
  PROVE  DirInv'
BY DEF DirInv, DirTypes, NewEntry, EntriesDiffer, CountsInodes, CutShort, Announced, Creating

LEMMA CreateDir ==
  ASSUME DirInv, NEW name \in Names, create(name)
  PROVE  DirInv'
<1>1. op.stage = "idle" /\ UNCHANGED <<unallocated_inodes, dir, cut, reboots>>
      /\ unallocated_inodes > 0 /\ \A d \in dir : d.name # name
  BY DEF create, Exists, directory
<1>2. /\ unallocated_inodes \in Int
      /\ unallocated_inodes >= Cardinality(Inodes \ inode_bm)
      /\ ~reboots => unallocated_inodes = Cardinality(Inodes \ inode_bm)
      /\ Cardinality(Inodes \ inode_bm) \in Nat
  BY <1>1, FreeInodes DEF DirInv, DirTypes, CountsInodes, Announced, Creating
<1>3. CASE Inodes \subseteq inode_bm
  <2>1. op'.stage = "panic" /\ inode_bm' = inode_bm
    BY <1>3 DEF create, Idle, Op
  <2>2. Cardinality(Inodes \ inode_bm) = 0
    <3>1. Inodes \ inode_bm = {}
      BY <1>3
    <3> QED BY <3>1, FS_EmptySet
  <2>3. reboots'
    BY <1>1, <1>2, <2>2
  <2> QED BY <1>1, <1>2, <2>1, <2>3
       DEF DirInv, DirTypes, NewEntry, EntriesDiffer, CountsInodes, CutShort, Announced, Creating
<1>4. CASE ~(Inodes \subseteq inode_bm)
  <2>1. PICK i \in Inodes \ inode_bm : i = FirstOf(Inodes \ inode_bm)
    <3>1. Inodes \ inode_bm \in SUBSET Nat /\ Inodes \ inode_bm # {}
      BY <1>4, FilesAssumption DEF Inodes
    <3> QED BY <3>1, FirstOne
  <2>2. inode_bm' = inode_bm \cup {i} /\ op'.stage = "entry" /\ op'.with = i /\ op'.name = name
    BY <1>4, <2>1 DEF create, Idle, Op
  <2>3. DirTypes'
    BY <1>1, <2>2 DEF DirInv, DirTypes
  <2>4. NewEntry'
    BY <1>1, <2>1, <2>2 DEF DirInv, DirTypes, NewEntry, Creating
  <2>5. EntriesDiffer'
    BY <1>1 DEF DirInv, EntriesDiffer
  <2>6. Cardinality(Inodes \ inode_bm)' = Cardinality(Inodes \ inode_bm) - 1
    BY <2>2, InodeTaken
  <2>7. CountsInodes'
    BY <1>1, <1>2, <2>2, <2>6 DEF CountsInodes, Announced, Creating
  <2>8. CutShort'
    BY <1>1, <2>2 DEF DirInv, CutShort
  <2> QED BY <2>3, <2>4, <2>5, <2>7, <2>8 DEF DirInv
<1> QED BY <1>3, <1>4

\* The last entry is cut short, or the new entry lands outside the directory.
LEMMA CutDir ==
  ASSUME OpType, DirInv, CutEntry
  PROVE  DirInv'
<1>1. op.stage = "entry" /\ UNCHANGED <<inode_bm, unallocated_inodes, dir, reboots>>
      /\ op'.with = op.with /\ op'.name = op.name
      /\ \/ op'.stage = "header"
         \/ op'.stage \in {"full", "overrun"} /\ cut' = cut /\ (op'.stage = "overrun" => cut)
  BY DEF CutEntry, OpType
<1>2. DirTypes' /\ EntriesDiffer'
  BY <1>1 DEF DirInv, DirTypes, EntriesDiffer
<1>3. NewEntry'
  BY <1>1 DEF DirInv, NewEntry, Creating
<1>4. CountsInodes' /\ CutShort'
  BY <1>1 DEF DirInv, CountsInodes, CutShort, Announced, Creating
<1> QED BY <1>2, <1>3, <1>4 DEF DirInv

\* The entry is there without a name, and then with the name that no other has.
LEMMA EntryDir ==
  ASSUME OpType, DirInv, WriteHeader \/ WriteName
  PROVE  DirInv'
<1>1. op.stage \in {"header", "name"} /\ UNCHANGED <<inode_bm, unallocated_inodes, reboots>>
      /\ op'.with = op.with /\ op'.name = op.name
      /\ op'.stage = IF op.stage = "header" THEN "name" ELSE "inode"
  BY DEF WriteHeader, WriteName, OpType
<1>2. CountsInodes' /\ CutShort'
  BY <1>1 DEF WriteHeader, WriteName, DirInv, CountsInodes, CutShort, Announced, Creating
<1>3. op.with \in inode_bm \ SubFiles
  BY <1>1 DEF DirInv, NewEntry, Creating
<1>4. \A name : /\ DirEntry(name, op.with).name = name
                /\ DirEntry(name, op.with).inode = op.with
                /\ \A d : d = DirEntry(name, op.with) => d = DirEntry(d.name, d.inode)
  BY DEF DirEntry
<1>5. CASE WriteHeader
  <2> DEFINE new == DirEntry(NoName, op.with)
  <2>1. dir' = dir \cup {new} /\ op.stage = "header"
    BY <1>5 DEF WriteHeader
  <2>2. \A d \in dir : d.inode # op.with /\ (d.name = op.name => op.name = NoName)
    BY <2>1 DEF DirInv, NewEntry
  <2>3. new.name = NoName /\ new.inode = op.with /\ new = DirEntry(new.name, new.inode)
    BY <1>4
  <2> HIDE DEF new
  <2>4. DirTypes'
    BY <1>1, <1>3, <2>1, <2>3 DEF DirInv, DirTypes
  <2>5. NewEntry'
    <3>1. new = DirEntry(NoName, op.with)
      BY <2>3
    <3> QED BY <1>1, <1>3, <2>1, <2>2, <2>3, <3>1 DEF NewEntry, Creating
  <2>6. EntriesDiffer'
    BY <2>1, <2>2, <2>3 DEF DirInv, EntriesDiffer
  <2> QED BY <1>2, <2>4, <2>5, <2>6 DEF DirInv
<1>6. CASE WriteName
  <2> DEFINE old == DirEntry(NoName, op.with)
             new == DirEntry(op.name, op.with)
  <2>1. dir' = (dir \ {old}) \cup {new} /\ op.stage = "name"
    BY <1>6 DEF WriteName
  <2>2. old \in dir /\ \A d \in dir : d.name = op.name => op.name = NoName
    BY <2>1 DEF DirInv, NewEntry
  <2>3. old.inode = op.with
        /\ new.name = op.name /\ new.inode = op.with /\ new = DirEntry(new.name, new.inode)
    BY <1>4
  <2> HIDE DEF new, old
  <2>4. \A d \in dir' \ {new} : d \in dir /\ d.inode # op.with
    BY <2>1, <2>2, <2>3 DEF DirInv, EntriesDiffer
  <2>5. DirTypes'
    BY <1>1, <1>3, <2>1, <2>3 DEF DirInv, DirTypes
  <2>6. NewEntry'
    BY <1>1, <1>3, <2>1 DEF NewEntry, Creating
  <2>7. EntriesDiffer'
    BY <2>2, <2>3, <2>4 DEF DirInv, EntriesDiffer
  <2> QED BY <1>2, <2>5, <2>6, <2>7 DEF DirInv
<1> QED BY <1>5, <1>6

LEMMA StepDir ==
  ASSUME Types, DirInv, Next
  PROVE  DirInv'
<1> USE DEF Creating
<1>0. OpType
  BY DEF Types
<1>1. ASSUME NEW e \in Entries, NEW from \in FileSlots, NEW n \in 1 .. MaxWrite,
             NEW val \in Values, write(e, from, n, val)
      PROVE  DirInv'
  BY <1>1, QuietDir DEF write, Op, disk
<1>2. CASE WriteBlock
  <2>1. op'.stage = "block"
    BY <1>0, <1>2 DEF WriteBlock, OpType
  <2> QED BY <1>2, <2>1, QuietDir DEF WriteBlock, directory
<1>3. CASE MarkBlock
  <2>1. op'.stage = "idle" \/ op'.stage = "count"
    <3>1. CASE op' = Idle
      BY <3>1 DEF Idle, Op
    <3>2. CASE op' = [op EXCEPT !.stage = "count", !.with = FirstOf(Unused(block_bm))]
      BY <1>0, <3>2 DEF OpType
    <3> QED BY <1>3, <3>1, <3>2 DEF MarkBlock
  <2> QED BY <1>3, <2>1, QuietDir DEF MarkBlock, directory
<1>4. CASE CountBlock
  <2>1. op'.stage \in {"block", "zero", "table"}
    BY <1>0, <1>4 DEF CountBlock, OpType
  <2> QED BY <1>4, <2>1, QuietDir DEF CountBlock, disk
<1>5. CASE ZeroTable \/ WriteTable
  <2>1. op'.stage = "block"
    BY <1>0, <1>5 DEF ZeroTable, WriteTable, OpType
  <2> QED BY <1>5, <2>1, QuietDir DEF ZeroTable, WriteTable, directory
<1>6. CASE FinishWrite
  BY <1>6, QuietDir DEF FinishWrite, directory, Idle, Op
<1>7. ASSUME NEW e \in Entries, open(e)
      PROVE  DirInv'
  BY <1>7, QuietDir DEF open, disk
<1>8. ASSUME NEW name \in Names, create(name)
      PROVE  DirInv'
  BY <1>8, CreateDir
<1>9. CASE CutEntry \/ WriteHeader \/ WriteName
  BY <1>0, <1>9, CutDir, EntryDir
<1>10. CASE WriteNewInode
  <2>1. op.stage = "inode" /\ op'.stage = "group" /\ op'.with = op.with
    BY <1>0, <1>10 DEF WriteNewInode, OpType
  <2>2. UNCHANGED <<inode_bm, unallocated_inodes, dir, cut, reboots>>
    BY <1>10 DEF WriteNewInode, directory
  <2> QED BY <2>1, <2>2
       DEF DirInv, DirTypes, NewEntry, EntriesDiffer, CountsInodes, CutShort, Announced
<1>11. CASE WriteGroup
  <2>1. op.stage = "group" /\ op'.stage = "idle" /\ UNCHANGED <<inode_bm, dir, cut, reboots>>
        /\ unallocated_inodes' = unallocated_inodes - 1
    BY <1>11 DEF WriteGroup, Idle, Op, directory
  <2>2. Cardinality(Inodes \ inode_bm) \in Nat
    BY FreeInodes
  <2> QED BY <2>1, <2>2
       DEF DirInv, DirTypes, NewEntry, EntriesDiffer, CountsInodes, CutShort, Announced
<1>12. CASE reboot
  <2>1. op'.stage = "idle" /\ UNCHANGED <<inode_bm, unallocated_inodes, dir>> /\ reboots'
    BY <1>12 DEF reboot, Idle, Op, disk
  <2>2. Cardinality(Inodes \ inode_bm) \in Nat
    BY FreeInodes
  <2> QED BY <2>1, <2>2
       DEF DirInv, DirTypes, NewEntry, EntriesDiffer, CountsInodes, CutShort, Announced
<1>13. ASSUME NEW e \in Entries, set_size(e)
       PROVE  DirInv'
  BY <1>13, QuietDir DEF set_size, directory
<1> QED BY <1>1, <1>2, <1>3, <1>4, <1>5, <1>6, <1>7, <1>8, <1>9, <1>10, <1>11, <1>12, <1>13 DEF Next

LEMMA DirStep ==
  IInv /\ DirInv /\ [Next]_vars => DirInv'
<1> SUFFICES ASSUME IInv, DirInv, [Next]_vars
             PROVE  DirInv'
  OBVIOUS
<1>1. CASE Next
  BY <1>1, StepDir DEF IInv
<1>2. CASE UNCHANGED vars
  BY <1>2 DEF vars, DirInv, DirTypes, NewEntry, EntriesDiffer, CountsInodes, CutShort, Announced
<1> QED BY <1>1, <1>2

\* Every entry of the root directory has an inode of its own that is marked as taken, no two
\* have the same name, and create runs out of inodes unnoticed, or writes its entry behind
\* the end of a directory that is not full, only after a restart: for any files and names.
THEOREM EntriesHaveInodes ==
  Spec => []EntriesOwnInodes
<1>1. Init => IInv /\ DirInv
  BY InitIInv, InitDir
<1>2. IInv /\ DirInv /\ [Next]_vars => DirInv'
  BY DirStep
<1>3. DirInv => EntriesOwnInodes
  <2>1. Cardinality(Inodes \ inode_bm) \in Nat
    BY FreeInodes
  <2> QED BY <2>1
       DEF DirInv, DirTypes, EntriesDiffer, CountsInodes, CutShort, Announced, EntriesOwnInodes
<1> QED BY <1>1, <1>2, <1>3, StepIInv, PTL DEF Spec

-----------------------------------------------------------------------------
(* What has been written *)

\* Inode v has all blocks that w has.
Extends(v, w) ==
  /\ \A k \in DirectSlots : w.dbp[k] # 0 => v.dbp[k] = w.dbp[k]
  /\ w.sibp # 0 => v.sibp = w.sibp

Holds(v, k, S) == BlockAt(v, k) # 0 /\ data[BlockAt(v, k)] \in S

DataTypes ==
  /\ data = [b \in Blocks \cup {0} |-> data[b]]
  /\ kept = [i \in RootFiles |-> [k \in FileSlots |-> kept[i][k]]]

\* What a root file has on the disk it has in memory.
CoreExtends ==
  \A i \in RootFiles : core[<<i, 0>>] # NotOpen => Extends(core[<<i, 0>>], inodes[i])

\* A block that was written completely is there and holds what it may hold.
KeptHeld ==
  \A i \in RootFiles, k \in FileSlots : kept[i][k] # {} => Holds(inodes[i], k, kept[i][k])

\* A file that nobody has made yet, or whose making is not at its end.
Unborn(i) == i \notin inode_bm \/ (op.stage \in Creating /\ op.with = i)
UnbornEmpty ==
  \A i \in RootFiles : Unborn(i) =>
    /\ core[<<i, 0>>] = NotOpen /\ inodes[i] = NewINode
    /\ \A k \in FileSlots : kept[i][k] = {}

\* What a write has done so far can be found in memory; when it gives the file its
\* indirect block, it has not written past the direct ones.
WrittenSoFar ==
  op.stage \in Writing /\ InodeOf(op.entry) \in RootFiles =>
    \A k \in FileSlots : op.from <= k /\ k < Slot =>
      /\ Holds(core[op.entry], k, {op.val})
      /\ op.stage = "zero" => k \in DirectSlots

\* A table gets a new entry where it had none.
SlotFree == op.stage = "table" => tables[core[op.entry].sibp][Slot - Direct] = 0

DataInv == DataTypes /\ CoreExtends /\ KeptHeld /\ UnbornEmpty /\ WrittenSoFar /\ SlotFree

LEMMA InitData ==
  ASSUME Init
  PROVE  DataInv
<1>1. op.stage = "idle"
  BY DEF Init, Idle, Op
<1>2. DataTypes
  BY DEF Init, DataTypes
<1>3. \A i \in RootFiles : core[<<i, 0>>] = NotOpen /\ inodes[i] = NewINode
  BY DEF Init, Entries, Inodes
<1>4. \A i \in RootFiles, k \in FileSlots : kept[i][k] = {}
  BY DEF Init
<1>5. WrittenSoFar /\ SlotFree
  BY <1>1 DEF WrittenSoFar, SlotFree, Writing
<1> QED BY <1>2, <1>3, <1>4, <1>5 DEF DataInv, CoreExtends, KeptHeld, UnbornEmpty

\* A file of the root directory has one entry.
LEMMA RootEntry ==
  /\ \A i \in RootFiles : <<i, 0>> \in Entries /\ i \in Inodes /\ InodeOf(<<i, 0>>) = i
  /\ \A e \in Entries : InodeOf(e) \in RootFiles => e = <<InodeOf(e), 0>>
BY FilesAssumption DEF Entries, InodeOf, Inodes

LEMMA SlotsOfFile ==
  /\ FileSlots \subseteq Nat /\ DirectSlots \subseteq FileSlots
  /\ \A k \in FileSlots \ DirectSlots : k - Direct \in SinglySlots
BY SlotsAssumption DEF FileSlots, DirectSlots, SinglySlots

\* NotOpen is no inode.
LEMMA OpenInode ==
  ASSUME Types, NEW e \in Entries
  PROVE  core[e] # NotOpen <=> core[e] \in INodes
<1>1. NotOpen.sibp = -1
  BY DEF NotOpen, INode
<1>2. -1 \notin Blocks \cup {0}
  BY BlocksAssumption
<1>3. NotOpen \notin INodes
  BY <1>1, <1>2 DEF INodes
<1> QED BY <1>3 DEF Types

\* Where a block has been, it stays.
LEMMA ExtendedBlock ==
  ASSUME NEW v, NEW w, Extends(v, w), NEW k, BlockAt(w, k) # 0
  PROVE  BlockAt(v, k) = BlockAt(w, k)
<1>1. CASE k \in DirectSlots
  BY <1>1 DEF BlockAt, Extends
<1>2. CASE k \notin DirectSlots
  <2>1. w.sibp # 0
    BY <1>2 DEF BlockAt
  <2> QED BY <1>2, <2>1 DEF BlockAt, Extends
<1> QED BY <1>1, <1>2

LEMMA HoldsExtended ==
  ASSUME NEW v, NEW w, Extends(v, w), NEW k, NEW S, Holds(w, k, S)
  PROVE  Holds(v, k, S)
BY ExtendedBlock DEF Holds

SlotPlace(k) == IF k \in DirectSlots THEN <<"direct", k>> ELSE <<"slot", k - Direct>>

\* The blocks of a file belong to its slots.
LEMMA BlockOwned ==
  ASSUME Types, NEW f \in [Blocks -> Owners], OwnedTables(f, block_bm, tables),
         NEW i \in Inodes, NEW v \in INodes, Owned(f, block_bm, i, v, "indirect"),
         NEW k \in FileSlots, BlockAt(v, k) # 0
  PROVE  BlockAt(v, k) \in Blocks /\ f[BlockAt(v, k)] = <<i, SlotPlace(k)>>
<1>1. SlotPlace(k) \in Places(v) /\ At(v, SlotPlace(k)) = BlockAt(v, k)
  <2>1. CASE k \in DirectSlots
    <3>1. BlockAt(v, k) = v.dbp[k] /\ SlotPlace(k) = <<"direct", k>>
      BY <2>1 DEF BlockAt, SlotPlace
    <3>2. At(v, <<"direct", k>>) = v.dbp[k]
      BY DEF At
    <3> QED BY <2>1, <3>1, <3>2 DEF Places
  <2>2. CASE k \notin DirectSlots
    <3> DEFINE n == k - Direct
    <3>1. n \in SinglySlots /\ v.sibp # 0 /\ BlockAt(v, k) = tables[v.sibp][n]
          /\ SlotPlace(k) = <<"slot", n>>
      BY <2>2, SlotsOfFile DEF BlockAt, SlotPlace
    <3> HIDE DEF n
    <3>2. At(v, <<"slot", n>>) = tables[v.sibp][n]
      BY DEF At
    <3> QED BY <3>1, <3>2 DEF Places
  <2> QED BY <2>1, <2>2
<1>2. At(v, SlotPlace(k)) \in block_bm /\ f[At(v, SlotPlace(k))] = <<i, SlotPlace(k)>>
  BY <1>1, PlaceOwned
<1> QED BY <1>1, <1>2 DEF Types

\* Two slots, or slots of two files, lie in different blocks.
LEMMA BlocksApart ==
  ASSUME Types, NEW f \in [Blocks -> Owners], OwnedTables(f, block_bm, tables),
         NEW i \in Inodes, NEW v \in INodes, Owned(f, block_bm, i, v, "indirect"),
         NEW j \in Inodes, NEW w \in INodes, Owned(f, block_bm, j, w, "indirect"),
         NEW k \in FileSlots, NEW l \in FileSlots, <<i, k>> # <<j, l>>,
         BlockAt(v, k) # 0, BlockAt(w, l) # 0
  PROVE  BlockAt(v, k) # BlockAt(w, l)
<1>1. f[BlockAt(v, k)] = <<i, SlotPlace(k)>> /\ f[BlockAt(w, l)] = <<j, SlotPlace(l)>>
  BY BlockOwned
<1>2. SlotPlace(k) = SlotPlace(l) => k = l
  BY SlotsOfFile, SlotsAssumption DEF SlotPlace
<1> QED BY <1>1, <1>2

\* Steps that leave the data and the inodes alone, make no file unborn and begin no write.
LEMMA QuietData ==
  ASSUME DataInv, UNCHANGED <<inodes, tables, data, core, kept>>,
         \A i \in RootFiles : Unborn(i)' => Unborn(i),
         op'.stage \notin Writing
  PROVE  DataInv'
<1>1. DataTypes' /\ CoreExtends' /\ UnbornEmpty'
  BY DEF DataInv, DataTypes, CoreExtends, UnbornEmpty, Extends
<1>2. KeptHeld'
  BY DEF DataInv, KeptHeld, Holds, BlockAt
<1>3. WrittenSoFar' /\ SlotFree'
  BY DEF WrittenSoFar, SlotFree, Writing
<1> QED BY <1>1, <1>2, <1>3 DEF DataInv

\* A write of one block changes no other block of any file.
LEMMA WriteBlockData ==
  ASSUME Types, StageKnows, NEW f \in [Blocks -> Owners], OwnedBy(f), DataInv, WriteBlock
  PROVE  DataInv'
<1>a. PICK e \in Entries, i \in Inodes, k \in Nat :
        e = op.entry /\ i = InodeOf(e) /\ k = Slot
  BY SlotType, EntriesOfInodes DEF WriteBlock, StageKnows, Writing
<1>b. PICK at : at = BlockAt(core[e], k) OBVIOUS
<1>1. e = op.entry /\ i = InodeOf(e) /\ k = Slot /\ at = BlockAt(core[e], k)
  BY <1>a, <1>b
<1>2. /\ op.stage = "block" /\ op'.stage = "block" /\ core[e] \in INodes
      /\ UNCHANGED <<block_bm, inode_bm, inodes, tables, core>>
      /\ op'.entry = e /\ op'.from = op.from /\ op'.val = op.val /\ op'.with = op.with
      /\ Slot' = k + 1 /\ op.from \in Nat
      /\ data' = [data EXCEPT ![at] = op.val]
      /\ Lacks(core[e], k) = "nothing"
  BY <1>1 DEF WriteBlock, Types, OpType, StageKnows, Writing, Slot
<1>3. /\ \A j \in Inodes : Owned(f, block_bm, j, inodes[j], "indirect") /\ inodes[j] \in INodes
      /\ \A d \in Entries : Owned(f, block_bm, InodeOf(d), core[d], "indirect")
      /\ OwnedTables(f, block_bm, tables)
  BY <1>2, OwnedIndirect DEF OwnedBy, Types
<1>4. k \in FileSlots => at # 0
  BY <1>1, <1>2 DEF Lacks, BlockAt, INodes
<1>5. k \notin FileSlots => at = 0
  BY <1>1, SlotsOfFile DEF BlockAt
<1>6. ASSUME NEW j \in Inodes, NEW l \in FileSlots, NEW v \in INodes,
             Owned(f, block_bm, j, v, "indirect"), BlockAt(v, l) # 0, <<j, l>> # <<i, k>>
      PROVE  data'[BlockAt(v, l)] = data[BlockAt(v, l)]
  <2>1. BlockAt(v, l) # at
    <3>1. CASE k \in FileSlots
      BY <1>1, <1>2, <1>3, <1>4, <1>6, <3>1, BlocksApart
    <3>2. CASE k \notin FileSlots
      BY <1>5, <1>6, <3>2
    <3> QED BY <3>1, <3>2
  <2>2. BlockAt(v, l) \in Blocks
    BY <1>3, <1>6, BlockOwned
  <2> QED BY <1>2, <2>1, <2>2 DEF DataInv, DataTypes
<1>7. k \in FileSlots => data'[at] = op.val
  <2>1. k \in FileSlots => at \in Blocks
    BY <1>1, <1>2, <1>3, <1>4, BlockOwned
  <2> QED BY <1>2, <2>1 DEF DataInv, DataTypes
<1>8. \A v, l : BlockAt(v, l)' = BlockAt(v, l)
  BY <1>2 DEF BlockAt
<1>9. \A j \in RootFiles, l \in FileSlots :
        kept'[j][l] = IF j = i /\ l = k /\ kept[j][l] # {} THEN kept[j][l] \cup {op.val}
                      ELSE kept[j][l]
  BY <1>1 DEF WriteBlock, DataInv, DataTypes
<1>10. DataTypes'
  <2>1. data' = [b \in Blocks \cup {0} |-> data'[b]]
    BY <1>2 DEF DataInv, DataTypes
  <2>2. kept' = [j \in RootFiles |-> [l \in FileSlots |-> kept'[j][l]]]
    BY DEF WriteBlock, DataInv, DataTypes
  <2> QED BY <2>1, <2>2 DEF DataTypes
<1>11. CoreExtends' /\ SlotFree'
  BY <1>2 DEF DataInv, CoreExtends, SlotFree, Extends
<1>12. UnbornEmpty'
  BY <1>2, <1>9 DEF DataInv, UnbornEmpty, Unborn, Creating
<1>13. KeptHeld'
  <2> SUFFICES ASSUME NEW j \in RootFiles, NEW l \in FileSlots, kept'[j][l] # {}
               PROVE  BlockAt(inodes[j], l) # 0 /\ data'[BlockAt(inodes[j], l)] \in kept'[j][l]
    BY <1>2, <1>8 DEF KeptHeld, Holds
  <2>1. kept[j][l] # {} /\ j \in Inodes
    BY <1>9, RootEntry
  <2>2. BlockAt(inodes[j], l) # 0 /\ data[BlockAt(inodes[j], l)] \in kept[j][l]
    BY <2>1 DEF DataInv, KeptHeld, Holds
  <2>3. CASE j = i /\ l = k
    <3>1. e = <<i, 0>> /\ core[e] # NotOpen
      BY <1>1, <1>2, <2>3, RootEntry, OpenInode
    <3>2. Extends(core[e], inodes[i])
      BY <2>3, <3>1 DEF DataInv, CoreExtends
    <3>3. at = BlockAt(inodes[i], k)
      BY <1>1, <2>2, <2>3, <3>2, ExtendedBlock
    <3>4. kept'[j][l] = kept[j][l] \cup {op.val}
      BY <1>9, <2>1, <2>3
    <3>5. data'[at] = op.val
      BY <1>7, <2>3
    <3>6. BlockAt(inodes[j], l) = at
      BY <2>3, <3>3
    <3> QED BY <2>2, <3>4, <3>5, <3>6
  <2>4. CASE ~(j = i /\ l = k)
    <3>1. <<j, l>> # <<i, k>> /\ kept'[j][l] = kept[j][l]
      BY <1>9, <2>4
    <3>2. Owned(f, block_bm, j, inodes[j], "indirect") /\ inodes[j] \in INodes
      BY <1>3, <2>1
    <3>3. data'[BlockAt(inodes[j], l)] = data[BlockAt(inodes[j], l)]
      BY <1>6, <2>1, <2>2, <3>1, <3>2
    <3> QED BY <2>2, <3>1, <3>3
  <2> QED BY <2>3, <2>4
<1>14. WrittenSoFar'
  <2> SUFFICES ASSUME i \in RootFiles, NEW l \in FileSlots, op.from <= l, l < k + 1
               PROVE  BlockAt(core[e], l) # 0 /\ data'[BlockAt(core[e], l)] = op.val
    BY <1>1, <1>2, <1>8 DEF WrittenSoFar, Holds
  <2>1. CASE l = k
    BY <1>1, <1>4, <1>7, <2>1
  <2>2. CASE l # k
    <3>1. l < k
      BY <2>2, SlotsOfFile
    <3>2. BlockAt(core[e], l) # 0 /\ data[BlockAt(core[e], l)] = op.val
      BY <1>1, <1>2, <3>1 DEF DataInv, WrittenSoFar, Writing, Holds
    <3> QED BY <1>1, <1>2, <1>3, <1>6, <2>2, <3>2
  <2> QED BY <2>1, <2>2
<1> QED BY <1>10, <1>11, <1>12, <1>13, <1>14 DEF DataInv

\* What enters an inode in memory is where it had nothing.
LEMMA CountBlockData ==
  ASSUME Types, StageKnows, DataInv, CountBlock
  PROVE  DataInv'
<1>1. PICK e \in Entries, k \in Nat : e = op.entry /\ k = Slot
  BY SlotType DEF CountBlock, StageKnows, Writing
<1> DEFINE c == core[e]
           lacks == Lacks(c, k)
<1>2. /\ op.stage = "count" /\ c \in INodes
      /\ UNCHANGED <<block_bm, inode_bm, inodes, tables, data, kept>>
      /\ op'.entry = e /\ op'.from = op.from /\ op'.val = op.val /\ op'.with = op.with
      /\ Slot' = k /\ lacks # "nothing"
      /\ op'.stage = CASE lacks = "direct"   -> "block"
                       [] lacks = "indirect" -> "zero"
                       [] OTHER              -> "table"
  BY <1>1 DEF CountBlock, Types, OpType, StageKnows, Writing, Slot, disk
<1>3. /\ lacks = "direct" => k \in DirectSlots /\ c.dbp[k] = 0
      /\ lacks = "indirect" => c.sibp = 0
      /\ lacks \notin {"direct", "indirect"} =>
           k \in FileSlots \ DirectSlots /\ c.sibp \in Blocks
  BY <1>1, <1>2, LacksCases
<1>4. core' = CASE lacks = "direct"   -> [core EXCEPT ![e].dbp[k] = op.with]
                [] lacks = "indirect" -> [core EXCEPT ![e].sibp = op.with]
                [] OTHER              -> core
  BY <1>1 DEF CountBlock
<1>5. /\ \A d \in Entries \ {e} : core'[d] = core[d]
      /\ \A l \in DirectSlots : c.dbp[l] # 0 => core'[e].dbp[l] = c.dbp[l]
      /\ c.sibp # 0 => core'[e].sibp = c.sibp
  <2> HIDE DEF lacks
  <2>1. CASE lacks = "direct"
    BY <1>2, <1>3, <1>4, <2>1 DEF Types, INodes
  <2>2. CASE lacks = "indirect"
    BY <1>2, <1>3, <1>4, <2>2 DEF Types, INodes
  <2>3. CASE lacks \notin {"direct", "indirect"}
    BY <1>4, <2>3
  <2> QED BY <2>1, <2>2, <2>3
<1>6. Extends(core'[e], c)
  BY <1>5 DEF Extends
<1>7. DataTypes' /\ KeptHeld'
  <2>1. DataTypes'
    BY <1>2 DEF DataInv, DataTypes
  <2>2. KeptHeld'
    BY <1>2 DEF DataInv, KeptHeld, Holds, BlockAt
  <2> QED BY <2>1, <2>2
<1>8. CoreExtends'
  <2> SUFFICES ASSUME NEW i \in RootFiles, core'[<<i, 0>>] # NotOpen
               PROVE  Extends(core'[<<i, 0>>], inodes[i])
    BY <1>2 DEF CoreExtends, Extends
  <2>1. CASE e = <<i, 0>>
    <3>1. Extends(c, inodes[i])
      BY <1>2, <2>1, OpenInode DEF DataInv, CoreExtends
    <3> HIDE DEF c
    <3> QED BY <1>6, <2>1, <3>1 DEF Extends
  <2>2. CASE e # <<i, 0>>
    <3>1. core'[<<i, 0>>] = core[<<i, 0>>]
      BY <1>5, <2>2, RootEntry
    <3> QED BY <3>1 DEF DataInv, CoreExtends
  <2> QED BY <2>1, <2>2
<1>9. UnbornEmpty'
  <2> SUFFICES ASSUME NEW i \in RootFiles, Unborn(i)'
               PROVE  /\ core'[<<i, 0>>] = NotOpen /\ inodes[i] = NewINode
                      /\ \A l \in FileSlots : kept[i][l] = {}
    BY <1>2 DEF UnbornEmpty
  <2>1. Unborn(i)
    BY <1>2 DEF Unborn, Creating
  <2>2. core[<<i, 0>>] = NotOpen
    BY <2>1 DEF DataInv, UnbornEmpty
  <2>3. e # <<i, 0>>
    BY <1>2, <2>2, OpenInode
  <2>4. core'[<<i, 0>>] = core[<<i, 0>>]
    BY <1>5, <2>3, RootEntry
  <2> QED BY <2>1, <2>2, <2>4 DEF DataInv, UnbornEmpty
<1>10. WrittenSoFar'
  <2> SUFFICES ASSUME InodeOf(e) \in RootFiles, NEW l \in FileSlots, op.from <= l, l < k
               PROVE  /\ BlockAt(core'[e], l) # 0
                      /\ data[BlockAt(core'[e], l)] = op.val
                      /\ op'.stage = "zero" => l \in DirectSlots
    BY <1>2 DEF WrittenSoFar, Holds, BlockAt
  <2>1. Holds(c, l, {op.val})
    <3>1. op.stage \in Writing /\ InodeOf(op.entry) \in RootFiles /\ l < Slot
      BY <1>1, <1>2 DEF Writing
    <3>2. Holds(core[op.entry], l, {op.val})
      BY <3>1 DEF DataInv, WrittenSoFar
    <3> QED BY <1>1, <3>2
  <2>2. Holds(core'[e], l, {op.val})
    BY <1>6, <2>1, HoldsExtended
  <2>4. op'.stage = "zero" => lacks = "indirect"
    BY <1>2
  <2>5. lacks = "indirect" => l \in DirectSlots
    BY <1>3, <2>1 DEF Holds, BlockAt
  <2> QED BY <2>2, <2>4, <2>5 DEF Holds
<1>11. SlotFree'
  <2> SUFFICES ASSUME op'.stage = "table"
               PROVE  tables[core'[e].sibp][k - Direct] = 0
    BY <1>2 DEF SlotFree
  <2>1. lacks \notin {"direct", "indirect"} /\ core' = core
    <3> HIDE DEF lacks
    <3> QED BY <1>2, <1>4
  <2>2. k \in FileSlots \ DirectSlots /\ c.sibp # 0
    BY <1>3, <2>1, BlocksAssumption
  <2>3. BlockAt(c, k) = 0
    BY <1>2, <2>2 DEF Lacks
  <2> QED BY <2>1, <2>2, <2>3 DEF BlockAt
<1> QED BY <1>7, <1>8, <1>9, <1>10, <1>11 DEF DataInv

\* The table that is cleared is one that no inode on the disk has yet.
LEMMA ZeroTableData ==
  ASSUME Types, StageKnows, NEW f \in [Blocks -> Owners], OwnedBy(f), DataInv, ZeroTable
  PROVE  DataInv'
<1>1. PICK e \in Entries, t \in Blocks : e = op.entry /\ t = core[e].sibp
  BY DEF ZeroTable, StageKnows, Writing
<1>2. /\ op.stage = "zero" /\ op'.stage = "block"
      /\ UNCHANGED <<block_bm, inode_bm, inodes, data, core, kept>>
      /\ op'.entry = e /\ op'.from = op.from /\ op'.val = op.val /\ Slot' = Slot
      /\ tables' = [tables EXCEPT ![t] = NoTable]
  BY <1>1 DEF ZeroTable, Types, OpType, Slot
<1>3. f[t] = Owner(InodeOf(e), "new", 0)
  BY <1>1, <1>2 DEF OwnedBy, CoreOwned, Kind, Owned
<1>4. ASSUME NEW i \in RootFiles, NEW k \in FileSlots
      PROVE  BlockAt(inodes[i], k)' = BlockAt(inodes[i], k)
  <2>1. inodes[i] \in INodes /\ i \in Inodes
    BY RootEntry DEF Types
  <2>2. inodes[i].sibp # t
    BY <1>3, <2>1, OwnersDiffer DEF OwnedBy, InodesOwned, Owned
  <2>3. inodes[i].sibp # 0 => tables'[inodes[i].sibp] = tables[inodes[i].sibp]
    BY <1>2, <2>1, <2>2 DEF Types, INodes
  <2> QED BY <1>2, <2>3 DEF BlockAt
<1>5. DataTypes' /\ CoreExtends'
  BY <1>2 DEF DataInv, DataTypes, CoreExtends, Extends
<1>6. UnbornEmpty'
  BY <1>2 DEF DataInv, UnbornEmpty, Unborn, Creating
<1>7. KeptHeld'
  BY <1>2, <1>4 DEF DataInv, KeptHeld, Holds
<1>8. WrittenSoFar'
  <2> SUFFICES ASSUME InodeOf(e) \in RootFiles, NEW l \in FileSlots, op.from <= l, l < Slot
               PROVE  Holds(core[e], l, {op.val})'
    BY <1>2 DEF WrittenSoFar
  <2>1. Holds(core[e], l, {op.val}) /\ l \in DirectSlots
    BY <1>1, <1>2 DEF DataInv, WrittenSoFar, Writing
  <2> QED BY <1>2, <2>1 DEF Holds, BlockAt
<1>9. SlotFree'
  BY <1>2 DEF SlotFree
<1> QED BY <1>5, <1>6, <1>7, <1>8, <1>9 DEF DataInv

\* The table gets its new entry where it had none.
LEMMA WriteTableData ==
  ASSUME Types, StageKnows, DataInv, WriteTable
  PROVE  DataInv'
<1>1. PICK e \in Entries, t \in Blocks, n \in SinglySlots :
        e = op.entry /\ t = core[e].sibp /\ n = Slot - Direct
  BY SlotsOfFile DEF WriteTable, StageKnows, Writing
<1>2. /\ op.stage = "table" /\ op'.stage = "block"
      /\ UNCHANGED <<block_bm, inode_bm, inodes, data, core, kept>>
      /\ op'.entry = e /\ op'.from = op.from /\ op'.val = op.val /\ Slot' = Slot
      /\ tables' = [tables EXCEPT ![t][n] = op.with]
  BY <1>1 DEF WriteTable, Types, OpType, Slot
<1>3. tables[t][n] = 0
  BY <1>1, <1>2 DEF DataInv, SlotFree
<1>4. ASSUME NEW v \in INodes, NEW k \in FileSlots, BlockAt(v, k) # 0
      PROVE  BlockAt(v, k)' = BlockAt(v, k)
  <2>1. CASE k \in DirectSlots
    BY <2>1 DEF BlockAt
  <2>2. CASE k \notin DirectSlots
    <3>1. k - Direct \in SinglySlots /\ v.sibp \in Blocks
          /\ BlockAt(v, k) = tables[v.sibp][k - Direct]
          /\ BlockAt(v, k)' = tables'[v.sibp][k - Direct]
      BY <1>4, <2>2, SlotsOfFile DEF BlockAt, INodes
    <3>2. tables'[v.sibp][k - Direct] = tables[v.sibp][k - Direct]
      BY <1>2, <1>3, <1>4, <3>1 DEF Types
    <3> QED BY <3>1, <3>2
  <2> QED BY <2>1, <2>2
<1>5. ASSUME NEW v \in INodes, NEW k \in FileSlots, NEW S, Holds(v, k, S)
      PROVE  Holds(v, k, S)'
  BY <1>2, <1>4, <1>5 DEF Holds
<1>6. DataTypes' /\ CoreExtends'
  BY <1>2 DEF DataInv, DataTypes, CoreExtends, Extends
<1>7. UnbornEmpty'
  BY <1>2 DEF DataInv, UnbornEmpty, Unborn, Creating
<1>8. KeptHeld'
  <2> SUFFICES ASSUME NEW i \in RootFiles, NEW k \in FileSlots, kept[i][k] # {}
               PROVE  Holds(inodes[i], k, kept[i][k])'
    BY <1>2 DEF KeptHeld
  <2>1. inodes[i] \in INodes /\ Holds(inodes[i], k, kept[i][k])
    BY RootEntry DEF Types, DataInv, KeptHeld
  <2>2. BlockAt(inodes[i], k)' = BlockAt(inodes[i], k)
    <3>1. BlockAt(inodes[i], k) # 0
      BY <2>1 DEF Holds
    <3>2. \A v \in INodes : BlockAt(v, k) # 0 => BlockAt(v, k)' = BlockAt(v, k)
      BY <1>4
    <3> QED BY <1>2, <2>1, <3>1, <3>2 DEF BlockAt
  <2> QED BY <1>2, <2>1, <2>2 DEF Holds
<1>9. WrittenSoFar'
  <2> SUFFICES ASSUME InodeOf(e) \in RootFiles, NEW l \in FileSlots, op.from <= l, l < Slot
               PROVE  Holds(core[e], l, {op.val})'
    BY <1>2 DEF WrittenSoFar
  <2>1. Holds(core[e], l, {op.val}) /\ core[e] \in INodes
    BY <1>1, <1>2 DEF DataInv, WrittenSoFar, StageKnows, Writing
  <2>2. BlockAt(core[e], l)' = BlockAt(core[e], l)
    <3>1. \A v \in INodes : BlockAt(v, l) # 0 => BlockAt(v, l)' = BlockAt(v, l)
      BY <1>4
    <3> QED BY <1>2, <2>1, <3>1 DEF BlockAt, Holds
  <2> QED BY <1>2, <2>1, <2>2 DEF Holds
<1>10. SlotFree'
  BY <1>2 DEF SlotFree
<1> QED BY <1>6, <1>7, <1>8, <1>9, <1>10 DEF DataInv

\* The inode on the disk becomes the one in memory, which has all that it had.
LEMMA FinishWriteData ==
  ASSUME Types, StageKnows, DataInv, FinishWrite
  PROVE  DataInv'
<1>1. PICK e \in Entries, i \in Inodes : e = op.entry /\ i = InodeOf(e)
  BY EntriesOfInodes DEF FinishWrite, StageKnows, Writing
<1>2. /\ op.stage = "block" /\ op'.stage = "idle" /\ core[e] \in INodes
      /\ UNCHANGED <<inode_bm, tables, data, core>>
      /\ inodes' = [inodes EXCEPT ![i] = core[e]]
  BY <1>1 DEF FinishWrite, Idle, Op, StageKnows, Writing, Written
<1>3. \A j \in RootFiles, k \in FileSlots :
        kept'[j][k] = IF j = i /\ op.from <= k /\ k < Slot THEN {op.val} ELSE kept[j][k]
  <2>1. \A k \in FileSlots : k \in op.from .. Slot - 1 <=> op.from <= k /\ k < Slot
    BY SlotsOfFile, SlotType DEF Types, OpType
  <2>2. kept' = [j \in RootFiles |-> [k \in FileSlots |->
                  IF j = i /\ k \in op.from .. Slot - 1 THEN {op.val} ELSE kept[j][k]]]
    BY <1>1 DEF FinishWrite
  <2> QED BY <2>1, <2>2
<1>4. DataTypes'
  <2>1. data' = [b \in Blocks \cup {0} |-> data'[b]]
    BY <1>2 DEF DataInv, DataTypes
  <2>2. kept' = [j \in RootFiles |-> [k \in FileSlots |-> kept'[j][k]]]
    BY DEF FinishWrite
  <2> QED BY <2>1, <2>2 DEF DataTypes
<1>5. /\ inodes'[i] = core[e] /\ \A j \in Inodes \ {i} : inodes'[j] = inodes[j]
      /\ i \in RootFiles => e = <<i, 0>> /\ core[e] # NotOpen /\ Extends(core[e], inodes[i])
  BY <1>1, <1>2, RootEntry, OpenInode DEF Types, DataInv, CoreExtends
<1>6. CoreExtends'
  <2>1. \A v : Extends(v, v)
    BY DEF Extends
  <2> SUFFICES ASSUME NEW j \in RootFiles, core[<<j, 0>>] # NotOpen
               PROVE  Extends(core[<<j, 0>>], inodes'[j])
    BY <1>2 DEF CoreExtends, Extends
  <2> QED BY <1>5, <2>1, RootEntry DEF DataInv, CoreExtends
<1>7. UnbornEmpty'
  <2> SUFFICES ASSUME NEW j \in RootFiles, Unborn(j)'
               PROVE  /\ core[<<j, 0>>] = NotOpen /\ inodes'[j] = NewINode
                      /\ \A k \in FileSlots : kept'[j][k] = {}
    BY <1>2 DEF UnbornEmpty
  <2>1. Unborn(j)
    BY <1>2 DEF Unborn, Creating
  <2>2. core[<<j, 0>>] = NotOpen /\ inodes[j] = NewINode /\ \A k \in FileSlots : kept[j][k] = {}
    BY <2>1 DEF DataInv, UnbornEmpty
  <2>3. j # i
    BY <1>5, <2>2
  <2> QED BY <1>3, <1>5, <2>2, <2>3, RootEntry
<1>8. KeptHeld'
  <2> SUFFICES ASSUME NEW j \in RootFiles, NEW k \in FileSlots, kept'[j][k] # {}
               PROVE  Holds(inodes'[j], k, kept'[j][k])
    BY <1>2 DEF KeptHeld, Holds, BlockAt
  <2>1. CASE j # i
    BY <1>3, <1>5, <2>1, RootEntry DEF DataInv, KeptHeld
  <2>2. CASE j = i /\ op.from <= k /\ k < Slot
    BY <1>1, <1>2, <1>3, <1>5, <2>2 DEF DataInv, WrittenSoFar, Writing
  <2>3. CASE j = i /\ ~(op.from <= k /\ k < Slot)
    <3>1. Holds(inodes[i], k, kept[i][k]) /\ kept'[j][k] = kept[i][k]
      BY <1>3, <2>3 DEF DataInv, KeptHeld
    <3> QED BY <1>5, <2>3, <3>1, HoldsExtended
  <2> QED BY <2>1, <2>2, <2>3
<1>9. WrittenSoFar' /\ SlotFree'
  BY <1>2 DEF WrittenSoFar, SlotFree, Writing
<1> QED BY <1>4, <1>6, <1>7, <1>8, <1>9 DEF DataInv

\* So it does when a file is opened for writing.
LEMMA SetSizeData ==
  ASSUME Types, DataInv, NEW e \in Entries, set_size(e)
  PROVE  DataInv'
<1>1. PICK i \in RootFiles : i = InodeOf(e) /\ e = <<i, 0>>
  BY RootEntry DEF set_size
<1>2. /\ op.stage = "idle" /\ core[e] # NotOpen
      /\ UNCHANGED <<inode_bm, tables, data, core, op, kept>>
      /\ inodes' = [inodes EXCEPT ![i] = core[e]]
  BY <1>1 DEF set_size
<1>3. /\ inodes'[i] = core[e] /\ \A j \in Inodes \ {i} : inodes'[j] = inodes[j]
      /\ Extends(core[e], inodes[i])
  BY <1>1, <1>2, RootEntry DEF Types, DataInv, CoreExtends
<1>4. DataTypes'
  BY <1>2 DEF DataInv, DataTypes
<1>5. CoreExtends'
  <2>1. \A v : Extends(v, v)
    BY DEF Extends
  <2> SUFFICES ASSUME NEW j \in RootFiles, core[<<j, 0>>] # NotOpen
               PROVE  Extends(core[<<j, 0>>], inodes'[j])
    BY <1>2 DEF CoreExtends, Extends
  <2> QED BY <1>1, <1>3, <2>1, RootEntry DEF DataInv, CoreExtends
<1>6. UnbornEmpty'
  <2> SUFFICES ASSUME NEW j \in RootFiles, Unborn(j)
               PROVE  /\ core[<<j, 0>>] = NotOpen /\ inodes'[j] = NewINode
                      /\ \A k \in FileSlots : kept[j][k] = {}
    BY <1>2 DEF UnbornEmpty, Unborn
  <2>1. core[<<j, 0>>] = NotOpen /\ inodes[j] = NewINode /\ \A k \in FileSlots : kept[j][k] = {}
    BY DEF DataInv, UnbornEmpty
  <2>2. j # i
    BY <1>1, <1>2, <2>1
  <2> QED BY <1>3, <2>1, <2>2, RootEntry
<1>7. KeptHeld'
  <2> SUFFICES ASSUME NEW j \in RootFiles, NEW k \in FileSlots, kept[j][k] # {}
               PROVE  Holds(inodes'[j], k, kept[j][k])
    BY <1>2 DEF KeptHeld, Holds, BlockAt
  <2>1. Holds(inodes[j], k, kept[j][k])
    BY DEF DataInv, KeptHeld
  <2>2. CASE j # i
    BY <1>3, <2>1, <2>2, RootEntry
  <2>3. CASE j = i
    BY <1>3, <2>1, <2>3, HoldsExtended
  <2> QED BY <2>2, <2>3
<1>8. WrittenSoFar' /\ SlotFree'
  BY <1>2 DEF WrittenSoFar, SlotFree, Writing
<1> QED BY <1>4, <1>5, <1>6, <1>7, <1>8 DEF DataInv

\* A new file has an empty inode, on the disk and in memory, and no data to lose.
LEMMA CreateData ==
  ASSUME Types, DirInv, DataInv, WriteNewInode \/ WriteGroup
  PROVE  DataInv'
<1>1. op.stage \in {"inode", "group"} /\ UNCHANGED <<inode_bm, tables, data, kept>>
      /\ op'.stage \in {"group", "idle"} /\ (op'.stage = "group" => op'.with = op.with)
  BY DEF WriteNewInode, WriteGroup, Idle, Op, Types, OpType
<1>2. op.with \in RootFiles /\ op.with \in Inodes
  BY <1>1 DEF DirInv, DirTypes, NewEntry, Creating, Inodes
<1>3. inodes[op.with] = NewINode /\ core[<<op.with, 0>>] = NotOpen
  BY <1>1, <1>2 DEF DataInv, UnbornEmpty, Unborn, Creating
<1>4. \A i \in RootFiles : Unborn(i)' => Unborn(i)
  BY <1>1 DEF Unborn, Creating
<1>5. CASE WriteNewInode
  <2>1. inodes' = inodes /\ core' = core
    BY <1>2, <1>3, <1>5 DEF WriteNewInode, Types
  <2> QED BY <1>1, <1>4, <2>1, QuietData DEF Writing
<1>6. CASE WriteGroup
  <2>1. inodes' = inodes /\ core' = [core EXCEPT ![<<op.with, 0>>] = NewINode]
        /\ op'.stage = "idle"
    BY <1>6 DEF WriteGroup, Idle, Op
  <2>2. \A i \in RootFiles : core'[<<i, 0>>] =
          IF i = op.with THEN NewINode ELSE core[<<i, 0>>]
    BY <2>1, RootEntry DEF Types
  <2>3. DataTypes'
    BY <1>1 DEF DataInv, DataTypes
  <2>4. CoreExtends'
    <3>1. \A v : Extends(v, v)
      BY DEF Extends
    <3> SUFFICES ASSUME NEW i \in RootFiles, core'[<<i, 0>>] # NotOpen
                 PROVE  Extends(core'[<<i, 0>>], inodes[i])
      BY <2>1 DEF CoreExtends, Extends
    <3> QED BY <1>3, <2>2, <3>1 DEF DataInv, CoreExtends
  <2>5. KeptHeld'
    BY <1>1, <2>1 DEF DataInv, KeptHeld, Holds, BlockAt
  <2>6. UnbornEmpty'
    <3>1. \A i \in RootFiles : Unborn(i)' => i # op.with
      BY <1>1, <1>2, <2>1 DEF Unborn, Creating, DirInv, NewEntry
    <3> QED BY <1>1, <1>4, <2>1, <2>2, <3>1 DEF DataInv, UnbornEmpty
  <2>7. WrittenSoFar' /\ SlotFree'
    BY <2>1 DEF WrittenSoFar, SlotFree, Writing
  <2> QED BY <2>3, <2>4, <2>5, <2>6, <2>7 DEF DataInv
<1> QED BY <1>5, <1>6

\* After a restart the inodes in memory are those of the disk.
LEMMA RebootData ==
  ASSUME Types, DirInv, DataInv, reboot
  PROVE  DataInv'
<1>1. op'.stage = "idle" /\ UNCHANGED <<inode_bm, inodes, tables, data, kept>>
  BY DEF reboot, Idle, Op, disk
<1>2. \A i \in RootFiles : core'[<<i, 0>>] =
        IF \E d \in dir : d.inode = i THEN inodes[i] ELSE NotOpen
  BY RootEntry DEF reboot
<1>3. DataTypes'
  BY <1>1 DEF DataInv, DataTypes
<1>4. CoreExtends'
  BY <1>1, <1>2 DEF CoreExtends, Extends
<1>5. KeptHeld'
  BY <1>1 DEF DataInv, KeptHeld, Holds, BlockAt
<1>6. UnbornEmpty'
  <2> SUFFICES ASSUME NEW i \in RootFiles, Unborn(i)'
               PROVE  /\ core'[<<i, 0>>] = NotOpen /\ inodes[i] = NewINode
                      /\ \A k \in FileSlots : kept[i][k] = {}
    BY <1>1 DEF UnbornEmpty
  <2>1. i \notin inode_bm
    BY <1>1 DEF Unborn, Creating
  <2>2. ~ \E d \in dir : d.inode = i
    BY <2>1 DEF DirInv, DirTypes
  <2> QED BY <1>2, <2>1, <2>2 DEF DataInv, UnbornEmpty, Unborn
<1>7. WrittenSoFar' /\ SlotFree'
  BY <1>1 DEF WrittenSoFar, SlotFree, Writing
<1> QED BY <1>3, <1>4, <1>5, <1>6, <1>7 DEF DataInv

\* A write begins, or reserves a block.
LEMMA BeginData ==
  ASSUME Types, DataInv, UNCHANGED <<inode_bm, inodes, tables, data, core, kept>>,
         op'.stage \in {"block", "count"},
         \/ op.stage \in Writing /\ op.stage # "zero" /\ op'.entry = op.entry
            /\ op'.from = op.from /\ op'.val = op.val /\ Slot' = Slot
         \/ op'.from \in FileSlots /\ Slot' = op'.from
  PROVE  DataInv'
<1>1. DataTypes' /\ CoreExtends'
  BY DEF DataInv, DataTypes, CoreExtends, Extends
<1>2. UnbornEmpty'
  BY DEF DataInv, UnbornEmpty, Unborn, Creating
<1>3. KeptHeld'
  BY DEF DataInv, KeptHeld, Holds, BlockAt
<1>4. WrittenSoFar'
  <2>1. CASE op'.from \in FileSlots /\ Slot' = op'.from
    <3>1. \A k \in FileSlots : ~(op'.from <= k /\ k < Slot')
      <4>1. PICK from \in Nat : from = op'.from /\ Slot' = from
        BY <2>1, SlotsOfFile
      <4> QED BY <4>1, SlotsOfFile
    <3> QED BY <3>1 DEF WrittenSoFar
  <2>2. CASE /\ op.stage \in Writing /\ op.stage # "zero" /\ op'.entry = op.entry
             /\ op'.from = op.from /\ op'.val = op.val /\ Slot' = Slot
    BY <2>2 DEF DataInv, WrittenSoFar, Holds, BlockAt
  <2> QED BY <2>1, <2>2
<1>5. SlotFree'
  BY DEF SlotFree
<1> QED BY <1>1, <1>2, <1>3, <1>4, <1>5 DEF DataInv

LEMMA StepData ==
  ASSUME IInv, DirInv, DataInv, Next
  PROVE  DataInv'
<1>1. PICK f \in [Blocks -> Owners] : OwnedBy(f)
  BY DEF IInv, HasOwners
<1>2. Types /\ StageKnows /\ OpType
  BY DEF IInv, Types
<1>3. ASSUME NEW e \in Entries, NEW from \in FileSlots, NEW n \in 1 .. MaxWrite,
             NEW val \in Values, write(e, from, n, val)
      PROVE  DataInv'
  <2>1. from + 0 = from
    BY SlotsOfFile
  <2>2. op'.stage = "block" /\ op'.from = from /\ Slot' = from
        /\ UNCHANGED <<inode_bm, inodes, tables, data, core, kept>>
    BY <1>3, <2>1 DEF write, Op, disk, Slot
  <2> QED BY <1>2, <2>2, BeginData
<1>4. CASE WriteBlock
  BY <1>1, <1>2, <1>4, WriteBlockData
<1>5. CASE MarkBlock
  <2>1. CASE op' = Idle
    <3>1. op'.stage = "idle"
      BY <2>1 DEF Idle, Op
    <3> QED BY <1>5, <3>1, QuietData DEF MarkBlock, Unborn, Creating, Writing
  <2>2. CASE op' = [op EXCEPT !.stage = "count", !.with = FirstOf(Unused(block_bm))]
    <3>1. op'.stage = "count" /\ op'.entry = op.entry /\ op'.from = op.from /\ op'.val = op.val
          /\ Slot' = Slot
      BY <1>2, <2>2 DEF OpType, Slot
    <3> QED BY <1>2, <1>5, <3>1, BeginData DEF MarkBlock, Writing
  <2> QED BY <1>5, <2>1, <2>2 DEF MarkBlock
<1>6. CASE CountBlock
  BY <1>2, <1>6, CountBlockData
<1>7. CASE ZeroTable
  BY <1>1, <1>2, <1>7, ZeroTableData
<1>8. CASE WriteTable
  BY <1>2, <1>8, WriteTableData
<1>9. CASE FinishWrite
  BY <1>2, <1>9, FinishWriteData
<1>10. ASSUME NEW e \in Entries, open(e)
       PROVE  DataInv'
  <2>1. op.stage = "idle" /\ InodeOf(e) \in SubFiles
        /\ UNCHANGED <<inode_bm, inodes, tables, data, op, kept>>
        /\ core' = [core EXCEPT ![e] = inodes[InodeOf(e)]]
    BY <1>10 DEF open, disk
  <2>2. \A i \in RootFiles : core'[<<i, 0>>] = core[<<i, 0>>]
    BY <1>2, <2>1, RootEntry, FilesAssumption DEF Types
  <2>3. DataTypes' /\ CoreExtends'
    BY <2>1, <2>2 DEF DataInv, DataTypes, CoreExtends, Extends
  <2>4. UnbornEmpty'
    BY <2>1, <2>2 DEF DataInv, UnbornEmpty, Unborn
  <2>5. KeptHeld'
    BY <2>1 DEF DataInv, KeptHeld, Holds, BlockAt
  <2>6. WrittenSoFar' /\ SlotFree'
    BY <2>1 DEF WrittenSoFar, SlotFree, Writing
  <2> QED BY <2>3, <2>4, <2>5, <2>6 DEF DataInv
<1>11. ASSUME NEW name \in Names, create(name)
       PROVE  DataInv'
  <2>1. op.stage = "idle" /\ UNCHANGED <<inodes, tables, data, core, kept>>
    BY <1>11 DEF create
  <2>2. /\ op'.stage \in {"panic", "entry"}
        /\ inode_bm \subseteq inode_bm'
        /\ op'.stage = "entry" => op'.with \notin inode_bm
    <3>1. CASE Inodes \subseteq inode_bm
      BY <1>11, <3>1 DEF create, Idle, Op
    <3>2. CASE ~(Inodes \subseteq inode_bm)
      <4>1. Inodes \ inode_bm \in SUBSET Nat /\ Inodes \ inode_bm # {}
        BY <3>2, FilesAssumption DEF Inodes
      <4>2. FirstOf(Inodes \ inode_bm) \notin inode_bm
        BY <4>1, FirstOne
      <4> QED BY <1>11, <3>2, <4>2 DEF create, Idle, Op
    <3> QED BY <3>1, <3>2
  <2>3. \A i \in RootFiles : Unborn(i)' => Unborn(i)
    BY <2>2 DEF Unborn, Creating
  <2> QED BY <2>1, <2>2, <2>3, QuietData DEF Writing
<1>12. CASE CutEntry \/ WriteHeader \/ WriteName
  <2>1. op.stage \in Creating /\ op'.stage \in Creating /\ op'.with = op.with
        /\ UNCHANGED <<inode_bm, inodes, tables, data, core, kept>>
    BY <1>2, <1>12 DEF CutEntry, WriteHeader, WriteName, OpType, Creating
  <2>2. \A i \in RootFiles : Unborn(i)' => Unborn(i)
    BY <2>1 DEF Unborn
  <2> QED BY <2>1, <2>2, QuietData DEF Writing, Creating
<1>13. CASE WriteNewInode \/ WriteGroup
  BY <1>2, <1>13, CreateData
<1>14. CASE reboot
  BY <1>2, <1>14, RebootData
<1>15. ASSUME NEW e \in Entries, set_size(e)
       PROVE  DataInv'
  BY <1>2, <1>15, SetSizeData
<1> QED BY <1>3, <1>4, <1>5, <1>6, <1>7, <1>8, <1>9, <1>10, <1>11, <1>12, <1>13, <1>14,
           <1>15 DEF Next

\* A block of a root file that was written completely holds that write, or a later one that
\* was under way, on the disk and for every handle, after any restart: for a disk, files and
\* writes of any size.
THEOREM WritesSurvive ==
  Spec => []CompletedWritesSurvive
<1>1. Init => IInv /\ DirInv /\ DataInv
  BY InitIInv, InitDir, InitData
<1>2. IInv /\ DirInv /\ DataInv /\ [Next]_vars => DataInv'
  <2> SUFFICES ASSUME IInv, DirInv, DataInv, [Next]_vars
               PROVE  DataInv'
    OBVIOUS
  <2>1. CASE Next
    BY <2>1, StepData
  <2>2. CASE UNCHANGED vars
    <3>1. DataTypes' /\ CoreExtends' /\ UnbornEmpty'
      BY <2>2 DEF vars, DataInv, DataTypes, CoreExtends, UnbornEmpty, Unborn, Extends
    <3>2. KeptHeld'
      BY <2>2 DEF vars, DataInv, KeptHeld, Holds, BlockAt
    <3>3. WrittenSoFar'
      BY <2>2 DEF vars, DataInv, WrittenSoFar, Slot, Holds, BlockAt
    <3>4. SlotFree'
      BY <2>2 DEF vars, DataInv, SlotFree, Slot
    <3> QED BY <3>1, <3>2, <3>3, <3>4 DEF DataInv
  <2> QED BY <2>1, <2>2
<1>3. DataInv => CompletedWritesSurvive
  <2> SUFFICES ASSUME DataInv, NEW i \in RootFiles, NEW k \in FileSlots, kept[i][k] # {}
               PROVE  /\ data[BlockAt(inodes[i], k)] \in kept[i][k]
                      /\ core[<<i, 0>>] # NotOpen =>
                           data[BlockAt(core[<<i, 0>>], k)] \in kept[i][k]
    BY DEF CompletedWritesSurvive
  <2>1. Holds(inodes[i], k, kept[i][k])
    BY DEF DataInv, KeptHeld
  <2>2. core[<<i, 0>>] # NotOpen => Holds(core[<<i, 0>>], k, kept[i][k])
    BY <2>1, HoldsExtended DEF DataInv, CoreExtends
  <2> QED BY <2>1, <2>2 DEF Holds
<1>4. IInv /\ DirInv /\ [Next]_vars => DirInv'
  BY DirStep
<1> QED BY <1>1, <1>2, <1>3, <1>4, StepIInv, PTL DEF Spec

-----------------------------------------------------------------------------
(* The tables of descriptors *)

FileHandles == [node : Nodes \cup {Tty}, pos : Int]

TableTypes ==
  /\ handle \in [Addresses -> FileHandles]
  /\ m_file_handles \in [Procs -> [Fds -> Addresses \cup {Null, Mixed}]]
  /\ m_file_handle_counter \in [Procs -> Nat]
  /\ size \in [Nodes -> Int]

\* From the counter on a table is empty, and the counter is past the first descriptors.
EmptyBeyond ==
  \A p \in Procs :
    /\ \A fd \in Fds : fd >= m_file_handle_counter[p] => m_file_handles[p][fd] = Null
    /\ Started(p) => m_file_handle_counter[p] >= Std

\* A descriptor whose FileHandle has been deleted is stale before the heap gives its
\* address to another.
DanglingAreStale ==
  \A p \in Procs, fd \in Fds :
    m_file_handles[p][fd] \in Addresses \ Made => <<p, fd>> \in stale

TablesInv == TableTypes /\ EmptyBeyond /\ DanglingAreStale /\ HandlesApart

-----------------------------------------------------------------------------
(* New handles *)

\* The heap gives each at an address of its own, where there was none.
LEMMA NewOnes ==
  ASSUME Sized, NEW n \in Nat, NEW at \in New(n)
  PROVE  /\ at \in [0 .. n - 1 -> Addresses \ Made]
         /\ \A i, j \in 0 .. n - 1 : at[i] = at[j] => i = j
<1>1. at \in [0 .. n - 1 -> Addresses \ Made]
  BY DEF New
<1>2. ASSUME NEW j \in 0 .. n - 1, NEW i \in 0 .. j - 1
      PROVE  at[i] # at[j]
  <2> DEFINE given == {at[k] : k \in 0 .. j - 1}
             free == (Addresses \ Made) \ given
  <2>1. at[j] \in Offered(free, Pointed)
    BY DEF New, OfferedNow
  <2>2. free \in SUBSET Addresses /\ Pointed \in SUBSET Addresses
    BY DEF Pointed
  <2>3. Offered(free, Pointed) \subseteq free
    <3> HIDE DEF free
    <3> QED BY <2>2 DEF Sized
  <2>4. at[i] \in given
    OBVIOUS
  <2> HIDE DEF given
  <2> QED BY <2>1, <2>3, <2>4
<1>3. ASSUME NEW i \in 0 .. n - 1, NEW j \in 0 .. n - 1, at[i] = at[j], i # j
      PROVE  FALSE
  <2>1. i \in 0 .. j - 1 \/ j \in 0 .. i - 1
    BY <1>3
  <2> QED BY <1>2, <1>3, <2>1
<1> QED BY <1>1, <1>3

LEMMA Placing ==
  ASSUME Sized, TableTypes, NEW n \in Nat, NEW at \in New(n),
         NEW values \in [0 .. n - 1 -> FileHandles \ {Nothing}],
         handle' = Placed(at, values)
  PROVE  /\ handle' \in [Addresses -> FileHandles]
         /\ \A i \in 0 .. n - 1 : handle'[at[i]] = values[i]
         /\ \A a \in Made : handle'[a] = handle[a]
         /\ \A a \in Addresses : a \in Made' <=> a \in Made \/ \E i \in 0 .. n - 1 : at[i] = a
<1>1. /\ at \in [0 .. n - 1 -> Addresses \ Made] /\ DOMAIN at = 0 .. n - 1
      /\ \A i, j \in 0 .. n - 1 : at[i] = at[j] => i = j
  BY NewOnes
<1>2. ASSUME NEW i \in 0 .. n - 1
      PROVE  handle'[at[i]] = values[i]
  <2> DEFINE c == CHOOSE j \in 0 .. n - 1 : at[j] = at[i]
  <2>1. c \in 0 .. n - 1 /\ at[c] = at[i]
    OBVIOUS
  <2>2. c = i
    <3> HIDE DEF c
    <3> QED BY <1>1, <2>1
  <2>3. handle'[at[i]] = values[c]
    BY <1>1 DEF Placed
  <2> QED BY <2>2, <2>3
<1>3. ASSUME NEW a \in Addresses, ~\E i \in 0 .. n - 1 : at[i] = a
      PROVE  handle'[a] = handle[a]
  BY <1>1, <1>3 DEF Placed
<1>4. ASSUME NEW a \in Addresses
      PROVE  handle'[a] \in FileHandles
  BY <1>1, <1>2, <1>3 DEF TableTypes
<1>5. handle' \in [Addresses -> FileHandles]
  BY <1>4 DEF Placed
<1>6. ASSUME NEW a \in Made
      PROVE  handle'[a] = handle[a]
  BY <1>1, <1>3 DEF Made
<1>7. ASSUME NEW a \in Addresses
      PROVE  a \in Made' <=> a \in Made \/ \E i \in 0 .. n - 1 : at[i] = a
  <2>1. CASE \E i \in 0 .. n - 1 : at[i] = a
    <3>1. PICK i \in 0 .. n - 1 : at[i] = a
      BY <2>1
    <3>2. handle'[a] # Nothing
      BY <1>2, <3>1
    <3> QED BY <2>1, <3>2 DEF Made, Nothing, FileHandle
  <2>2. CASE ~\E i \in 0 .. n - 1 : at[i] = a
    BY <1>3, <2>2 DEF Made, Nothing, FileHandle
  <2> QED BY <2>1, <2>2
<1> QED BY <1>2, <1>5, <1>6, <1>7

\* What fork and Process::Process place.
LEMMA PlacedInherited ==
  ASSUME TableTypes, NEW p \in Procs, NEW n \in Nat, \A fd \in 0 .. n - 1 : Good(p, fd)
  PROVE  [i \in 0 .. n - 1 |-> Inherited(p, i)] \in [0 .. n - 1 -> FileHandles \ {Nothing}]
<1>1. ASSUME NEW i \in 0 .. n - 1
      PROVE  Inherited(p, i) \in FileHandles \ {Nothing}
  <2>1. handle[m_file_handles[p][i]] \in FileHandles \ {Nothing}
    BY DEF Good, Made, TableTypes
  <2>2. Inherited(p, i) \in FileHandles
    BY <2>1 DEF Inherited, FileHandle, FileHandles, Node, Pos
  <2>3. Inherited(p, i) # Nothing
    BY <2>1 DEF Inherited, FileHandle, FileHandles, Node, Pos, Nothing
  <2> QED BY <2>2, <2>3
<1> QED BY <1>1

LEMMA PlacedStd ==
  [i \in 0 .. Std - 1 |-> StdHandle(i)] \in [0 .. Std - 1 -> FileHandles \ {Nothing}]
<1>1. ASSUME NEW i \in 0 .. Std - 1
      PROVE  StdHandle(i) \in FileHandles \ {Nothing}
  BY DEF StdHandle, FileHandle, FileHandles, Nothing
<1> QED BY <1>1

-----------------------------------------------------------------------------
(* The invariant *)

LEMMA InitTables ==
  ASSUME Sized, TablesInit
  PROVE  TablesInv
<1> DEFINE first == [i \in 0 .. Std - 1 |-> i + 1]
<1>1. /\ Std \in Nat /\ 1 .. Std \subseteq Addresses /\ Addresses \subseteq Nat \ {0}
      /\ \A fd \in Fds : fd \in Nat
  BY DEF Sized, Fds
<1>2. handle \in [Addresses -> FileHandles]
  BY <1>1 DEF TablesInit, StdHandle, FileHandle, FileHandles, Nothing
<1>3. \A fd \in Fds : TableOf(first)[fd] = IF fd < Std THEN fd + 1 ELSE Null
  BY <1>1 DEF TableOf
<1>4. TableOf(first) \in [Fds -> Addresses \cup {Null, Mixed}]
  <2>1. \A fd \in Fds : TableOf(first)[fd] \in Addresses \cup {Null, Mixed}
    BY <1>1, <1>3
  <2> QED BY <2>1 DEF TableOf
<1>5. /\ m_file_handle_counter[Root] = Std /\ m_file_handles[Root] = TableOf(first)
      /\ \A p \in Procs \ {Root} : /\ m_file_handle_counter[p] = 0
                                   /\ \A fd \in Fds : m_file_handles[p][fd] = Null
  BY DEF TablesInit, Sized
<1>6. TableTypes
  BY <1>1, <1>2, <1>4 DEF TablesInit, TableTypes
<1>7. EmptyBeyond
  <2>1. ASSUME NEW p \in Procs, p = Root
        PROVE  /\ \A fd \in Fds : fd >= m_file_handle_counter[p] => m_file_handles[p][fd] = Null
               /\ Started(p) => m_file_handle_counter[p] >= Std
    BY <1>1, <1>3, <1>5, <2>1
  <2>2. ASSUME NEW p \in Procs, p # Root
        PROVE  /\ \A fd \in Fds : fd >= m_file_handle_counter[p] => m_file_handles[p][fd] = Null
               /\ Started(p) => m_file_handle_counter[p] >= Std
    BY <1>5, <2>2 DEF Started
  <2> QED BY <2>1, <2>2 DEF EmptyBeyond
<1>8. DanglingAreStale
  <2> SUFFICES ASSUME NEW p \in Procs, NEW fd \in Fds, m_file_handles[p][fd] \in Addresses
               PROVE  m_file_handles[p][fd] \in Made
    BY DEF DanglingAreStale
  <2>1. p = Root /\ m_file_handles[p][fd] \in 1 .. Std
    BY <1>1, <1>3, <1>5 DEF Null
  <2> QED BY <1>1, <2>1 DEF TablesInit, Made, StdHandle, FileHandle, Nothing
<1>9. HandlesApart
  <2> SUFFICES ASSUME NEW p \in Procs, NEW q \in Procs, NEW fd \in Fds, NEW other \in Fds,
                      m_file_handles[p][fd] = m_file_handles[q][other],
                      m_file_handles[p][fd] \in Made
               PROVE  p = q /\ fd = other
    BY DEF HandlesApart
  <2>1. m_file_handles[p][fd] # Null
    BY <1>1 DEF Made, Null
  <2>2. p = Root /\ q = Root
    BY <1>5, <2>1
  <2> QED BY <1>1, <1>3, <1>5, <2>1, <2>2
<1> QED BY <1>6, <1>7, <1>8, <1>9 DEF TablesInv

\* Steps that change neither the tables nor at which addresses there are handles.
LEMMA SameTables ==
  ASSUME TablesInv, UNCHANGED <<m_file_handles, m_file_handle_counter, stale>>,
         handle' \in [Addresses -> FileHandles], Made' = Made, size' \in [Nodes -> Int]
  PROVE  TablesInv'
<1>1. TableTypes' /\ EmptyBeyond'
  BY DEF TablesInv, TableTypes, EmptyBeyond, Started
<1>2. DanglingAreStale'
  BY DEF TablesInv, DanglingAreStale
<1>3. HandlesApart'
  <2>1. HandlesApart
    BY DEF TablesInv
  <2> HIDE DEF Made
  <2> QED BY <2>1 DEF HandlesApart
<1> QED BY <1>1, <1>2, <1>3 DEF TablesInv

\* A position is stored in the handle of a file.
LEMMA SetPosType ==
  ASSUME Sized, TableTypes, NEW p \in Procs, NEW fd, Good(p, fd), Node(p, fd) \in Nodes,
         NEW pos \in Int, SetPos(p, fd, pos)
  PROVE  handle' \in [Addresses -> FileHandles] /\ Made' = Made
<1> DEFINE h == m_file_handles[p][fd]
           e == [handle[h] EXCEPT !.pos = pos % Word]
<1>1. h \in Addresses /\ handle[h] \in FileHandles /\ handle[h].node \in Nodes
  BY DEF Good, Made, TableTypes, Node
<1>2. pos % Word \in Int
  BY DEF Sized
<1>3. e \in FileHandles /\ e.node = handle[h].node
  BY <1>1, <1>2 DEF FileHandles
<1>4. handle' = [handle EXCEPT ![h] = e]
  BY DEF SetPos
<1> HIDE DEF h, e
<1>5. handle' \in [Addresses -> FileHandles]
  BY <1>1, <1>3, <1>4 DEF TableTypes
<1>6. ASSUME NEW a \in Addresses
      PROVE  handle'[a] = Nothing <=> handle[a] = Nothing
  <2>1. CASE a # h
    BY <1>4, <2>1 DEF TableTypes
  <2>2. CASE a = h
    <3>1. handle'[a] = e /\ Nothing.node = Tty /\ Tty \notin Nodes
      BY <1>1, <1>4, <2>2 DEF TableTypes, Nothing, FileHandle, Sized
    <3> QED BY <1>1, <1>3, <2>2, <3>1
  <2> QED BY <2>1, <2>2
<1>7. Made' = Made
  BY <1>6 DEF Made, Nothing, FileHandle
<1> QED BY <1>5, <1>7

\* Where a call may look a position and a node up, they are of their types.
LEMMA PosType ==
  ASSUME TableTypes, NEW p \in Procs, NEW fd, Good(p, fd)
  PROVE  Pos(p, fd) \in Int /\ Node(p, fd) \in Nodes \cup {Tty}
BY DEF Good, Made, TableTypes, Pos, Node, FileHandles

\* A table takes a pointer of table from where it is low, and else has none or one to a
\* handle that is made for it.
Inherits(from, at, n, fd, h) ==
  \/ h \in {Null, Mixed}
  \/ h = from[fd] /\ Reached(fd, n)
  \/ fd \in DOMAIN at /\ h = at[fd]

LEMMA ApartSays ==
  ASSUME HandlesApart, NEW p \in Procs, NEW q \in Procs, NEW fd \in Fds, NEW other \in Fds,
         p # q \/ fd # other, m_file_handles[p][fd] \in Made,
         <<p, fd>> \notin stale, <<q, other>> \notin stale,
         m_file_handles[p][fd] = m_file_handles[q][other]
  PROVE  /\ p # q /\ fd = other
         /\ Reached(fd, m_file_handle_counter[p]) /\ Reached(fd, m_file_handle_counter[q])
<1>1. <<p, fd>> # <<q, other>>
  OBVIOUS
<1> QED BY <1>1, Zenon DEF HandlesApart

\* To be at the same FileHandle says as much of the next state.
LEMMA ApartNext ==
  ASSUME \A r, t \in Procs, x, other \in Fds :
           /\ m_file_handles'[r][x] = m_file_handles'[t][other] /\ (r # t \/ x # other)
           /\ m_file_handles'[r][x] \in Made'
           /\ <<r, x>> \notin stale' /\ <<t, other>> \notin stale'
           => /\ r # t /\ x = other
              /\ Reached(x, m_file_handle_counter'[r]) /\ Reached(x, m_file_handle_counter'[t])
  PROVE  HandlesApart'
<1> HIDE DEF Made, Reached
<1>1. \A r, t \in Procs, x, other \in Fds : <<r, x>> # <<t, other>> => r # t \/ x # other
  OBVIOUS
<1> QED BY <1>1 DEF HandlesApart, Made, Nothing, FileHandle, Reached, Fds

\* A step that gives q a new table, whose pointers are inherited from p's or lead to the
\* handles that are placed at these addresses.
Inheriting(p, q, n, k, at, values, table) ==
  /\ Started(p) /\ n \in Nat /\ n = m_file_handle_counter[p] /\ k \in Nat /\ at \in New(k)
  /\ values \in [0 .. k - 1 -> FileHandles \ {Nothing}]
  /\ handle' = Placed(at, values)
  /\ table \in [Fds -> Addresses \cup {Null, Mixed}]
  /\ \A fd \in Fds : Inherits(m_file_handles[p], at, n, fd, table[fd])
  /\ \A fd \in Fds : fd >= n => table[fd] = Null
  /\ m_file_handles' = [m_file_handles EXCEPT ![q] = table]
  /\ m_file_handle_counter' = [m_file_handle_counter EXCEPT ![q] = n]
  /\ stale' = StaleAfter(p, q, n)
  /\ UNCHANGED size

LEMMA InheritingKeeps ==
  ASSUME Sized, TablesInv, NEW p \in Procs, NEW q \in Procs,
         NEW n, NEW k, NEW at, NEW values, NEW table, Inheriting(p, q, n, k, at, values, table)
  PROVE  TablesInv'
<1> USE DEF Inheriting
<1>a. /\ at \in [0 .. k - 1 -> Addresses \ Made] /\ DOMAIN at = 0 .. k - 1
      /\ \A i, j \in 0 .. k - 1 : at[i] = at[j] => i = j
  BY NewOnes
<1>b. /\ handle' \in [Addresses -> FileHandles]
      /\ \A a \in Addresses : a \in Made' <=> a \in Made \/ \E i \in 0 .. k - 1 : at[i] = a
  BY Placing DEF TablesInv
<1>c. /\ m_file_handles \in [Procs -> [Fds -> Addresses \cup {Null, Mixed}]]
      /\ m_file_handle_counter \in [Procs -> Nat]
      /\ Null \notin Addresses /\ Mixed \notin Addresses
      /\ HandlesApart /\ DanglingAreStale /\ Made \subseteq Addresses /\ Made' \subseteq Addresses
  BY DEF TablesInv, TableTypes, Sized, Null, Mixed, Made
<1>d. /\ m_file_handles'[q] = table /\ m_file_handle_counter'[q] = n
      /\ \A x \in Procs : x # q => /\ m_file_handles'[x] = m_file_handles[x]
                                   /\ m_file_handle_counter'[x] = m_file_handle_counter[x]
  BY <1>c
<1>1. TableTypes'
  BY <1>b, <1>c DEF TablesInv, TableTypes
<1>2. EmptyBeyond'
  BY <1>c, <1>d DEF TablesInv, EmptyBeyond, Started
<1> DEFINE Fresh(fd) == fd \in 0 .. k - 1 /\ table[fd] = at[fd]
           Copied(fd) == table[fd] = m_file_handles[p][fd] /\ Reached(fd, n)
<1>3. ASSUME NEW fd \in Fds, table[fd] \in Addresses
      PROVE  Fresh(fd) \/ Copied(fd)
  BY <1>3, <1>a, <1>c DEF Inherits
<1>4. ASSUME NEW fd \in Fds, <<q, fd>> \notin stale', Copied(fd)
      PROVE  <<p, fd>> \notin stale
  BY <1>4 DEF StaleAfter
<1>5. ASSUME NEW r \in Procs, r # q, NEW fd \in Fds, <<r, fd>> \notin stale'
      PROVE  <<r, fd>> \notin stale
  BY <1>5 DEF StaleAfter
<1>6. ASSUME NEW r \in Procs, NEW fd \in Fds, NEW a, m_file_handles[r][fd] = a,
             <<r, fd>> \notin stale, a \in Addresses
      PROVE  a \in Made
  BY <1>c, <1>6 DEF DanglingAreStale
<1>7. DanglingAreStale'
  <2> HIDE DEF Fresh, Copied
  <2> SUFFICES ASSUME NEW r \in Procs, NEW fd \in Fds, NEW a, m_file_handles'[r][fd] = a,
                      a \in Addresses, <<r, fd>> \notin stale'
               PROVE  a \in Made'
    BY DEF DanglingAreStale, Made, Nothing, FileHandle
  <2>1. CASE r # q
    BY <1>5, <1>6, <1>b, <1>d, <2>1
  <2>2. CASE r = q
    <3>1. CASE Fresh(fd)
      BY <1>b, <1>d, <2>2, <3>1 DEF Fresh
    <3>2. CASE Copied(fd)
      <4>1. <<p, fd>> \notin stale
        BY <1>4, <2>2, <3>2
      <4>2. m_file_handles[p][fd] = a
        BY <1>d, <2>2, <3>2 DEF Copied
      <4> QED BY <1>6, <1>b, <4>1, <4>2
    <3> QED BY <1>3, <1>d, <2>2, <3>1, <3>2
  <2> QED BY <2>1, <2>2
<1>8. ASSUME NEW fd \in Fds, NEW other \in Fds, fd # other, NEW a \in Addresses,
             table[fd] = a, table[other] = a,
             <<q, fd>> \notin stale', <<q, other>> \notin stale'
      PROVE  FALSE
  <2>1. CASE Fresh(fd) /\ Fresh(other)
    BY <1>8, <1>a, <2>1
  <2>2. ASSUME NEW x \in Fds, NEW y \in Fds, table[x] = a, table[y] = a,
               <<q, y>> \notin stale', Fresh(x), Copied(y)
        PROVE  FALSE
    <3>1. a \notin Made
      BY <1>a, <2>2
    <3>2. <<p, y>> \notin stale /\ m_file_handles[p][y] = a
      BY <1>4, <2>2
    <3> HIDE DEF Fresh, Copied
    <3> QED BY <1>6, <3>1, <3>2
  <2>3. CASE Copied(fd) /\ Copied(other)
    <3>1. /\ <<p, fd>> \notin stale /\ m_file_handles[p][fd] = a
          /\ <<p, other>> \notin stale /\ m_file_handles[p][other] = a
      BY <1>4, <1>8, <2>3
    <3> HIDE DEF Fresh, Copied
    <3>2. a \in Made
      BY <1>6, <3>1
    <3> QED BY <1>8, <1>c, <3>1, <3>2, ApartSays
  <2>4. (Fresh(fd) \/ Copied(fd)) /\ (Fresh(other) \/ Copied(other))
    BY <1>3, <1>8
  <2> HIDE DEF Fresh, Copied
  <2> QED BY <1>8, <2>1, <2>2, <2>3, <2>4
<1>9. ASSUME NEW fd \in Fds, NEW r \in Procs, r # q, NEW other \in Fds, NEW a \in Addresses,
             table[fd] = a, m_file_handles[r][other] = a,
             <<q, fd>> \notin stale', <<r, other>> \notin stale'
      PROVE  /\ fd = other
             /\ Reached(fd, n) /\ Reached(fd, m_file_handle_counter[r])
  <2>1. a \in Made /\ <<r, other>> \notin stale
    <3> HIDE DEF Fresh, Copied
    <3> QED BY <1>5, <1>6, <1>9
  <2>2. ~Fresh(fd)
    BY <1>9, <1>a, <2>1
  <2>3. Copied(fd)
    <3> HIDE DEF Fresh, Copied
    <3> QED BY <1>3, <1>9, <2>2
  <2>4. <<p, fd>> \notin stale /\ m_file_handles[p][fd] = a /\ Reached(fd, n)
    BY <1>4, <1>9, <2>3
  <2> HIDE DEF Fresh, Copied
  <2>5. CASE r = p
    <3>1. fd = other
      BY <1>9, <1>c, <2>1, <2>4, <2>5, ApartSays
    <3> QED BY <2>4, <2>5, <3>1
  <2>6. CASE r # p
    BY <1>9, <1>c, <2>1, <2>4, <2>6, ApartSays
  <2> QED BY <2>5, <2>6
<1>10. HandlesApart'
  <2> HIDE DEF Fresh, Copied
  <2>1. ASSUME NEW r \in Procs, NEW t \in Procs, NEW x \in Fds, NEW other \in Fds,
               m_file_handles'[r][x] = m_file_handles'[t][other], r # t \/ x # other,
               m_file_handles'[r][x] \in Made',
               <<r, x>> \notin stale', <<t, other>> \notin stale'
        PROVE  /\ r # t /\ x = other
               /\ Reached(x, m_file_handle_counter'[r]) /\ Reached(x, m_file_handle_counter'[t])
    <3> DEFINE a == m_file_handles'[r][x]
    <3>0. a \in Addresses /\ a = m_file_handles'[t][other]
      BY <1>c, <2>1
    <3> HIDE DEF a
    <3>1. CASE r = q /\ t = q
      BY <1>8, <1>d, <2>1, <3>0, <3>1 DEF a
    <3>2. CASE r = q /\ t # q
      <4>1. x = other /\ Reached(x, n) /\ Reached(x, m_file_handle_counter[t])
        BY <1>9, <1>d, <2>1, <3>0, <3>2 DEF a
      <4> QED BY <1>d, <3>2, <4>1
    <3>3. CASE r # q /\ t = q
      <4>1. other = x /\ Reached(other, n) /\ Reached(other, m_file_handle_counter[r])
        BY <1>9, <1>d, <2>1, <3>0, <3>3 DEF a
      <4> QED BY <1>d, <3>3, <4>1
    <3>4. CASE r # q /\ t # q
      <4>1. /\ <<r, x>> \notin stale /\ <<t, other>> \notin stale
            /\ m_file_handles[r][x] = a /\ m_file_handles[t][other] = a
        BY <1>5, <1>d, <2>1, <3>0, <3>4 DEF a
      <4>2. a \in Made
        BY <1>6, <3>0, <4>1
      <4> QED BY <1>c, <1>d, <2>1, <3>4, <4>1, <4>2, ApartSays
    <3> QED BY <3>1, <3>2, <3>3, <3>4
  <2> QED BY <2>1, ApartNext
<1> QED BY <1>1, <1>2, <1>7, <1>10 DEF TablesInv

\* copy_handles over a table of handles that are made for it.
LEMMA CopyInherits ==
  ASSUME Sized, TablesInv, NEW p \in Procs, NEW n \in Nat, n = m_file_handle_counter[p],
         NEW k \in Nat, k <= n, NEW at \in [0 .. k - 1 -> Addresses],
         NEW table \in copy_handles(TableOf(at), m_file_handles[p], n)
  PROVE  /\ table \in [Fds -> Addresses \cup {Null, Mixed}]
         /\ \A fd \in Fds : Inherits(m_file_handles[p], at, n, fd, table[fd])
         /\ \A fd \in Fds : fd >= n => table[fd] = Null
         /\ \A fd \in Fds : table[fd] \in {Mixed, m_file_handles[p][fd], TableOf(at)[fd]}
<1> DEFINE from == m_file_handles[p]
           to == TableOf(at)
<1>a. from \in [Fds -> Addresses \cup {Null, Mixed}] /\ to \in [Fds -> Addresses \cup {Null}]
  BY DEF TablesInv, TableTypes, TableOf
<1>1. PICK mixed \in [MixedFds(n) -> {Mixed} \cup Pointers(to) \cup Pointers(from)] :
        /\ \A fd \in MixedFds(n) : mixed[fd] \in {Mixed, from[fd], to[fd]}
        /\ table = [fd \in Fds |-> IF fd \in CopiedFds(n) THEN from[fd]
                                   ELSE IF fd \in MixedFds(n) THEN mixed[fd] ELSE to[fd]]
  BY DEF copy_handles
<1>2. ASSUME NEW fd \in Fds
      PROVE  table[fd] = to[fd] \/ (table[fd] \in {Mixed, from[fd]} /\ Reached(fd, n))
  <2>0. table[fd] = IF fd \in CopiedFds(n) THEN from[fd]
                    ELSE IF fd \in MixedFds(n) THEN mixed[fd] ELSE to[fd]
    BY <1>1
  <2> HIDE DEF from, to
  <2>1. CASE fd \in CopiedFds(n)
    <3>1. PtrBytes * fd + Distinct <= n /\ fd \in Nat
      BY <2>1 DEF CopiedFds, Fds, Sized
    <3>2. PICK b \in Nat : b = PtrBytes * fd
      BY <3>1 DEF Sized
    <3>3. Reached(fd, n)
      BY <3>1, <3>2 DEF Reached, Sized
    <3> QED BY <2>0, <2>1, <3>3
  <2>2. CASE fd \in MixedFds(n) /\ fd \notin CopiedFds(n)
    <3>1. Reached(fd, n)
      BY <2>2 DEF MixedFds
    <3>2. table[fd] \in {Mixed, from[fd], to[fd]}
      BY <1>1, <2>0, <2>2
    <3> QED BY <3>1, <3>2
  <2>3. CASE fd \notin MixedFds(n) /\ fd \notin CopiedFds(n)
    BY <2>0, <2>3
  <2> QED BY <2>1, <2>2, <2>3
<1>3. table \in [Fds -> Addresses \cup {Null, Mixed}]
  <2>1. \A fd \in Fds : table[fd] \in Addresses \cup {Null, Mixed}
    BY <1>2, <1>a
  <2>2. table = [fd \in Fds |-> table[fd]]
    BY <1>1
  <2> QED BY <2>1, <2>2
<1>4. ASSUME NEW fd \in Fds, Reached(fd, n)
      PROVE  fd < n
  <2>1. fd \in Nat /\ PtrBytes \in Nat /\ PtrBytes >= 1 /\ PtrBytes * fd < n
    BY <1>4 DEF Fds, Sized, Reached
  <2>2. PtrBytes * fd = (PtrBytes - 1) * fd + fd /\ (PtrBytes - 1) * fd >= 0
    BY <2>1
  <2> QED BY <2>1, <2>2
<1>5. ASSUME NEW fd \in Fds
      PROVE  /\ to[fd] = Null \/ (fd \in DOMAIN at /\ to[fd] = at[fd])
             /\ fd >= n => to[fd] = Null
  <2>1. to[fd] = IF fd \in DOMAIN at THEN at[fd] ELSE Null
    BY DEF TableOf
  <2>2. fd >= n => fd \notin DOMAIN at
    BY DEF Fds
  <2> QED BY <2>1, <2>2
<1>6. ASSUME NEW fd \in Fds
      PROVE  Inherits(from, at, n, fd, table[fd])
  BY <1>2, <1>5 DEF Inherits
<1>7. ASSUME NEW fd \in Fds, fd >= n
      PROVE  table[fd] = Null
  <2>1. from[fd] = Null /\ to[fd] = Null /\ fd \in Int
    BY <1>5, <1>7 DEF TablesInv, EmptyBeyond, Fds
  <2>2. ~Reached(fd, n)
    BY <1>4, <1>7, <2>1
  <2> QED BY <1>2, <2>1, <2>2
<1> QED BY <1>2, <1>3, <1>6, <1>7

-----------------------------------------------------------------------------
(* One lemma for each kind of step *)

LEMMA FaultKeeps ==
  ASSUME Sized, TablesInv, NEW p \in Procs, Fault(p)
  PROVE  TablesInv'
<1>1. UNCHANGED <<m_file_handles, m_file_handle_counter, handle, size, stale>>
  BY DEF Fault
<1>2. Made' = Made /\ handle' \in [Addresses -> FileHandles] /\ size' \in [Nodes -> Int]
  BY <1>1 DEF TablesInv, TableTypes, Made, Nothing, FileHandle
<1> QED BY <1>1, <1>2, SameTables

LEMMA PositionSteps ==
  ASSUME Sized, TablesInv, NEW p \in Procs, NEW fd,
         NEW offset \in Int, NEW whence \in {"set", "cur", "end"},
         \/ sys_read(p, fd, 1) \/ sys_write(p, fd, 1) \/ sys_lseek(p, fd, offset, whence)
  PROVE  TablesInv'
<1>1. Good(p, fd) /\ Node(p, fd) \in Nodes /\ TableTypes
  BY DEF sys_read, sys_write, sys_lseek, TablesInv
<1>2. ASSUME NEW pos \in Int, SetPos(p, fd, pos), size' \in [Nodes -> Int],
             UNCHANGED <<m_file_handles, m_file_handle_counter, stale>>
      PROVE  TablesInv'
  BY <1>1, <1>2, SetPosType, SameTables
<1>3. /\ Pos(p, fd) + 1 \in Int /\ Pos(p, fd) - 1 \in Int /\ Pos(p, fd) + offset \in Int
      /\ size \in [Nodes -> Int] /\ size[Node(p, fd)] \in Int
  BY <1>1, PosType DEF TableTypes
<1>4. CASE sys_read(p, fd, 1)
  <2>1. /\ SetPos(p, fd, Pos(p, fd) + 1)
        /\ UNCHANGED <<m_file_handles, m_file_handle_counter, size, stale>>
    BY <1>4 DEF sys_read
  <2> QED BY <1>2, <1>3, <2>1
<1>5. CASE sys_write(p, fd, 1)
  <2> DEFINE f == Node(p, fd)
  <2>1. UNCHANGED <<m_file_handles, m_file_handle_counter, stale>>
    BY <1>5 DEF sys_write
  <2>2. CASE SetPos(p, fd, Pos(p, fd) + 1) /\ size' = [size EXCEPT ![f] = (@ + 1) % Word]
    <3>1. (size[f] + 1) % Word \in Int
      BY <1>3 DEF Sized
    <3>2. size' \in [Nodes -> Int]
      <4> HIDE DEF f
      <4> QED BY <1>3, <2>2, <3>1
    <3> QED BY <1>2, <1>3, <2>1, <2>2, <3>2
  <2>3. CASE SetPos(p, fd, Pos(p, fd) - 1) /\ UNCHANGED size
    BY <1>2, <1>3, <2>1, <2>3
  <2> QED BY <1>5, <2>2, <2>3 DEF sys_write
<1>6. CASE sys_lseek(p, fd, offset, whence)
  <2> DEFINE pos == CASE whence = "set" -> IF offset > 0 THEN offset ELSE 0
                      [] whence = "cur" -> Pos(p, fd) + offset
                      [] whence = "end" -> size[Node(p, fd)]
  <2>1. /\ SetPos(p, fd, pos)
        /\ UNCHANGED <<m_file_handles, m_file_handle_counter, size, stale>>
    BY <1>6 DEF sys_lseek
  <2>2. pos \in Int
    BY <1>3
  <2> HIDE DEF pos
  <2> QED BY <1>2, <1>3, <2>1, <2>2
<1> QED BY <1>4, <1>5, <1>6

LEMMA CloseStep ==
  ASSUME Sized, TablesInv, NEW p \in Procs, NEW fd, sys_close(p, fd)
  PROVE  TablesInv'
<1> DEFINE a == m_file_handles[p][fd]
<1>1. /\ m_file_handles' = [m_file_handles EXCEPT ![p][fd] = Null]
      /\ handle' = [handle EXCEPT ![a] = Nothing]
      /\ stale' = (stale \cup PointingTo(a)) \ {<<p, fd>>}
      /\ UNCHANGED <<m_file_handle_counter, size>>
      /\ Good(p, fd)
  BY DEF sys_close
<1>2. /\ m_file_handles \in [Procs -> [Fds -> Addresses \cup {Null, Mixed}]]
      /\ handle \in [Addresses -> FileHandles] /\ size \in [Nodes -> Int]
      /\ m_file_handle_counter \in [Procs -> Nat]
      /\ Null \notin Addresses /\ fd \in Fds /\ a \in Made
  BY <1>1 DEF TablesInv, TableTypes, Sized, Null, Good
<1>3. /\ \A r \in Procs, x \in Fds : m_file_handles'[r][x] \in {m_file_handles[r][x], Null}
      /\ m_file_handles'[p][fd] = Null
      /\ m_file_handles' \in [Procs -> [Fds -> Addresses \cup {Null, Mixed}]]
  <2> DEFINE row == [m_file_handles[p] EXCEPT ![fd] = Null]
  <2>1. /\ row \in [Fds -> Addresses \cup {Null, Mixed}] /\ row[fd] = Null
        /\ \A x \in Fds : row[x] \in {m_file_handles[p][x], Null}
    BY <1>2
  <2>2. m_file_handles' = [m_file_handles EXCEPT ![p] = row]
    BY <1>1
  <2> HIDE DEF row
  <2> QED BY <1>2, <2>1, <2>2
<1>4. /\ handle' \in [Addresses -> FileHandles]
      /\ Made' = Made \ {a}
  <2>1. Nothing \in FileHandles
    BY DEF Nothing, FileHandle, FileHandles
  <2> HIDE DEF a
  <2> QED BY <1>1, <1>2, <2>1 DEF Made, Nothing, FileHandle
<1>5. TableTypes' /\ EmptyBeyond'
  BY <1>1, <1>2, <1>3, <1>4 DEF TablesInv, TableTypes, EmptyBeyond, Started
<1>6. ASSUME NEW r \in Procs, NEW x \in Fds, NEW b \in Addresses, m_file_handles'[r][x] = b,
             <<r, x>> \notin stale'
      PROVE  m_file_handles[r][x] = b /\ <<r, x>> \notin stale /\ b # a
  <2>1. m_file_handles[r][x] = b /\ <<r, x>> # <<p, fd>>
    BY <1>2, <1>3, <1>6
  <2>2. <<r, x>> \notin stale /\ <<r, x>> \notin PointingTo(a)
    BY <1>1, <1>6, <2>1
  <2> QED BY <2>1, <2>2 DEF PointingTo
<1>7. DanglingAreStale'
  <2> SUFFICES ASSUME NEW r \in Procs, NEW x \in Fds, NEW b \in Addresses,
                      m_file_handles'[r][x] = b, <<r, x>> \notin stale'
               PROVE  b \in Made'
    BY DEF DanglingAreStale, Made, Nothing, FileHandle
  <2> QED BY <1>4, <1>6 DEF TablesInv, DanglingAreStale
<1>8. HandlesApart'
  <2>1. ASSUME NEW r \in Procs, NEW t \in Procs, NEW x \in Fds, NEW other \in Fds,
               m_file_handles'[r][x] = m_file_handles'[t][other], r # t \/ x # other,
               m_file_handles'[r][x] \in Made',
               <<r, x>> \notin stale', <<t, other>> \notin stale'
        PROVE  /\ r # t /\ x = other
               /\ Reached(x, m_file_handle_counter'[r]) /\ Reached(x, m_file_handle_counter'[t])
    <3> DEFINE b == m_file_handles'[r][x]
    <3>0. b \in Addresses /\ b = m_file_handles'[t][other] /\ b \in Made
      BY <1>4, <2>1 DEF Made
    <3> HIDE DEF b
    <3>1. /\ m_file_handles[r][x] = b /\ <<r, x>> \notin stale
          /\ m_file_handles[t][other] = b /\ <<t, other>> \notin stale
      BY <1>6, <2>1, <3>0 DEF b
    <3> QED BY <1>1, <2>1, <3>0, <3>1, ApartSays DEF TablesInv
  <2> QED BY <2>1, ApartNext
<1> QED BY <1>5, <1>7, <1>8 DEF TablesInv

\* What fork does to handles and tables.
LEMMA ForkDoes ==
  ASSUME TablesInv, NEW p \in Procs, NEW q \in Procs, fork(p, q),
         NEW n, n = m_file_handle_counter[p]
  PROVE  /\ n \in Nat /\ \A fd \in 0 .. n - 1 : Good(p, fd)
         /\ \E at \in New(n) : \E table \in copy_handles(TableOf(at), m_file_handles[p], n) :
              /\ m_file_handles' = [m_file_handles EXCEPT ![q] = table]
              /\ [i \in 0 .. n - 1 |-> Inherited(p, i)] \in [0 .. n - 1 -> FileHandles \ {Nothing}]
              /\ handle' = Placed(at, [i \in 0 .. n - 1 |-> Inherited(p, i)])
<1>1. n \in Nat /\ TableTypes
  BY DEF TablesInv, TableTypes
<1>2. \A fd \in 0 .. n - 1 : Good(p, fd)
  BY DEF fork
<1>3. PICK at \in New(n) :
        /\ handle' = Placed(at, [i \in 0 .. n - 1 |-> Inherited(p, i)])
        /\ \E table \in copy_handles(TableOf(at), m_file_handles[p], n) :
             m_file_handles' = [m_file_handles EXCEPT ![q] = table]
  BY DEF fork
<1>4. [i \in 0 .. n - 1 |-> Inherited(p, i)] \in [0 .. n - 1 -> FileHandles \ {Nothing}]
  BY <1>1, <1>2, PlacedInherited
<1> QED BY <1>1, <1>2, <1>3, <1>4

LEMMA ForkInvStep ==
  ASSUME Sized, TablesInv, NEW p \in Procs, NEW q \in Procs, fork(p, q)
  PROVE  TablesInv'
<1> DEFINE n == m_file_handle_counter[p]
           values == [i \in 0 .. n - 1 |-> Inherited(p, i)]
<1>1. n \in Nat /\ n <= n
  BY DEF TablesInv, TableTypes
<1>10. PICK at \in New(n) : \E table \in copy_handles(TableOf(at), m_file_handles[p], n) :
        /\ m_file_handles' = [m_file_handles EXCEPT ![q] = table]
        /\ values \in [0 .. n - 1 -> FileHandles \ {Nothing}]
        /\ handle' = Placed(at, values)
  BY ForkDoes
<1>2. PICK table \in copy_handles(TableOf(at), m_file_handles[p], n) :
        /\ m_file_handles' = [m_file_handles EXCEPT ![q] = table]
        /\ values \in [0 .. n - 1 -> FileHandles \ {Nothing}]
        /\ handle' = Placed(at, values)
  BY <1>10
<1> HIDE DEF values
<1>3. at \in [0 .. n - 1 -> Addresses]
  BY <1>2 DEF New
<1>4. /\ m_file_handle_counter' = [m_file_handle_counter EXCEPT ![q] = n]
      /\ stale' = StaleAfter(p, q, n) /\ UNCHANGED size /\ Started(p)
  BY DEF fork
<1>5. /\ table \in [Fds -> Addresses \cup {Null, Mixed}]
      /\ \A fd \in Fds : Inherits(m_file_handles[p], at, n, fd, table[fd])
      /\ \A fd \in Fds : fd >= n => table[fd] = Null
  <2> HIDE DEF n
  <2> QED BY <1>1, <1>2, <1>3, CopyInherits DEF n
<1>6. n = m_file_handle_counter[p]
  OBVIOUS
<1> HIDE DEF n
<1>7. Inheriting(p, q, n, n, at, values, table)
  BY <1>1, <1>2, <1>4, <1>5, <1>6 DEF Inheriting
<1> QED BY <1>7, InheritingKeeps

LEMMA ReplaceStep ==
  ASSUME Sized, TablesInv, NEW p \in Procs, NEW q \in Procs, Replace(p, q)
  PROVE  TablesInv'
<1> DEFINE n == m_file_handle_counter[p]
           values == [i \in 0 .. Std - 1 |-> StdHandle(i)]
<1>1. /\ m_file_handle_counter' = [m_file_handle_counter EXCEPT ![q] = n]
      /\ stale' = StaleAfter(p, q, n) /\ UNCHANGED size /\ Started(p)
  BY DEF Replace
<1>2. n \in Nat /\ Std \in Nat /\ Std <= n
  BY <1>1 DEF TablesInv, TableTypes, EmptyBeyond, Sized
<1>3. PICK at \in New(Std) :
        /\ handle' = Placed(at, values)
        /\ \E table \in copy_handles(TableOf(at), m_file_handles[p], n) :
             m_file_handles' = [m_file_handles EXCEPT ![q] = table]
  BY DEF Replace
<1>4. PICK table \in copy_handles(TableOf(at), m_file_handles[p], n) :
        m_file_handles' = [m_file_handles EXCEPT ![q] = table]
  BY <1>3
<1>5. at \in [0 .. Std - 1 -> Addresses]
  BY <1>3 DEF New
<1>6. values \in [0 .. Std - 1 -> FileHandles \ {Nothing}] /\ handle' = Placed(at, values)
  BY <1>3, PlacedStd
<1> HIDE DEF values
<1>7. /\ table \in [Fds -> Addresses \cup {Null, Mixed}]
      /\ \A fd \in Fds : Inherits(m_file_handles[p], at, n, fd, table[fd])
      /\ \A fd \in Fds : fd >= n => table[fd] = Null
  <2> HIDE DEF n
  <2> QED BY <1>2, <1>4, <1>5, CopyInherits DEF n
<1>8. n = m_file_handle_counter[p]
  OBVIOUS
<1> HIDE DEF n
<1>9. Inheriting(p, q, n, Std, at, values, table)
  BY <1>1, <1>2, <1>3, <1>4, <1>6, <1>7, <1>8 DEF Inheriting
<1> QED BY <1>9, InheritingKeeps

\* push_handle finds no open descriptor's place: beyond the counter all are closed.
LEMMA FreeSlotIsFree ==
  ASSUME Sized, TablesInv, NEW p \in Procs,
         ~ (m_file_handle_counter[p] >= FdLim /\ \A fd \in Fds : m_file_handles[p][fd] # Null)
  PROVE  FreeSlot(p) \in Fds /\ m_file_handles[p][FreeSlot(p)] = Null
<1> DEFINE n == m_file_handle_counter[p]
           First(fd) == /\ m_file_handles[p][fd] = Null
                        /\ \A x \in 0 .. fd - 1 : m_file_handles[p][x] # Null
<1>1. n \in Nat /\ FdLim \in Nat
  BY DEF TablesInv, TableTypes, Sized
<1>2. CASE n < FdLim
  <2>1. FreeSlot(p) = n /\ n \in Fds
    BY <1>1, <1>2 DEF FreeSlot, Fds
  <2> QED BY <1>1, <2>1 DEF TablesInv, EmptyBeyond
<1>3. CASE ~(n < FdLim)
  <2> DEFINE S == {fd \in Fds : m_file_handles[p][fd] = Null}
  <2>1. S \in SUBSET Nat /\ S # {}
    BY <1>1, <1>3 DEF Fds
  <2> HIDE DEF S
  <2>2. PICK fd \in S : \A y \in S : fd <= y
    BY <2>1, SmallestExists
  <2>3. fd \in Fds /\ fd \in Nat /\ m_file_handles[p][fd] = Null
    BY <2>1 DEF S
  <2>4. ASSUME NEW x \in 0 .. fd - 1
        PROVE  m_file_handles[p][x] # Null
    <3>1. x \in Fds /\ x < fd /\ x \in Nat
      BY <1>1, <2>3 DEF Fds
    <3>2. x \notin S
      BY <2>2, <2>3, <3>1
    <3> QED BY <3>1, <3>2 DEF S
  <2>5. First(fd)
    BY <2>3, <2>4
  <2>6. FreeSlot(p) = CHOOSE y \in Fds : First(y)
    BY <1>3 DEF FreeSlot
  <2> HIDE DEF First
  <2>7. FreeSlot(p) \in Fds /\ First(FreeSlot(p))
    BY <2>3, <2>5, <2>6
  <2> QED BY <2>7 DEF First
<1> QED BY <1>2, <1>3

LEMMA OpenInvStep ==
  ASSUME Sized, TablesInv, NEW p \in Procs, NEW f \in Nodes, NEW mode, sys_open(p, f, mode)
  PROVE  TablesInv'
<1> DEFINE n == m_file_handle_counter[p]
           full == n >= FdLim /\ \A fd \in Fds : m_file_handles[p][fd] # Null
           slot == FreeSlot(p)
           opened == FileHandle(f, IF mode = "append" THEN size[f] ELSE 0)
<1>1. /\ TableTypes /\ n \in Nat /\ FdLim \in Nat /\ Started(p) /\ UNCHANGED stale
      /\ m_file_handles \in [Procs -> [Fds -> Addresses \cup {Null, Mixed}]]
      /\ handle \in [Addresses -> FileHandles] /\ m_file_handle_counter \in [Procs -> Nat]
      /\ HandlesApart /\ DanglingAreStale /\ Null \notin Addresses /\ Mixed \notin Addresses
  BY DEF TablesInv, TableTypes, Sized, sys_open, Null, Mixed
<1>2. size' \in [Nodes -> Int]
  BY <1>1 DEF sys_open, TableTypes
<1>3. CASE full
  <2>1. UNCHANGED <<handle, m_file_handles, m_file_handle_counter>>
    BY <1>3 DEF sys_open
  <2>2. Made' = Made
    BY <2>1 DEF Made, Nothing, FileHandle
  <2> QED BY <1>1, <1>2, <2>1, <2>2, SameTables
<1>4. CASE ~full
  <2>0. PICK a \in OfferedNow({}) :
          /\ handle' = [handle EXCEPT ![a] = opened]
          /\ m_file_handles' = [m_file_handles EXCEPT ![p][slot] = a]
    BY <1>4 DEF sys_open
  <2>1. m_file_handle_counter' = [m_file_handle_counter EXCEPT ![p] = n + 1]
    BY <1>4 DEF sys_open
  <2>2. slot \in Fds /\ m_file_handles[p][slot] = Null
    BY <1>4, FreeSlotIsFree
  <2>3. opened \in FileHandles /\ opened # Nothing
    BY <1>1 DEF TableTypes, FileHandle, FileHandles, Nothing, Sized
  <2>4. a \in Addresses /\ a \notin Made
    <3> DEFINE free == (Addresses \ Made) \ {}
    <3>1. a \in Offered(free, Pointed)
      BY <2>0 DEF OfferedNow
    <3>2. free \in SUBSET Addresses /\ Pointed \in SUBSET Addresses
      BY DEF Pointed
    <3>3. Offered(free, Pointed) \subseteq free
      <4> HIDE DEF free
      <4> QED BY <3>2 DEF Sized
    <3> QED BY <3>1, <3>3
  <2> HIDE DEF opened, slot
  <2>5. /\ m_file_handles' \in [Procs -> [Fds -> Addresses \cup {Null, Mixed}]]
        /\ m_file_handles'[p][slot] = a
        /\ \A r \in Procs, fd \in Fds :
             r # p \/ fd # slot => m_file_handles'[r][fd] = m_file_handles[r][fd]
    <3> DEFINE row == [m_file_handles[p] EXCEPT ![slot] = a]
    <3>1. /\ row \in [Fds -> Addresses \cup {Null, Mixed}] /\ row[slot] = a
          /\ \A fd \in Fds : fd # slot => row[fd] = m_file_handles[p][fd]
      BY <1>1, <2>2, <2>4
    <3>2. m_file_handles' = [m_file_handles EXCEPT ![p] = row]
      BY <2>0
    <3> HIDE DEF row
    <3> QED BY <1>1, <3>1, <3>2
  <2>6. handle' \in [Addresses -> FileHandles] /\ Made' = Made \cup {a}
    BY <1>1, <2>0, <2>3, <2>4 DEF Made, Nothing, FileHandle
  <2>7. TableTypes'
    <3>1. m_file_handle_counter' \in [Procs -> Nat]
      <4>1. n + 1 \in Nat
        BY <1>1
      <4> HIDE DEF n
      <4> QED BY <1>1, <2>1, <4>1
    <3> QED BY <1>2, <2>5, <2>6, <3>1 DEF TableTypes
  <2>8. EmptyBeyond'
    <3>1. /\ m_file_handle_counter'[p] = n + 1
          /\ \A r \in Procs : r # p => m_file_handle_counter'[r] = m_file_handle_counter[r]
      BY <1>1, <2>1
    <3>2. ASSUME NEW fd \in Fds, fd >= n + 1
          PROVE  m_file_handles'[p][fd] = Null
      <4>1. fd \in Nat /\ fd >= n /\ n < FdLim /\ fd # n
        BY <1>1, <3>2 DEF Fds
      <4>2. slot = n
        BY <4>1 DEF slot, FreeSlot
      <4>3. m_file_handles[p][fd] = Null
        BY <4>1 DEF TablesInv, EmptyBeyond
      <4> QED BY <2>5, <4>1, <4>2, <4>3
    <3>3. n >= Std /\ Std \in Nat
      BY <1>1 DEF TablesInv, EmptyBeyond, Sized
    <3>4. ASSUME NEW r \in Procs
          PROVE  /\ \A fd \in Fds : fd >= m_file_handle_counter'[r] => m_file_handles'[r][fd] = Null
                 /\ m_file_handle_counter'[r] > 0 => m_file_handle_counter'[r] >= Std
      <4>1. CASE r = p
        BY <1>1, <3>1, <3>2, <3>3, <4>1
      <4>2. CASE r # p
        BY <2>5, <3>1, <4>2 DEF TablesInv, EmptyBeyond, Started
      <4> QED BY <4>1, <4>2
    <3> QED BY <3>4 DEF EmptyBeyond, Started
  <2>9. ASSUME NEW r \in Procs, NEW x \in Fds, m_file_handles'[r][x] \in Addresses,
               <<r, x>> \notin stale, r # p \/ x # slot
        PROVE  m_file_handles'[r][x] = m_file_handles[r][x] /\ m_file_handles[r][x] \in Made
    BY <1>1, <2>5, <2>9 DEF DanglingAreStale
  <2>10. DanglingAreStale'
    <3> SUFFICES ASSUME NEW r \in Procs, NEW x \in Fds, m_file_handles'[r][x] \in Addresses,
                        <<r, x>> \notin stale'
                 PROVE  m_file_handles'[r][x] \in Made'
      BY DEF DanglingAreStale, Made, Nothing, FileHandle
    <3> QED BY <1>1, <2>5, <2>6, <2>9
  <2>11. HandlesApart'
    <3>1. ASSUME NEW r \in Procs, NEW t \in Procs, NEW x \in Fds, NEW other \in Fds,
                 m_file_handles'[r][x] = m_file_handles'[t][other], r # t \/ x # other,
                 m_file_handles'[r][x] \in Made',
                 <<r, x>> \notin stale', <<t, other>> \notin stale'
          PROVE  /\ r # t /\ x = other
                 /\ Reached(x, m_file_handle_counter'[r]) /\ Reached(x, m_file_handle_counter'[t])
      <4>0. m_file_handles'[r][x] \in Addresses /\ UNCHANGED stale
        BY <1>1, <2>4, <2>6, <3>1 DEF Made
      <4>1. (r # p \/ x # slot) /\ (t # p \/ other # slot)
        BY <2>4, <2>5, <2>9, <3>1, <4>0
      <4>2. /\ m_file_handles[r][x] \in Made
            /\ m_file_handles[r][x] = m_file_handles[t][other]
            /\ <<r, x>> \notin stale /\ <<t, other>> \notin stale
        BY <2>9, <3>1, <4>0, <4>1
      <4>3. /\ r # t /\ x = other
            /\ Reached(x, m_file_handle_counter[r]) /\ Reached(x, m_file_handle_counter[t])
        BY <1>1, <3>1, <4>2, ApartSays
      <4>4. ASSUME NEW c \in Procs, Reached(x, m_file_handle_counter[c])
            PROVE  Reached(x, m_file_handle_counter'[c])
        <5>1. PICK b \in Nat : b = PtrBytes * x
          BY DEF Sized, Fds
        <5>2. /\ m_file_handle_counter[c] \in Nat /\ m_file_handle_counter'[c] \in Nat
              /\ m_file_handle_counter'[c] >= m_file_handle_counter[c]
          BY <1>1, <2>1
        <5> QED BY <4>4, <5>1, <5>2 DEF Reached
      <4> QED BY <4>3, <4>4
    <3> QED BY <3>1, ApartNext
  <2> QED BY <2>7, <2>8, <2>10, <2>11 DEF TablesInv
<1> QED BY <1>3, <1>4

\* The steps, by what they do to the tables.
StepOf(p) ==
  \/ \E f \in Nodes, mode \in {"read", "write", "append"} : sys_open(p, f, mode)
  \/ \E fd \in Fds : sys_close(p, fd)
  \/ \E fd \in Fds, offset \in Int, whence \in {"set", "cur", "end"} :
       sys_read(p, fd, 1) \/ sys_write(p, fd, 1) \/ sys_lseek(p, fd, offset, whence)
  \/ \E q \in Procs : fork(p, q)
  \/ \E q \in Procs : spawn(p, q)
  \/ exec(p) \/ Fault(p)

LEMMA StepKinds ==
  ASSUME TablesNext
  PROVE  \E p \in Procs : StepOf(p)
<1>1. PICK p \in Procs : Step(p)
  BY DEF TablesNext
<1>2. ASSUME NEW fd \in Fds,
             NEW to \in {<<"set", 1>>, <<"cur", -1>>, <<"cur", 1>>, <<"end", 0>>}
      PROVE  to[2] \in Int /\ to[1] \in {"set", "cur", "end"}
  OBVIOUS
<1>3. "set" \in {"set", "cur", "end"} /\ 1 \in Int
  OBVIOUS
<1>4. CASE \E fd \in Fds, to \in {<<"set", 1>>, <<"cur", -1>>, <<"cur", 1>>, <<"end", 0>>} :
             sys_lseek(p, fd, to[2], to[1])
  BY <1>2, <1>4, Zenon DEF StepOf
<1>5. CASE \E fd \in Fds : sys_close(p, fd) \/ sys_read(p, fd, 1) \/ sys_write(p, fd, 1)
  BY <1>3, <1>5, Zenon DEF StepOf
<1> QED BY <1>1, <1>4, <1>5, Zenon DEF Step, StepOf

LEMMA NextTables ==
  ASSUME Sized, TablesInv, [TablesNext]_tableVars
  PROVE  TablesInv'
<1>1. CASE UNCHANGED tableVars
  <2>1. UNCHANGED <<m_file_handles, m_file_handle_counter, handle, size, stale>>
    BY <1>1 DEF tableVars
  <2>2. Made' = Made /\ handle' \in [Addresses -> FileHandles] /\ size' \in [Nodes -> Int]
    BY <2>1 DEF TablesInv, TableTypes, Made, Nothing, FileHandle
  <2> QED BY <2>1, <2>2, SameTables
<1>2. CASE TablesNext
  <2>1. PICK p \in Procs : StepOf(p)
    BY <1>2, StepKinds
  <2>2. CASE \E f \in Nodes, mode \in {"read", "write", "append"} : sys_open(p, f, mode)
    BY <2>2, OpenInvStep
  <2>3. CASE \E fd \in Fds : sys_close(p, fd)
    BY <2>3, CloseStep
  <2>4. CASE \E fd \in Fds, offset \in Int, whence \in {"set", "cur", "end"} :
               sys_read(p, fd, 1) \/ sys_write(p, fd, 1) \/ sys_lseek(p, fd, offset, whence)
    BY <2>4, PositionSteps
  <2>5. CASE \E q \in Procs : fork(p, q)
    BY <2>5, ForkInvStep
  <2>6. CASE \E q \in Procs : spawn(p, q)
    BY <2>6, ReplaceStep DEF spawn
  <2>7. CASE exec(p)
    BY <2>7, ReplaceStep DEF exec
  <2>8. CASE Fault(p)
    BY <2>8, FaultKeeps
  <2> QED BY <2>1, <2>2, <2>3, <2>4, <2>5, <2>6, <2>7, <2>8 DEF StepOf
<1> QED BY <1>1, <1>2

LEMMA Invariance ==
  ASSUME Sized
  PROVE  TablesSpec => []TablesInv
<1>1. TablesInit => TablesInv
  BY InitTables
<1>2. TablesInv /\ [TablesNext]_tableVars => TablesInv'
  BY NextTables
<1> QED BY <1>1, <1>2, PTL DEF TablesSpec

-----------------------------------------------------------------------------
(* The properties of the tables *)

\* Handles are apart, because the invariant says so.
LEMMA TablesApart ==
  ASSUME Sized
  PROVE  TablesSpec => []HandlesApart
<1>1. TablesInv => HandlesApart
  BY DEF TablesInv
<1> QED BY <1>1, Invariance, PTL

\* What fork does to the positions.
LEMMA TablesForked ==
  ASSUME Sized
  PROVE  TablesSpec => ForkKeepsPositions
<1>1. TablesInv => ForkStep
  <2> SUFFICES ASSUME TablesInv, NEW p \in Procs, NEW q \in Procs, fork(p, q),
                      NEW fd \in 0 .. m_file_handle_counter[p] - 1,
                      m_file_handles'[q][fd] # Mixed, 2 * Pos(p, fd) < Word
               PROVE  handle'[m_file_handles'[q][fd]] = handle[m_file_handles[p][fd]]
    BY DEF ForkStep
  <2> DEFINE n == m_file_handle_counter[p]
             values == [i \in 0 .. n - 1 |-> Inherited(p, i)]
  <2>1. n \in Nat /\ \A i \in 0 .. n - 1 : Good(p, i)
    BY ForkDoes
  <2>10. PICK at \in New(n) : \E table \in copy_handles(TableOf(at), m_file_handles[p], n) :
          /\ m_file_handles' = [m_file_handles EXCEPT ![q] = table]
          /\ values \in [0 .. n - 1 -> FileHandles \ {Nothing}]
          /\ handle' = Placed(at, values)
    BY ForkDoes
  <2>2. PICK table \in copy_handles(TableOf(at), m_file_handles[p], n) :
          /\ m_file_handles' = [m_file_handles EXCEPT ![q] = table]
          /\ values \in [0 .. n - 1 -> FileHandles \ {Nothing}]
          /\ handle' = Placed(at, values)
    BY <2>10
  <2>3. /\ TableTypes /\ at \in [0 .. n - 1 -> Addresses]
        /\ Good(p, fd) /\ fd \in Fds /\ m_file_handles[p][fd] \in Made
    BY <2>1, <2>2 DEF TablesInv, New, Good
  <2>4. values[fd] = handle[m_file_handles[p][fd]]
    <3>1. values[fd] = FileHandle(Node(p, fd), Pos(p, fd))
      BY DEF Inherited
    <3>2. handle[m_file_handles[p][fd]] \in FileHandles
      BY <2>3 DEF TableTypes, Made
    <3> QED BY <3>1, <3>2 DEF FileHandle, FileHandles, Node, Pos
  <2> HIDE DEF values
  <2>5. /\ \A i \in 0 .. n - 1 : handle'[at[i]] = values[i]
        /\ \A a \in Made : handle'[a] = handle[a]
    <3> HIDE DEF n
    <3> QED BY <2>1, <2>2, <2>3, Placing
  <2>6. m_file_handles'[q][fd] \in {Mixed, m_file_handles[p][fd], TableOf(at)[fd]}
    <3>1. table[fd] \in {Mixed, m_file_handles[p][fd], TableOf(at)[fd]}
      <4>1. n <= n /\ n = m_file_handle_counter[p]
        BY <2>1
      <4> HIDE DEF n
      <4> QED BY <2>1, <2>2, <2>3, <4>1, CopyInherits
    <3> QED BY <2>2, <2>3, <3>1 DEF TableTypes
  <2>7. TableOf(at)[fd] = at[fd]
    BY <2>3 DEF TableOf
  <2> QED BY <2>3, <2>4, <2>5, <2>6, <2>7
<1>2. TablesInv => [ForkStep]_tableVars
  BY <1>1
<1> QED BY <1>2, Invariance, PTL DEF ForkKeepsPositions

\* What every call leaves of the open descriptors.
LEMMA TablesKept ==
  ASSUME Sized
  PROVE  TablesSpec => OpenDescriptorsStay
<1>1. TablesInv /\ TablesNext => OpenStep
  <2> SUFFICES ASSUME TablesInv, TablesNext, NEW p \in Procs, NEW fd \in Fds,
                      m_file_handles[p][fd] \in Made
               PROVE  \/ m_file_handles'[p][fd] \in {m_file_handles[p][fd], Null}
                      \/ exec(p)
    BY DEF OpenStep
  <2>1. /\ m_file_handles \in [Procs -> [Fds -> Addresses \cup {Null, Mixed}]]
        /\ m_file_handles[p][fd] # Null /\ m_file_handle_counter \in [Procs -> Nat]
    BY DEF TablesInv, TableTypes, Made, Null, Sized
  <2>2. PICK r \in Procs : StepOf(r)
    BY StepKinds
  <2>3. ASSUME NEW q \in Procs, ~Started(q), NEW table,
               m_file_handles' = [m_file_handles EXCEPT ![q] = table]
        PROVE  m_file_handles'[p][fd] = m_file_handles[p][fd]
    <3>1. m_file_handle_counter[q] = 0 /\ fd >= 0
      BY <2>1, <2>3 DEF Started, Fds
    <3>2. m_file_handles[q][fd] = Null
      BY <3>1 DEF TablesInv, EmptyBeyond
    <3>3. p # q
      BY <2>1, <3>2
    <3> QED BY <2>1, <2>3, <3>3
  <2>4. ASSUME NEW f \in Nodes, NEW mode, sys_open(r, f, mode)
        PROVE  m_file_handles'[p][fd] = m_file_handles[p][fd]
    <3> DEFINE full == m_file_handle_counter[r] >= FdLim /\ \A x \in Fds : m_file_handles[r][x] # Null
    <3>1. CASE full
      BY <2>4, <3>1 DEF sys_open
    <3>2. CASE ~full
      <4>1. FreeSlot(r) \in Fds /\ m_file_handles[r][FreeSlot(r)] = Null
        BY <3>2, FreeSlotIsFree
      <4>2. PICK a : m_file_handles' = [m_file_handles EXCEPT ![r][FreeSlot(r)] = a]
        BY <2>4, <3>2 DEF sys_open
      <4>3. p # r \/ fd # FreeSlot(r)
        BY <2>1, <4>1
      <4> QED BY <2>1, <4>2, <4>3
    <3> QED BY <3>1, <3>2
  <2>5. ASSUME NEW d, sys_close(r, d)
        PROVE  m_file_handles'[p][fd] \in {m_file_handles[p][fd], Null}
    BY <2>1, <2>5 DEF sys_close
  <2>6. ASSUME NEW d, NEW offset, NEW whence,
               sys_read(r, d, 1) \/ sys_write(r, d, 1) \/ sys_lseek(r, d, offset, whence)
        PROVE  UNCHANGED m_file_handles
    BY <2>6, Zenon DEF sys_read, sys_write, sys_lseek
  <2>7. ASSUME NEW q \in Procs, fork(r, q)
        PROVE  m_file_handles'[p][fd] = m_file_handles[p][fd]
    <3>1. PICK table : m_file_handles' = [m_file_handles EXCEPT ![q] = table]
      BY <2>7 DEF fork
    <3>2. ~Started(q)
      BY <2>7 DEF fork
    <3> QED BY <2>3, <3>1, <3>2
  <2>8. ASSUME NEW q \in Procs, Replace(r, q)
        PROVE  \E table : m_file_handles' = [m_file_handles EXCEPT ![q] = table]
    BY <2>8 DEF Replace
  <2>9. ASSUME NEW q \in Procs, spawn(r, q)
        PROVE  m_file_handles'[p][fd] = m_file_handles[p][fd]
    BY <2>3, <2>8, <2>9 DEF spawn
  <2>10. ASSUME exec(r)
         PROVE  m_file_handles'[p][fd] = m_file_handles[p][fd] \/ exec(p)
    <3>1. CASE r = p
      BY <2>10, <3>1
    <3>2. CASE r # p
      <4>1. PICK table : m_file_handles' = [m_file_handles EXCEPT ![r] = table]
        BY <2>8, <2>10 DEF exec
      <4> QED BY <2>1, <3>2, <4>1
    <3> QED BY <3>1, <3>2
  <2>11. CASE Fault(r)
    BY <2>11 DEF Fault
  <2> QED BY <2>2, <2>4, <2>5, <2>6, <2>7, <2>9, <2>10, <2>11 DEF StepOf
<1>2. TablesInv /\ [TablesNext]_tableVars => [OpenStep]_tableVars
  BY <1>1
<1> QED BY <1>2, Invariance, PTL DEF TablesSpec, OpenDescriptorsStay

-----------------------------------------------------------------------------
(* The tables beside the disk *)

\* In a behaviour of both, each behaves as its module says.
LEMMA EachBehaves == FilesSpec => Spec /\ TablesSpec
<1>1. FilesInit => Init /\ TablesInit
  BY DEF FilesInit
<1>2. [FilesNext /\ UNCHANGED part]_<<vars, part, tableVars>> => [Next]_vars /\ [TablesNext]_tableVars
  BY DEF FilesNext, vars, tableVars
<1> QED BY <1>1, <1>2, PTL DEF FilesSpec, Spec, TablesSpec

\* Whatever is opened, closed, forked, spawned and replaced, a descriptor shares its
\* FileHandle only with the same low number in another process, or when a close has deleted
\* it and the heap has given its address again (push_handle, del_handle, copy_handles).
THEOREM DescriptorsApart == FilesSpec => []HandlesApart
<1> QED BY HandlesAssumption, TablesApart, EachBehaves, PTL

\* fork leaves the child each descriptor at its parent's file and position, the pointer
\* copied by copy_handles or not.
THEOREM ForkedPositions == FilesSpec => ForkKeepsPositions
<1> QED BY HandlesAssumption, TablesForked, EachBehaves, PTL

\* push_handle never takes an open descriptor's place, and fork and spawn fill only tables
\* that were empty: an open descriptor stays until close or exec.
THEOREM OpenDescriptorsKept == FilesSpec => OpenDescriptorsStay
<1> QED BY HandlesAssumption, TablesKept, EachBehaves, PTL
=============================================================================
