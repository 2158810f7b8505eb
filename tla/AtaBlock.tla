-------------------------------- MODULE AtaBlock --------------------------------
(***************************************************************************)
(* ATABlockNode: reads and writes of any length at any position of a disk  *)
(* that transfers whole sectors, word by word.  A read places each         *)
(* sector's bytes a sector further in the caller's buffer, and leaves out  *)
(* what it does not reach; a write reads the sector, changes it and writes *)
(* it back.                                                                *)
(***************************************************************************)
EXTENDS Integers

CONSTANTS
  Sector,     \* 512
  Sectors,    \* how many the disk has
  Untouched,  \* a byte of a buffer that nothing has been stored in
  MaxSize,    \* bound: bytes of a transfer
  MaxWrites   \* bound: writes

VARIABLES
  disk,        \* its bytes
  m_position,
  buffer,      \* what the last call has stored for its caller
  writes       \* how many writes there were

vars == <<disk, m_position, buffer, writes>>

Bytes == 0 .. Sector * Sectors - 1
Least(a, b) == IF a < b THEN a ELSE b
Empty == [k \in 0 .. MaxSize - 1 |-> Untouched]

Init ==
  /\ disk = [b \in Bytes |-> b]
  /\ m_position = 0 /\ buffer = Empty /\ writes = 0

seek(pos) == m_position' = pos /\ buffer' = Empty /\ UNCHANGED <<disk, writes>>

-----------------------------------------------------------------------------
(* read *)

\* read_512_temp: what is stored for byte i of a sector.  The words before begin are
\* skipped, an even byte takes the next word, and an odd one is the second of the word taken
\* last: so an odd begin has none, and all that follow come two late.
SectorByte(pos, i) ==
  LET begin == pos % Sector
      start == pos - begin
  IN IF begin % 2 = 0 THEN disk[start + i]
     ELSE IF i = begin THEN 0 ELSE disk[start + i - 2]

\* Where in the buffer byte i of the c-th sector goes, and how far that sector is read.
Place(pos, c, i) == c * Sector + i - (pos % Sector)
Till(pos, c, size) == Least(Sector, (pos % Sector) + Least(size - c * Sector, Sector))

Chunks(size) == 0 .. ((size + Sector - 1) \div Sector) - 1

\* The sector whose byte goes to place k of the buffer, if there is one.
ChunksAt(pos, size, k) ==
  {c \in Chunks(size) : k \in Place(pos, c, pos % Sector) .. Place(pos, c, Till(pos, c, size)) - 1}

Read(pos, size) ==
  [k \in 0 .. MaxSize - 1 |->
     IF ChunksAt(pos, size, k) = {} THEN Untouched
     ELSE LET c == CHOOSE x \in ChunksAt(pos, size, k) : TRUE
          IN SectorByte(pos + c * Sector, k - c * Sector + (pos % Sector))]

read(size) ==
  /\ m_position + size - 1 \in Bytes
  /\ buffer' = Read(m_position, size)
  /\ m_position' = (m_position + size) % (Sector * Sectors)
  /\ UNCHANGED <<disk, writes>>

-----------------------------------------------------------------------------
(* write *)

\* Mutant of Replaced: sub_pos is not cleared after the first sector.
ReplacedAtSubPos(pos, size, c) ==
  pos + c * Sector .. Least((pos \div Sector + c + 1) * Sector, pos + size) - 1

\* The bytes that are changed in the c-th sector of a write.
Replaced(pos, size, c) ==
  LET start == (pos \div Sector + c) * Sector IN
    (IF c = 0 THEN pos ELSE start) .. Least(start + Sector, pos + size) - 1

\* Byte k of what the n-th write is given, unlike any other.
Data(n, k) == n * Sector * Sectors + k

write(size) ==
  LET pos == m_position IN
  /\ writes < MaxWrites /\ pos + size - 1 \in Bytes
  /\ writes' = writes + 1
  /\ disk' = [b \in Bytes |->
       IF \E c \in 0 .. size : b \in Replaced(pos, size, c)
         THEN Data(writes', b - pos) ELSE disk[b]]
  /\ m_position' = (pos + size) % (Sector * Sectors)
  /\ buffer' = Empty

Next ==
  \/ \E pos \in Bytes : seek(pos)
  \/ \E size \in 1 .. MaxSize : read(size) \/ write(size)

Spec == Init /\ [][Next]_vars

-----------------------------------------------------------------------------
(* Properties *)

\* A transfer that begins with a sector, or at an even place and ends in the same sector:
\* Ext2's blocks are of the first kind and its inodes of the second.  An entry of a directory
\* that lies across the end of a sector is of neither, and is read with a gap.
Regular(pos, size) ==
  pos % Sector = 0 \/ (pos % 2 = 0 /\ (pos % Sector) + size <= Sector)

\* A regular read stores the bytes at its position, in order, and no others.  A write at
\* any position and of any length changes the bytes it is given and keeps all others,
\* those of the sectors it begins and ends in too.
Exact ==
  \A size \in 1 .. MaxSize :
    /\ read(size) /\ Regular(m_position, size) =>
         buffer' = [k \in 0 .. MaxSize - 1 |->
                      IF k < size THEN disk[m_position + k] ELSE Untouched]
    /\ write(size) =>
         disk' = [b \in Bytes |-> IF b \in m_position .. m_position + size - 1
                                    THEN Data(writes', b - m_position) ELSE disk[b]]
TransfersExact == [][Exact]_vars
=============================================================================
