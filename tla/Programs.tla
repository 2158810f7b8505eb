------------------------------- MODULE Programs -------------------------------
(***************************************************************************)
(* Devices and programs: the console, from key to command, the disk, a     *)
(* stream of the libc and the game.  They share no state, so a behaviour   *)
(* is one of a single part, while the others stay as they are.             *)
(***************************************************************************)
EXTENDS Console

CONSTANTS
  Messages, Line, Prompt, LineEnd, BufSize, Word,  \* of Stdio
  Sector, Sectors, Untouched, MaxSize, MaxWrites,  \* of AtaBlock
  Tunnels, bat_num, pit_num, arrow_num, Reach      \* of Wump

VARIABLES
  part,                                             \* the one that is at work
  disk, disk_position, buffer, writes,              \* of AtaBlock
  out, buf_idx, pc, msg, pending, ordered, struck,  \* of Stdio
  has_a_bat, has_a_pit, wumpus_loc, player_loc, arrows_left, turn,
  just_moved_by_bats, arrow_location, roomcnt       \* of Wump

Ata == INSTANCE AtaBlock WITH m_position <- disk_position
Out == INSTANCE Stdio WITH buf <- out, Newline <- LineEnd
Game == INSTANCE Wump

\* What is printed.
Chars == {LineEnd} \cup UNION {{t[i] : i \in DOMAIN t} : t \in Messages \cup {Line, Prompt}}

\* The texts are texts, the handler's has a line's end, and size_t counts the buffer.
Printing ==
  /\ BufSize \in Nat \ {0} /\ Word \in Nat /\ BufSize < Word
  /\ \A t \in Messages \cup {Line, Prompt} : t \in Seq(Chars)
  /\ Out!HasLine(Line)
ASSUME PrintingAssumption == Printing

\* A disk of sectors that are transferred word by word, and the bound on a transfer.
Geometry == Sector \in Nat \ {0} /\ Sector % 2 = 0 /\ Sectors \in Nat \ {0} /\ MaxSize \in Nat
ASSUME GeometryAssumption == Geometry

ataVars == <<disk, disk_position, buffer, writes>>
stdioVars == <<out, buf_idx, pc, msg, pending, ordered, struck>>
wumpVars == <<has_a_bat, has_a_pit, wumpus_loc, player_loc, arrows_left, turn,
              just_moved_by_bats, arrow_location, roomcnt>>
programsVars == <<vars, part, ataVars, stdioVars, wumpVars>>

ProgramsInit ==
  /\ Init /\ Ata!Init /\ Out!Init /\ Game!Init
  /\ part \in {"console", "disk", "stream", "game"}

ProgramsNext ==
  \/ part = "console" /\ Next /\ UNCHANGED <<ataVars, stdioVars, wumpVars>>
  \/ part = "disk" /\ Ata!Next /\ UNCHANGED <<vars, stdioVars, wumpVars>>
  \/ part = "stream" /\ Out!Next /\ UNCHANGED <<vars, ataVars, wumpVars>>
  \/ part = "game" /\ Game!Next /\ UNCHANGED <<vars, ataVars, stdioVars>>

\* The fairness is that of Console.
ProgramsFairness ==
  /\ WF_vars(part = "console" /\ Term)
  /\ WF_vars(part = "console" /\ Main)
  /\ WF_vars(part = "console" /\ Handler)

ProgramsSpec ==
  /\ ProgramsInit
  /\ [][ProgramsNext /\ UNCHANGED part]_programsVars
  /\ ProgramsFairness

-----------------------------------------------------------------------------
(* Properties, as AtaBlock, Stdio and Wump state them *)

\* A regular read stores the disk's bytes in order and no others, and a write changes the
\* bytes it is given and no others, whatever sectors they lie in.
TransfersExact == [][part = "disk" => Ata!Exact]_ataVars

\* What is printed reaches the file in its order, unless a handler prints inside a call.
PrintedInOrder == Out!PrintedInOrder

\* Past the buffer a stream writes only a handler's prompt and a text that do not fit into it
\* together.
BufferHolds == Out!BufferHolds

\* No turn of the player begins in a room with the wumpus or with bats.
TurnsBeginSafe == Game!TurnsBeginSafe
=============================================================================
