-------------------------------- MODULE Files ---------------------------------
(***************************************************************************)
(* Files as processes see them: the file system on the disk, and the       *)
(* tables of descriptors with the handles, positions and sizes of files.   *)
(* The disk knows nothing of handles and the tables nothing of blocks: a   *)
(* behaviour is one of the disk or of the tables.                          *)
(***************************************************************************)
EXTENDS Ext2, Descriptors

ASSUME HandlesAssumption == Sized

VARIABLE part  \* the one that is at work

FilesInit == Init /\ TablesInit /\ part \in {"disk", "handles"}

FilesNext ==
  \/ part = "disk" /\ Next /\ UNCHANGED tableVars
  \/ part = "handles" /\ TablesNext /\ UNCHANGED vars

FilesSpec == FilesInit /\ [][FilesNext /\ UNCHANGED part]_<<vars, part, tableVars>>
=============================================================================
