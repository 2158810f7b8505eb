--------------------------------- MODULE Stdio ---------------------------------
(***************************************************************************)
(* A line-buffered stream of the libc, as stdout is: fwrite and fflush of  *)
(* the program, and a signal handler that prints to the same stream from   *)
(* between any two of their steps, like that of the shell.  write is taken *)
(* to succeed.  Subtraction of size_t wraps.                               *)
(***************************************************************************)
EXTENDS Integers, Sequences, SequencesExt

CONSTANTS
  Messages,  \* what the program prints
  Line,      \* what the handler prints, a text that ends in a newline,
  Prompt,    \* and at times after it
  Newline,
  BufSize,   \* buf_sz
  Word       \* size_t wraps at this number

VARIABLES
  buf, buf_idx,
  pc,       \* where the program is in fwrite or fflush
  msg,      \* what it prints
  pending,  \* history: what has been printed and not been written yet
  ordered,  \* history: was each byte written in its turn?
  struck    \* history: has the handler run inside a call, whose text fits behind the prompt?

vars == <<buf, buf_idx, pc, msg, pending, ordered, struck>>

Cells == 1 .. 2 * BufSize  \* the buffer and what lies behind it

Init ==
  /\ buf = [i \in Cells |-> Newline] /\ buf_idx = 0
  /\ pc = "idle" /\ msg = <<>>
  /\ pending = <<>> /\ ordered = TRUE /\ struck = "no"

\* The state of a stream that the steps of a call compute with.
Stream(b, idx, rest, good) == [buf |-> b, idx |-> idx, pending |-> rest, ordered |-> good]
Now == Stream(buf, buf_idx, pending, ordered)
Becomes(s) ==
  buf' = s.buf /\ buf_idx' = s.idx /\ pending' = s.pending /\ ordered' = s.ordered

Asked(s, text) == IF s.ordered THEN [s EXCEPT !.pending = @ \o text] ELSE s

\* The system call; what is written should be what was printed first.
Written(s, text) ==
  IF IsPrefix(text, s.pending)
    THEN [s EXCEPT !.pending = SubSeq(@, Len(text) + 1, Len(@))]
    ELSE [s EXCEPT !.pending = <<>>, !.ordered = FALSE]

Buffered(s) == SubSeq(s.buf, 1, s.idx)
Flushed(s) == Written(s, Buffered(s))
Emptied(s) == [s EXCEPT !.idx = 0]

-----------------------------------------------------------------------------
(* fwrite of text *)

\* Mutant of NoRoom: the text is compared with the whole buffer.
NoRoomAtAll(s, text) == Len(text) >= BufSize

NoRoom(s, text) == Len(text) >= (BufSize - s.idx) % Word

\* What of a text that is as long as the buffer or longer is written without it.
Direct(text) == IF Len(text) >= BufSize THEN Len(text) - BufSize ELSE 0

Placed(b, idx, text) ==
  [i \in Cells |-> IF i \in idx + 1 .. idx + Len(text) THEN text[i - idx] ELSE b[i]]

\* Mutant of Copied: the rest is taken from the beginning of the text.
CopiedFromStart(s, text) ==
  LET t == Written(s, SubSeq(text, 1, Direct(text)))
  IN [t EXCEPT !.buf = Placed(@, s.idx, SubSeq(text, 1, Len(text) - Direct(text)))]

\* The rest is copied into the buffer.
Copied(s, text) ==
  LET t == Written(s, SubSeq(text, 1, Direct(text)))
  IN [t EXCEPT !.buf = Placed(@, s.idx, SubSeq(text, Direct(text) + 1, Len(text)))]
Counted(s, text) == [s EXCEPT !.idx = @ + Len(text) - Direct(text)]

HasLine(text) == \E i \in DOMAIN text : text[i] = Newline

\* The whole of it, when nothing comes in between.
fwrite(s, text) ==
  LET r == IF NoRoom(s, text) THEN Emptied(Flushed(s)) ELSE s
      c == Counted(Copied(r, text), text)
  IN IF HasLine(text) THEN Emptied(Flushed(c)) ELSE c

-----------------------------------------------------------------------------
(* The program *)

Go(from, to, s) ==
  /\ pc = from /\ pc' = to /\ Becomes(s)
  /\ UNCHANGED <<msg, struck>>

\* fflush; fwrite begins with the test for room.
fflush == Go("idle", "emptied", Flushed(Now))
print(text) ==
  /\ pc = "idle" /\ pc' = "room"
  /\ msg' = text /\ Becomes(Asked(Now, text)) /\ UNCHANGED struck
Room ==
  \/ NoRoom(Now, msg) /\ Go("room", "reset", Flushed(Now))
  \/ ~NoRoom(Now, msg) /\ Go("room", "copy", Now)
Reset == Go("reset", "copy", Emptied(Now))
Copy == buf_idx <= BufSize /\ Go("copy", "count", Copied(Now, msg))
Count == Go("count", IF HasLine(msg) THEN "line" ELSE "idle", Counted(Now, msg))
WriteLine == Go("line", "emptied", Flushed(Now))
Empty == Go("emptied", "idle", Emptied(Now))

-----------------------------------------------------------------------------
\* handle_signal prints its line and, if it has nothing to kill, a prompt.
handler ==
  /\ buf_idx + Len(Line) <= 2 * BufSize
  /\ \E text \in {<<>>, Prompt} :
       LET s == fwrite(Asked(Now, Line \o text), Line) IN
         Becomes(IF text = <<>> THEN s ELSE fwrite(s, text))
  /\ struck' = IF pc = "idle" THEN struck
               ELSE IF Len(Prompt) + Len(msg) <= BufSize THEN "short" ELSE "long"
  /\ UNCHANGED <<pc, msg>>

Next ==
  \/ \E text \in Messages : print(text)
  \/ fflush \/ Room \/ Reset \/ Copy \/ Count \/ WriteLine \/ Empty
  \/ struck = "no" /\ handler

Spec == Init /\ [][Next]_vars

-----------------------------------------------------------------------------
(* Properties *)

\* What is printed reaches the file in its order, none twice and none left out, whatever
\* lengths come together, as long as no handler prints inside a call; and between calls
\* no end of a line waits in the buffer.
PrintedInOrder ==
  struck = "no" => /\ ordered
                   /\ pc = "idle" => /\ Buffered(Now) = pending
                                     /\ ~HasLine(Buffered(Now))

\* A handler that prints inside a call of fwrite makes it write past the buffer only if the
\* handler's prompt and the call's text do not fit into it together.
BufferHolds == struck # "long" => buf_idx <= BufSize
=============================================================================
