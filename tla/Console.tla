------------------------------- MODULE Console -------------------------------
(***************************************************************************)
(* From a key to a command and back to the screen: the keyboard interrupt, *)
(* the program term, which edits lines and draws what is printed, the two  *)
(* TTYs that carry lines to the shell and output to term, the shell, and   *)
(* the command it runs, which may read and print too.                      *)
(*                                                                         *)
(* Ctrl-C: term signals the shell, whose handler kills the command.  The   *)
(* handler starts wherever the shell is, also between the read of a byte   *)
(* and the count of it; a call that it has interrupted goes on on its      *)
(* stack.  Shell, handler and command print: each tests for room with      *)
(* interrupts on and writes later, and a write that finds no room fails an *)
(* assertion.  Of the builtins exit is left out; pixels, and which bytes   *)
(* are printed, are too.                                                   *)
(***************************************************************************)
EXTENDS Integers, Sequences, SequencesExt

CONSTANTS
  Scripts,   \* bound: sequences of key events; the keyboard's ring does not wrap
  InSize,    \* TTY_BUFFER_SZ of shared_fake, descriptor 0 of every process
  OutSize,   \* TTY_BUFFER_SZ of /dev/tty
  MaxRuns    \* bound: commands that the shell starts

Press(key) == [key |-> key, released |-> FALSE]
Release(key) == [key |-> key, released |-> TRUE]
Newline == "enter"

Keys == UNION {{script[i].key : i \in DOMAIN script} : script \in Scripts}
Event == [key : Keys, released : BOOLEAN]
ASSUME ScriptsAssumption == \A script \in Scripts : script \in Seq(Event)

VARIABLES
  user,           \* the key events that the user will make
  keys,           \* s_buffer of the keyboard up to s_writer_pos: two bytes an event
  m_position,     \* term's place in it, in events
  at,             \* where term is
  batch,          \* the events that it has read and not yet looked at
  raised,         \* did its last poll find output to draw?
  input_linebuf,  \* up to input_idx
  ctrl_held,
  stdin,          \* the bytes in shared_fake
  printed,        \* how many there are in /dev/tty
  tested,         \* the writers that have found room in it and not yet written
  panicked,       \* the kernel has
  shell,          \* where the shell is
  buf, buf_sz,    \* its line, and how much of it counts
  foreground_pid,
  handling,       \* where its signal handler is
  command,        \* the state of the last command, whose pid is the number of commands
  runs,
  lines,          \* history: the lines that term has sent
  executed,       \* history: what the shell has taken for a line, and was it disturbed?
  disturbed       \* history: since the last line has a handler or another reader run?

keyboard == <<user, keys, m_position>>
term == <<at, batch, raised, input_linebuf, ctrl_held>>
sh == <<shell, buf, buf_sz, foreground_pid>>
child == <<command, runs>>
screen == <<printed, tested, panicked>>
history == <<lines, executed, disturbed>>
vars == <<user, keys, m_position, at, batch, raised, input_linebuf, ctrl_held, stdin,
          printed, tested, panicked, shell, buf, buf_sz, foreground_pid, handling, command,
          runs, lines, executed, disturbed>>

Init ==
  /\ user \in Scripts /\ keys = <<>> /\ m_position = 0
  /\ at = "poll" /\ batch = <<>> /\ raised = FALSE
  /\ input_linebuf = <<>> /\ ctrl_held = FALSE
  /\ stdin = <<>> /\ printed = 0 /\ tested = {} /\ panicked = FALSE
  /\ shell = "prompt" /\ buf = <<>> /\ buf_sz = 0 /\ foreground_pid = 0 /\ handling = "no"
  /\ command = "none" /\ runs = 0
  /\ lines = <<>> /\ executed = <<>> /\ disturbed = FALSE

\* check_blocked_write of the two TTYs.
\* Mutant of Fits: a line is taken only when there is no other.
FitsWhenEmpty(n) == stdin = <<>>

Fits(n) == Len(stdin) + n < InSize
CanPrint == printed + 1 < OutSize

-----------------------------------------------------------------------------
(* The keyboard and term *)

\* ps2kbd_interrupt
key ==
  /\ user # <<>>
  /\ keys' = Append(keys, Head(user)) /\ user' = Tail(user)
  /\ UNCHANGED <<m_position, term, stdin, screen, sh, handling, child, history>>

\* poll, and when the keyboard is ready the read of its events.  FIONREAD gives a size
\* that has been reached before the read, so that the read may leave some behind.
poll ==
  /\ at = "poll"
  /\ m_position < Len(keys) \/ printed > 0
  /\ raised' = (printed > 0)
  /\ IF m_position < Len(keys)
       THEN \E n \in 1 .. Len(keys) - m_position :
              /\ batch' = SubSeq(keys, m_position + 1, m_position + n)
              /\ m_position' = m_position + n
       ELSE UNCHANGED <<batch, m_position>>
  /\ at' = "keys"
  /\ UNCHANGED <<user, keys, input_linebuf, ctrl_held, stdin, screen, sh, handling,
                 child, history>>

\* The line with one more character; a backspace takes the one before it along.
Edited(line, char) ==
  IF char # "back" THEN Append(line, char)
  ELSE IF line = <<>> THEN line ELSE Front(line)

\* One event: ctrl is noted, releases ignored, Ctrl-C signals the shell and
\* clears the line, and a newline is written with the line before it.
handle_key ==
  LET event == Head(batch)
      ctrl  == IF event.key = "ctrl" THEN ~event.released ELSE ctrl_held
      typed == ~event.released /\ event.key # "ctrl"
  IN /\ at = "keys" /\ batch # <<>>
     /\ batch' = Tail(batch) /\ ctrl_held' = ctrl
     /\ input_linebuf' = IF ~typed THEN input_linebuf
                         ELSE IF ~ctrl THEN Edited(input_linebuf, event.key)
                         ELSE IF event.key = "c" THEN <<>> ELSE input_linebuf
     /\ at' = IF typed /\ ~ctrl /\ event.key = Newline THEN "write" ELSE "keys"
     /\ IF typed /\ ctrl /\ event.key = "c" /\ handling = "no"
          THEN handling' = "puts" /\ disturbed' = TRUE
          ELSE UNCHANGED <<handling, disturbed>>
     /\ UNCHANGED <<keyboard, raised, stdin, screen, sh, child, lines, executed>>

\* sys$write waits until the whole line fits.
send_line ==
  /\ at = "write" /\ Fits(Len(input_linebuf))
  /\ stdin' = stdin \o input_linebuf
  /\ lines' = Append(lines, input_linebuf)
  /\ input_linebuf' = <<>>
  /\ at' = "keys"
  /\ UNCHANGED <<keyboard, batch, raised, ctrl_held, screen, sh, handling,
                 child, executed, disturbed>>

\* feed_lines reads all there is, and the screen is written.
feed_lines ==
  /\ at = "keys" /\ batch = <<>>
  /\ printed' = IF raised THEN 0 ELSE printed
  /\ at' = "poll"
  /\ UNCHANGED <<keyboard, batch, raised, input_linebuf, ctrl_held, stdin, tested, panicked, sh,
                 handling, child, history>>

-----------------------------------------------------------------------------
(* The shell; its main program rests while the signal handler runs *)

Shell(place) == shell = place /\ handling = "no"

\* sys$write waits, with interrupts on, until there is room.
finds_room(writer) ==
  /\ writer \notin tested /\ CanPrint
  /\ tested' = tested \cup {writer}
  /\ UNCHANGED <<keyboard, term, stdin, printed, panicked, sh, handling, child, history>>

\* Then it writes; TTY::write asserts that there is still room.
tty_write(writer) ==
  /\ writer \in tested /\ tested' = tested \ {writer}
  /\ IF CanPrint THEN printed' = printed + 1 /\ UNCHANGED panicked
                 ELSE panicked' = TRUE /\ UNCHANGED printed

\* The places of the main program at which it prints, and those where it may be in a call.
Prints == {"prompt", "builtin", "announce", "report"}
InCall == Prints \cup {"read", "wait"}

\* printf and fflush
prints(from, to) ==
  /\ Shell(from) /\ tty_write("shell")
  /\ shell' = to
  /\ UNCHANGED <<keyboard, term, stdin, buf, buf_sz, foreground_pid, handling, child,
                 history>>

\* read puts one byte behind those that count.
read_byte ==
  /\ Shell("read") /\ stdin # <<>>
  /\ buf' = Append(SubSeq(buf, 1, buf_sz), Head(stdin)) \o SubSeq(buf, buf_sz + 2, Len(buf))
  /\ stdin' = Tail(stdin)
  /\ shell' = "count"
  /\ UNCHANGED <<keyboard, term, screen, buf_sz, foreground_pid, handling, child, history>>

\* Mutant of Reset: the line is kept after it has been executed.
NotReset(n) == n

Reset(n) == 0

\* It is counted; a newline ends the line.  A comment or an empty line does nothing.
count_byte ==
  LET n == buf_sz + 1 IN
  /\ Shell("count")
  /\ IF buf[n] # Newline
       THEN shell' = "read" /\ buf_sz' = n /\ UNCHANGED <<executed, disturbed>>
       ELSE /\ executed' = Append(executed, [line |-> SubSeq(buf, 1, n), disturbed |-> disturbed])
            /\ disturbed' = FALSE
            /\ IF n = 1 THEN shell' = "prompt" ELSE shell' \in {"fork", "builtin", "prompt"}
            /\ buf_sz' = Reset(n)
  /\ UNCHANGED <<keyboard, term, stdin, screen, buf, foreground_pid, handling, child, lines>>

fork ==
  /\ Shell("fork") /\ runs < MaxRuns
  /\ command' = "running" /\ runs' = runs + 1 /\ tested' = tested \ {"command"}
  /\ shell' = "assign"
  /\ UNCHANGED <<keyboard, term, stdin, printed, panicked, buf, buf_sz, foreground_pid, handling,
                 history>>

\* Mutant of Foreground: the pid is noted when none is.
KeepsForeground(pid) == IF foreground_pid = 0 THEN pid ELSE foreground_pid

Foreground(pid) == pid

assign ==
  /\ Shell("assign")
  /\ foreground_pid' = Foreground(runs)
  /\ shell' = "announce"
  /\ UNCHANGED <<keyboard, term, stdin, screen, buf, buf_sz, handling, child, history>>

waitpid ==
  /\ Shell("wait") /\ command = "dead"
  /\ shell' = "report"
  /\ UNCHANGED <<keyboard, term, stdin, screen, buf, buf_sz, foreground_pid, handling,
                 child, history>>

\* handle_signal begins with puts.
handler_puts ==
  /\ handling = "puts" /\ tty_write("handler")
  /\ handling' = "kill"
  /\ UNCHANGED <<keyboard, term, stdin, sh, child, history>>

\* sys$kill of the command that foreground_pid names: the last one, or one long dead.
Killed(pid) == IF pid = runs THEN "dead" ELSE command

\* Without one the line is dropped, and a prompt left in the buffer of stdout.  A call that
\* the signal has interrupted returns on the handler's stack, perhaps to nowhere.
handler_kill ==
  /\ handling = "kill"
  /\ IF foreground_pid # 0
       THEN command' = Killed(foreground_pid) /\ foreground_pid' = 0 /\ UNCHANGED buf_sz
       ELSE buf_sz' = 0 /\ UNCHANGED <<command, foreground_pid>>
  /\ handling' = "no"
  /\ shell' \in {shell} \cup (IF shell \in InCall THEN {"astray"} ELSE {})
  /\ UNCHANGED <<keyboard, term, stdin, screen, buf, runs, history>>

\* What it does then is not followed; at worst it reads where nothing is mapped.
faults ==
  /\ Shell("astray") /\ panicked' = TRUE
  /\ UNCHANGED <<keyboard, term, stdin, printed, tested, sh, handling, child, history>>

-----------------------------------------------------------------------------
(* The command *)

command_reads ==
  /\ command = "running" /\ "command" \notin tested /\ stdin # <<>>
  /\ stdin' = Tail(stdin) /\ disturbed' = TRUE
  /\ UNCHANGED <<keyboard, term, screen, sh, handling, child, lines, executed>>

command_prints ==
  /\ command = "running" /\ tty_write("command")
  /\ UNCHANGED <<keyboard, term, stdin, sh, handling, child, history>>

command_exits ==
  /\ command = "running" /\ "command" \notin tested /\ command' = "dead"
  /\ UNCHANGED <<keyboard, term, stdin, screen, sh, handling, runs, history>>

Term == ~panicked /\ (poll \/ handle_key \/ send_line \/ feed_lines)
Main ==
  /\ ~panicked
  /\ \/ \E place \in Prints : Shell(place) /\ finds_room("shell")
     \/ prints("prompt", "read") \/ prints("builtin", "prompt")
     \/ prints("announce", "wait") \/ prints("report", "prompt")
     \/ read_byte \/ count_byte \/ fork \/ assign \/ waitpid
Handler ==
  /\ ~panicked
  /\ \/ handling = "puts" /\ finds_room("handler")
     \/ handler_puts \/ handler_kill
Command ==
  /\ ~panicked
  /\ \/ command = "running" /\ finds_room("command")
     \/ command_reads \/ command_prints \/ command_exits

Next == Term \/ Main \/ Handler \/ Command \/ (~panicked /\ (faults \/ key))

\* The scheduler gives every process its turn.
Fairness == WF_vars(Term) /\ WF_vars(Main) /\ WF_vars(Handler)

Spec == Init /\ [][Next]_vars /\ Fairness

-----------------------------------------------------------------------------
(* Properties *)

\* What the shell executes is a line that was typed, whole, unless a Ctrl-C has struck
\* while it was read or a command has taken a part of it.
CommandsAreLines ==
  \A i \in DOMAIN executed : executed[i].disturbed \/ \E j \in DOMAIN lines :
    executed[i].line = lines[j]

\* The screen is refreshed for ever, and Ctrl-C answered, unless a line waits for good
\* because the shell's input is full: the only way in which term can be held up.  The kernel
\* may panic before, when two writers have found the same room or the shell is astray.
InputFull == at = "write" /\ Len(stdin) + Len(input_linebuf) >= InSize
TermKeepsGoing == []<>(at = "poll") \/ <>[]InputFull \/ <>panicked

\* A Ctrl-C while the shell waits for its command ends the command, unless its input or
\* its output is full again and again, or the kernel panics.
CtrlCEndsCommand ==
  (shell = "wait" /\ handling = "puts") ~>
    (command = "dead" \/ InputFull \/ ~CanPrint \/ panicked)
=============================================================================
