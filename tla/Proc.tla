-------------------------------- MODULE Proc --------------------------------
(***************************************************************************)
(* Processes of the 4IROS kernel: the run queue, the scheduler             *)
(* (Process::sched), the blockers, the system calls that create, block,    *)
(* signal and end processes, and the timer interrupt that preempts them.   *)
(*                                                                         *)
(* One CPU.  System calls run with interrupts masked (IA32_FMASK) except   *)
(* in the sti..cli windows of read, write, waitpid and poll and in the     *)
(* search loop of sched; those, and user mode, are where the timer may     *)
(* strike.  The terminal /dev/tty is a byte count: reads and writes of it  *)
(* block, every other file does not.                                       *)
(***************************************************************************)
EXTENDS Naturals, FiniteSets

CONSTANTS
  MaxProcs,      \* bound: process objects ever constructed (pids 0..MaxProcs-1)
  MaxTicks,      \* bound: the tick counter saturates here
  Sleeps,        \* durations a process may sleep, in ticks rounded up
  ReadSizes,     \* byte counts passed to read
  WriteSizes,    \* byte counts passed to write
  TtySize,       \* TTY_BUFFER_SZ
  WordSize,      \* 2^w: size_t arithmetic is modulo this
  Calls,         \* system calls and faults of ordinary user code
  HandlerCalls   \* system calls made by signal handlers

CallNames == {"exit", "fork", "spawn", "exec", "sleep", "waitpid", "read",
              "write", "poll", "kill", "interrupt", "signal", "refused", "fault"}

ASSUME ProcsAssumption == MaxProcs \in Nat \ {0}
ASSUME TicksAssumption == MaxTicks \in Nat /\ Sleeps \subseteq Nat
ASSUME SizesAssumption ==
  /\ WordSize \in Nat \ {0} /\ TtySize \in 0 .. WordSize - 1
  /\ ReadSizes \subseteq 0 .. WordSize - 1
  /\ WriteSizes \subseteq 0 .. WordSize - 1
ASSUME CallsAssumption == Calls \subseteq CallNames /\ HandlerCalls \subseteq Calls

Pids   == 0 .. MaxProcs - 1
NoPid  == MaxProcs                \* an uninitialised next pointer
Status == {"Running", "Blocked", "Dead"}

\* exit_code: uninitialised, passed to exit, set by SIGKILL, set by SIGINT.
ExitCodes == {"garbage", "exited", "129", "130"}

\* Where a thread of control is: in user code, at the blocking point of a
\* system call, in the loop exit() makes around the exit call, or returned
\* from sigret with nothing on the stack to return to.
\* "reading" and "writing" follow the last test of the read and write loops,
\* before the cli.
Places == {"user", "read", "reading", "write", "writing", "poll", "waitpid",
           "sleep", "gone", "stray"}

\* A context is what a kernel stack holds: sig tells a signal handler's stack
\* from the process's own; arg is the argument of the call it is blocked in.
Context(sig, at, arg) == [sig |-> sig, at |-> at, arg |-> arg]
UserMain    == Context(FALSE, "user", 0)
UserHandler == Context(TRUE, "user", 0)

Blocker(on, arg) == [on |-> on, arg |-> arg]

\* A user stack pointer: whose stack it points into, and which of the two.
Stack(p, sig) == [pid |-> p, sig |-> sig]
NoStack == Stack(NoPid, FALSE)

VARIABLES
  npid,         \* s_pid, the next pid
  next,         \* Process::next
  state,        \* Process::m_state
  exit_code,    \* Process::exit_code
  blocker,      \* Process::m_blocker
  kstack,       \* the context m_kern_stack_top points at
  handler,      \* has_signal_handler()
  in_signal,    \* Process::m_in_signal
  was_blocked,  \* Process::was_blocked
  sigsaved,     \* the context m_signal_saved_kern_stack_top points at
  current,      \* current_process
  mode,         \* "run", "search" (inside sched's loop), or "panic"
  old,          \* sched's local old, meaningful while mode = "search"
  eoi_pending,  \* the timer vector is in service: no timer interrupt comes
  live,         \* the context the CPU executes
  user_stack,   \* ksyscall_data.user_stack, reloaded when a call returns
  saved_stack,  \* Process::m_saved_user_stack_ksyscall
  tick_counter, \* tick_counter
  tty_size      \* TTY::m_size

procVars  == <<npid, next>>
sigVars   == <<handler, in_signal, was_blocked, sigsaved>>
cpuVars   == <<current, mode, old, eoi_pending, live>>
stackVars == <<user_stack, saved_stack>>
vars == <<npid, next, state, exit_code, blocker, kstack, handler, in_signal,
          was_blocked, sigsaved, current, mode, old, eoi_pending, live,
          user_stack, saved_stack, tick_counter, tty_size>>

-----------------------------------------------------------------------------
Ring    == {p \in Pids : next[p] # NoPid}       \* processes on the run queue
Created == 0 .. npid - 1                        \* keys of process_pid_map

\* The timer interrupt computes global_waiter_time before it counts the tick.
global_waiter_time == IF tick_counter = 0 THEN 0 ELSE tick_counter - 1

\* TTY::check_blocked and TTY::check_blocked_write.
check_blocked == tty_size = 0
check_blocked_write(sz) == (tty_size + sz) % WordSize >= TtySize

\* Mutants of Unblocks: a blocked process taken for a dead one; equality for order; the
\* exit code for the state.
UnblocksEarly(p) ==
  LET b == blocker[p] IN
    \/ b.on = "ProcessBlock" /\ state[b.arg] # "Running"
    \/ b.on = "SleepBlock" /\ global_waiter_time >= b.arg
UnblocksOnTheTick(p) ==
  LET b == blocker[p] IN b.on = "SleepBlock" /\ global_waiter_time = b.arg
UnblocksByExitCode(p) ==
  LET b == blocker[p] IN b.on = "ProcessBlock" /\ exit_code[b.arg] = "exited"

\* Would poll_is_blocked set p running?
Unblocks(p) ==
  LET b == blocker[p] IN
    \/ b.on = "ProcessBlock" /\ state[b.arg] = "Dead"
    \/ b.on = "SleepBlock" /\ global_waiter_time >= b.arg
    \/ b.on = "FileIOReadBlock" /\ ~check_blocked
    \/ b.on = "FileIOWriteBlock" /\ ~check_blocked_write(b.arg)

\* Mutant of Polled: sched polls whatever the state.
PolledUnguarded(p) == IF Unblocks(p) THEN "Running" ELSE state[p]

\* The state of p once poll_is_blocked has looked at it.
Polled(p) ==
  IF state[p] = "Blocked" /\ Unblocks(p) THEN "Running" ELSE state[p]

\* The CPU executes user code that makes call c.
CanCall(c) ==
  /\ mode = "run" /\ live.at = "user"
  /\ c \in (IF live.sig THEN HandlerCalls ELSE Calls)

InterruptsEnabled ==
  \/ mode = "search"
  \/ mode = "run" /\ live.at # "sleep"

\* The context process p goes on with.
Resume(p) == IF mode = "run" /\ p = current THEN live ELSE kstack[p]

-----------------------------------------------------------------------------
\* Process::init: the first process, alone on the run queue.
Init ==
  /\ npid = 1
  /\ next = [p \in Pids |-> IF p = 0 THEN 0 ELSE NoPid]
  /\ state = [p \in Pids |-> "Running"]
  /\ exit_code = [p \in Pids |-> "garbage"]
  /\ blocker = [p \in Pids |-> Blocker("none", 0)]
  /\ kstack = [p \in Pids |-> UserMain]
  /\ handler = [p \in Pids |-> FALSE]
  /\ in_signal = [p \in Pids |-> FALSE]
  /\ was_blocked = [p \in Pids |-> FALSE]
  /\ sigsaved = [p \in Pids |-> UserMain]
  /\ current = 0 /\ mode = "run" /\ old = 0 /\ eoi_pending = FALSE
  /\ live = UserMain
  /\ user_stack = NoStack /\ saved_stack = [p \in Pids |-> NoStack]
  /\ tick_counter = 0 /\ tty_size = 0

\* Process::sched up to its loop.  Alone on the queue it returns at once and
\* the caller goes on as `alone'; otherwise the search begins.
sched(tick, alone) ==
  /\ IF next[current] = current
       THEN live' = alone /\ UNCHANGED <<mode, old, eoi_pending>>
       ELSE /\ mode' = "search" /\ old' = current /\ eoi_pending' = tick
            /\ UNCHANGED live
  /\ UNCHANGED current

\* sched saves the context it interrupts when it is given a stack pointer.
SaveContext ==
  IF next[current] = current
    THEN UNCHANGED <<kstack, saved_stack>>
    ELSE /\ kstack' = [kstack EXCEPT ![current] = live]
         /\ saved_stack' = [saved_stack EXCEPT ![current] = user_stack]

\* Mutant of StackAfterSwitch: ksyscall_data.user_stack is not reloaded.
StackKept(p) == user_stack

\* ksyscall_data.user_stack once the search has come to p.
StackAfterSwitch(p) == IF p = old THEN user_stack ELSE saved_stack[p]

\* One turn of sched's loop and, when the process it comes to runs, the switch
\* to it.  x64_switch, like the end of timer_interrupt, writes the EOI.
SearchStep ==
  /\ mode = "search"
  /\ LET p == next[current] IN
       /\ current' = p
       /\ state' = [state EXCEPT ![p] = Polled(p)]
       /\ IF Polled(p) = "Running"
            THEN /\ mode' = "run" /\ eoi_pending' = FALSE
                 /\ live' = IF p = old THEN live ELSE kstack[p]
                 /\ user_stack' = StackAfterSwitch(p)
            ELSE UNCHANGED <<mode, eoi_pending, live, user_stack>>
  /\ UNCHANGED <<procVars, exit_code, blocker, kstack, sigVars, old,
                 saved_stack, tick_counter, tty_size>>

\* timer_interrupt: counts the tick and, unless a search is under way
\* (sched_enabled is false), calls sched.
TimerTick ==
  /\ InterruptsEnabled /\ ~eoi_pending
  /\ tick_counter' = IF tick_counter < MaxTicks
                       THEN tick_counter + 1 ELSE tick_counter
  /\ IF mode = "search"
       THEN UNCHANGED <<kstack, saved_stack, cpuVars>>
       ELSE SaveContext /\ sched(TRUE, live)
  /\ UNCHANGED <<procVars, state, exit_code, blocker, sigVars, user_stack,
                 tty_size>>

-----------------------------------------------------------------------------
(* System calls.  Syscall::handler records the caller's stack pointer, which
   syscall_entry left in ksyscall_data, and syscall_entry reloads it from
   there when the call returns. *)
EnterCall ==
  /\ user_stack' = Stack(current, live.sig)
  /\ saved_stack' = [saved_stack EXCEPT ![current] = Stack(current, live.sig)]

\* The call returns; on a stack that is not its own the caller is lost.
ReturnFromCall ==
  live' = Context(live.sig,
                  IF user_stack = Stack(current, live.sig) THEN "user" ELSE "stray",
                  0)

\* sys$exit; at "gone" its caller repeats the call for ever.
exit ==
  /\ CanCall("exit") /\ EnterCall
  /\ exit_code' = [exit_code EXCEPT ![current] = "exited"]
  /\ state' = [state EXCEPT ![current] = "Dead"]
  /\ sched(FALSE, Context(live.sig, "gone", 0))
  /\ UNCHANGED <<procVars, blocker, kstack, sigVars, tick_counter, tty_size>>

\* pf_interrupt and gpf_interrupt on a fault of user code: the process dies
\* without an exit code.
fault ==
  /\ \/ CanCall("fault")
     \/ mode = "run" /\ live.at = "stray"
  /\ state' = [state EXCEPT ![current] = "Dead"]
  /\ sched(FALSE, Context(live.sig, "gone", 0))
  /\ UNCHANGED <<procVars, exit_code, blocker, kstack, sigVars, stackVars,
                 tick_counter, tty_size>>

\* Mutant of LinkAfterCurrent: the child is linked back to its parent.
LinkBack(child) == [next EXCEPT ![child] = current, ![current] = child]

\* The run queue with a child linked in after the caller.
LinkAfterCurrent(child) == [next EXCEPT ![child] = next[current], ![current] = child]

\* A fresh Process is put on the run queue.
Enqueue(start) ==
  /\ npid < MaxProcs
  /\ npid' = npid + 1
  /\ next' = LinkAfterCurrent(npid)
  /\ state' = [state EXCEPT ![npid] = "Running"]
  /\ kstack' = [kstack EXCEPT ![npid] = start]
  /\ EnterCall
  /\ UNCHANGED <<exit_code, blocker, sigVars, cpuVars, tick_counter, tty_size>>

\* sys$fork: the child goes on where its parent is.
fork == CanCall("fork") /\ Enqueue(live)

\* sys$spawn: the child starts a program.
spawn == CanCall("spawn") /\ Enqueue(UserMain)

\* sys$exec: a new Process is built, which keeps its entry in process_pid_map,
\* and copied over the caller, whose links and pid are put back.
exec ==
  /\ CanCall("exec") /\ npid < MaxProcs
  /\ npid' = npid + 1
  /\ state' = [state EXCEPT ![current] = "Running"]
  /\ exit_code' = [exit_code EXCEPT ![current] = "garbage"]
  /\ blocker' = [blocker EXCEPT ![current] = Blocker("none", 0)]
  /\ kstack' = [kstack EXCEPT ![current] = UserMain]
  /\ handler' = [handler EXCEPT ![current] = FALSE]
  /\ in_signal' = [in_signal EXCEPT ![current] = FALSE]
  /\ was_blocked' = [was_blocked EXCEPT ![current] = FALSE]
  /\ sigsaved' = [sigsaved EXCEPT ![current] = UserMain]
  /\ live' = UserMain
  /\ user_stack' = NoStack
  /\ saved_stack' = [saved_stack EXCEPT ![current] = NoStack]
  /\ UNCHANGED <<next, current, mode, old, eoi_pending, tick_counter, tty_size>>

\* A call stores what it waits for, becomes Blocked and starts to wait.
Block(at, arg, on) ==
  /\ EnterCall
  /\ blocker' = [blocker EXCEPT ![current] = Blocker(on, arg)]
  /\ state' = [state EXCEPT ![current] = "Blocked"]
  /\ live' = Context(live.sig, at, arg)
  /\ UNCHANGED <<procVars, exit_code, kstack, sigVars, current, mode, old,
                 eoi_pending, tick_counter, tty_size>>

\* sys$sleep, with interrupts masked throughout.
sleep ==
  /\ CanCall("sleep")
  /\ \E us \in Sleeps :
       /\ global_waiter_time + us < MaxTicks
       /\ Block("sleep", global_waiter_time + us, "SleepBlock")

\* The loop of sys$sleep: calls sched through x64_syscall_block_help until the
\* process is no longer Blocked.
SleepLoop ==
  /\ mode = "run" /\ live.at = "sleep"
  /\ IF state[current] = "Blocked"
       THEN SaveContext /\ sched(FALSE, live)
       ELSE ReturnFromCall /\ UNCHANGED <<kstack, saved_stack, current, mode,
                                          old, eoi_pending>>
  /\ UNCHANGED <<procVars, state, exit_code, blocker, sigVars, user_stack,
                 tick_counter, tty_size>>

\* Mutant of waitpid: a pid nobody has is not refused.
waitpidUnchecked ==
  CanCall("waitpid") /\ \E p \in 1 .. npid : Block("waitpid", p, "ProcessBlock")

\* sys$waitpid (pid 0 fails its assertion), and its loop: poll_is_blocked until
\* the caller is no longer Blocked, then the exit code is read.
waitpid ==
  CanCall("waitpid") /\ \E p \in Created \ {0} : Block("waitpid", p, "ProcessBlock")

WaitpidLoop ==
  /\ mode = "run" /\ live.at = "waitpid" /\ Polled(current) # "Blocked"
  /\ state' = [state EXCEPT ![current] = Polled(current)]
  /\ ReturnFromCall
  /\ UNCHANGED <<procVars, exit_code, blocker, kstack, sigVars, current, mode,
                 old, eoi_pending, stackVars, tick_counter, tty_size>>

\* sys$poll without timeout on one descriptor, and its loop.
poll == CanCall("poll") /\ Block("poll", 0, "FileIOReadBlock")

PollLoop ==
  /\ mode = "run" /\ live.at = "poll" /\ Polled(current) # "Blocked"
  /\ state' = [state EXCEPT ![current] = Polled(current)]
  /\ ReturnFromCall
  /\ UNCHANGED <<procVars, exit_code, blocker, kstack, sigVars, current, mode,
                 old, eoi_pending, stackVars, tick_counter, tty_size>>

\* sys$read and sys$write of the terminal up to their loops.
read  == CanCall("read") /\ \E sz \in ReadSizes : Block("read", sz, "FileIOReadBlock")
write == CanCall("write") /\ \E sz \in WriteSizes : Block("write", sz, "FileIOWriteBlock")

\* The loops ask the node, whatever the state of the caller; after the last
\* answer the timer may still strike before the cli.
BlockedLoop ==
  /\ mode = "run"
  /\ \/ /\ live.at = "read" /\ ~check_blocked
        /\ live' = Context(live.sig, "reading", live.arg)
     \/ /\ live.at = "write" /\ ~check_blocked_write(live.arg)
        /\ live' = Context(live.sig, "writing", live.arg)
  /\ UNCHANGED <<procVars, state, exit_code, blocker, kstack, sigVars, current,
                 mode, old, eoi_pending, stackVars, tick_counter, tty_size>>

\* Mutant of LeftAfterRead: no look at m_size.
LeftUnguarded(sz) == (tty_size + WordSize - sz) % WordSize

\* TTY::read takes sz bytes from a terminal that has any, if not that many.
LeftAfterRead(sz) ==
  IF tty_size = 0 THEN 0 ELSE (tty_size + WordSize - sz) % WordSize

\* Mutant of FinishRead: no set_state(Running).
FinishReadStaysBlocked ==
  /\ mode = "run" /\ live.at = "reading"
  /\ tty_size' = LeftAfterRead(live.arg)
  /\ ReturnFromCall
  /\ UNCHANGED <<procVars, state, exit_code, blocker, kstack, sigVars, current,
                 mode, old, eoi_pending, stackVars, tick_counter>>

\* The rest of sys$read.
FinishRead ==
  /\ mode = "run" /\ live.at = "reading"
  /\ state' = [state EXCEPT ![current] = "Running"]
  /\ tty_size' = LeftAfterRead(live.arg)
  /\ ReturnFromCall
  /\ UNCHANGED <<procVars, exit_code, blocker, kstack, sigVars, current, mode,
                 old, eoi_pending, stackVars, tick_counter>>

\* The rest of sys$write and TTY::write, which asserts that the bytes fit.
FinishWrite ==
  /\ mode = "run" /\ live.at = "writing"
  /\ state' = [state EXCEPT ![current] = "Running"]
  /\ IF check_blocked_write(live.arg)
       THEN mode' = "panic" /\ UNCHANGED <<tty_size, live>>
       ELSE /\ tty_size' = (tty_size + live.arg) % WordSize
            /\ ReturnFromCall /\ UNCHANGED mode
  /\ UNCHANGED <<procVars, exit_code, blocker, kstack, sigVars, current,
                 old, eoi_pending, stackVars, tick_counter>>

-----------------------------------------------------------------------------
(* Signals.  SIGKILL looks at the target's state first, SIGINT does not. *)
Kill(p, code) ==
  /\ exit_code' = [exit_code EXCEPT ![p] = code]
  /\ state' = [state EXCEPT ![p] = "Dead"]

\* A signal takes its target out of a wait.
SignalledState(p) == IF state[p] = "Blocked" THEN "Running" ELSE state[p]

\* The context p goes on with is replaced by its handler.
Deliver(p) ==
  /\ in_signal' = [in_signal EXCEPT ![p] = TRUE]
  /\ sigsaved' = [sigsaved EXCEPT ![p] = kstack[p]]
  /\ kstack' = [kstack EXCEPT ![p] = UserHandler]
  /\ state' = [state EXCEPT ![p] = SignalledState(p)]
  /\ was_blocked' = [was_blocked EXCEPT ![p] = @ \/ state[p] = "Blocked"]
  /\ UNCHANGED handler

\* Mutant of send_signal: signals nest.
send_signalNested(p) == Deliver(p)

\* Process::send_signal: a signal that finds another in progress is dropped.
send_signal(p) ==
  IF in_signal[p] THEN UNCHANGED <<state, kstack, sigVars>> ELSE Deliver(p)

\* Mutant of kill: no look at the state.
killAgain ==
  /\ CanCall("kill") /\ EnterCall
  /\ \E p \in Created : Kill(p, "129")
  /\ UNCHANGED <<procVars, blocker, kstack, sigVars, cpuVars, tick_counter, tty_size>>

\* sys$kill with SIGKILL.
kill ==
  /\ CanCall("kill") /\ EnterCall
  /\ \E p \in Created :
       IF state[p] # "Dead" THEN Kill(p, "129") ELSE UNCHANGED <<exit_code, state>>
  /\ UNCHANGED <<procVars, blocker, kstack, sigVars, cpuVars, tick_counter, tty_size>>

\* sys$kill with SIGINT.
interrupt ==
  /\ CanCall("interrupt") /\ EnterCall
  /\ \E p \in Created :
       IF handler[p]
         THEN send_signal(p) /\ UNCHANGED exit_code
         ELSE Kill(p, "130") /\ UNCHANGED <<kstack, sigVars>>
  /\ UNCHANGED <<procVars, blocker, cpuVars, tick_counter, tty_size>>

\* SYS_SIGNAL: register_signal_handler.
signal ==
  /\ CanCall("signal") /\ EnterCall
  /\ handler' = [handler EXCEPT ![current] = TRUE]
  /\ UNCHANGED <<procVars, state, exit_code, blocker, kstack, in_signal,
                 was_blocked, sigsaved, cpuVars, tick_counter, tty_size>>

\* A call that finds no such process or file, or a bad descriptor: it returns
\* at once with an error.
refused ==
  /\ CanCall("refused") /\ EnterCall
  /\ UNCHANGED <<procVars, state, exit_code, blocker, kstack, sigVars, cpuVars,
                 tick_counter, tty_size>>

\* Mutants of StateAfterSigret: the wait is not resumed; it is resumed always.
StateForgotten == state
StateAlwaysBlocked == [state EXCEPT ![current] = "Blocked"]

\* sigret resumes the wait a signal interrupted.
StateAfterSigret ==
  IF was_blocked[current] THEN [state EXCEPT ![current] = "Blocked"] ELSE state

\* SYS_SIGRET, the last thing a handler does.  Where sched comes back to its
\* caller, this one has nowhere to return to.
sigret ==
  /\ mode = "run" /\ live = UserHandler /\ EnterCall
  /\ state' = StateAfterSigret
  /\ was_blocked' = [was_blocked EXCEPT ![current] = FALSE]
  /\ in_signal' = [in_signal EXCEPT ![current] = FALSE]
  /\ kstack' = [kstack EXCEPT ![current] = sigsaved[current]]
  /\ live' = Context(TRUE, "stray", 0)
  /\ IF next[current] = current
       THEN UNCHANGED <<mode, old, eoi_pending>>
       ELSE mode' = "search" /\ old' = current /\ eoi_pending' = FALSE
  /\ UNCHANGED <<procVars, exit_code, blocker, handler, sigsaved, current,
                 tick_counter, tty_size>>

\* What a lost thread runs into: a page fault that is not a user write panics.
StrayPanic ==
  /\ mode = "run" /\ live.at = "stray" /\ mode' = "panic"
  /\ UNCHANGED <<procVars, state, exit_code, blocker, kstack, sigVars, current,
                 old, eoi_pending, live, stackVars, tick_counter, tty_size>>

\* panic stops the CPU for good.
Halt == mode = "panic" /\ UNCHANGED vars

-----------------------------------------------------------------------------
Call == \/ exit \/ fork \/ spawn \/ exec \/ sleep \/ waitpid \/ poll
        \/ read \/ write \/ kill \/ interrupt \/ signal \/ refused
        \/ sigret \/ fault

\* The steps the kernel takes by itself inside a call.
Progress == \/ SleepLoop \/ WaitpidLoop \/ PollLoop \/ BlockedLoop
            \/ FinishRead \/ FinishWrite

Next == Call \/ Progress \/ SearchStep \/ TimerTick \/ StrayPanic \/ Halt

Spec == Init /\ [][Next]_vars

\* The HPET ticks for ever and a tick that finds interrupts masked stays pending
\* until they are not; the CPU executes whatever is next; and a process that
\* gets the CPU again and again gets through a loop body in one of its turns,
\* the tick being some ten thousand instructions long.
Fairness ==
  /\ SF_vars(TimerTick) /\ WF_vars(SearchStep) /\ WF_vars(SleepLoop)
  /\ \A p \in Pids : SF_vars(p = current /\ Progress)

FairSpec == Spec /\ Fairness

-----------------------------------------------------------------------------
(* Properties *)

Contexts == [sig : BOOLEAN, at : Places, arg : Nat]
Blockers == [on : {"none", "ProcessBlock", "SleepBlock", "FileIOReadBlock",
                   "FileIOWriteBlock"}, arg : Nat]
Stacks   == [pid : Pids \cup {NoPid}, sig : BOOLEAN]

\* Every variable has its type; a process blocked on a process is blocked on
\* one that exists.
TypeOK ==
  /\ npid \in 1 .. MaxProcs
  /\ next \in [Pids -> Pids \cup {NoPid}]
  /\ state \in [Pids -> Status]
  /\ exit_code \in [Pids -> ExitCodes]
  /\ blocker \in [Pids -> Blockers]
  /\ \A p \in Pids : blocker[p].on = "ProcessBlock" => blocker[p].arg \in Pids
  /\ kstack \in [Pids -> Contexts]
  /\ handler \in [Pids -> BOOLEAN]
  /\ in_signal \in [Pids -> BOOLEAN]
  /\ was_blocked \in [Pids -> BOOLEAN]
  /\ sigsaved \in [Pids -> Contexts]
  /\ current \in Pids /\ old \in Pids
  /\ mode \in {"run", "search", "panic"}
  /\ eoi_pending \in BOOLEAN
  /\ live \in Contexts
  /\ user_stack \in Stacks /\ saved_stack \in [Pids -> Stacks]
  /\ tick_counter \in 0 .. MaxTicks
  /\ tty_size \in 0 .. WordSize - 1

\* The run queue is one cycle: the links lead from any process on it to every
\* other, so that the search of sched reaches them all (sys$fork, sys$spawn and
\* sys$exec edit the links by hand).
RingIsOneCycle ==
  /\ current \in Ring
  /\ \A p \in Ring : next[p] \in Ring
  /\ \A S \in SUBSET Ring : (S # {} /\ \A p \in S : next[p] \in S) => S = Ring

\* A dead process that is not on the CPU is never run or blocked again:
\* neither a signal, nor the scheduler's poll, nor another process's exec
\* revives it.
DeadStep ==
  \A p \in Pids : state[p] = "Dead" /\ ~(mode = "run" /\ p = current)
                    => state'[p] = "Dead"
DeadStaysDead == [][DeadStep]_vars

\* What a process is blocked on is what the call it will go on with waits for:
\* no other call of its own overwrites m_blocker in between.
AwaitedBy == [waitpid |-> "ProcessBlock", sleep |-> "SleepBlock",
              read |-> "FileIOReadBlock", reading |-> "FileIOReadBlock",
              poll |-> "FileIOReadBlock", write |-> "FileIOWriteBlock",
              writing |-> "FileIOWriteBlock"]
BlockerMatchesCall ==
  \A p \in Ring : state[p] = "Blocked" =>
    LET c == Resume(p) IN
      /\ c.at \in DOMAIN AwaitedBy
      /\ blocker[p].on = AwaitedBy[c.at]
      /\ c.at # "poll" /\ c.at # "read" /\ c.at # "reading" => blocker[p].arg = c.arg

\* waitpid returns only when the process waited for is dead, and sleep only when its time
\* is over, whatever signals and polls took the caller out of its wait before.
CallReturns(at) == mode = "run" /\ mode' = "run" /\ live.at = at /\ live'.at # at
WaitsEndForTheirReason ==
  [][/\ CallReturns("waitpid") => state[live.arg] = "Dead"
     /\ CallReturns("sleep") => global_waiter_time >= live.arg]_vars

\* A call returns on the user stack it was made from, whatever other processes
\* have called in the meantime.
ReturnsOnItsStack ==
  [][\A c \in {"waitpid", "sleep", "poll", "reading", "writing"} :
        CallReturns(c) => user_stack = Stack(current, live.sig)]_vars

\* While a handler is pending or running, the context it interrupted is kept:
\* what is saved is never a handler still at work.
InterruptedContextKept ==
  \A p \in Ring : in_signal[p] => ~sigsaved[p].sig \/ sigsaved[p].at = "stray"

\* The exit code of a dead process that is off the CPU does not change.
ExitCodeKept ==
  [][\A p \in Pids : state[p] = "Dead" /\ ~(mode = "run" /\ p = current)
        => exit_code'[p] = exit_code[p]]_vars

\* The terminal's byte count stays inside its buffer: of two readers that both
\* saw the last byte the second takes nothing, and no writer passes the end.
TtyWithinBuffer == tty_size < TtySize

\* TTY.cpp asserts on every write that the bytes fit.
WriteFits == mode # "panic"

\* A process that can run gets the CPU (or dies, or is sent elsewhere).
RunnableRuns ==
  \A p \in Pids : (p \in Ring /\ state[p] = "Running")
                    ~> (mode # "search" /\ current = p) \/ state[p] # "Running"

\* A process that sleeps on a queue it shares is woken, or killed.
Sleeping(p) == p \in Ring /\ next[p] # p /\ state[p] = "Blocked" /\ blocker[p].on = "SleepBlock"
SleepersWake == \A p \in Pids : Sleeping(p) ~> ~Sleeping(p)

\* A process that waits for a dead one gets out of its wait.
WaitersReleased ==
  \A p \in Pids, q \in Pids :
    (state[q] = "Dead" /\ p \in Ring /\ Resume(p).at = "waitpid" /\ Resume(p).arg = q)
      ~> (Resume(p).at # "waitpid" \/ state[p] = "Dead" \/ state[q] # "Dead")
=============================================================================
