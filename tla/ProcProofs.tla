----------------------------- MODULE ProcProofs -----------------------------
(***************************************************************************)
(* What holds of the processes of 4IROS for any number of processes, any   *)
(* clock and any terminal: the types, the shape of the run queue, that the *)
(* dead stay dead and keep their exit codes, the terminal's count, that a  *)
(* signal keeps the context it interrupts, and the user stacks that calls  *)
(* return to.                                                              *)
(***************************************************************************)
EXTENDS Proc, Integers, TLAPS

\* Pids not yet given out have no link and the state a new Process starts in.
Fresh == \A p \in Pids : p >= npid => next[p] = NoPid /\ state[p] = "Running"

IInv == TypeOK /\ Fresh /\ RingIsOneCycle

-----------------------------------------------------------------------------
(* Facts about the types *)

LEMMA ContextType ==
  ASSUME NEW s \in BOOLEAN, NEW at \in Places, NEW a \in Nat
  PROVE  Context(s, at, a) \in Contexts
BY DEF Context, Contexts

LEMMA UserContexts == UserMain \in Contexts /\ UserHandler \in Contexts
BY ContextType DEF UserMain, UserHandler, Places

LEMMA PidFacts == 0 \in Pids /\ Pids \subseteq Nat /\ NoPid \notin Pids /\ NoPid \in Nat
BY ProcsAssumption DEF Pids, NoPid

LEMMA StackType ==
  ASSUME NEW p \in Pids \cup {NoPid}, NEW s \in BOOLEAN
  PROVE  Stack(p, s) \in Stacks
BY DEF Stack, Stacks

LEMMA TimeType == TypeOK => global_waiter_time \in Nat
BY TicksAssumption DEF TypeOK, global_waiter_time

LEMMA InitTypeOK == Init => TypeOK
<1> SUFFICES ASSUME Init PROVE TypeOK OBVIOUS
<1> USE PidFacts, ProcsAssumption, TicksAssumption, SizesAssumption
<1>1. NoStack \in Stacks BY StackType DEF NoStack
<1>2. Blocker("none", 0) \in Blockers BY DEF Blocker, Blockers
<1>3. npid \in 1 .. MaxProcs /\ tick_counter \in 0 .. MaxTicks
      /\ tty_size \in 0 .. WordSize - 1 BY DEF Init
<1>4. blocker \in [Pids -> Blockers]
      /\ \A p \in Pids : blocker[p].on = "ProcessBlock" => blocker[p].arg \in Pids
      BY <1>2 DEF Init, Blocker
<1> QED BY <1>1, <1>3, <1>4, UserContexts DEF Init, TypeOK, Status, ExitCodes

\* Where a process is after a call, and what polling makes of its state.
LEMMA StepTypes ==
  ASSUME TypeOK
  PROVE  /\ \A p \in Pids : Polled(p) \in Status /\ SignalledState(p) \in Status
         /\ \A p \in Pids : StackAfterSwitch(p) \in Stacks
         /\ Stack(current, live.sig) \in Stacks
         /\ live.sig \in BOOLEAN /\ live.at \in Places /\ live.arg \in Nat
<1>1. live.sig \in BOOLEAN /\ live.at \in Places /\ live.arg \in Nat
  BY DEF TypeOK, Contexts
<1>2. \A p \in Pids : Polled(p) \in Status /\ SignalledState(p) \in Status
  BY DEF TypeOK, Polled, SignalledState, Status
<1>3. \A p \in Pids : StackAfterSwitch(p) \in Stacks
  BY DEF TypeOK, StackAfterSwitch
<1> QED BY <1>1, <1>2, <1>3, StackType DEF TypeOK

LEMMA CreatedPids == TypeOK => Created \subseteq Pids /\ Created \subseteq Nat
BY ProcsAssumption DEF TypeOK, Created, Pids

LEMMA ModuloType ==
  ASSUME NEW a \in Int PROVE a % WordSize \in 0 .. WordSize - 1
BY SizesAssumption

LEMMA EnterCallType ==
  ASSUME TypeOK, EnterCall
  PROVE  user_stack' \in Stacks /\ saved_stack' \in [Pids -> Stacks]
BY StepTypes DEF TypeOK, EnterCall

LEMMA ReturnType == ASSUME TypeOK, ReturnFromCall PROVE live' \in Contexts
BY StepTypes, ContextType DEF ReturnFromCall, Places

LEMMA schedType ==
  ASSUME TypeOK, NEW tick \in BOOLEAN, NEW alone \in Contexts, sched(tick, alone)
  PROVE  /\ live' \in Contexts /\ mode' \in {"run", "search", "panic"}
         /\ old' \in Pids /\ current' \in Pids /\ eoi_pending' \in BOOLEAN
BY DEF TypeOK, sched

LEMMA SaveContextType ==
  ASSUME TypeOK, SaveContext
  PROVE  kstack' \in [Pids -> Contexts] /\ saved_stack' \in [Pids -> Stacks]
BY DEF TypeOK, SaveContext

LEMMA BlockType ==
  ASSUME TypeOK, NEW at \in Places, NEW arg \in Nat,
         NEW on \in {"ProcessBlock", "SleepBlock", "FileIOReadBlock", "FileIOWriteBlock"},
         on = "ProcessBlock" => arg \in Pids, Block(at, arg, on)
  PROVE  TypeOK'
<1>1. Blocker(on, arg) \in Blockers /\ Blocker(on, arg).on = on /\ Blocker(on, arg).arg = arg
  BY DEF Blocker, Blockers
<1>2. blocker' \in [Pids -> Blockers]
      /\ \A p \in Pids : blocker'[p].on = "ProcessBlock" => blocker'[p].arg \in Pids
  BY <1>1 DEF Block, TypeOK
<1>3. live' \in Contexts BY StepTypes, ContextType DEF Block
<1>4. user_stack' \in Stacks /\ saved_stack' \in [Pids -> Stacks]
  BY EnterCallType DEF Block
<1>5. state' \in [Pids -> Status] BY DEF Block, TypeOK, Status
<1> QED BY <1>2, <1>3, <1>4, <1>5 DEF Block, TypeOK, procVars, sigVars

LEMMA EnqueueType == ASSUME TypeOK, NEW start \in Contexts, Enqueue(start) PROVE TypeOK'
<1>1. npid' \in 1 .. MaxProcs /\ npid \in Pids
  BY ProcsAssumption DEF Enqueue, TypeOK, Pids
<1>2. next' \in [Pids -> Pids \cup {NoPid}]
  BY <1>1 DEF Enqueue, LinkAfterCurrent, TypeOK
<1>3. state' \in [Pids -> Status] /\ kstack' \in [Pids -> Contexts]
  BY DEF Enqueue, TypeOK, Status
<1>4. user_stack' \in Stacks /\ saved_stack' \in [Pids -> Stacks]
  BY EnterCallType DEF Enqueue
<1> QED BY <1>1, <1>2, <1>3, <1>4 DEF Enqueue, TypeOK, sigVars, cpuVars

-----------------------------------------------------------------------------
(* Types *)

LEMMA CallTypes == ASSUME TypeOK, Call PROVE TypeOK'
<1> USE StepTypes, UserContexts
<1>1. CASE exit
  <2>1. Context(live.sig, "gone", 0) \in Contexts BY ContextType DEF Places
  <2>2. /\ live' \in Contexts /\ mode' \in {"run", "search", "panic"}
        /\ old' \in Pids /\ current' \in Pids /\ eoi_pending' \in BOOLEAN
    BY <1>1, <2>1, schedType DEF exit
  <2>3. user_stack' \in Stacks /\ saved_stack' \in [Pids -> Stacks]
    BY <1>1, EnterCallType DEF exit
  <2> QED BY <1>1, <2>2, <2>3
          DEF exit, TypeOK, procVars, sigVars, Status, ExitCodes
<1>2. CASE fault
  <2>1. Context(live.sig, "gone", 0) \in Contexts BY ContextType DEF Places
  <2>2. /\ live' \in Contexts /\ mode' \in {"run", "search", "panic"}
        /\ old' \in Pids /\ current' \in Pids /\ eoi_pending' \in BOOLEAN
    BY <1>2, <2>1, schedType DEF fault
  <2> QED BY <1>2, <2>2 DEF fault, TypeOK, procVars, sigVars, stackVars, Status
<1>3. CASE fork
  BY <1>3, EnqueueType DEF fork, TypeOK
<1>4. CASE spawn
  BY <1>4, EnqueueType DEF spawn
<1>5. CASE exec
  <2>1. NoStack \in Stacks BY StackType DEF NoStack
  <2>2. Blocker("none", 0) \in Blockers /\ Blocker("none", 0).on # "ProcessBlock"
    BY DEF Blocker, Blockers
  <2>3. npid' \in 1 .. MaxProcs BY <1>5, ProcsAssumption DEF exec, TypeOK
  <2>4. blocker' \in [Pids -> Blockers]
        /\ \A p \in Pids : blocker'[p].on = "ProcessBlock" => blocker'[p].arg \in Pids
    BY <1>5, <2>2 DEF exec, TypeOK
  <2> QED BY <1>5, <2>1, <2>3, <2>4 DEF exec, TypeOK, Status, ExitCodes
<1>6. CASE sleep
  BY <1>6, TimeType, TicksAssumption, BlockType DEF sleep, Places
<1>7. CASE waitpid
  <2>1. PICK p \in Created \ {0} : Block("waitpid", p, "ProcessBlock")
    BY <1>7 DEF waitpid
  <2>2. p \in Pids /\ p \in Nat BY CreatedPids
  <2>3. "waitpid" \in Places BY DEF Places
  <2> QED BY <2>1, <2>2, <2>3, BlockType
<1>8. CASE poll
  BY <1>8, BlockType DEF poll, Places
<1>9. CASE read
  BY <1>9, BlockType, SizesAssumption DEF read, Places
<1>10. CASE write
  BY <1>10, BlockType, SizesAssumption DEF write, Places
<1>11. CASE kill
  <2>1. state' \in [Pids -> Status] /\ exit_code' \in [Pids -> ExitCodes]
    BY <1>11 DEF kill, Kill, TypeOK, Status, ExitCodes
  <2>2. user_stack' \in Stacks /\ saved_stack' \in [Pids -> Stacks]
    BY <1>11, EnterCallType DEF kill
  <2> QED BY <1>11, <2>1, <2>2 DEF kill, TypeOK, procVars, sigVars, cpuVars
<1>12. CASE interrupt
  <2>1. user_stack' \in Stacks /\ saved_stack' \in [Pids -> Stacks]
    BY <1>12, EnterCallType DEF interrupt
  <2>2. PICK p \in Created :
          IF handler[p] THEN send_signal(p) /\ UNCHANGED exit_code
                        ELSE Kill(p, "130") /\ UNCHANGED <<kstack, sigVars>>
    BY <1>12 DEF interrupt
  <2>3. p \in Pids BY CreatedPids
  <2>4. /\ state' \in [Pids -> Status] /\ exit_code' \in [Pids -> ExitCodes]
        /\ kstack' \in [Pids -> Contexts] /\ sigsaved' \in [Pids -> Contexts]
        /\ handler' \in [Pids -> BOOLEAN]
        /\ in_signal' \in [Pids -> BOOLEAN]
    <3>1. SignalledState(p) \in Status /\ kstack[p] \in Contexts
          /\ "Dead" \in Status /\ "130" \in ExitCodes
      BY <2>3 DEF TypeOK, Status, ExitCodes
    <3>2. CASE UNCHANGED <<state, kstack, sigVars, exit_code>>
      BY <3>2 DEF TypeOK, sigVars
    <3>3. CASE Deliver(p) /\ UNCHANGED exit_code
      BY <3>1, <3>3 DEF TypeOK, Deliver
    <3>4. CASE Kill(p, "130") /\ UNCHANGED <<kstack, sigVars>>
      BY <3>1, <3>4 DEF TypeOK, Kill, sigVars
    <3> QED BY <2>2, <3>2, <3>3, <3>4 DEF send_signal
  <2>5. was_blocked' \in [Pids -> BOOLEAN]
    BY <2>2, <2>3 DEF TypeOK, send_signal, Deliver, Kill, sigVars
  <2> QED BY <1>12, <2>1, <2>4, <2>5 DEF interrupt, TypeOK, procVars, cpuVars
<1>13. CASE signal
  <2>1. user_stack' \in Stacks /\ saved_stack' \in [Pids -> Stacks]
    BY <1>13, EnterCallType DEF signal
  <2> QED BY <1>13, <2>1 DEF signal, TypeOK, procVars, cpuVars
<1>14. CASE sigret
  <2>1. user_stack' \in Stacks /\ saved_stack' \in [Pids -> Stacks]
    BY <1>14, EnterCallType DEF sigret
  <2>2. live' \in Contexts BY <1>14, ContextType DEF sigret, Places
  <2>3. state' \in [Pids -> Status]
    BY <1>14 DEF sigret, StateAfterSigret, TypeOK, Status
  <2> QED BY <1>14, <2>1, <2>2, <2>3 DEF sigret, TypeOK, procVars
<1>15. CASE refused
  <2>1. user_stack' \in Stacks /\ saved_stack' \in [Pids -> Stacks]
    BY <1>15, EnterCallType DEF refused
  <2> QED BY <1>15, <2>1 DEF refused, TypeOK, procVars, sigVars, cpuVars
<1> QED BY <1>1, <1>2, <1>3, <1>4, <1>5, <1>6, <1>7, <1>8, <1>9, <1>10, <1>11,
           <1>12, <1>13, <1>14, <1>15 DEF Call

LEMMA ProgressTypes == ASSUME TypeOK, Progress PROVE TypeOK'
<1> USE StepTypes
<1>1. CASE SleepLoop
  <2>1. CASE SaveContext /\ sched(FALSE, live) /\ UNCHANGED <<procVars, state,
               exit_code, blocker, sigVars, user_stack, tick_counter, tty_size>>
    <3>1. live \in Contexts BY DEF TypeOK
    <3>2. /\ live' \in Contexts /\ mode' \in {"run", "search", "panic"}
          /\ old' \in Pids /\ current' \in Pids /\ eoi_pending' \in BOOLEAN
      BY <2>1, <3>1, schedType
    <3> QED BY <2>1, <3>2, SaveContextType DEF TypeOK, procVars, sigVars
  <2>2. CASE ReturnFromCall /\ UNCHANGED <<kstack, saved_stack, current, mode, old,
               eoi_pending, procVars, state, exit_code, blocker, sigVars,
               user_stack, tick_counter, tty_size>>
    BY <2>2, ReturnType DEF TypeOK, procVars, sigVars
  <2> QED BY <1>1, <2>1, <2>2 DEF SleepLoop
<1>2. CASE WaitpidLoop
  BY <1>2, ReturnType DEF WaitpidLoop, TypeOK, procVars, sigVars, stackVars
<1>3. CASE PollLoop
  BY <1>3, ReturnType DEF PollLoop, TypeOK, procVars, sigVars, stackVars
<1>4. CASE BlockedLoop
  <2>1. live' \in Contexts
    BY <1>4, ContextType DEF BlockedLoop, Places
  <2> QED BY <1>4, <2>1 DEF BlockedLoop, TypeOK, procVars, sigVars, stackVars
<1>5. CASE FinishRead
  <2>1. tty_size' \in 0 .. WordSize - 1
    <3>1. tty_size + WordSize - live.arg \in Int BY SizesAssumption DEF TypeOK
    <3>2. LeftAfterRead(live.arg) \in 0 .. WordSize - 1
      BY <3>1, ModuloType, SizesAssumption DEF LeftAfterRead
    <3> QED BY <1>5, <3>2 DEF FinishRead
  <2> QED BY <1>5, <2>1, ReturnType
          DEF FinishRead, TypeOK, Status, procVars, sigVars, stackVars
<1>6. CASE FinishWrite
  <2>1. tty_size' \in 0 .. WordSize - 1
    BY <1>6, ModuloType DEF FinishWrite, TypeOK
  <2>2. live' \in Contexts BY <1>6, ReturnType DEF FinishWrite, TypeOK
  <2>3. mode' \in {"run", "search", "panic"} BY <1>6 DEF FinishWrite, TypeOK
  <2> QED BY <1>6, <2>1, <2>2, <2>3
          DEF FinishWrite, TypeOK, Status, procVars, sigVars, stackVars
<1> QED BY <1>1, <1>2, <1>3, <1>4, <1>5, <1>6 DEF Progress

LEMMA SearchTypes ==
  ASSUME TypeOK, next[current] \in Pids, SearchStep PROVE TypeOK'
<1> USE StepTypes
<1>1. current' \in Pids /\ user_stack' \in Stacks /\ live' \in Contexts
      /\ mode' \in {"run", "search", "panic"} /\ eoi_pending' \in BOOLEAN
  BY DEF SearchStep, TypeOK
<1>2. state' \in [Pids -> Status] BY DEF SearchStep, TypeOK
<1> QED BY <1>1, <1>2 DEF SearchStep, TypeOK, procVars, sigVars

LEMMA TickTypes == ASSUME TypeOK, TimerTick PROVE TypeOK'
<1>1. tick_counter' \in 0 .. MaxTicks
  BY TicksAssumption DEF TimerTick, TypeOK
<1>2. /\ live' \in Contexts /\ mode' \in {"run", "search", "panic"}
      /\ old' \in Pids /\ current' \in Pids /\ eoi_pending' \in BOOLEAN
      /\ kstack' \in [Pids -> Contexts] /\ saved_stack' \in [Pids -> Stacks]
  <2>1. CASE mode = "search"
    BY <2>1 DEF TimerTick, TypeOK, cpuVars
  <2>2. CASE mode # "search"
    <3>1. SaveContext /\ sched(TRUE, live) /\ live \in Contexts
      BY <2>2 DEF TimerTick, TypeOK
    <3> QED BY <3>1, schedType, SaveContextType
  <2> QED BY <2>1, <2>2
<1> QED BY <1>1, <1>2 DEF TimerTick, TypeOK, procVars, sigVars

LEMMA StepTypeOK ==
  ASSUME TypeOK, next[current] \in Pids, [Next]_vars PROVE TypeOK'
<1>1. CASE StrayPanic
  BY <1>1 DEF StrayPanic, TypeOK, procVars, sigVars, stackVars
<1>2. CASE UNCHANGED vars
  BY <1>2 DEF vars, TypeOK
<1> QED BY <1>1, <1>2, CallTypes, ProgressTypes, SearchTypes, TickTypes DEF Next, Halt

-----------------------------------------------------------------------------
(* The run queue *)

LEMMA InitQueue == Init => Fresh /\ RingIsOneCycle
<1> SUFFICES ASSUME Init PROVE Fresh /\ RingIsOneCycle OBVIOUS
<1> USE PidFacts, ProcsAssumption
<1>1. Ring = {0} BY DEF Init, Ring
<1>2. next[0] = 0 /\ current = 0 BY DEF Init
<1>3. RingIsOneCycle BY <1>1, <1>2 DEF RingIsOneCycle
<1>4. Fresh BY DEF Init, Fresh, Pids
<1> QED BY <1>3, <1>4

LEMMA RingFacts ==
  ASSUME IInv
  PROVE  /\ current \in Ring /\ next[current] \in Ring
         /\ Ring \subseteq Pids /\ Ring \subseteq Created
<1>1. Ring \subseteq Pids BY DEF Ring
<1>2. Ring \subseteq Created
  BY ProcsAssumption DEF IInv, TypeOK, Fresh, Ring, Created, Pids
<1> QED BY <1>1, <1>2 DEF IInv, RingIsOneCycle

\* Insertion of a fresh process after the current one keeps the queue a single
\* cycle: a closed part of the new queue is, without the newcomer, a closed part
\* of the old one, hence all of it, and then holds the newcomer too.
LEMMA InsertKeepsCycle ==
  ASSUME IInv, npid \in Pids, next' = LinkAfterCurrent(npid), current' = current
  PROVE  RingIsOneCycle' /\ Ring' = Ring \cup {npid}
<1> USE RingFacts, PidFacts
<1>1. npid \notin Ring /\ next \in [Pids -> Pids \cup {NoPid}]
  BY DEF IInv, Fresh, Ring, TypeOK
<1>2. /\ next'[npid] = next[current] /\ next'[current] = npid
      /\ \A p \in Pids : p # npid /\ p # current => next'[p] = next[p]
  BY <1>1 DEF LinkAfterCurrent
<1>3. next[current] \in Pids /\ next[current] # npid BY <1>1
<1>4. Ring' = Ring \cup {npid} BY <1>1, <1>2, <1>3 DEF Ring
<1>5. \A p \in Ring' : next'[p] \in Ring'
  BY <1>1, <1>2, <1>4 DEF IInv, RingIsOneCycle
<1>6. ASSUME NEW S \in SUBSET Ring', S # {}, \A p \in S : next'[p] \in S
      PROVE  S = Ring'
  <2> DEFINE T == S \ {npid}
  <2>1. T \in SUBSET Ring BY <1>4, <1>6
  <2>2. T # {} BY <1>2, <1>3, <1>6
  <2>3. \A p \in T : next[p] \in T
    <3> SUFFICES ASSUME NEW p \in T PROVE next[p] \in T OBVIOUS
    <3>1. next[p] \in Ring BY <2>1 DEF IInv, RingIsOneCycle
    <3>2. CASE p = current BY <1>2, <1>3, <1>6, <3>2
    <3>3. CASE p # current BY <1>1, <1>2, <1>6, <2>1, <3>1, <3>3
    <3> QED BY <3>2, <3>3
  <2>4. T = Ring BY <2>1, <2>2, <2>3 DEF IInv, RingIsOneCycle
  <2> QED BY <1>2, <1>4, <1>6, <2>4
<1> QED BY <1>4, <1>5, <1>6 DEF RingIsOneCycle

\* What a step may do to the queue: insert, or move along it.
LEMMA QueueStep ==
  ASSUME [Next]_vars
  PROVE  \/ next' = next /\ npid' \in {npid, npid + 1}
            /\ current' \in {current, next[current]}
         \/ \E start : Enqueue(start)
<1>1. CASE Call
  BY <1>1 DEF Call, exit, fault, fork, spawn, exec, sleep, waitpid, poll, read,
              write, kill, interrupt, signal, refused, sigret, sched, Block,
              procVars, cpuVars
<1>2. CASE Progress
  BY <1>2 DEF Progress, SleepLoop, WaitpidLoop, PollLoop, BlockedLoop,
              FinishRead, FinishWrite, sched, procVars
<1>3. CASE SearchStep BY <1>3 DEF SearchStep, procVars
<1>4. CASE TimerTick BY <1>4 DEF TimerTick, sched, procVars, cpuVars
<1>5. CASE StrayPanic BY <1>5 DEF StrayPanic, procVars
<1>6. CASE UNCHANGED vars BY <1>6 DEF vars
<1> QED BY <1>1, <1>2, <1>3, <1>4, <1>5, <1>6 DEF Next, Halt

LEMMA StepRing == ASSUME IInv, [Next]_vars PROVE RingIsOneCycle'
<1> USE RingFacts
<1>1. ASSUME NEW start, Enqueue(start) PROVE RingIsOneCycle'
  <2>1. npid \in Pids BY <1>1, ProcsAssumption DEF Enqueue, IInv, TypeOK, Pids
  <2> QED BY <1>1, <2>1, InsertKeepsCycle DEF Enqueue, cpuVars
<1>2. CASE next' = next /\ current' \in {current, next[current]}
  <2>1. Ring' = Ring BY <1>2 DEF Ring
  <2> QED BY <1>2, <2>1 DEF IInv, RingIsOneCycle
<1> QED BY <1>1, <1>2, QueueStep

\* Only processes that exist change state, but for the one that is created.
LEMMA StateStep ==
  ASSUME IInv, [Next]_vars
  PROVE  \A p \in Pids : state'[p] # state[p] =>
           p \in Created \/ (p = npid /\ npid' = npid + 1 /\ state'[p] = "Running")
<1> USE RingFacts, PidFacts
<1>1. current \in Created /\ next[current] \in Created OBVIOUS
<1>2. state \in [Pids -> Status] BY DEF IInv, TypeOK
<1>3. CASE exit \/ fault \/ exec \/ sleep \/ waitpid \/ poll \/ read \/ write \/ sigret
  BY <1>1, <1>2, <1>3 DEF exit, fault, exec, sleep, waitpid, poll, read, write,
                          sigret, StateAfterSigret, Block
<1>4. CASE fork \/ spawn
  BY <1>2, <1>4 DEF fork, spawn, Enqueue
<1>5. CASE kill BY <1>2, <1>5 DEF kill, Kill
<1>6. CASE interrupt
  BY <1>2, <1>6 DEF interrupt, send_signal, Deliver, Kill
<1>7. CASE signal \/ refused BY <1>7 DEF signal, refused
<1>8. CASE Progress
  BY <1>1, <1>2, <1>8 DEF Progress, SleepLoop, WaitpidLoop, PollLoop,
                          BlockedLoop, FinishRead, FinishWrite
<1>9. CASE SearchStep BY <1>1, <1>2, <1>9 DEF SearchStep
<1>10. CASE TimerTick \/ StrayPanic BY <1>10 DEF TimerTick, StrayPanic
<1>11. CASE UNCHANGED vars BY <1>11 DEF vars
<1> QED BY <1>3, <1>4, <1>5, <1>6, <1>7, <1>8, <1>9, <1>10, <1>11 DEF Next, Call, Halt

LEMMA StepFresh == ASSUME IInv, [Next]_vars PROVE Fresh'
<1> SUFFICES ASSUME NEW p \in Pids, p >= npid'
             PROVE  next'[p] = NoPid /\ state'[p] = "Running"
  BY DEF Fresh
<1> USE RingFacts, PidFacts
<1>1. npid' \in {npid, npid + 1} /\ npid \in Nat
  BY QueueStep, ProcsAssumption DEF Enqueue, IInv, TypeOK
<1>2. p >= npid /\ p \notin Created BY <1>1 DEF Created
<1>3. next[p] = NoPid /\ state[p] = "Running" BY <1>2 DEF IInv, Fresh
<1>4. state'[p] = "Running" BY <1>2, <1>3, StateStep
<1>5. ASSUME NEW start, Enqueue(start) PROVE next'[p] = NoPid
  <2>1. p # npid /\ p # current BY <1>1, <1>2, <1>5 DEF Enqueue
  <2> QED BY <1>3, <1>5, <2>1 DEF Enqueue, LinkAfterCurrent, IInv, TypeOK
<1> QED BY <1>3, <1>4, <1>5, QueueStep

LEMMA StepInv == IInv /\ [Next]_vars => IInv'
<1> SUFFICES ASSUME IInv, [Next]_vars PROVE IInv' OBVIOUS
<1>1. next[current] \in Pids BY RingFacts
<1>2. TypeOK' BY <1>1, StepTypeOK DEF IInv
<1> QED BY <1>2, StepFresh, StepRing DEF IInv

LEMMA Invariance == Spec => []IInv
<1>1. Init => IInv BY InitTypeOK, InitQueue DEF IInv
<1> QED BY <1>1, StepInv, PTL DEF Spec

\* Every variable keeps its type, for any number of processes: no step of the
\* kernel takes a link, a blocker or the current process outside the processes
\* there are.
THEOREM TypesHold == Spec => []TypeOK
<1>1. IInv => TypeOK BY DEF IInv
<1> QED BY <1>1, Invariance, PTL

\* However processes are created and replaced, the run queue stays one cycle
\* through the current process: sched's walk along Process::next reaches all.
THEOREM QueueIsOneCycle == Spec => []RingIsOneCycle
<1>1. IInv => RingIsOneCycle BY DEF IInv
<1> QED BY <1>1, Invariance, PTL

-----------------------------------------------------------------------------
(* The dead *)

LEMMA DeadStepHolds == IInv /\ [Next]_vars => DeadStep
<1> SUFFICES ASSUME IInv, [Next]_vars, NEW p \in Pids, state[p] = "Dead",
                    ~(mode = "run" /\ p = current)
             PROVE  state'[p] = "Dead"
  BY DEF DeadStep
<1>1. state \in [Pids -> Status] BY DEF IInv, TypeOK
<1>2. CASE exit \/ fault \/ exec \/ sleep \/ waitpid \/ poll \/ read \/ write \/ sigret
  <2>1. p # current
    BY <1>2 DEF exit, fault, exec, sleep, waitpid, poll, read, write, sigret, CanCall
  <2> QED BY <1>1, <1>2, <2>1 DEF exit, fault, exec, sleep, waitpid, poll, read,
                                  write, sigret, StateAfterSigret, Block
<1>3. CASE fork \/ spawn
  <2>1. npid \in Pids
    BY <1>3, ProcsAssumption DEF fork, spawn, Enqueue, IInv, TypeOK, Pids
  <2>2. p # npid BY <2>1, PidFacts DEF IInv, Fresh
  <2> QED BY <1>1, <1>3, <2>2 DEF fork, spawn, Enqueue
<1>4. CASE kill BY <1>1, <1>4 DEF kill, Kill
<1>5. CASE interrupt
  BY <1>1, <1>5 DEF interrupt, send_signal, Deliver, SignalledState, Kill
<1>6. CASE signal \/ refused BY <1>6 DEF signal, refused
<1>7. CASE Progress
  BY <1>1, <1>7 DEF Progress, SleepLoop, WaitpidLoop, PollLoop, BlockedLoop,
                    FinishRead, FinishWrite
<1>8. CASE SearchStep BY <1>1, <1>8 DEF SearchStep, Polled
<1>9. CASE TimerTick \/ StrayPanic BY <1>9 DEF TimerTick, StrayPanic
<1>10. CASE UNCHANGED vars BY <1>10 DEF vars
<1> QED BY <1>2, <1>3, <1>4, <1>5, <1>6, <1>7, <1>8, <1>9, <1>10 DEF Next, Call, Halt

\* A dead process that has left the CPU stays dead: no signal, no poll by the
\* scheduler, no new process and no exec brings it back.
THEOREM DeadStayDead == Spec => DeadStaysDead
<1>1. [Next]_vars /\ IInv => [DeadStep]_vars BY DeadStepHolds
<1> QED BY <1>1, Invariance, PTL DEF Spec, DeadStaysDead

LEMMA ExitCodeStep ==
  ASSUME IInv, "interrupt" \notin Calls, [Next]_vars, NEW p \in Pids,
         state[p] = "Dead", ~(mode = "run" /\ p = current)
  PROVE  exit_code'[p] = exit_code[p]
<1>1. exit_code \in [Pids -> ExitCodes] BY DEF IInv, TypeOK
<1>2. CASE exit \/ exec
  <2>1. p # current BY <1>2 DEF exit, exec, CanCall
  <2> QED BY <1>1, <1>2, <2>1 DEF exit, exec
<1>3. CASE fault \/ sleep \/ waitpid \/ poll \/ read \/ write \/ sigret \/ signal \/ refused
  BY <1>3 DEF fault, sleep, waitpid, poll, read, write, sigret, signal, refused, Block
<1>4. CASE fork \/ spawn BY <1>4 DEF fork, spawn, Enqueue
<1>5. CASE kill BY <1>1, <1>5 DEF kill, Kill
<1>6. ~interrupt BY CallsAssumption DEF interrupt, CanCall
<1>7. CASE Progress
  BY <1>7 DEF Progress, SleepLoop, WaitpidLoop, PollLoop, BlockedLoop, FinishRead, FinishWrite
<1>8. CASE SearchStep \/ TimerTick \/ StrayPanic
  BY <1>8 DEF SearchStep, TimerTick, StrayPanic
<1>9. CASE UNCHANGED vars BY <1>9 DEF vars
<1> QED BY <1>2, <1>3, <1>4, <1>5, <1>6, <1>7, <1>8, <1>9 DEF Next, Call, Halt

\* The exit code of a dead process that is off the CPU stays what it was, for waitpid to
\* read: kill looks at the state first. Not so SIGINT without a handler, so that the theorem
\* is about programs that do not send it.
THEOREM ExitCodesKept == ASSUME "interrupt" \notin Calls PROVE Spec => ExitCodeKept
<1>1. IInv /\ [Next]_vars =>
        [\A p \in Pids : state[p] = "Dead" /\ ~(mode = "run" /\ p = current)
           => exit_code'[p] = exit_code[p]]_vars
  BY ExitCodeStep
<1> QED BY <1>1, Invariance, PTL DEF Spec, ExitCodeKept

-----------------------------------------------------------------------------
(* The terminal *)

\* A read asks for a count that programs read.
Small(c) == c.at \in {"read", "reading"} => c.arg \in ReadSizes

TtyInv ==
  /\ IInv
  /\ TtyWithinBuffer
  /\ Small(live) /\ \A p \in Pids : Small(kstack[p]) /\ Small(sigsaved[p])

\* Contexts come from the CPU, from a stack, or are about no read at all; read makes its own.
LEMMA SmallStep == TtyInv /\ [Next]_vars =>
  Small(live)' /\ \A p \in Pids : Small(kstack'[p]) /\ Small(sigsaved'[p])
<1> SUFFICES ASSUME TtyInv, [Next]_vars
             PROVE  Small(live') /\ \A p \in Pids : Small(kstack'[p]) /\ Small(sigsaved'[p])
  BY DEF Small
<1>a. /\ kstack \in [Pids -> Contexts] /\ sigsaved \in [Pids -> Contexts]
      /\ current \in Pids /\ next[current] \in Pids
  BY RingFacts DEF TtyInv, IInv, TypeOK
<1>b. /\ Small(live) /\ \A p \in Pids : Small(kstack[p]) /\ Small(sigsaved[p])
      /\ Small(UserMain) /\ Small(UserHandler)
  BY DEF TtyInv, Small, UserMain, UserHandler, Context
<1>c. \A s, at, a : at \notin {"read", "reading"} => Small(Context(s, at, a))
  BY DEF Small, Context
<1>1. CASE exit \/ fault
  BY <1>1, <1>b, <1>c DEF exit, fault, sched, sigVars
<1>2. CASE fork \/ spawn
  BY <1>2, <1>a, <1>b DEF fork, spawn, Enqueue, sigVars, cpuVars
<1>3. CASE exec
  BY <1>3, <1>a, <1>b DEF exec
<1>4. CASE sleep \/ waitpid \/ poll \/ write
  BY <1>4, <1>b, <1>c DEF sleep, waitpid, poll, write, Block, sigVars
<1>5. CASE read
  <2>1. \A sz \in ReadSizes : Small(Context(live.sig, "read", sz))
    BY DEF Small, Context
  <2> QED BY <1>5, <1>b, <2>1 DEF read, Block, sigVars
<1>6. CASE kill \/ signal \/ refused
  BY <1>6, <1>b DEF kill, signal, refused, sigVars, cpuVars
<1>7. CASE interrupt
  BY <1>7, <1>a, <1>b DEF interrupt, send_signal, Deliver, sigVars, cpuVars
<1>8. CASE sigret
  BY <1>8, <1>a, <1>b, <1>c DEF sigret
<1>9. CASE SleepLoop \/ WaitpidLoop \/ PollLoop
  BY <1>9, <1>a, <1>b, <1>c DEF SleepLoop, WaitpidLoop, PollLoop, ReturnFromCall,
                                SaveContext, sched, sigVars
<1>10. CASE BlockedLoop
  <2>1. live.at = "read" => Small(Context(live.sig, "reading", live.arg))
    BY <1>b DEF Small, Context
  <2> QED BY <1>10, <1>b, <1>c, <2>1 DEF BlockedLoop, sigVars
<1>11. CASE FinishRead \/ FinishWrite
  BY <1>11, <1>b, <1>c DEF FinishRead, FinishWrite, ReturnFromCall, sigVars
<1>12. CASE SearchStep
  BY <1>12, <1>a, <1>b DEF SearchStep, sigVars
<1>13. CASE TimerTick
  BY <1>13, <1>a, <1>b DEF TimerTick, SaveContext, sched, sigVars, cpuVars
<1>14. CASE StrayPanic \/ UNCHANGED vars
  BY <1>14, <1>b DEF StrayPanic, sigVars, vars
<1> QED BY <1>1, <1>2, <1>3, <1>4, <1>5, <1>6, <1>7, <1>8, <1>9, <1>10, <1>11, <1>12, <1>13,
           <1>14 DEF Next, Call, Progress, Halt

LEMMA TtyStep ==
  ASSUME TtyInv, ReadSizes \subseteq {0, 1}, [Next]_vars
  PROVE  TtyWithinBuffer'
<1>a. tty_size \in Nat /\ tty_size < TtySize /\ TtySize \in Nat /\ WordSize \in Nat
      /\ TtySize < WordSize
  BY SizesAssumption DEF TtyInv, TtyWithinBuffer, IInv, TypeOK
<1>1. CASE Call
  BY <1>1, <1>a DEF Call, exit, fault, fork, spawn, exec, sleep, waitpid, poll, read, write,
                    kill, interrupt, signal, refused, sigret, Enqueue, Block, TtyWithinBuffer
<1>2. CASE SleepLoop \/ WaitpidLoop \/ PollLoop \/ BlockedLoop
  BY <1>2, <1>a DEF SleepLoop, WaitpidLoop, PollLoop, BlockedLoop, TtyWithinBuffer
<1>3. CASE FinishRead
  <2>1. tty_size' = LeftAfterRead(live.arg) /\ live.arg \in {0, 1}
    BY <1>3 DEF FinishRead, TtyInv, Small
  <2>2. tty_size > 0 /\ live.arg = 1 =>
          (tty_size + WordSize - live.arg) % WordSize = tty_size - 1
    BY <1>a
  <2>3. live.arg = 0 => (tty_size + WordSize - live.arg) % WordSize = tty_size
    BY <1>a
  <2> QED BY <1>a, <2>1, <2>2, <2>3 DEF LeftAfterRead, TtyWithinBuffer
<1>4. CASE FinishWrite
  <2>1. live.arg \in Nat BY DEF TtyInv, IInv, TypeOK, Contexts
  <2>2. (tty_size + live.arg) % WordSize \in Nat BY <1>a, <2>1, SizesAssumption
  <2> QED BY <1>4, <1>a, <2>2 DEF FinishWrite, check_blocked_write, TtyWithinBuffer
<1>5. CASE SearchStep \/ TimerTick \/ StrayPanic
  BY <1>5, <1>a DEF SearchStep, TimerTick, StrayPanic, TtyWithinBuffer
<1>6. CASE UNCHANGED vars
  BY <1>6, <1>a DEF vars, TtyWithinBuffer
<1> QED BY <1>1, <1>2, <1>3, <1>4, <1>5, <1>6 DEF Next, Progress, Halt

\* Readers and writers, however many and wherever the timer parts their test from their
\* transfer, leave the terminal's count inside its buffer, if no read asks for more than the
\* byte the test has seen: a larger one takes m_size below zero.
THEOREM TtyStaysWithinBuffer ==
  ASSUME TtySize > 0, ReadSizes \subseteq {0, 1}
  PROVE  Spec => []TtyWithinBuffer
<1>1. Init => TtyInv
  <2> SUFFICES ASSUME Init PROVE TtyInv OBVIOUS
  <2>1. IInv BY InitTypeOK, InitQueue DEF IInv
  <2>2. Small(UserMain) BY DEF Small, UserMain, Context
  <2>3. TtyWithinBuffer BY DEF Init, TtyWithinBuffer
  <2> QED BY <2>1, <2>2, <2>3 DEF Init, TtyInv
<1>2. TtyInv /\ [Next]_vars => TtyInv'
  BY StepInv, SmallStep, TtyStep DEF TtyInv
<1>3. TtyInv => TtyWithinBuffer BY DEF TtyInv
<1> QED BY <1>1, <1>2, <1>3, PTL DEF Spec

-----------------------------------------------------------------------------
(* Signals *)

\* Handlers do not both fork and register handlers; they may wait, and make any other call.
NoHeirsRegister == ~({"fork", "signal"} \subseteq HandlerCalls)

\* Context c executes a handler.
InHandler(c) == c.sig /\ c.at # "stray"

\* A process that a handler has forked: it goes on in the handler, but has none itself.
Orphan(p) == ~handler[p] /\ sigsaved[p] = UserMain /\ "signal" \notin HandlerCalls

\* A handler's context has been delivered, or inherited, and what it has interrupted is none.
Marks ==
  /\ \A p \in Pids : p >= npid => ~in_signal[p] /\ ~handler[p] /\ sigsaved[p] = UserMain
  /\ \A p \in Pids : InHandler(kstack[p]) => in_signal[p] \/ Orphan(p)
  /\ \A p \in Pids : in_signal[p] => ~InHandler(sigsaved[p])

\* So has the one on the CPU, and what is left of an earlier one does not outlive it.
MarksOnCpu ==
  mode = "run" => /\ InHandler(live) => in_signal[current] \/ Orphan(current)
                  /\ InHandler(kstack[current]) => live.sig \/ in_signal[current]

\* A search, and a handler, there are only with two processes on the queue; the search
\* may come back to old only where it has saved what it executes, or after sigret.
Switching ==
  /\ mode = "search" \/ live.sig => next[current] # current
  /\ mode = "search" => \/ state[old] = "Dead" \/ live = kstack[old]
                        \/ live.sig /\ live.at = "stray"

SignalInv == IInv /\ Marks /\ MarksOnCpu /\ Switching

LEMMA SignalInit == Init => SignalInv
<1> SUFFICES ASSUME Init PROVE SignalInv OBVIOUS
<1>1. IInv BY InitTypeOK, InitQueue DEF IInv
<1>2. UserMain.sig = FALSE BY DEF UserMain, Context
<1> QED BY <1>1, <1>2, PidFacts DEF Init, SignalInv, Marks, MarksOnCpu, Switching, InHandler

\* A step that leaves the process on the CPU and all that signals change alone, and goes on
\* in its context or in the same handler.
LEMMA SameContext ==
  ASSUME SignalInv, mode = "run", UNCHANGED <<next, current, kstack, sigVars>>, npid' >= npid,
         npid \in Nat, npid' \in Nat, mode' \in {"run", "panic"}, live'.sig = live.sig,
         InHandler(live') => InHandler(live)
  PROVE  Marks' /\ MarksOnCpu' /\ Switching'
BY PidFacts DEF SignalInv, Marks, MarksOnCpu, Switching, Orphan, sigVars, InHandler

\* A switch that saves the context, or leaves one that is dead or has nothing to return to.
LEMMA Leaves ==
  ASSUME SignalInv, mode = "run", next[current] # current, mode' = "search", old' = current,
         current' = current, live' = live, UNCHANGED <<npid, next, sigVars>>,
         \/ kstack' = [kstack EXCEPT ![current] = live]
         \/ kstack' = kstack /\ state'[current] = "Dead"
  PROVE  Marks' /\ MarksOnCpu' /\ Switching'
<1>1. /\ current \in Pids /\ kstack \in [Pids -> Contexts] BY RingFacts DEF SignalInv, IInv, TypeOK
<1>2. \A p \in Pids : InHandler(kstack'[p]) => in_signal[p] \/ Orphan(p)
  BY <1>1 DEF SignalInv, Marks, MarksOnCpu
<1> QED BY <1>1, <1>2 DEF SignalInv, Marks, MarksOnCpu, Switching, Orphan, sigVars

LEMMA SwitchKeepsMarks ==
  ASSUME SignalInv, \/ exit \/ fault \/ SleepLoop \/ TimerTick
  PROVE  Marks' /\ MarksOnCpu' /\ Switching'
<1>a. /\ current \in Pids /\ state \in [Pids -> Status] /\ npid \in Nat
  BY RingFacts, ProcsAssumption DEF SignalInv, IInv, TypeOK
<1>b. \A at : Context(live.sig, at, 0).sig = live.sig /\ Context(live.sig, at, 0).at = at
  BY DEF Context
<1>c. next[current] = current /\ mode = "run" => ~live.sig BY DEF SignalInv, Switching
<1>1. CASE exit \/ fault
  <2>1. /\ mode = "run" /\ state'[current] = "Dead"
        /\ UNCHANGED <<npid, next, current, kstack, sigVars>>
        /\ sched(FALSE, Context(live.sig, "gone", 0))
    BY <1>1, <1>a DEF exit, fault, CanCall, procVars, sched
  <2>2. CASE next[current] = current
    BY <1>a, <1>b, <1>c, <2>1, <2>2, SameContext DEF sched, InHandler
  <2>3. CASE next[current] # current
    BY <2>1, <2>3, Leaves DEF sched
  <2> QED BY <2>2, <2>3
<1>2. ASSUME mode = "run", SaveContext, NEW tick, sched(tick, live),
             UNCHANGED <<npid, next, sigVars>>
      PROVE  Marks' /\ MarksOnCpu' /\ Switching'
  <2>1. CASE next[current] = current
    BY <1>a, <1>2, <2>1, SameContext DEF sched, SaveContext
  <2>2. CASE next[current] # current
    BY <1>2, <2>2, Leaves DEF sched, SaveContext
  <2> QED BY <2>1, <2>2
<1>3. CASE SleepLoop
  <2>1. /\ mode = "run" /\ UNCHANGED <<npid, next, sigVars>> BY <1>3 DEF SleepLoop, procVars
  <2>2. CASE state[current] = "Blocked"
    BY <1>2, <1>3, <2>1, <2>2 DEF SleepLoop
  <2>3. CASE state[current] # "Blocked"
    <3>1. ReturnFromCall /\ UNCHANGED <<kstack, current, mode>>
      BY <1>3, <2>3 DEF SleepLoop
    <3>2. live'.sig = live.sig /\ (InHandler(live') => live.sig /\ live.at = "sleep")
      BY <1>3, <1>b, <3>1 DEF ReturnFromCall, InHandler, SleepLoop
    <3> QED BY <1>a, <2>1, <3>1, <3>2, SameContext DEF InHandler
  <2> QED BY <2>2, <2>3
<1>4. CASE TimerTick
  <2>1. UNCHANGED <<npid, next, sigVars, state>> BY <1>4 DEF TimerTick, procVars
  <2>2. CASE mode = "search"
    BY <1>4, <2>1, <2>2 DEF TimerTick, cpuVars, SignalInv, Marks, MarksOnCpu, Switching, Orphan, sigVars
  <2>3. CASE mode # "search"
    BY <1>2, <1>4, <2>1, <2>3 DEF TimerTick, InterruptsEnabled
  <2> QED BY <2>2, <2>3
<1> QED BY <1>1, <1>3, <1>4

LEMMA ProgressKeepsMarks ==
  ASSUME SignalInv, \/ WaitpidLoop \/ PollLoop \/ BlockedLoop \/ FinishRead \/ FinishWrite
                    \/ StrayPanic
  PROVE  Marks' /\ MarksOnCpu' /\ Switching'
<1>1. /\ mode = "run" /\ UNCHANGED <<npid, next, current, kstack, sigVars>>
      /\ mode' \in {"run", "panic"} /\ npid \in Nat
  BY ProcsAssumption DEF WaitpidLoop, PollLoop, BlockedLoop, FinishRead, FinishWrite, StrayPanic,
     procVars, SignalInv, IInv, TypeOK
<1>2. live' = live \/ (live'.sig = live.sig /\ live.at # "stray")
  BY DEF WaitpidLoop, PollLoop, BlockedLoop, FinishRead, FinishWrite, StrayPanic, ReturnFromCall,
     Context
<1> QED BY <1>1, <1>2, SameContext DEF InHandler

LEMMA CallKeepsMarks ==
  ASSUME SignalInv, \/ sleep \/ waitpid \/ poll \/ read \/ write \/ kill \/ refused
  PROVE  Marks' /\ MarksOnCpu' /\ Switching'
<1>1. /\ mode = "run" /\ live.at = "user" /\ npid \in Nat
  BY ProcsAssumption DEF sleep, waitpid, poll, read, write, kill, refused, CanCall, SignalInv,
     IInv, TypeOK
<1>2. /\ UNCHANGED <<npid, next, current, kstack, sigVars, mode>>
      /\ live'.sig = live.sig
  <2>1. CASE kill \/ refused BY <2>1 DEF kill, refused, procVars, cpuVars
  <2>2. CASE sleep \/ waitpid \/ poll \/ read \/ write
    <3>1. PICK at, arg, on : Block(at, arg, on) BY <2>2 DEF sleep, waitpid, poll, read, write
    <3> QED BY <3>1 DEF Block, Context, procVars
  <2> QED BY <2>1, <2>2
<1> QED BY <1>1, <1>2, SameContext DEF InHandler

LEMMA BirthKeepsMarks ==
  ASSUME SignalInv, NoHeirsRegister, fork \/ spawn
  PROVE  Marks' /\ MarksOnCpu' /\ Switching'
<1>1. PICK start : Enqueue(start) /\ (start.sig => "signal" \notin HandlerCalls)
  BY DEF fork, spawn, CanCall, NoHeirsRegister, UserMain, Context
<1>2. mode = "run" BY DEF fork, spawn, CanCall
<1>3. /\ npid \in Pids /\ npid \in Nat /\ current \in Pids /\ npid # current /\ npid' = npid + 1
      /\ UNCHANGED <<sigVars, live, mode, current>>
      /\ next' = LinkAfterCurrent(npid) /\ kstack' = [kstack EXCEPT ![npid] = start]
  BY <1>1, RingFacts, ProcsAssumption
     DEF Enqueue, cpuVars, SignalInv, IInv, TypeOK, Pids, Created
<1>4. /\ kstack'[npid] = start /\ \A p \in Pids : p # npid => kstack'[p] = kstack[p]
      /\ \A p \in Pids : p >= npid + 1 => p >= npid
      /\ next'[current] = npid
  BY <1>3, PidFacts DEF LinkAfterCurrent, SignalInv, IInv, TypeOK
<1>5. start.sig => Orphan(npid) BY <1>1, <1>3 DEF SignalInv, Marks, Orphan
<1> QED
  BY <1>2, <1>3, <1>4, <1>5 DEF SignalInv, Marks, MarksOnCpu, Switching, Orphan, sigVars, InHandler

LEMMA ExecKeepsMarks ==
  ASSUME SignalInv, exec
  PROVE  Marks' /\ MarksOnCpu' /\ Switching'
<1>1. /\ current \in Pids /\ mode = "run" /\ mode' = "run" /\ npid' = npid + 1 /\ npid \in Nat
      /\ current' = current /\ live' = UserMain /\ UserMain.sig = FALSE
  BY RingFacts, ProcsAssumption DEF exec, CanCall, SignalInv, IInv, TypeOK, UserMain, Context
<1>2. /\ in_signal'[current] = FALSE /\ kstack'[current] = UserMain
      /\ sigsaved'[current] = UserMain /\ handler'[current] = FALSE
      /\ \A p \in Pids : p # current =>
           /\ in_signal'[p] = in_signal[p] /\ kstack'[p] = kstack[p]
           /\ sigsaved'[p] = sigsaved[p] /\ handler'[p] = handler[p]
      /\ \A p \in Pids : p >= npid' => p >= npid
  BY <1>1, PidFacts DEF exec, SignalInv, IInv, TypeOK
<1> QED BY <1>1, <1>2 DEF SignalInv, Marks, MarksOnCpu, Switching, Orphan, InHandler

LEMMA SignalKeepsMarks ==
  ASSUME SignalInv, signal
  PROVE  Marks' /\ MarksOnCpu' /\ Switching'
<1>1. /\ mode = "run"
      /\ live.sig => "signal" \in HandlerCalls
      /\ UNCHANGED <<npid, next, kstack, in_signal, sigsaved, cpuVars>>
      /\ current \in Pids /\ ~(current >= npid)
  BY RingFacts DEF signal, CanCall, procVars, SignalInv, IInv, TypeOK, Created
<1>2. \A p \in Pids : p # current => handler'[p] = handler[p]
  BY DEF signal, SignalInv, IInv, TypeOK
<1>3. /\ InHandler(live) => in_signal[current]
      /\ InHandler(kstack[current]) => in_signal[current]
  BY <1>1 DEF SignalInv, MarksOnCpu, Marks, Orphan, InHandler
<1>4. Marks'
  BY <1>1, <1>2, <1>3 DEF SignalInv, Marks, Orphan
<1> QED BY <1>1, <1>3, <1>4 DEF SignalInv, MarksOnCpu, Switching, cpuVars

\* A handler is delivered to a process that is in none: it has one of its own, and is marked.
LEMMA InterruptKeepsMarks ==
  ASSUME SignalInv, interrupt
  PROVE  Marks' /\ MarksOnCpu' /\ Switching'
<1>1. /\ mode = "run" /\ live.at = "user" /\ UNCHANGED <<npid, next, current, mode, live>>
      /\ npid \in Nat
  BY ProcsAssumption DEF interrupt, CanCall, procVars, cpuVars, SignalInv, IInv, TypeOK
<1>2. CASE UNCHANGED <<kstack, sigVars>> BY <1>1, <1>2, SameContext
<1>3. ASSUME NEW t \in Created, handler[t], ~in_signal[t], Deliver(t)
      PROVE  Marks' /\ MarksOnCpu' /\ Switching'
  <2>1. t \in Pids /\ ~(t >= npid)
    BY CreatedPids DEF Created, SignalInv, IInv, TypeOK
  <2>2. /\ in_signal'[t] = TRUE /\ sigsaved'[t] = kstack[t] /\ handler' = handler
        /\ \A p \in Pids : p # t =>
             /\ kstack'[p] = kstack[p] /\ sigsaved'[p] = sigsaved[p]
             /\ in_signal'[p] = in_signal[p]
    BY <1>3, <2>1 DEF Deliver, SignalInv, IInv, TypeOK
  <2>3. ~InHandler(kstack[t]) BY <1>3, <2>1 DEF SignalInv, Marks, Orphan
  <2>4. Marks'
    <3>1. \A p \in Pids : p >= npid' => ~in_signal'[p] /\ ~handler'[p] /\ sigsaved'[p] = UserMain
      BY <1>1, <2>1, <2>2 DEF SignalInv, Marks
    <3>2. \A p \in Pids : InHandler(kstack'[p]) => in_signal'[p] \/ Orphan(p)'
      BY <2>2 DEF SignalInv, Marks, Orphan
    <3>3. \A p \in Pids : in_signal'[p] => ~InHandler(sigsaved'[p])
      BY <2>2, <2>3 DEF SignalInv, Marks
    <3> QED BY <3>1, <3>2, <3>3 DEF Marks, InHandler
  <2>5. current \in Pids BY RingFacts DEF SignalInv
  <2> QED BY <1>1, <1>3, <2>1, <2>2, <2>4, <2>5 DEF SignalInv, MarksOnCpu, Switching, Orphan
<1>4. UNCHANGED <<kstack, sigVars>>
      \/ \E t \in Created : handler[t] /\ ~in_signal[t] /\ Deliver(t)
  BY DEF interrupt, send_signal, sigVars
<1> QED BY <1>2, <1>3, <1>4

LEMMA SigretKeepsMarks ==
  ASSUME SignalInv, sigret
  PROVE  Marks' /\ MarksOnCpu' /\ Switching'
<1>1. /\ mode = "run" /\ live = UserHandler /\ current \in Pids /\ current' = current
      /\ UNCHANGED <<npid, next, handler, sigsaved>>
      /\ live' = Context(TRUE, "stray", 0)
  BY RingFacts DEF sigret, procVars, SignalInv
<1>2. /\ UserHandler.sig = TRUE /\ UserHandler.at = "user"
      /\ live'.sig = TRUE /\ live'.at = "stray"
  BY <1>1 DEF UserHandler, Context
<1>3. /\ next[current] # current /\ mode' = "search" /\ old' = current
  BY <1>1, <1>2 DEF SignalInv, Switching, sigret
<1>4. /\ in_signal'[current] = FALSE /\ kstack'[current] = sigsaved[current]
      /\ \A p \in Pids : p # current => kstack'[p] = kstack[p] /\ in_signal'[p] = in_signal[p]
  BY <1>1 DEF sigret, SignalInv, IInv, TypeOK
<1>5. ~InHandler(sigsaved[current])
  <2>1. InHandler(live) BY <1>1, <1>2 DEF InHandler
  <2>2. UserMain.sig = FALSE BY DEF UserMain, Context
  <2> QED BY <1>1, <2>1, <2>2 DEF SignalInv, Marks, MarksOnCpu, Orphan, InHandler
<1>6. \A p \in Pids : InHandler(kstack'[p]) => in_signal'[p] \/ Orphan(p)'
  BY <1>1, <1>4, <1>5 DEF SignalInv, Marks, Orphan
<1>7. Marks'
  BY <1>1, <1>4, <1>6 DEF SignalInv, Marks
<1> QED BY <1>1, <1>2, <1>3, <1>7 DEF MarksOnCpu, Switching

LEMMA SearchKeepsMarks ==
  ASSUME SignalInv, SearchStep
  PROVE  Marks' /\ MarksOnCpu' /\ Switching'
<1> DEFINE p == next[current]
<1>1. p \in Ring /\ p \in Pids /\ current \in Ring /\ old \in Pids /\ state \in [Pids -> Status]
  BY RingFacts DEF SignalInv, IInv, TypeOK
<1>2. /\ mode = "search" /\ current' = p /\ old' = old
      /\ UNCHANGED <<npid, next, kstack, sigVars>>
      /\ state' = [state EXCEPT ![p] = Polled(p)]
      /\ \/ /\ Polled(p) = "Running" /\ mode' = "run"
            /\ live' = IF p = old THEN live ELSE kstack[p]
         \/ Polled(p) # "Running" /\ mode' = "search" /\ live' = live
  BY DEF SearchStep, procVars
<1>3. next[p] # p
  <2>1. next[current] # current BY <1>2 DEF SignalInv, Switching
  <2> HIDE DEF p
  <2>2. next[p] = p => {p} = Ring
    <3>1. {p} \subseteq Ring /\ {p} # {} BY <1>1
    <3> QED BY <1>1, <3>1, Zenon DEF SignalInv, IInv, RingIsOneCycle
  <2>3. p = current => next[p] # p BY <2>1
  <2> QED BY <1>1, <2>2, <2>3
<1>4. Polled(p) = "Running" => state[p] # "Dead" BY DEF Polled
<1>5. \A q \in Pids : state[q] = "Dead" => state'[q] = "Dead" BY <1>1, <1>2 DEF Polled
<1>6. mode' = "run" => live' = kstack[p] \/ (live'.sig /\ live'.at = "stray")
  BY <1>1, <1>2, <1>4 DEF SignalInv, Switching
<1> HIDE DEF p
<1>7. Marks' BY <1>2 DEF SignalInv, Marks, Orphan, sigVars
<1>8. MarksOnCpu'
  BY <1>1, <1>2, <1>6, <1>7 DEF Marks, MarksOnCpu, InHandler
<1>9. Switching'
  BY <1>1, <1>2, <1>3, <1>5 DEF SignalInv, Switching
<1> QED BY <1>7, <1>8, <1>9

LEMMA SignalStep == SignalInv /\ NoHeirsRegister /\ [Next]_vars => SignalInv'
<1> SUFFICES ASSUME SignalInv, NoHeirsRegister, [Next]_vars
             PROVE  Marks' /\ MarksOnCpu' /\ Switching'
  BY StepInv DEF SignalInv
<1>1. CASE UNCHANGED vars
  BY <1>1 DEF vars, procVars, sigVars, cpuVars, SignalInv, Marks, MarksOnCpu, Switching, Orphan
<1> QED
  BY <1>1, SwitchKeepsMarks, ProgressKeepsMarks, CallKeepsMarks, BirthKeepsMarks, ExecKeepsMarks,
     SignalKeepsMarks, InterruptKeepsMarks, SigretKeepsMarks, SearchKeepsMarks
     DEF Next, Call, Progress, Halt

LEMMA KeptFromMarks == SignalInv => InterruptedContextKept
BY RingFacts DEF SignalInv, Marks, InHandler, InterruptedContextKept

\* The context a handler has interrupted is not lost to a second signal, also while the
\* handler waits in a call of its own, unless a child forked by a handler registers one
\* before it has left the handler.
THEOREM InterruptedContextsKept == ASSUME NoHeirsRegister PROVE Spec => []InterruptedContextKept
BY SignalInit, SignalStep, KeptFromMarks, PTL DEF Spec

-----------------------------------------------------------------------------
(* The user stack of a call *)

Waiting == {"sleep", "waitpid", "poll", "read", "reading", "write", "writing"}

\* While a call waits on the CPU its stack is the one that will be loaded.
OnCpu ==
  /\ mode = "run" /\ live.at \in Waiting => user_stack = Stack(current, FALSE)
  /\ mode = "search" /\ live.at \in Waiting => user_stack = Stack(old, FALSE)

\* Without handlers every context is a process's own, and one that waits off the CPU has
\* its stack saved with it.
StackInv ==
  /\ IInv
  /\ ~live.sig
  /\ \A p \in Pids : ~handler[p] /\ ~kstack[p].sig
  /\ OnCpu
  /\ \A p \in Pids : kstack[p].at \in Waiting => saved_stack[p] = Stack(p, FALSE)

LEMMA ReturnContext ==
  ASSUME ReturnFromCall
  PROVE  live'.sig = live.sig /\ live'.at \in {"user", "stray"}
BY DEF ReturnFromCall, Context

LEMMA StackInit == Init => StackInv
<1> SUFFICES ASSUME Init PROVE StackInv OBVIOUS
<1>1. IInv
  BY InitTypeOK, InitQueue DEF IInv
<1>2. UserMain.sig = FALSE /\ UserMain.at \notin Waiting
  BY DEF UserMain, Context, Waiting
<1> QED BY <1>1, <1>2 DEF Init, StackInv, OnCpu

\* A step that leaves the context on the CPU, and the stack, to the same process.
LEMMA StackStays ==
  ASSUME StackInv, current' = current, old' = old, user_stack' = user_stack, mode' = mode,
         ~live'.sig, live'.at \in Waiting => live.at \in Waiting,
         kstack' = kstack, saved_stack' = saved_stack, handler' = handler
  PROVE  /\ ~live'.sig
         /\ \A p \in Pids : ~handler'[p] /\ ~kstack'[p].sig
         /\ OnCpu'
         /\ \A p \in Pids : kstack'[p].at \in Waiting => saved_stack'[p] = Stack(p, FALSE)
BY DEF StackInv, OnCpu

LEMMA StackCall ==
  ASSUME StackInv, "signal" \notin Calls, Call
  PROVE  /\ ~live'.sig
         /\ \A p \in Pids : ~handler'[p] /\ ~kstack'[p].sig
         /\ OnCpu'
         /\ \A p \in Pids : kstack'[p].at \in Waiting => saved_stack'[p] = Stack(p, FALSE)
<1>a. /\ IInv /\ current \in Pids /\ live.sig = FALSE
      /\ kstack \in [Pids -> Contexts] /\ saved_stack \in [Pids -> Stacks]
      /\ handler \in [Pids -> BOOLEAN]
  BY RingFacts DEF StackInv, IInv, TypeOK, Contexts
<1>b. /\ UserMain.sig = FALSE /\ UserMain.at \notin Waiting /\ UserHandler.sig = TRUE
      /\ live.at \in {"user", "stray"} => live.at \notin Waiting
  BY DEF UserMain, UserHandler, Context, Waiting
<1>c. \A at, a : Context(FALSE, at, a).sig = FALSE /\ Context(FALSE, at, a).at = at
  BY DEF Context
<1>d. /\ "gone" \notin Waiting
      /\ Context(live.sig, "gone", 0).sig = FALSE /\ Context(live.sig, "gone", 0).at = "gone"
  BY <1>a DEF Waiting, Context
<1>e. ASSUME EnterCall
      PROVE  \A p \in Pids : kstack[p].at \in Waiting => saved_stack'[p] = Stack(p, FALSE)
  BY <1>a, <1>e DEF StackInv, EnterCall
<1>1. CASE exit
  <2>1. /\ EnterCall /\ kstack' = kstack /\ handler' = handler /\ current' = current
        /\ live.at = "user" /\ mode' \in {"run", "search"}
        /\ live' = live \/ live' = Context(live.sig, "gone", 0)
    BY <1>1 DEF exit, CanCall, sched, sigVars
  <2>2. ~live'.sig /\ live'.at \notin Waiting
    BY <1>a, <1>b, <1>d, <2>1
  <2>3. \A p \in Pids : kstack'[p].at \in Waiting => saved_stack'[p] = Stack(p, FALSE)
    BY <1>e, <2>1
  <2> QED BY <2>1, <2>2, <2>3 DEF StackInv, OnCpu
<1>2. CASE fault
  <2>1. /\ UNCHANGED <<kstack, handler, saved_stack>>
        /\ live.at \in {"user", "stray"}
        /\ live' = live \/ live' = Context(live.sig, "gone", 0)
    BY <1>2 DEF fault, CanCall, sched, sigVars, stackVars
  <2>2. ~live'.sig /\ live'.at \notin Waiting
    BY <1>a, <1>b, <1>d, <2>1
  <2> QED BY <2>1, <2>2 DEF StackInv, OnCpu
<1>3. CASE fork \/ spawn
  <2>1. PICK start : Enqueue(start) /\ start.sig = FALSE /\ start.at \notin Waiting
    BY <1>3, <1>a, <1>b DEF fork, spawn, CanCall
  <2>2. /\ EnterCall /\ handler' = handler /\ live' = live /\ npid \in Pids
        /\ kstack' = [kstack EXCEPT ![npid] = start]
    BY <2>1, <1>a, ProcsAssumption DEF Enqueue, sigVars, cpuVars, IInv, TypeOK, Pids
  <2>3. live.at \notin Waiting
    BY <1>3, <1>b DEF fork, spawn, CanCall
  <2>4. \A p \in Pids : ~kstack'[p].sig
    BY <1>a, <2>1, <2>2 DEF StackInv
  <2>5. \A p \in Pids : kstack'[p].at \in Waiting => saved_stack'[p] = Stack(p, FALSE)
    BY <1>a, <1>e, <2>1, <2>2
  <2> QED BY <1>a, <2>2, <2>3, <2>4, <2>5 DEF StackInv, OnCpu
<1>4. CASE exec
  BY <1>4, <1>a, <1>b DEF exec, StackInv, OnCpu
<1>5. CASE sleep \/ waitpid \/ poll \/ read \/ write
  <2>1. PICK at, arg, on : Block(at, arg, on)
    BY <1>5 DEF sleep, waitpid, poll, read, write
  <2>2. mode = "run"
    BY <1>5 DEF sleep, waitpid, poll, read, write, CanCall
  <2>3. /\ EnterCall /\ live' = Context(FALSE, at, arg) /\ mode' = "run" /\ current' = current
        /\ kstack' = kstack /\ handler' = handler
    BY <1>a, <2>1, <2>2 DEF Block, sigVars
  <2>4. user_stack' = Stack(current, FALSE)
    BY <1>a, <2>3 DEF EnterCall
  <2> QED BY <1>c, <1>e, <2>3, <2>4 DEF StackInv, OnCpu
<1>6. CASE kill \/ refused
  <2>1. /\ EnterCall /\ live' = live /\ live.at = "user" /\ kstack' = kstack /\ handler' = handler
    BY <1>6 DEF kill, refused, CanCall, sigVars, cpuVars
  <2> QED BY <1>a, <1>b, <1>e, <2>1 DEF StackInv, OnCpu
<1>7. CASE interrupt
  <2>1. /\ EnterCall /\ live' = live /\ live.at = "user"
    BY <1>7 DEF interrupt, CanCall, cpuVars
  <2>2. kstack' = kstack /\ handler' = handler
    <3>1. PICK p \in Created : ~handler[p] => UNCHANGED <<kstack, sigVars>>
      BY <1>7, <1>a, CreatedPids DEF interrupt, StackInv, IInv
    <3>2. ~handler[p]
      BY <1>a, CreatedPids DEF StackInv, IInv
    <3> QED BY <3>1, <3>2 DEF sigVars
  <2> QED BY <1>a, <1>b, <1>e, <2>1, <2>2 DEF StackInv, OnCpu
<1>8. ~signal
  BY CallsAssumption DEF signal, CanCall
<1>9. ~sigret
  BY <1>a, <1>b DEF sigret
<1> QED BY <1>1, <1>2, <1>3, <1>4, <1>5, <1>6, <1>7, <1>8, <1>9 DEF Call

LEMMA StackStep == StackInv /\ "signal" \notin Calls /\ [Next]_vars => StackInv'
<1> SUFFICES ASSUME StackInv, "signal" \notin Calls, [Next]_vars
             PROVE  /\ ~live'.sig
                    /\ \A p \in Pids : ~handler'[p] /\ ~kstack'[p].sig
                    /\ OnCpu'
                    /\ \A p \in Pids : kstack'[p].at \in Waiting => saved_stack'[p] = Stack(p, FALSE)
  BY StepInv DEF StackInv
<1>a. /\ IInv /\ current \in Pids /\ live.sig = FALSE /\ next[current] \in Pids
      /\ kstack \in [Pids -> Contexts] /\ saved_stack \in [Pids -> Stacks]
  BY RingFacts DEF StackInv, IInv, TypeOK, Contexts
<1>b. "user" \notin Waiting /\ "stray" \notin Waiting
  BY DEF Waiting
<1>1. ASSUME SaveContext, mode = "run", handler' = handler, user_stack' = user_stack,
             NEW tick, sched(tick, live)
      PROVE  /\ ~live'.sig
             /\ \A p \in Pids : ~handler'[p] /\ ~kstack'[p].sig
             /\ OnCpu'
             /\ \A p \in Pids : kstack'[p].at \in Waiting => saved_stack'[p] = Stack(p, FALSE)
  <2>1. CASE next[current] = current
    BY <1>1, <1>a, <2>1 DEF SaveContext, sched, StackInv, OnCpu
  <2>2. CASE next[current] # current
    <3>1. /\ kstack' = [kstack EXCEPT ![current] = live]
          /\ saved_stack' = [saved_stack EXCEPT ![current] = user_stack]
          /\ mode' = "search" /\ old' = current /\ live' = live
      BY <1>1, <2>2 DEF SaveContext, sched
    <3>2. live.at \in Waiting => user_stack = Stack(current, FALSE)
      BY <1>1 DEF StackInv, OnCpu
    <3> QED BY <1>1, <1>a, <3>1, <3>2 DEF StackInv, OnCpu
  <2> QED BY <2>1, <2>2
<1>2. CASE SleepLoop
  <2>1. CASE state[current] = "Blocked"
    BY <1>1, <1>2, <2>1 DEF SleepLoop, sigVars
  <2>2. CASE state[current] # "Blocked"
    <3>1. /\ ReturnFromCall
          /\ UNCHANGED <<current, old, user_stack, mode, kstack, saved_stack, handler>>
      BY <1>2, <2>2 DEF SleepLoop, sigVars
    <3> QED BY <1>a, <1>b, <3>1, ReturnContext, StackStays
  <2> QED BY <2>1, <2>2
<1>3. CASE WaitpidLoop \/ PollLoop \/ FinishRead
  <2>1. /\ ReturnFromCall
        /\ UNCHANGED <<current, old, user_stack, mode, kstack, saved_stack, handler>>
    BY <1>3 DEF WaitpidLoop, PollLoop, FinishRead, sigVars, stackVars
  <2> QED BY <1>a, <1>b, <2>1, ReturnContext, StackStays
<1>4. CASE BlockedLoop
  <2>1. /\ UNCHANGED <<current, old, user_stack, mode, kstack, saved_stack, handler>>
        /\ live.at \in Waiting
        /\ live' = Context(live.sig, live'.at, live.arg)
    BY <1>4 DEF BlockedLoop, Context, Waiting, sigVars, stackVars
  <2>2. live'.sig = live.sig
    BY <1>4 DEF BlockedLoop, Context
  <2> QED BY <1>a, <2>1, <2>2, StackStays
<1>5. CASE FinishWrite
  <2>1. UNCHANGED <<current, old, user_stack, kstack, saved_stack, handler>> /\ mode = "run"
    BY <1>5 DEF FinishWrite, sigVars, stackVars
  <2>2. CASE ReturnFromCall /\ mode' = mode
    BY <1>a, <1>b, <2>1, <2>2, ReturnContext, StackStays
  <2>3. CASE mode' = "panic" /\ live' = live
    BY <2>1, <2>3 DEF StackInv, OnCpu
  <2> QED BY <1>5, <2>2, <2>3 DEF FinishWrite
<1>6. CASE SearchStep
  <2> DEFINE p == next[current]
  <2>1. /\ mode = "search" /\ current' = p /\ old' = old
        /\ UNCHANGED <<kstack, saved_stack, handler>>
        /\ \/ /\ mode' = "run" /\ user_stack' = StackAfterSwitch(p)
              /\ live' = IF p = old THEN live ELSE kstack[p]
           \/ mode' = "search" /\ user_stack' = user_stack /\ live' = live
    BY <1>6 DEF SearchStep, sigVars
  <2>2. CASE mode' = "search"
    BY <2>1, <2>2 DEF StackInv, OnCpu
  <2>3. CASE mode' = "run" /\ p = old
    BY <2>1, <2>3 DEF StackInv, OnCpu, StackAfterSwitch
  <2>4. CASE mode' = "run" /\ p # old
    BY <1>a, <2>1, <2>4 DEF StackInv, OnCpu, StackAfterSwitch
  <2> QED BY <2>1, <2>2, <2>3, <2>4
<1>7. CASE TimerTick
  <2>1. user_stack' = user_stack /\ handler' = handler
    BY <1>7 DEF TimerTick, sigVars
  <2>2. CASE mode = "search"
    BY <1>7, <1>a, <2>1, <2>2, StackStays DEF TimerTick, cpuVars
  <2>3. CASE mode # "search"
    BY <1>1, <1>7, <2>1, <2>3 DEF TimerTick, InterruptsEnabled
  <2> QED BY <2>2, <2>3
<1>8. CASE StrayPanic
  BY <1>8 DEF StrayPanic, StackInv, OnCpu, sigVars, stackVars
<1>9. CASE UNCHANGED vars
  BY <1>9, <1>a, StackStays DEF vars
<1> QED BY <1>2, <1>3, <1>4, <1>5, <1>6, <1>7, <1>8, <1>9, StackCall DEF Next, Progress, Halt

\* A call that has waited returns on the user stack it was made from, whatever calls other
\* processes have made meanwhile: the one word of ksyscall_data serves them all. The sigret
\* of a handler overwrites the stack its process has saved, so that the theorem is about
\* programs that register none.
THEOREM ReturnsOnOwnStack == ASSUME "signal" \notin Calls PROVE Spec => ReturnsOnItsStack
<1>1. StackInv /\ [Next]_vars =>
        [\A c \in {"waitpid", "sleep", "poll", "reading", "writing"} :
           CallReturns(c) => user_stack = Stack(current, live.sig)]_vars
  BY DEF StackInv, OnCpu, CallReturns, Waiting, IInv, TypeOK, Contexts
<1> QED BY <1>1, StackInit, StackStep, PTL DEF Spec, ReturnsOnItsStack
=============================================================================
