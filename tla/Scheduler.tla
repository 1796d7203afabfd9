----------------------------- MODULE Scheduler -----------------------------
(***************************************************************************)
(* The process scheduler of the kernel (src/kernel/src/processes/          *)
(* scheduler.cpp) together with everything that drives it: the system-call *)
(* dispatcher (syscalls.cpp), the timer and fault handlers (handlers.cpp)  *)
(* and the keyboard shortcuts Enter, Ctrl+C and Ctrl+<n> (keyboard.cpp).   *)
(*                                                                         *)
(* All handlers run with interrupts disabled (every IDT gate is an         *)
(* interrupt gate, idt.cpp), so each handler is one atomic step.  A step   *)
(* is written as the code runs: a chain of kernel operations over the      *)
(* record Sched of all scheduler state, committed at the end.              *)
(*                                                                         *)
(* A PCB is a slot (its kernel-heap address); its pid is a field, so pid   *)
(* reuse and slot reuse are separate, as in the code.                      *)
(***************************************************************************)
EXTENDS Integers, Sequences, FiniteSets, SequencesExt, List

CONSTANTS
  NumTerminals,   \* NUMBER_OF_TERMINALS (scheduler.h:8), scaled down
  MaxSlots        \* PCBs the kernel heap can hold at once (model bound)

ASSUME NumTerminals \in 1..4 /\ MaxSlots \in (NumTerminals + 1)..8

Slots     == 0..(MaxSlots - 1)
Idle      == 0                       \* idle.exe, created first (pid 0)
Terminals == 1..NumTerminals
\* pids[] has MAX_NUMBER_OF_PROCESSES entries; with one pid per slot the
\* table is never full, as in the kernel, where frames run out long before.
Pids      == 0..(MaxSlots - 1)
UIntMax   == MaxSlots                \* allocate_pid's "should never get here"
NoPid     == -1                      \* user variable holding no child pid
None      == -1
States    == {"NEW", "RUNNING", "WAITING", "READY", "TERMINATION"}

VARIABLES
  all,        \* all_processes
  pids,       \* the pids[] bitmap, as the set of pids marked used
  pid, ppid, shell, state,            \* PCB fields, per slot
  ready,      \* ready_processes
  bpq,        \* blocked_on_process_processes
  bkq,        \* blocked_on_keyboard_processes
  running,    \* running_process
  latest,     \* latest_running_non_idle_process[], per terminal
  focused,    \* focused_terminal
  halted,     \* _panic() reached ("System shutting down")
  saved,      \* slots whose saved register snapshot is their current one
  parent,     \* the slot that created each process (history variable)
  childPid    \* the shell's pidChild: the pid exec returned to a process

vars == <<all, pids, pid, ppid, shell, state, ready, bpq, bkq, running,
          latest, focused, halted, saved, parent, childPid>>

Sched == [all |-> all, pids |-> pids, pid |-> pid, ppid |-> ppid,
          shell |-> shell, state |-> state, ready |-> ready, bpq |-> bpq,
          bkq |-> bkq, running |-> running, latest |-> latest,
          focused |-> focused, halted |-> halted, saved |-> saved,
          parent |-> parent, childPid |-> childPid]

Commit(r) ==
  /\ all' = r.all /\ pids' = r.pids /\ pid' = r.pid /\ ppid' = r.ppid
  /\ shell' = r.shell /\ state' = r.state /\ ready' = r.ready
  /\ bpq' = r.bpq /\ bkq' = r.bkq /\ running' = r.running
  /\ latest' = r.latest /\ focused' = r.focused /\ halted' = r.halted
  /\ saved' = r.saved /\ parent' = r.parent /\ childPid' = r.childPid

\* The state a step ends in, computed once and then committed.
Apply(r) == \E k \in {r} : Commit(k)

-----------------------------------------------------------------------------
(* Kernel operations, each a function from scheduler state to state.       *)

\* save_process_context: the trap frame is copied into pcb->regs.
SaveProcessContext(r, s) == [r EXCEPT !.saved = @ \cup {s}]

\* Mutant: pids handed out from a counter above the highest in use.
AllocatePidNoReuse(used) == IF used = {} THEN 0 ELSE Max(used) + 1

\* allocate_pid: the lowest free pid, UINT_MAX when the table is full.
AllocatePid(used) ==
  IF Pids \ used = {} THEN UIntMax ELSE Min(Pids \ used)

\* set_process_as_ready: idempotent append to the ready queue.
SetProcessAsReady(r, s) ==
  IF ListContains(r.ready, s) THEN r
  ELSE [r EXCEPT !.state[s] = "READY", !.ready = ListAddLast(@, s)]

BlockProcessOnAnotherProcess(r, s) ==
  [r EXCEPT !.state[s] = "WAITING", !.bpq = ListAddLast(@, s)]

BlockProcessOnKeyboard(r, s) ==
  [r EXCEPT !.state[s] = "WAITING", !.bkq = ListAddFirst(@, s)]

\* is_blocked_elsewhere: in a blocked queue other than the one named.
IsBlockedElsewhere(r, s, original) ==
  \/ original # "bkq" /\ ListContains(r.bkq, s)
  \/ original # "bpq" /\ ListContains(r.bpq, s)

\* Mutant: the parent is made ready but left in the blocked queue.
WakeUpParentKeepsBlocked(r, pp) ==
  LET i == SelectInSeq(r.bpq, LAMBDA x : r.pid[x] = pp)
  IN  IF i = 0 THEN r ELSE SetProcessAsReady(r, r.bpq[i])

\* wake_up_parent_process: the first process blocked on a process whose
\* pid equals ppid leaves that queue and is made ready (eax <- exit code).
WakeUpParentProcess(r, pp) ==
  LET i == SelectInSeq(r.bpq, LAMBDA x : r.pid[x] = pp)
  IN  IF i = 0 THEN r
      ELSE LET p  == r.bpq[i]
               r1 == [r EXCEPT !.bpq = ListRemoveData(@, p)]
           IN  IF IsBlockedElsewhere(r1, p, "bpq") THEN r1
               ELSE SetProcessAsReady(r1, p)

\* Mutants: kill_process without free_pid, or without resetting
\* latest_running_non_idle_process[].
KillProcessKeepsPid(r, s) ==
  [r EXCEPT !.state[s] = "TERMINATION", !.ready = ListRemoveData(@, s),
            !.all = @ \ {s}, !.bpq = ListRemoveData(@, s),
            !.bkq = ListRemoveData(@, s), !.latest[r.shell[s]] = Idle,
            !.pid[s] = 0, !.ppid[s] = 0, !.shell[s] = 0, !.saved = @ \ {s},
            !.childPid[s] = NoPid,
            !.parent = [c \in Slots |-> IF @[c] = s \/ c = s THEN None ELSE @[c]]]

KillProcessKeepsLatest(r, s) ==
  [r EXCEPT !.state[s] = "TERMINATION", !.pids = @ \ {r.pid[s]},
            !.ready = ListRemoveData(@, s), !.all = @ \ {s},
            !.bpq = ListRemoveData(@, s), !.bkq = ListRemoveData(@, s),
            !.pid[s] = 0, !.ppid[s] = 0, !.shell[s] = 0, !.saved = @ \ {s},
            !.childPid[s] = NoPid,
            !.parent = [c \in Slots |-> IF @[c] = s \/ c = s THEN None ELSE @[c]]]

\* kill_process: free the pid, unlink the PCB from every list, point its
\* terminal's latest process back at idle and free the PCB (whose fields
\* are then reset: freed memory is never read again).  Its children keep
\* their ppid; the history variable parent forgets them (orphans).
KillProcess(r, s) ==
  [r EXCEPT !.state[s] = "TERMINATION",
            !.pids    = @ \ {r.pid[s]},
            !.ready   = ListRemoveData(@, s),
            !.all     = @ \ {s},
            !.bpq     = ListRemoveData(@, s),
            !.bkq     = ListRemoveData(@, s),
            !.latest[r.shell[s]] = Idle,
            !.pid[s] = 0, !.ppid[s] = 0, !.shell[s] = 0,
            !.saved   = @ \ {s},
            !.childPid[s] = NoPid,
            !.parent  = [c \in Slots |-> IF @[c] = s \/ c = s THEN None ELSE @[c]]]

\* switch_process: the PCB's page directory and registers are loaded; from
\* here on it runs and its saved snapshot falls behind.
SwitchProcess(r, s) ==
  [r EXCEPT !.running = s, !.state[s] = "RUNNING", !.saved = @ \ {s}]

\* Mutant: the ready queue served from its tail (LIFO).
SwitchToNextProcessLifo(r) ==
  IF r.all = {Idle} THEN [r EXCEPT !.halted = TRUE]
  ELSE LET nonIdle == {i \in 1..Len(r.ready) : r.ready[i] # Idle}
           i   == IF nonIdle = {} THEN 0 ELSE Max(nonIdle)
           nxt == IF i = 0 THEN Idle ELSE r.ready[i]
           r1  == [r EXCEPT !.ready = IF i = 0 THEN <<>>
                                      ELSE RemoveAt(@, i)]
           r2  == IF nxt # Idle THEN [r1 EXCEPT !.latest[r1.shell[nxt]] = nxt]
                  ELSE r1
       IN  [r2 EXCEPT !.running = nxt, !.state[nxt] = "RUNNING",
                      !.saved = @ \ {nxt}]

\* switch_to_next_process: halt when idle is the only process left;
\* otherwise pop the ready queue until a non-idle PCB comes out.
SwitchToNextProcess(r) ==
  IF r.all = {Idle} THEN [r EXCEPT !.halted = TRUE]
  ELSE LET i   == SelectInSeq(r.ready, LAMBDA x : x # Idle)
           nxt == IF i = 0 THEN Idle ELSE r.ready[i]
           j   == IF i = 0 THEN Len(r.ready) ELSE i
           r1  == [r EXCEPT !.ready = SubSeq(@, j + 1, Len(@))]
           r2  == IF nxt # Idle THEN [r1 EXCEPT !.latest[r1.shell[nxt]] = nxt]
                  ELSE r1
       IN  SwitchProcess(r2, nxt)

\* create_process_virtual_addr_space + create_process: a NEW PCB in slot c
\* added to all_processes.  process_count is never incremented, so the
\* MAX_NUMBER_OF_PROCESSES test never rejects; the address space is the
\* AddressSpace module's business.
CreateProcess(r, c, pp, sh, creator) ==
  LET p == AllocatePid(r.pids)
  IN  [r EXCEPT !.pids = @ \cup {p}, !.pid[c] = p, !.ppid[c] = pp,
                !.shell[c] = sh, !.state[c] = "NEW", !.all = @ \cup {c},
                !.saved = @ \cup {c}, !.parent[c] = creator,
                !.childPid[c] = NoPid]

\* Mutant: the PCBs are put back walking pcbs from first to last.
RescheduleProcessForward(r, q, t) ==
  LET pcbs == SelectSeq(q, LAMBDA x : r.shell[x] = t)
  IN  FoldLeft(ListAddFirst, FoldLeft(ListRemoveData, q, pcbs), pcbs)

\* reschedule_process: collect the queue's PCBs of terminal t in a new
\* list, remove each from the queue, then add them at the queue's front
\* walking the new list from last to first.
RescheduleProcess(r, q, t) ==
  LET pcbs == SelectSeq(q, LAMBDA x : r.shell[x] = t)
  IN  FoldRight(LAMBDA x, l : ListAddFirst(l, x), pcbs,
                FoldLeft(ListRemoveData, q, pcbs))

FreeSlot(r) == CHOOSE c \in Slots : c \notin r.all

-----------------------------------------------------------------------------
(* Initial state: init_process_scheduler, then the first                   *)
(* switch_to_next_process of _kernel_main.                                 *)

Boot ==
  [all |-> {Idle} \cup Terminals, pids |-> {Idle} \cup Terminals,
   pid |-> [s \in Slots |-> IF s \in {Idle} \cup Terminals THEN s ELSE 0],
   ppid |-> [s \in Slots |-> 0],
   shell |-> [s \in Slots |-> IF s \in Terminals THEN s ELSE 0],
   state |-> [s \in Slots |-> IF s = Idle THEN "WAITING"
                              ELSE IF s \in Terminals THEN "READY"
                              ELSE "TERMINATION"],
   ready |-> [i \in 1..(NumTerminals - 1) |-> i + 1] \o <<1>>,
   bpq |-> <<>>, bkq |-> <<>>, running |-> Idle,
   latest |-> [t \in Terminals |-> t], focused |-> 1, halted |-> FALSE,
   saved |-> {Idle} \cup Terminals, parent |-> [s \in Slots |-> None],
   childPid |-> [s \in Slots |-> NoPid]]

Init ==
  LET r == SwitchToNextProcess(Boot)
  IN  /\ all = r.all /\ pids = r.pids /\ pid = r.pid /\ ppid = r.ppid
      /\ shell = r.shell /\ state = r.state /\ ready = r.ready
      /\ bpq = r.bpq /\ bkq = r.bkq /\ running = r.running
      /\ latest = r.latest /\ focused = r.focused /\ halted = r.halted
      /\ saved = r.saved /\ parent = r.parent /\ childPid = r.childPid

-----------------------------------------------------------------------------
(* System calls (int 0x80): save context, dispatch, switch_to_next.       *)
(* Only a user process traps; idle never makes a system call.             *)

UserRunning == ~halted /\ running # Idle

\* SYSCALL_EXIT: wake the parent with the exit code, then kill.
SysCallExit ==
  /\ UserRunning
  /\ LET s == running
     IN  Apply(SwitchToNextProcess(KillProcess(
           WakeUpParentProcess(SaveProcessContext(Sched, s), ppid[s]), s)))

\* Every call that completes at once and re-readies the caller: printf,
\* malloc, free, pid, ppid, open, close, read, write, touch, ls, cat, cp,
\* rm, ps, lp, clear, exit_code, append, color, set_cursor.
SysCallReady ==
  /\ UserRunning
  /\ Apply(SwitchToNextProcess(
       SetProcessAsReady(SaveProcessContext(Sched, running), running)))

SysCallReadLine ==
  /\ UserRunning
  /\ Apply(SwitchToNextProcess(
       BlockProcessOnKeyboard(SaveProcessContext(Sched, running), running)))

\* SYSCALL_EXEC: the caller is readied first, then the child is created
\* and readied; eax is the child's pid, or 0 when the program is unknown.
SysCallExec ==
  /\ UserRunning
  /\ \E found \in BOOLEAN :
       LET s  == running
           r1 == SetProcessAsReady(SaveProcessContext(Sched, s), s)
           c  == FreeSlot(r1)
           r2 == SetProcessAsReady(CreateProcess(r1, c, pid[s], shell[s], s), c)
       IN  IF found
           THEN /\ all # Slots                     \* model bound on PCBs
                /\ Apply(SwitchToNextProcess(
                     [r2 EXCEPT !.childPid[s] = r2.pid[c]]))
           ELSE Apply(SwitchToNextProcess([r1 EXCEPT !.childPid[s] = NoPid]))

\* SYSCALL_FORK: a child of the same program whose registers, stack and
\* heap are copies of the parent's; both are readied, parent first.
SysCallFork ==
  /\ UserRunning
  /\ LET s  == running
         r1 == SaveProcessContext(Sched, s)
         c  == FreeSlot(r1)
         r2 == CreateProcess(r1, c, pid[s], shell[s], s)
         r3 == [r2 EXCEPT !.childPid[c] = childPid[s]]
     IN  /\ all # Slots                            \* model bound on PCBs
         /\ Apply(SwitchToNextProcess(
              SetProcessAsReady(SetProcessAsReady(r3, s), c)))

\* SYSCALL_WAIT, as the shell issues it right after exec: block on the
\* pid exec returned if some process has that pid, else return 1.
SysCallWait ==
  /\ UserRunning
  /\ childPid[running] # NoPid
  /\ LET s  == running
         r1 == [SaveProcessContext(Sched, s) EXCEPT !.childPid[s] = NoPid]
     IN  IF \E x \in all : pid[x] = childPid[s]
         THEN Apply(SwitchToNextProcess(BlockProcessOnAnotherProcess(r1, s)))
         ELSE Apply(SwitchToNextProcess(SetProcessAsReady(r1, s)))

\* Unknown system call number: the caller is killed.
SysCallUnknown ==
  /\ UserRunning
  /\ Apply(SwitchToNextProcess(
       KillProcess(SaveProcessContext(Sched, running), running)))

-----------------------------------------------------------------------------
(* Interrupts.                                                             *)

\* A fault of the running user process (GPF, page fault, ...):
\* kill_running_process wakes the parent with 1, kills, switches.
FaultKill ==
  /\ UserRunning
  /\ Apply(SwitchToNextProcess(
       KillProcess(WakeUpParentProcess(Sched, ppid[running]), running)))

\* Invalid TSS and coprocessor faults: _panic(), the kernel stops.
FaultPanic ==
  /\ ~halted
  /\ halted' = TRUE
  /\ UNCHANGED <<all, pids, pid, ppid, shell, state, ready, bpq, bkq,
                 running, latest, focused, saved, parent, childPid>>

\* PIT tick that reaches TICKS_FOR_TASK_SWITCH: preempt whatever runs.
TimerSwitch ==
  /\ ~halted
  /\ Apply(SwitchToNextProcess(
       SetProcessAsReady(SaveProcessContext(Sched, running), running)))

\* Enter: wake_process_waiting_for_keyboard delivers the line to the head
\* of the keyboard queue, only if it belongs to the focused terminal.
KeyEnter ==
  /\ ~halted
  /\ ListGet(bkq, 0, None) # None
  /\ shell[ListGet(bkq, 0, None)] = focused
  /\ LET p  == ListGet(bkq, 0, None)
         r1 == [Sched EXCEPT !.bkq = ListRemove(@, 0)]
     IN  Apply(IF IsBlockedElsewhere(r1, p, "bkq") THEN r1
                ELSE SetProcessAsReady(r1, p))

\* Ctrl+C: abort_current_cmd kills the focused terminal's latest process
\* unless its pid is a shell's or idle's (0..NUMBER_OF_TERMINALS).
CtrlC ==
  /\ ~halted
  /\ LET v == latest[focused]
     IN  /\ pid[v] > NumTerminals
         /\ LET r1 == WakeUpParentProcess(Sched, ppid[v])
                r2 == IF running # v THEN SetProcessAsReady(r1, running) ELSE r1
            IN  Apply(SwitchToNextProcess(KillProcess(r2, v)))

\* Ctrl+<t>: switch_to_terminal(t) needs a live process whose pid is t.
SwitchToTerminal(t) ==
  /\ ~halted
  /\ \E x \in all : pid[x] = t
  /\ focused' = t
  /\ bkq' = RescheduleProcess(Sched, bkq, t)
  /\ bpq' = RescheduleProcess(Sched, bpq, t)
  /\ UNCHANGED <<all, pids, pid, ppid, shell, state, ready, running, latest,
                 halted, saved, parent, childPid>>

\* After _panic() nothing happens any more.
Halted == halted /\ UNCHANGED vars

Next ==
  \/ SysCallExit \/ SysCallReady \/ SysCallReadLine \/ SysCallExec
  \/ SysCallFork \/ SysCallWait \/ SysCallUnknown
  \/ FaultKill \/ FaultPanic \/ TimerSwitch \/ KeyEnter \/ CtrlC
  \/ \E t \in Terminals : SwitchToTerminal(t)
  \/ Halted

\* The PIT keeps interrupting while the kernel is up.
Spec == Init /\ [][Next]_vars /\ WF_vars(TimerSwitch)

-----------------------------------------------------------------------------
(* Properties.                                                             *)

TypeOK ==
  /\ all \subseteq Slots /\ Idle \in all /\ pids \subseteq Pids
  /\ pid \in [Slots -> Pids \cup {UIntMax}] /\ ppid \in [Slots -> Pids]
  /\ shell \in [Slots -> 0..NumTerminals] /\ state \in [Slots -> States]
  /\ ready \in Seq(Slots) /\ bpq \in Seq(Slots) /\ bkq \in Seq(Slots)
  /\ running \in Slots /\ latest \in [Terminals -> Slots]
  /\ focused \in Terminals /\ halted \in BOOLEAN /\ saved \subseteq Slots
  /\ parent \in [Slots -> Slots \cup {None}]
  /\ childPid \in [Slots -> Pids \cup {NoPid}]

Occurrences(q, s) == Cardinality({i \in 1..Len(q) : q[i] = s})

\* Every live user process is in exactly one place -- on the CPU, in the
\* ready queue, or in one blocked queue -- and its PCB state says which;
\* no list holds a freed PCB.  Exit, faults, Ctrl+C, wake-ups on exit and
\* on Enter all move PCBs between the lists of scheduler.cpp.
EveryProcessInOnePlace ==
  /\ ~halted =>
       \A s \in all \ {Idle} :
         /\ Occurrences(ready, s) + Occurrences(bpq, s) + Occurrences(bkq, s)
              + (IF running = s THEN 1 ELSE 0) = 1
         /\ running = s => state[s] = "RUNNING"
         /\ Contains(ready, s) => state[s] = "READY"
         /\ Contains(bpq, s) \/ Contains(bkq, s) => state[s] = "WAITING"
  /\ ToSet(ready) \cup ToSet(bpq) \cup ToSet(bkq) \subseteq all

\* The pids[] bitmap marks exactly the pids of live PCBs and no two live
\* PCBs share a pid (allocate_pid in create, free_pid in kill_process).
PidTableMatchesProcesses ==
  /\ pids = {pid[s] : s \in all}
  /\ \A a, b \in all : a # b => pid[a] # pid[b]

\* latest_running_non_idle_process[] never points at a freed PCB: Ctrl+C
\* (abort_current_cmd) dereferences and kills it.
LatestIsLive == \A t \in Terminals : latest[t] \in all

\* Round robin: a process in the ready queue eventually gets the CPU,
\* unless it is killed or the kernel panics first, given that the timer
\* keeps firing (switch_to_next_process pops the queue's head).
ReadyEventuallyRuns ==
  \A s \in Slots \ {Idle} :
    (s \in all /\ Contains(ready, s)) ~> (running = s \/ s \notin all \/ halted)

\* Terminal focus: while a process of the focused terminal waits for a
\* line, the head of the keyboard queue -- the one Enter serves -- is one
\* of the focused terminal's (scheduler.cpp:123-143, 175-191; spec 4.5).
KeyboardHeadIsFocused ==
  (\E i \in 1..Len(bkq) : shell[bkq[i]] = focused)
    => shell[Head(bkq)] = focused

\* A process blocked on another process has a live child whose exit will
\* wake it; otherwise it waits forever (sys_call_wait, wake_up_parent).
WaiterHasLiveChild ==
  \A i \in 1..Len(bpq) : \E c \in all : parent[c] = bpq[i]

\* A process put back in a queue resumes from the registers it was
\* stopped with: its saved snapshot is current (save_process_context
\* before set_process_as_ready / block_*).
QueuedContextIsSaved ==
  \A s \in (ToSet(ready) \cup ToSet(bpq) \cup ToSet(bkq)) \ {Idle} : s \in saved

\* A process woken from waiting on a child is woken by the exit of a
\* process it created, not by an unrelated process that inherited a
\* reused pid as its ppid.
WokenByOwnChild ==
  [][\A s \in ToSet(bpq) \ ToSet(bpq') :
       s \in all' => \E e \in all \ all' : parent[e] = s]_vars

\* The scheduler seen from the processes it runs: slots other than idle's,
\* the ready queue without the idle entries switch_to_next_process skips,
\* and both blocked queues as one set of waiting processes.  After the
\* last exit the dead slot still in running_process stands for idle.
Abstract == INSTANCE AbstractScheduler
  WITH Procs   <- Slots \ {Idle},
       NoProc  <- None,
       live    <- all \ {Idle},
       running <- IF running \in all THEN running ELSE Idle,
       ready   <- SelectSeq(ready, LAMBDA x : x # Idle),
       waiting <- ToSet(bpq) \cup ToSet(bkq)

\* The handlers of scheduler.cpp, syscalls.cpp, handlers.cpp and
\* keyboard.cpp together implement the abstract scheduler: the ready
\* queue is served first in, first out, a process waits until it is woken
\* or killed, and the queues change only as the abstract steps allow.
RefinesAbstractScheduler == Abstract!Spec

\* A queue with the processes of terminal t moved to its front, each
\* group in its old order.
FocusOrder(q, t) ==
  SelectSeq(q, LAMBDA x : shell[x] = t) \o SelectSeq(q, LAMBDA x : shell[x] # t)

\* switch_to_terminal's reschedule_process, built from list_add_last,
\* list_remove_data and list_add_first, moves all and only the PCBs of
\* the focused terminal to the front of each blocked queue and keeps the
\* relative order of both groups (spec 4.5 and 8).
RescheduleKeepsOrder ==
  \A t \in Terminals :
    /\ RescheduleProcess(Sched, bkq, t) = FocusOrder(bkq, t)
    /\ RescheduleProcess(Sched, bpq, t) = FocusOrder(bpq, t)
=============================================================================
