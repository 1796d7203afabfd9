---------------------------- MODULE MCScheduler ----------------------------
(***************************************************************************)
(* Model-checking instances of Scheduler.                                 *)
(*                                                                         *)
(* Safety: two terminals (idle, two shells) and one more PCB, enough for  *)
(* a shell to exec or fork a program while the other terminal is busy.    *)
(* Liveness: one terminal (idle, one shell) and one more PCB, enough for  *)
(* a program to compete with the shell and idle for the CPU.             *)
(* Violation runs use two terminals and two more PCBs, enough for pid     *)
(* reuse and for processes of both terminals to wait on the keyboard.     *)
(***************************************************************************)
EXTENDS Scheduler

SafetyTerminals   == 2
SafetySlots       == 4
LivenessTerminals == 1
LivenessSlots     == 3
BugTerminals      == 2
BugSlots          == 5

\* The safety run's view of a state.  The history variables saved and
\* parent are left out: no guard reads them, so states differing only
\* in them have the same futures, and of the run's invariants only TypeOK
\* mentions them (every step keeps saved a set of slots and parent a map
\* to slots or None).  A halted state with live user
\* processes is reached only by a fault's _panic(), from a running state
\* equal to it but for halted; the invariants hold of both or of
\* neither, so those halted states are folded into one.  Halts of
\* switch_to_next_process (only idle left) stay distinct.
SafetyView ==
  IF halted /\ all # {Idle} THEN <<TRUE>>
  ELSE <<FALSE, all, pids, pid, ppid, shell, state, ready, bpq, bkq,
         running, latest, focused, halted, childPid>>
=============================================================================
