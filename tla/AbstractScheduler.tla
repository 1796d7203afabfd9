-------------------------- MODULE AbstractScheduler --------------------------
(***************************************************************************)
(* What the scheduler promises the processes it runs, and nothing about   *)
(* how (spec 4.5, 5): a live process is on the CPU, in a FIFO ready queue *)
(* or waiting; the CPU goes to the head of the ready queue, or to the     *)
(* idle process when the queue is empty; a waiting process becomes ready *)
(* only when it is woken, at the tail; a process leaves only by being     *)
(* killed, and the kernel stops when no process is left or on a panic.   *)
(*                                                                         *)
(* Every step is one handler run to completion, so a step that takes the *)
(* CPU from a process also hands it on.                                   *)
(***************************************************************************)
EXTENDS Sequences, SequencesExt

CONSTANTS
  Procs,    \* the processes that may exist, idle excluded
  Idle,     \* the idle process
  NoProc    \* no process

ASSUME NoProc \notin Procs \cup {Idle}

VARIABLES
  live,     \* the processes that exist
  running,  \* the process on the CPU, or Idle
  ready,    \* the ready queue, head first
  waiting,  \* the processes blocked on a child or on a line of input
  halted    \* the kernel has stopped

vars == <<live, running, ready, waiting, halted>>

Init ==
  /\ halted = FALSE
  /\ waiting = {}
  /\ live \subseteq Procs
  /\ running \in live \cup {Idle}
  /\ IsInjective(ready)
  /\ ToSet(ready) = live \ {running}

\* The queue q with process s put at its tail, unless s is idle.
Queue(q, s) == IF s = Idle THEN q ELSE Append(q, s)

\* The CPU goes to the head of the queue rd, or to idle.
Dispatch(rd) ==
  IF rd = <<>> THEN running' = Idle /\ ready' = <<>>
  ELSE running' = Head(rd) /\ ready' = Tail(rd)

\* The running process gives up the CPU and stays ready (a completed
\* system call, a timer tick).
Yield ==
  /\ ~halted
  /\ Dispatch(Queue(ready, running))
  /\ UNCHANGED <<live, waiting, halted>>

\* The running process blocks until it is woken.
Block ==
  /\ ~halted /\ running # Idle
  /\ waiting' = waiting \cup {running}
  /\ Dispatch(ready)
  /\ UNCHANGED <<live, halted>>

\* The running process creates c; both join the queue, creator first.
Spawn(c) ==
  /\ ~halted /\ running # Idle
  /\ c \in Procs \ live
  /\ live' = live \cup {c}
  /\ Dispatch(Append(Append(ready, running), c))
  /\ UNCHANGED <<waiting, halted>>

\* A waiting process is woken and joins the queue; the CPU stays put.
Wake(w) ==
  /\ ~halted /\ w \in waiting
  /\ waiting' = waiting \ {w}
  /\ ready' = Append(ready, w)
  /\ UNCHANGED <<live, running, halted>>

\* Process v is killed, possibly waking one waiting process w (NoProc
\* for none) first; a running process other than v is re-queued after
\* w; the kernel stops if no process is left.
Kill(v, w) ==
  /\ ~halted /\ v \in live
  /\ w \in (waiting \ {v}) \cup {NoProc}
  /\ live' = live \ {v}
  /\ waiting' = waiting \ {v, w}
  /\ LET rest == SelectSeq(ready, LAMBDA x : x # v)
         rd   == Queue(IF w = NoProc THEN rest ELSE Append(rest, w),
                       IF running = v THEN Idle ELSE running)
     IN  IF live' = {}
         THEN halted' = TRUE /\ running' = Idle /\ ready' = <<>>
         ELSE Dispatch(rd) /\ halted' = FALSE

\* The kernel panics.
Halt ==
  /\ ~halted
  /\ halted' = TRUE
  /\ UNCHANGED <<live, running, ready, waiting>>

Next ==
  \/ Yield \/ Block \/ Halt
  \/ \E c \in Procs : Spawn(c)
  \/ \E w \in Procs : Wake(w)
  \/ \E v \in Procs, w \in Procs \cup {NoProc} : Kill(v, w)

Spec == Init /\ [][Next]_vars
=============================================================================
