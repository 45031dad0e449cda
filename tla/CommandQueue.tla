---------------------------- MODULE CommandQueue ----------------------------
(***************************************************************************)
(* What IpcBridge promises its users: a bounded FIFO.  A command whose     *)
(* Send() returns Ok is received exactly once and in order; a refused one  *)
(* leaves no trace.                                                        *)
(***************************************************************************)
EXTENDS Integers, Sequences

CONSTANTS
  Commands,   \* what can be sent
  Capacity    \* how many commands fit

VARIABLE queue

Init == queue = << >>

Enqueue(c) ==
  /\ Len(queue) < Capacity
  /\ queue' = Append(queue, c)

Dequeue ==
  /\ queue # << >>
  /\ queue' = Tail(queue)

Next == Dequeue \/ \E c \in Commands : Enqueue(c)

Spec == Init /\ [][Next]_queue
=============================================================================
