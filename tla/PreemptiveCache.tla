--------------------------- MODULE PreemptiveCache ---------------------------
(***************************************************************************)
(* BufferCache under the timer interrupt of kernel/sched.c: when the slice *)
(* of the running process ends, irq_timer_handler calls schedule() whether *)
(* the process runs in the kernel or not.                                  *)
(***************************************************************************)
EXTENDS BufferCache

CONSTANT MaxPreempt  \* preemptions per process (bound)

VARIABLE left        \* preemptions each process may still suffer

PreemptiveInit == Init /\ left = [p \in Procs |-> MaxPreempt]

(* Wherever interrupts are enabled, any process may take the CPU over. *)
Preempt ==
  /\ IntEnabled
  /\ left[current] > 0
  /\ left' = [left EXCEPT ![current] = @ - 1]
  /\ current' \in Procs
  /\ UNCHANGED <<proc, held, buf, req, cur>>

PreemptiveNext == (Next /\ UNCHANGED left) \/ Preempt

PreemptiveSpec == PreemptiveInit /\ [][PreemptiveNext]_<<vars, left>>
=============================================================================
