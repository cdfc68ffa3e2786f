-------------------------------- MODULE Sched --------------------------------
(***************************************************************************)
(* The scheduler of kernel/sched.c: schedule(), sleep_on() and its chain   *)
(* of waiting processes, interruptible_sleep_on() (which nothing calls     *)
(* yet), wake_up() as the kernel calls it, sys_pause(), the timer          *)
(* interrupt, and what fork() does to the table of processes, in two steps *)
(* (get_free_process and the entry it fills are one).                      *)
(* Every populated slot has a struct_process of its own.                   *)
(*                                                                         *)
(* `hit' of schedule() has no initial value.  When the loop assigns none,  *)
(* switch_to gets what the stack held there: any populated slot (a garbage *)
(* index crashes at once and is left out).                                 *)
(***************************************************************************)
EXTENDS Integers

CONSTANTS
  NR_PROCESS,  \* slots of process[]
  Queues,      \* the proc_wait pointers that processes sleep on
  Slice,       \* ticks of process 0 at the start: 15
  Wrap         \* 2^32, the range of unsigned int (bound: small in the runs)

ASSUME SchedAssumption ==
  /\ NR_PROCESS \in Nat \ {0}
  /\ Slice \in Nat \ {0} /\ Wrap \in Nat /\ Slice < Wrap
  /\ "none" \notin Queues

VARIABLES
  current,    \* the process on the CPU
  process,    \* the populated slots of process[]
  state,      \* process[]->state
  ticks,      \* process[]->ticks, modulo Wrap
  head,       \* the proc_wait pointers
  frame,      \* the call of sleep_on or interruptible_sleep_on a process is
              \* in, and its local tmp
  making      \* the child the fork() a process is in has still to finish

vars == <<current, process, state, ticks, head, frame, making>>

Slots == 0 .. NR_PROCESS - 1
RUNNING == 0
WAIT_INTERRUPTIBLE == 1
WAIT_UNINTERRUPTIBLE == 2
NoProc  == -1
NoFrame == [q |-> "none", tmp |-> NoProc, intr |-> FALSE]
MinusOne == Wrap - 1   \* max = -1, as the comparison with ticks takes it

Init ==
  /\ current = 0
  /\ process = {0}
  /\ state = [p \in Slots |-> RUNNING]
  /\ ticks = [p \in Slots |-> Slice]
  /\ head = [q \in Queues |-> NoProc]
  /\ frame = [p \in Slots |-> NoFrame]
  /\ making = [p \in Slots |-> NoProc]

-----------------------------------------------------------------------------
(* Mutant: empty slots are not skipped. *)
HitUnchecked(st, tk) ==
  {i \in Slots : \A j \in Slots : tk[i] > tk[j] \/ (tk[i] = tk[j] /\ i <= j)}

(* The slots schedule() may switch to. *)
Hit(st, tk) ==
  LET better == {i \in process : st[i] = RUNNING /\ tk[i] > MinusOne}
  IN IF better = {} THEN process
     ELSE {i \in better :
             \A j \in better : tk[i] > tk[j] \/ (tk[i] = tk[j] /\ i <= j)}

Schedule == current' \in Hit(state', ticks')

(* A process that comes back into sleep_on or fork does the rest of it     *)
(* first.                                                                  *)
Free(p) == current = p /\ frame[p] = NoFrame /\ making[p] = NoProc

SleepOn(p, q) ==
  /\ Free(p)
  /\ frame' = [frame EXCEPT ![p] = [q |-> q, tmp |-> head[q], intr |-> FALSE]]
  /\ head' = [head EXCEPT ![q] = p]
  /\ state' = [state EXCEPT ![p] = WAIT_UNINTERRUPTIBLE]
  /\ UNCHANGED <<process, ticks, making>>
  /\ Schedule

(* The rest of sleep_on, and of interruptible_sleep_on after its loop. *)
Leave(p) ==
  /\ head' = [head EXCEPT ![frame[p].q] = frame[p].tmp]
  /\ state' = IF frame[p].tmp = NoProc THEN state
              ELSE [state EXCEPT ![frame[p].tmp] = RUNNING]
  /\ frame' = [frame EXCEPT ![p] = NoFrame]
  /\ UNCHANGED <<current, process, ticks, making>>

Awake(p) ==
  /\ current = p /\ frame[p] # NoFrame /\ ~frame[p].intr
  /\ Leave(p)

InterruptibleSleepOn(p, q) ==
  /\ Free(p)
  /\ frame' = [frame EXCEPT ![p] = [q |-> q, tmp |-> head[q], intr |-> TRUE]]
  /\ head' = [head EXCEPT ![q] = p]
  /\ state' = [state EXCEPT ![p] = WAIT_INTERRUPTIBLE]
  /\ UNCHANGED <<process, ticks, making>>
  /\ Schedule

AwakeAsHead(p) ==
  /\ current = p /\ frame[p].intr /\ head[frame[p].q] = p
  /\ Leave(p)

(* The process at the head is to leave first.  When wake_up has cleared    *)
(* the head, its `state' is the word at address 0, no process's.           *)
SleepAgain(p) ==
  LET first == head[frame[p].q]
  IN /\ current = p /\ frame[p].intr /\ first # p
     /\ state' = [r \in Slots |-> IF r = p THEN WAIT_INTERRUPTIBLE
                                 ELSE IF r = first THEN RUNNING ELSE state[r]]
     /\ UNCHANGED <<process, ticks, head, frame, making>>
     /\ Schedule

(* wake_up(&proc_wait): the address of the pointer is taken for a process, *)
(* whose first field, state, becomes PROCESS_RUNNING, which is 0.          *)
WakeUp(q) ==
  /\ head' = [head EXCEPT ![q] = NoProc]
  /\ UNCHANGED <<current, process, state, ticks, frame, making>>

Pause(p) ==
  /\ Free(p)
  /\ state' = [state EXCEPT ![p] = RUNNING]
  /\ UNCHANGED <<process, ticks, head, frame, making>>
  /\ Schedule

(* get_free_process and copy_process: the child has what is left of its    *)
(* parent's slice.  It may be switched to before fork has finished it.     *)
Fork(p) ==
  /\ Free(p)
  /\ \E c \in Slots \ process :
       /\ \A d \in Slots \ process : c <= d
       /\ process' = process \union {c}
       /\ ticks' = [ticks EXCEPT ![c] = ticks[p]]
       /\ state' = [state EXCEPT ![c] = WAIT_UNINTERRUPTIBLE]
       /\ making' = [making EXCEPT ![p] = c]
  /\ UNCHANGED <<current, head, frame>>

FinishFork(p) ==
  /\ current = p /\ making[p] # NoProc
  /\ state' = [state EXCEPT ![making[p]] = RUNNING]
  /\ making' = [making EXCEPT ![p] = NoProc]
  /\ UNCHANGED <<current, process, ticks, head, frame>>

(* copy_memory has failed.  A proc_wait pointer to the child stays; the    *)
(* next process of the slot is taken for it.                               *)
FailFork(p) ==
  /\ current = p /\ making[p] # NoProc
  /\ process' = process \ {making[p]}
  /\ frame' = [frame EXCEPT ![making[p]] = NoFrame]
  /\ making' = [making EXCEPT ![making[p]] = NoProc, ![p] = NoProc]
  /\ UNCHANGED <<current, state, ticks, head>>

(* irq_timer_handler, whatever the process is doing. *)
Timer(p) ==
  LET left == IF ticks[p] = 0 THEN Wrap - 1 ELSE ticks[p] - 1
  IN /\ current = p
     /\ ticks' = [ticks EXCEPT ![p] = left]
     /\ UNCHANGED <<process, state, head, frame, making>>
     /\ IF left > 0 THEN UNCHANGED current ELSE Schedule

Next ==
  \/ \E p \in process :
       \/ Awake(p) \/ AwakeAsHead(p) \/ SleepAgain(p)
       \/ Pause(p) \/ Fork(p) \/ FinishFork(p) \/ FailFork(p) \/ Timer(p)
  \/ \E p \in process, q \in Queues : SleepOn(p, q) \/ InterruptibleSleepOn(p, q)
  \/ \E q \in Queues : WakeUp(q)

Spec == Init /\ [][Next]_vars

-----------------------------------------------------------------------------
Frames ==
  [q : Queues \union {"none"}, tmp : Slots \union {NoProc}, intr : BOOLEAN]

(* The values the fields take and the wait chains; the CPU is with a       *)
(* process that exists.  `ticks' takes every value, not only the 0 to 15   *)
(* of process.h:60: a slice that has run out wraps.                        *)
TypeOK ==
  /\ current \in process /\ process \subseteq Slots
  /\ state \in [Slots -> {RUNNING, WAIT_INTERRUPTIBLE, WAIT_UNINTERRUPTIBLE}]
  /\ ticks \in [Slots -> 0 .. Wrap - 1]
  /\ head \in [Queues -> Slots \union {NoProc}]
  /\ frame \in [Slots -> Frames]
  /\ making \in [Slots -> Slots \union {NoProc}]

(* sched.c, sleep_on: "put the task into the uninterruptible wait state    *)
(* until it is explicitly woken by wake_up".                               *)
SleepsUntilWoken ==
  [][\A p \in Slots :
       frame[p] # NoFrame /\ ~frame[p].intr /\ frame'[p] = NoFrame =>
         state[p] = RUNNING]_vars
=============================================================================
