------------------------------ MODULE BufferPool ------------------------------
(***************************************************************************)
(* What kernel/buffer.c promises those that call bread and brelease: a     *)
(* pool of buffers.  A process that asks for a block gets a buffer that    *)
(* has the block, shared with others or made free for it, and has one      *)
(* reference more to it, or is refused and has none.  While anybody has a  *)
(* reference to a buffer it keeps its block; a buffer is made free only    *)
(* when nobody has one and its data are the device's.  Locks, requests and *)
(* sleeps are not part of the promise, nor is which buffer it is.          *)
(***************************************************************************)
EXTENDS Integers

CONSTANTS
  Procs,    \* who asks
  Bufs,     \* the buffers
  Blocks,   \* the blocks that are asked for
  NoBlock,  \* what a buffer has that was never used
  NoBuf,    \* no buffer
  MaxHold   \* the references of a buffer a process has before it stops asking

VARIABLES
  block,     \* the block each buffer has
  modified,  \* the data of the buffer are newer than the device's
  held,      \* the references each process has of each buffer
  call       \* the call each process is in

vars == <<block, modified, held, call>>

Out     == [at |-> "out", blk |-> NoBlock, buf |-> NoBuf]
Asks(k) == [at |-> "asks", blk |-> k, buf |-> NoBuf]
Gets(k, i) == [at |-> "gets", blk |-> k, buf |-> i]
Gives(i)   == [at |-> "gives", blk |-> NoBlock, buf |-> i]

Init ==
  /\ block = [i \in Bufs |-> NoBlock]
  /\ modified = [i \in Bufs |-> FALSE]
  /\ held = [p \in Procs |-> [i \in Bufs |-> 0]]
  /\ call = [p \in Procs |-> Out]

Calls(p, c) == call' = [call EXCEPT ![p] = c]

(* p has a reference of its own, or one that its call is about. *)
Uses(p, i) ==
  held[p][i] > 0 \/ (call[p].at \in {"gets", "gives"} /\ call[p].buf = i)

Ask(p) ==
  /\ call[p] = Out
  /\ \A i \in Bufs : held[p][i] < MaxHold
  /\ \E k \in Blocks : Calls(p, Asks(k))
  /\ UNCHANGED <<block, modified, held>>

Share(p, i) ==
  /\ call[p] = Asks(block[i])
  /\ Calls(p, Gets(block[i], i))
  /\ UNCHANGED <<block, modified, held>>

Reuse(p, i) ==
  /\ call[p].at = "asks"
  /\ ~modified[i] /\ \A q \in Procs : ~Uses(q, i)
  /\ block' = [block EXCEPT ![i] = call[p].blk]
  /\ Calls(p, Gets(call[p].blk, i))
  /\ UNCHANGED <<modified, held>>

(* The caller has a reference to a buffer with the block it asked for. *)
Return(p, i) ==
  /\ call[p] = Gets(block[i], i)
  /\ held' = [held EXCEPT ![p][i] = @ + 1]
  /\ Calls(p, Out)
  /\ UNCHANGED <<block, modified>>

(* The block cannot be read. *)
Refuse(p, i) ==
  /\ call[p].at = "gets" /\ call[p].buf = i
  /\ Calls(p, Gives(i))
  /\ UNCHANGED <<block, modified, held>>

GiveBack(p, i) ==
  /\ call[p] = Out /\ held[p][i] > 0
  /\ held' = [held EXCEPT ![p][i] = @ - 1]
  /\ Calls(p, Gives(i))
  /\ UNCHANGED <<block, modified>>

Given(p) ==
  /\ call[p].at = "gives"
  /\ Calls(p, Out)
  /\ UNCHANGED <<block, modified, held>>

Write(p, i) ==
  /\ call[p] = Out /\ held[p][i] > 0
  /\ modified' = [modified EXCEPT ![i] = TRUE]
  /\ UNCHANGED <<block, held, call>>

(* The data have been transferred, or are given up when the device is. *)
Clean(i) ==
  /\ modified' = [modified EXCEPT ![i] = FALSE]
  /\ UNCHANGED <<block, held, call>>

Next ==
  \/ \E p \in Procs : Ask(p) \/ Given(p)
  \/ \E p \in Procs, i \in Bufs :
       Share(p, i) \/ Reuse(p, i) \/ Return(p, i) \/ Refuse(p, i)
       \/ GiveBack(p, i) \/ Write(p, i)
  \/ \E i \in Bufs : Clean(i)

Spec == Init /\ [][Next]_vars
=============================================================================
