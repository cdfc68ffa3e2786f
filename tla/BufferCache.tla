----------------------------- MODULE BufferCache -----------------------------
(***************************************************************************)
(* The block buffer cache of kernel/buffer.c and the request queue that    *)
(* kernel/blk/rw_blk.c and kernel/blk/blk.c keep under it: processes       *)
(* inside bread, brelease, sync_dev and invalid_dev_buffers, and the disk  *)
(* interrupt that ends the current request.                                *)
(*                                                                         *)
(* One step is one test with the branch it takes, or one group of          *)
(* assignments between two such tests.  A step belongs to the process      *)
(* `current' or is the disk interrupt, which comes between any two steps   *)
(* of a process with interrupts enabled.  sleep_on is a switch to any      *)
(* process whatsoever: schedule() hands an uninitialised index to          *)
(* switch_to (module Sched), and every caller tests its condition again    *)
(* after it, so the wait chains do not matter here.  Here a process gives  *)
(* up the CPU in sleep_on only; PreemptiveCache adds the timer.            *)
(*                                                                         *)
(* A (dev, block) pair is one number of Blocks; all the blocks are of one  *)
(* device whose driver is installed.                                       *)
(***************************************************************************)
EXTENDS Integers, Totals

CONSTANTS
  Procs,       \* the populated slots of process[]
  NBuf,        \* nr_buffers
  NReq,        \* NR_REQUEST
  Blocks,      \* the disk blocks the processes ask for
  Written,     \* those of the blocks that the processes modify (bound)
  Ops,         \* which calls the processes make besides bread: "sync", "inval"
  Outcomes,    \* what a transfer may end with: TRUE (valid data), FALSE
  MaxHold,     \* references of one buffer a process takes before it gives one
               \* back: one for block_read and block_write, the only callers
  CountSize    \* 256: count is an unsigned char

ASSUME BufferCacheAssumption ==
  /\ Procs # {} /\ IsFiniteSet(Procs)
  /\ NBuf \in Nat \ {0}
  /\ NReq \in Nat \ {0}
  /\ Blocks \subseteq Nat
  /\ Written \subseteq Blocks
  /\ Ops \subseteq {"sync", "inval"}
  /\ Outcomes \subseteq BOOLEAN
  /\ MaxHold \in Nat
  /\ CountSize \in Nat \ {0, 1}
  /\ Cardinality(Procs) * MaxHold < CountSize

VARIABLES
  current,  \* the process on the CPU
  proc,     \* where each process is in the kernel, and its locals
  held,     \* how many references of each buffer a process took and still has
  buf,      \* mem_buffers[]
  req,      \* blk_request[]
  cur       \* blk_dev[MAJOR_HD].current_request

vars == <<current, proc, held, buf, req, cur>>

Bufs  == 1 .. NBuf
Slots == 1 .. NReq
NoBuf == 0
NoReq == 0
NoBlock == -1
READ  == 0
WRITE == 1

PCs == {"idle", "find", "found", "pick", "wait1", "dirty", "wait2", "claim",
        "got", "waitR", "rel", "sync", "inval",
        "lock", "test", "slot", "fill", "add", "read", "walk", "link", "halt"}

IsLowest(i, S) == i \in S /\ \A j \in S : i <= j

(* A process outside the cache: it has no live locals. *)
Outside == [pc |-> "idle", op |-> "bread", want |-> NoBlock, b |-> NoBuf,
            cmd |-> READ, slot |-> NoReq, tmp |-> NoReq]

Init ==
  /\ current \in Procs
  /\ proc = [p \in Procs |-> Outside]
  /\ held = [p \in Procs |-> [i \in Bufs |-> 0]]
  /\ buf = [i \in Bufs |-> [blk |-> NoBlock, uptodate |-> FALSE,
                            dirty |-> FALSE, count |-> 0, locked |-> FALSE,
                            mod |-> FALSE]]
  /\ req = [s \in Slots |-> [busy |-> FALSE, b |-> NoBuf, blk |-> NoBlock,
                             cmd |-> READ, next |-> NoReq]]
  /\ cur = NoReq

-----------------------------------------------------------------------------
(* Running and giving up the CPU. *)

At(p, l) == current = p /\ proc[p].pc = l

Goto(p, l)       == proc' = [proc EXCEPT ![p] = [@ EXCEPT !.pc = l]]
GotoBuf(p, l, i) == proc' = [proc EXCEPT ![p] = [@ EXCEPT !.pc = l, !.b = i]]
CallRw(p, c)     == proc' = [proc EXCEPT ![p] = [@ EXCEPT !.pc = "lock", !.cmd = c]]
Leave(p)         == proc' = [proc EXCEPT ![p] = Outside]

(* sleep_on inside a loop that tests its condition again: any process may  *)
(* be resumed, p itself included, and p comes back to the same test.       *)
SleepOn(p) ==
  /\ current' \in Procs
  /\ UNCHANGED <<proc, held, buf, req, cur>>

OnlyProc == UNCHANGED <<current, held, buf, req, cur>>

-----------------------------------------------------------------------------
(* What the system calls and the file system ask of the cache. *)

StartBread(p) ==
  /\ At(p, "idle")
  /\ \A i \in Bufs : held[p][i] < MaxHold
  /\ \E k \in Blocks :
       proc' = [proc EXCEPT ![p] =
                  [@ EXCEPT !.pc = "find", !.op = "bread", !.want = k]]
  /\ OnlyProc

StartScan(p) ==
  /\ At(p, "idle")
  /\ \E o \in Ops :
       proc' = [proc EXCEPT ![p] = [@ EXCEPT !.pc = o, !.op = o, !.b = 1]]
  /\ OnlyProc

(* A holder writes into the block and sets dirty (block_write, the inode   *)
(* and directory code): one of those in Written (bound).  mod is history:  *)
(* the data differ from the device.                                        *)
Modify(p) ==
  /\ At(p, "idle")
  /\ \E i \in Bufs :
       /\ held[p][i] > 0
       /\ buf[i].blk \in Written
       /\ buf' = [buf EXCEPT ![i] = [@ EXCEPT !.dirty = TRUE, !.mod = TRUE]]
  /\ UNCHANGED <<current, proc, held, req, cur>>

StartRelease(p) ==
  /\ At(p, "idle")
  /\ \E i \in Bufs :
       /\ held[p][i] > 0
       /\ held' = [held EXCEPT ![p][i] = @ - 1]
       /\ GotoBuf(p, "rel", i)
  /\ UNCHANGED <<current, buf, req, cur>>

(* The process sleeps in some other part of the kernel. *)
SleepElsewhere(p) == At(p, "idle") /\ SleepOn(p)

-----------------------------------------------------------------------------
(* get_buffer *)

Find(p) ==
  LET match == {i \in Bufs : buf[i].blk = proc[p].want}
  IN /\ At(p, "find")
     /\ \/ match = {} /\ Goto(p, "pick")
        \/ \E i \in Bufs :
             /\ IsLowest(i, match)
             /\ GotoBuf(p, "found", i)
     /\ OnlyProc

(* Mutant: find_buffer returns the buffer without counting the reference. *)
FoundUncounted(p) ==
  At(p, "found") /\ Goto(p, "got") /\ OnlyProc

Found(p) ==
  /\ At(p, "found")
  /\ buf' = [buf EXCEPT ![proc[p].b].count = (@ + 1) % CountSize]
  /\ Goto(p, "got")
  /\ UNCHANGED <<current, held, req, cur>>

Pick(p) ==
  LET free == {i \in Bufs : buf[i].count = 0}
  IN /\ At(p, "pick")
     /\ \/ free = {} /\ SleepOn(p)
        \/ \E i \in Bufs :
             /\ IsLowest(i, free)
             /\ GotoBuf(p, "wait1", i)
             /\ OnlyProc

(* Mutant: count is not tested again after wait_on_buffer. *)
WaitThenTake(p, here, next) ==
  LET i == proc[p].b
  IN /\ At(p, here)
     /\ \/ buf[i].locked /\ SleepOn(p)
        \/ ~buf[i].locked /\ Goto(p, next) /\ OnlyProc

(* wait_on_buffer, then count is tested again. *)
WaitThenCount(p, here, next) ==
  LET i == proc[p].b
  IN /\ At(p, here)
     /\ \/ buf[i].locked /\ SleepOn(p)
        \/ /\ ~buf[i].locked
           /\ Goto(p, IF buf[i].count > 0 THEN "pick" ELSE next)
           /\ OnlyProc

Wait1(p) == WaitThenCount(p, "wait1", "dirty")

(* while(dirty) rw_blk(WRITE, ...) *)
WriteBack(p) ==
  /\ At(p, "dirty")
  /\ IF buf[proc[p].b].dirty THEN CallRw(p, WRITE) ELSE Goto(p, "wait2")
  /\ OnlyProc

Wait2(p) == WaitThenCount(p, "wait2", "claim")

Claim(p) ==
  /\ At(p, "claim")
  /\ buf' = [buf EXCEPT ![proc[p].b] =
               [@ EXCEPT !.blk = proc[p].want, !.uptodate = FALSE,
                         !.dirty = FALSE, !.count = 1, !.mod = FALSE]]
  /\ Goto(p, "got")
  /\ UNCHANGED <<current, held, req, cur>>

-----------------------------------------------------------------------------
(* bread and brelease *)

(* bread returns the buffer: p holds it. *)
Hold(p) ==
  /\ Leave(p)
  /\ held' = [held EXCEPT ![p][proc[p].b] = @ + 1]
  /\ UNCHANGED <<current, buf, req, cur>>

Got(p) ==
  /\ At(p, "got")
  /\ \/ buf[proc[p].b].uptodate /\ Hold(p)
     \/ /\ ~buf[proc[p].b].uptodate
        /\ CallRw(p, READ)
        /\ OnlyProc

(* Mutant: bread returns NULL without brelease. *)
WaitReadLeaks(p) ==
  LET i == proc[p].b
  IN /\ At(p, "waitR")
     /\ \/ buf[i].locked /\ SleepOn(p)
        \/ ~buf[i].locked /\ buf[i].uptodate /\ Hold(p)
        \/ /\ ~buf[i].locked /\ ~buf[i].uptodate
           /\ Leave(p)
           /\ OnlyProc

WaitRead(p) ==
  LET i == proc[p].b
  IN /\ At(p, "waitR")
     /\ \/ buf[i].locked /\ SleepOn(p)
        \/ ~buf[i].locked /\ buf[i].uptodate /\ Hold(p)
        \/ ~buf[i].locked /\ ~buf[i].uptodate /\ Goto(p, "rel") /\ OnlyProc

(* The wake_up of brelease writes NULL into proc_wait and wakes nobody. *)
Release(p) ==
  LET i == proc[p].b
  IN /\ At(p, "rel")
     /\ \/ buf[i].locked /\ SleepOn(p)
        \/ /\ ~buf[i].locked /\ buf[i].count = 0
           /\ Goto(p, "halt")
           /\ OnlyProc
        \/ /\ ~buf[i].locked /\ buf[i].count > 0
           /\ buf' = [buf EXCEPT ![i].count = @ - 1]
           /\ Leave(p)
           /\ UNCHANGED <<current, held, req, cur>>

-----------------------------------------------------------------------------
(* sync_dev and invalid_dev_buffers: one pass over mem_buffers[]. *)

ScanTo(p, i) ==
  proc' = [proc EXCEPT ![p] = [Outside EXCEPT !.pc = proc[p].op,
                                              !.op = proc[p].op, !.b = i]]

(* Mutant: i <= nr_buffers. *)
NextInScanPastEnd(p) ==
  IF proc[p].b > NBuf THEN Leave(p) ELSE ScanTo(p, proc[p].b + 1)

NextInScan(p) ==
  IF proc[p].b = NBuf THEN Leave(p) ELSE ScanTo(p, proc[p].b + 1)

Sync(p) ==
  LET i == proc[p].b
  IN /\ At(p, "sync")
     /\ \/ buf[i].blk # NoBlock /\ buf[i].locked /\ SleepOn(p)
        \/ /\ buf[i].blk # NoBlock /\ ~buf[i].locked /\ buf[i].dirty
           /\ CallRw(p, WRITE)
           /\ OnlyProc
        \/ /\ buf[i].blk = NoBlock \/ (~buf[i].locked /\ ~buf[i].dirty)
           /\ NextInScan(p)
           /\ OnlyProc

Invalidate(p) ==
  LET i == proc[p].b
  IN /\ At(p, "inval")
     /\ \/ buf[i].blk # NoBlock /\ buf[i].locked /\ SleepOn(p)
        \/ /\ buf[i].blk = NoBlock \/ ~buf[i].locked
           /\ buf' = IF buf[i].blk = NoBlock THEN buf
                     ELSE [buf EXCEPT ![i] = [@ EXCEPT !.dirty = FALSE, !.mod = FALSE,
                                                   !.uptodate = FALSE]]
           /\ NextInScan(p)
           /\ UNCHANGED <<current, held, req, cur>>

-----------------------------------------------------------------------------
(* rw_blk.  lock_mem_buffer clears the interrupt flag for as long as p is  *)
(* at "lock", asleep or not, and sets it again when it has the lock.       *)

Lock(p) ==
  LET i == proc[p].b
  IN /\ At(p, "lock")
     /\ \/ buf[i].locked /\ SleepOn(p)
        \/ /\ ~buf[i].locked
           /\ buf' = [buf EXCEPT ![i] = [@ EXCEPT !.locked = TRUE]]
           /\ Goto(p, "test")
           /\ UNCHANGED <<current, held, req, cur>>

ResumeGetBuffer(p, l) ==
  proc' = [proc EXCEPT ![p] = [@ EXCEPT !.pc = l, !.cmd = READ,
                                        !.slot = NoReq, !.tmp = NoReq]]

(* Mutant: if(dirty) in get_buffer, in the place of while(dirty). *)
AfterRwNoLoop(p) ==
  CASE proc[p].op # "bread" -> NextInScan(p)
    [] proc[p].op = "bread" /\ proc[p].cmd = READ  -> ResumeGetBuffer(p, "waitR")
    [] proc[p].op = "bread" /\ proc[p].cmd = WRITE -> ResumeGetBuffer(p, "wait2")

(* Where rw_blk returns to: sync_dev's loop, bread, or get_buffer's. *)
AfterRw(p) ==
  CASE proc[p].op # "bread" -> NextInScan(p)
    [] proc[p].op = "bread" /\ proc[p].cmd = READ  -> ResumeGetBuffer(p, "waitR")
    [] proc[p].op = "bread" /\ proc[p].cmd = WRITE -> ResumeGetBuffer(p, "dirty")

(* Mutant: the early return of rw_blk leaves the buffer locked. *)
TestStaysLocked(p) ==
  LET i == proc[p].b
      needless == IF proc[p].cmd = READ THEN buf[i].uptodate ELSE ~buf[i].dirty
  IN /\ At(p, "test")
     /\ IF needless THEN AfterRw(p) ELSE Goto(p, "slot")
     /\ OnlyProc

Test(p) ==
  LET i == proc[p].b
      needless == IF proc[p].cmd = READ THEN buf[i].uptodate ELSE ~buf[i].dirty
  IN /\ At(p, "test")
     /\ \/ /\ needless
           /\ buf' = [buf EXCEPT ![i] = [@ EXCEPT !.locked = FALSE]]
           /\ AfterRw(p)
           /\ UNCHANGED <<current, held, req, cur>>
        \/ ~needless /\ Goto(p, "slot") /\ OnlyProc

Slot(p) ==
  LET free == {s \in Slots : ~req[s].busy}
  IN /\ At(p, "slot")
     /\ \/ free = {} /\ SleepOn(p)
        \/ \E s \in Slots :
             /\ IsLowest(s, free)
             /\ proc' = [proc EXCEPT ![p] = [@ EXCEPT !.pc = "fill", !.slot = s]]
             /\ OnlyProc

(* Mutant: the request is for the block asked for, not the buffer's. *)
FillWanted(p) ==
  /\ At(p, "fill")
  /\ req' = [req EXCEPT ![proc[p].slot] =
               [busy |-> TRUE, b |-> proc[p].b, blk |-> proc[p].want,
                cmd |-> proc[p].cmd, next |-> NoReq]]
  /\ Goto(p, "add")
  /\ UNCHANGED <<current, held, buf, cur>>

Fill(p) ==
  /\ At(p, "fill")
  /\ req' = [req EXCEPT ![proc[p].slot] =
               [busy |-> TRUE, b |-> proc[p].b, blk |-> buf[proc[p].b].blk,
                cmd |-> proc[p].cmd, next |-> NoReq]]
  /\ Goto(p, "add")
  /\ UNCHANGED <<current, held, buf, cur>>

(* add_request tests current_request, and reads it once more; interrupts   *)
(* are enabled.                                                            *)
Add(p) ==
  /\ At(p, "add")
  /\ \/ cur = NoReq /\ cur' = proc[p].slot /\ AfterRw(p)
     \/ cur # NoReq /\ UNCHANGED cur /\ Goto(p, "read")
  /\ UNCHANGED <<current, held, buf, req>>

(* When the interrupt emptied the queue after the test, tmp is NULL, and   *)
(* what the walk finds at address 0 gets the request: no queue has it.     *)
ReadHead(p) ==
  /\ At(p, "read")
  /\ \/ cur = NoReq /\ AfterRw(p)
     \/ cur # NoReq /\ proc' = [proc EXCEPT ![p] = [@ EXCEPT !.pc = "walk", !.tmp = cur]]
  /\ OnlyProc

(* The dev of a request: there is one device, and -1 marks a free slot.    *)
Dev(s) == IF req[s].busy THEN 0 ELSE -1

InOrder(s, t) ==
  \/ req[s].cmd < req[t].cmd
  \/ req[s].cmd = req[t].cmd /\ Dev(s) < Dev(t)
  \/ req[s].cmd = req[t].cmd /\ Dev(s) = Dev(t) /\ req[s].blk < req[t].blk

GoesBetween(s, r, t) ==
  \/ InOrder(s, r) /\ InOrder(r, t)
  \/ InOrder(r, s) /\ InOrder(t, r)

Walk(p) ==
  LET s == proc[p].tmp
      t == req[s].next
  IN /\ At(p, "walk")
     /\ IF t = NoReq \/ GoesBetween(s, proc[p].slot, t)
        THEN Goto(p, "link")
        ELSE proc' = [proc EXCEPT ![p] = [@ EXCEPT !.tmp = t]]
     /\ OnlyProc

(* Mutant: request->next = tmp->next is forgotten: what follows is cut off. *)
LinkCutsOff(p) ==
  LET s == proc[p].tmp
  IN /\ At(p, "link")
     /\ req' = [req EXCEPT ![s] = [@ EXCEPT !.next = proc[p].slot]]
     /\ AfterRw(p)
     /\ UNCHANGED <<current, held, buf, cur>>

(* Mutant: tmp->next = request is forgotten. *)
LinkForgets(p) ==
  LET s == proc[p].tmp
  IN /\ At(p, "link")
     /\ req' = [req EXCEPT ![proc[p].slot] = [@ EXCEPT !.next = req[s].next]]
     /\ AfterRw(p)
     /\ UNCHANGED <<current, held, buf, cur>>

Link(p) ==
  LET s == proc[p].tmp
      r == proc[p].slot
  IN /\ At(p, "link")
     /\ req' = [req EXCEPT ![r] = [@ EXCEPT !.next = req[s].next],
                           ![s] = [@ EXCEPT !.next = r]]
     /\ AfterRw(p)
     /\ UNCHANGED <<current, held, buf, cur>>

-----------------------------------------------------------------------------
(* The end of a request. *)

IntEnabled == proc[current].pc # "lock"

(* end_request, called by the disk driver from the disk interrupt or, when *)
(* the drive refuses a request, from the process that has just put it into *)
(* the empty queue: in this module the step that follows its Add.  What    *)
(* the interrupt does in the middle of that call is in HdDriver.           *)
EndRequest ==
  LET i == req[cur].b
  IN /\ IntEnabled
     /\ cur # NoReq
     /\ \E ok \in Outcomes :
          buf' = [buf EXCEPT ![i] = [@ EXCEPT !.uptodate = ok, !.locked = FALSE,
                                              !.mod = buf[i].mod /\ ~ok]]
     /\ req' = [req EXCEPT ![cur] = [@ EXCEPT !.busy = FALSE]]
     /\ cur' = req[cur].next
     /\ UNCHANGED <<current, proc, held>>

-----------------------------------------------------------------------------
ProcStep(p) ==
  \/ StartBread(p) \/ StartScan(p) \/ Modify(p) \/ StartRelease(p)
  \/ SleepElsewhere(p)
  \/ Find(p) \/ Found(p) \/ Pick(p) \/ Wait1(p) \/ WriteBack(p) \/ Wait2(p)
  \/ Claim(p) \/ Got(p) \/ WaitRead(p) \/ Release(p)
  \/ Sync(p) \/ Invalidate(p)
  \/ Lock(p) \/ Test(p) \/ Slot(p) \/ Fill(p) \/ Add(p)
  \/ ReadHead(p) \/ Walk(p) \/ Link(p)

Next == (\E p \in Procs : ProcStep(p)) \/ EndRequest

Spec == Init /\ [][Next]_vars

-----------------------------------------------------------------------------
ProcType == [pc : PCs, op : {"bread", "sync", "inval"},
             want : Blocks \union {NoBlock}, b : Bufs \union {NoBuf},
             cmd : {READ, WRITE}, slot : Slots \union {NoReq},
             tmp : Slots \union {NoReq}]

BufType == [blk : Blocks \union {NoBlock}, uptodate : BOOLEAN, dirty : BOOLEAN,
            count : 0 .. CountSize - 1, locked : BOOLEAN, mod : BOOLEAN]

ReqType == [busy : BOOLEAN, b : Bufs \union {NoBuf},
            blk : Blocks \union {NoBlock}, cmd : {READ, WRITE},
            next : Slots \union {NoReq}]

(* The values the variables take: buffer.h, blk.h, and the places above.   *)
TypeOK ==
  /\ current \in Procs
  /\ proc \in [Procs -> ProcType]
  /\ held \in [Procs -> [Bufs -> Nat]]
  /\ buf \in [Bufs -> BufType]
  /\ req \in [Slots -> ReqType]
  /\ cur \in Slots \union {NoReq}

-----------------------------------------------------------------------------
(* The references of buffer i that p took and must give back: what it      *)
(* holds, and the one a bread or a brelease under way carries.             *)
RwPCs == {"lock", "test", "slot", "fill", "add", "read", "walk", "link"}

CarriesRef(p, i) ==
  /\ proc[p].b = i
  /\ \/ proc[p].pc \in {"got", "waitR", "rel"}
     \/ proc[p].pc \in RwPCs /\ proc[p].op = "bread" /\ proc[p].cmd = READ

Refs(p, i) == held[p][i] + (IF CarriesRef(p, i) THEN 1 ELSE 0)

(* buffer.h: count is the number of processes that use the buffer.  Every  *)
(* reference taken in get_buffer is counted once and given back once, so   *)
(* that brelease never finds a zero count and halts the machine, and the   *)
(* unsigned char that counts them never wraps to a smaller number.         *)
CountIsUsers ==
  \A i \in Bufs : buf[i].count = Total([p \in Procs |-> Refs(p, i)])

(* Between finding the lock free and filling a request slot the process    *)
(* owns the lock; from then on the request does, until end_request.        *)
OwnerProc(p, i) == proc[p].b = i /\ proc[p].pc \in {"test", "slot", "fill"}
OwnerReq(s, i)  == req[s].busy /\ req[s].b = i

(* lock_mem_buffer and end_request together: a locked buffer has exactly   *)
(* one owner, a process on its way through rw_blk or one request, and an   *)
(* unlocked one has none.  Nobody else's buffer is ever unlocked.          *)
LockHasOneOwner ==
  \A i \in Bufs :
    /\ buf[i].locked <=> \/ \E p \in Procs : OwnerProc(p, i)
                         \/ \E s \in Slots : OwnerReq(s, i)
    /\ \A p, q \in Procs : OwnerProc(p, i) /\ OwnerProc(q, i) => p = q
    /\ \A s, t \in Slots : OwnerReq(s, i) /\ OwnerReq(t, i) => s = t
    /\ \A p \in Procs, s \in Slots : ~(OwnerProc(p, i) /\ OwnerReq(s, i))

(* rw_blk copies dev and block into the request once: until the request is *)
(* ended no get_buffer may give the buffer to another block, or the driver *)
(* would move the data of one block to or from the place of another.       *)
RequestKeepsBlock ==
  \A s \in Slots : req[s].busy => req[s].blk = buf[req[s].b].blk

(* get_buffer never takes a buffer away from a process that uses it.       *)
UsedBufferKeepsBlock ==
  [][\A p \in Procs, i \in Bufs :
       Refs(p, i) > 0 /\ Refs(p, i)' > 0 => buf'[i].blk = buf[i].blk]_vars

(* get_buffer gives a buffer to another block only when its data are the   *)
(* device's: what a holder wrote is never dropped with the buffer.  (dirty *)
(* is tested after every sleep.  No successful write clears it, so that    *)
(* the loop at buffer.c:147 ends only when invalid_dev_buffers does.)      *)
NoModifiedBufferReused ==
  [][\A i \in Bufs : buf'[i].blk # buf[i].blk => ~buf[i].mod]_vars

(* buffer.c: "if the block has been read into a buffer, get_buffer returns *)
(* that buffer": it never takes a second buffer for a block that is cached *)
(* in another.                                                             *)
CachedBlockIsReturned ==
  [][\A i, j \in Bufs :
       buf'[i].blk # buf[i].blk /\ i # j /\ buf[j].uptodate
         => buf[j].blk # buf'[i].blk]_vars

(* What current_request and the next pointers lead to: the least set that  *)
(* has the one and goes on with the others.                                *)
FollowsQueue(S) ==
  /\ cur # NoReq => cur \in S
  /\ \A s \in S : req[s].next # NoReq => req[s].next \in S

Queued == {s \in Slots : \A S \in SUBSET Slots : FollowsQueue(S) => s \in S}

(* A request that nobody will serve, and nobody is still putting in. *)
Lost(s) ==
  /\ req[s].busy
  /\ s \notin Queued
  /\ \A p \in Procs :
       proc[p].slot = s => proc[p].pc \notin {"add", "read", "walk", "link"}

(* rw_blk.c: add_request puts the request into the queue.                  *)
RequestIsQueued == \A s \in Slots : ~Lost(s)

(* A request that is in the queue stays there until it has come to the     *)
(* head and end_request ends it, whatever is put in before or behind it.   *)
QueuedUntilEnded ==
  [][\A s \in Queued : s \in Queued' \/ (s = cur /\ ~req'[s].busy)]_vars

(* add_request loses a request in two ways only, both of which need        *)
(* end_request to come in: it emptied the queue between the two reads of   *)
(* current_request, or it ended the request that the new one is then       *)
(* linked behind.                                                          *)
LostOnlyToEndRequest ==
  [][\A s \in Slots :
       Lost(s)' => \/ Lost(s)
                  \/ \E p \in Procs :
                       /\ proc[p].slot = s
                       /\ \/ At(p, "read") /\ cur = NoReq
                          \/ At(p, "link") /\ ~req[proc[p].tmp].busy]_vars

(* The call of bread or brelease that a process whose place and locals are *)
(* r is in, as its caller sees it.                                         *)
CallOf(r) ==
  LET rw(c) == r.pc \in RwPCs /\ r.op = "bread" /\ r.cmd = c
      as(l, k, i) == [at |-> l, blk |-> k, buf |-> i]
  IN IF \/ r.pc \in {"find", "found", "pick", "wait1", "dirty", "wait2", "claim"}
        \/ rw(WRITE)
     THEN as("asks", r.want, NoBuf)
     ELSE IF r.pc \in {"got", "waitR"} \/ rw(READ)
     THEN as("gets", r.want, r.b)
     ELSE IF r.pc \in {"rel", "halt"}
     THEN as("gives", NoBlock, r.b)
     ELSE as("out", NoBlock, NoBuf)

Pool ==
  INSTANCE BufferPool WITH
    block    <- [i \in Bufs |-> buf[i].blk],
    modified <- [i \in Bufs |-> buf[i].mod],
    call     <- [p \in Procs |-> CallOf(proc[p])]

(* bread and brelease against BufferPool: whatever sleeps, transfers that  *)
(* fail and other processes come between, the caller gets a buffer of the  *)
(* block it asked for, which nobody else can take away, or none at all.    *)
KeepsPool == Pool!Spec
=============================================================================
