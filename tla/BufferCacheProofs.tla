-------------------------- MODULE BufferCacheProofs --------------------------
(***************************************************************************)
(* Theorems about BufferCache, for any processes, buffers, request slots,  *)
(* blocks and transfer outcomes.                                           *)
(*                                                                         *)
(* The inductive invariant says, beside the types of the locals in use:    *)
(* only sleeping processes are off the CPU (a process gives it up in       *)
(* sleep_on), so at most one process is between finding a request slot     *)
(* and filling it, or between testing a lock and taking the buffer; and    *)
(* the requests that current_request leads to are a set Q of busy slots    *)
(* that the interrupt consumes from the front.  A request linked behind a  *)
(* dead one (the race of RequestIsQueued) is outside Q for good.           *)
(***************************************************************************)
EXTENDS BufferCache, TLAPS

SleepPCs == {"idle", "pick", "wait1", "wait2", "waitR", "rel", "sync",
             "inval", "lock", "slot"}

OnlySleepersOffCPU == \A p \in Procs : p # current => proc[p].pc \in SleepPCs

Queueing == {"add", "read", "walk", "link"}

(* What p may rely on where it is. *)
LocalsOK(p) ==
  /\ proc[p].pc \notin {"idle", "find", "pick", "halt"} => proc[p].b \in Bufs
  /\ proc[p].pc \in {"fill"} \union Queueing => proc[p].slot \in Slots
  /\ proc[p].pc \in {"walk", "link"} => proc[p].tmp \in Slots
  /\ proc[p].pc \in {"sync", "inval"} => proc[p].op = proc[p].pc
  /\ proc[p].pc = "fill" => ~req[proc[p].slot].busy
  /\ proc[p].pc \in Queueing => req[proc[p].slot].busy
  /\ proc[p].pc = "add" => req[proc[p].slot].next = NoReq
  /\ proc[p].pc = "claim" => ~buf[proc[p].b].locked

LocalsDefined == \A p \in Procs : LocalsOK(p)

BusyHasBuffer == \A s \in Slots : req[s].busy => req[s].b \in Bufs

(* Q holds what is queued: all of it is served, in some order. *)
IsQueue(Q) ==
  /\ Q \subseteq Slots
  /\ cur \in Q \union {NoReq}
  /\ \A s \in Q : /\ req[s].busy
                  /\ \/ req[s].next = NoReq
                     \/ req[s].next \in Q /\ req[s].next # cur
  /\ \A s, t \in Q : req[s].next = req[t].next /\ req[s].next # NoReq => s = t
  /\ \A p \in Procs : proc[p].pc \in Queueing => proc[p].slot \notin Q

QueueOK == \E Q \in SUBSET Slots : IsQueue(Q)

IInv ==
  /\ TypeOK /\ OnlySleepersOffCPU /\ LocalsDefined /\ BusyHasBuffer /\ QueueOK
  /\ LockHasOneOwner /\ RequestKeepsBlock

-----------------------------------------------------------------------------
(* How the steps move a process. *)

LEMMA SlotsNat ==
  /\ NoReq \notin Slots /\ NoBuf \notin Bufs
  /\ Slots \subseteq Nat /\ Bufs \subseteq Nat /\ 1 \in Bufs
  BY BufferCacheAssumption DEF Slots, Bufs, NoReq, NoBuf

(* p moves, and nobody else does. *)
Moves(p) ==
  /\ proc' \in [Procs -> ProcType]
  /\ \A q \in Procs : q # p => proc'[q] = proc[q]

LEMMA UpdateMoves ==
  ASSUME TypeOK, NEW p \in Procs, NEW r \in ProcType, proc' = [proc EXCEPT ![p] = r]
  PROVE Moves(p) /\ proc'[p] = r
  BY DEF TypeOK, Moves

LEMMA GotoMoves ==
  ASSUME TypeOK, NEW p \in Procs, NEW l \in PCs, Goto(p, l)
  PROVE /\ Moves(p) /\ proc'[p].pc = l
        /\ proc'[p].b = proc[p].b /\ proc'[p].op = proc[p].op
        /\ proc'[p].cmd = proc[p].cmd /\ proc'[p].slot = proc[p].slot
        /\ proc'[p].tmp = proc[p].tmp /\ proc'[p].want = proc[p].want
<1> DEFINE r == [proc[p] EXCEPT !.pc = l]
<1>1. proc[p] \in ProcType  BY DEF TypeOK
<1>2. r \in ProcType /\ proc' = [proc EXCEPT ![p] = r]
  BY <1>1 DEF ProcType, Goto
<1>3. r.pc = l /\ r.b = proc[p].b /\ r.op = proc[p].op /\ r.cmd = proc[p].cmd
      /\ r.slot = proc[p].slot /\ r.tmp = proc[p].tmp /\ r.want = proc[p].want
  BY <1>1 DEF ProcType
<1> HIDE DEF r
<1> QED BY <1>2, <1>3, UpdateMoves

LEMMA GotoBufMoves ==
  ASSUME TypeOK, NEW p \in Procs, NEW l \in PCs, NEW i \in Bufs, GotoBuf(p, l, i)
  PROVE /\ Moves(p) /\ proc'[p].pc = l
        /\ proc'[p].b = i /\ proc'[p].op = proc[p].op /\ proc'[p].want = proc[p].want
<1> DEFINE r == [proc[p] EXCEPT !.pc = l, !.b = i]
<1>1. proc[p] \in ProcType  BY DEF TypeOK
<1>2. r \in ProcType /\ proc' = [proc EXCEPT ![p] = r]
  BY <1>1 DEF ProcType, GotoBuf
<1>3. r.pc = l /\ r.b = i /\ r.op = proc[p].op /\ r.want = proc[p].want
  BY <1>1 DEF ProcType
<1> HIDE DEF r
<1> QED BY <1>2, <1>3, UpdateMoves

LEMMA CallRwMoves ==
  ASSUME TypeOK, NEW p \in Procs, NEW c \in {READ, WRITE}, CallRw(p, c)
  PROVE /\ Moves(p) /\ proc'[p].pc = "lock" /\ proc'[p].b = proc[p].b
<1> DEFINE r == [proc[p] EXCEPT !.pc = "lock", !.cmd = c]
<1>1. proc[p] \in ProcType  BY DEF TypeOK
<1>2. r \in ProcType /\ proc' = [proc EXCEPT ![p] = r]
  BY <1>1 DEF ProcType, CallRw, PCs
<1>3. r.pc = "lock" /\ r.b = proc[p].b
  BY <1>1 DEF ProcType
<1> HIDE DEF r
<1> QED BY <1>2, <1>3, UpdateMoves

LEMMA LeaveMoves ==
  ASSUME TypeOK, NEW p \in Procs, Leave(p)
  PROVE Moves(p) /\ proc'[p].pc = "idle"
<1>1. Outside \in ProcType  BY DEF Outside, ProcType, PCs
<1>2. Outside.pc = "idle"  BY DEF Outside
<1> QED BY <1>1, <1>2, UpdateMoves DEF Leave

LEMMA ScanMoves ==
  ASSUME TypeOK, NEW p \in Procs, NextInScan(p), proc[p].op # "bread",
         proc[p].b \in Bufs
  PROVE /\ Moves(p) /\ proc'[p].pc \in {"idle", "sync", "inval"}
        /\ proc'[p].pc # "idle" => proc'[p].b \in Bufs /\ proc'[p].op = proc'[p].pc
<1>1. CASE proc[p].b = NBuf
  BY <1>1, LeaveMoves DEF NextInScan
<1>2. CASE proc[p].b # NBuf
  <2> DEFINE r == [Outside EXCEPT !.pc = proc[p].op, !.op = proc[p].op, !.b = proc[p].b + 1]
  <2>1. proc[p] \in ProcType  BY DEF TypeOK
  <2>2. proc[p].op \in {"sync", "inval"}  BY <2>1 DEF ProcType
  <2>3. proc[p].b + 1 \in Bufs  BY <1>2, BufferCacheAssumption DEF Bufs
  <2>4. r \in ProcType  BY <2>2, <2>3 DEF ProcType, Outside, PCs
  <2>5. proc' = [proc EXCEPT ![p] = r]  BY <1>2 DEF NextInScan, ScanTo
  <2>6. r.pc = proc[p].op /\ r.op = proc[p].op /\ r.b = proc[p].b + 1
    BY DEF Outside
  <2> HIDE DEF r
  <2> QED BY <2>2, <2>3, <2>4, <2>5, <2>6, UpdateMoves
<1> QED BY <1>1, <1>2

LEMMA AfterRwMoves ==
  ASSUME TypeOK, NEW p \in Procs, AfterRw(p), proc[p].b \in Bufs
  PROVE /\ Moves(p) /\ proc'[p].pc \in {"waitR", "dirty", "idle", "sync", "inval"}
        /\ proc'[p].pc # "idle" => proc'[p].b \in Bufs
        /\ proc'[p].pc \in {"sync", "inval"} => proc'[p].op = proc'[p].pc
<1>0. proc[p] \in ProcType  BY DEF TypeOK
<1>1. CASE proc[p].op # "bread"
  <2>1. NextInScan(p)  BY <1>1 DEF AfterRw
  <2> QED BY <1>1, <2>1, ScanMoves
<1>2. CASE proc[p].op = "bread"
  <2>1. PICK l \in {"waitR", "dirty"} : ResumeGetBuffer(p, l)
    BY <1>0, <1>2 DEF AfterRw, ProcType
  <2> DEFINE r == [proc[p] EXCEPT !.pc = l, !.cmd = READ, !.slot = NoReq, !.tmp = NoReq]
  <2>2. r \in ProcType  BY <1>0, <2>1 DEF ProcType, PCs
  <2>3. r.pc = l /\ r.b = proc[p].b  BY <1>0 DEF ProcType
  <2>4. proc' = [proc EXCEPT ![p] = r]  BY <2>1 DEF ResumeGetBuffer
  <2> HIDE DEF r
  <2> QED BY <2>1, <2>2, <2>3, <2>4, UpdateMoves
<1> QED BY <1>1, <1>2

-----------------------------------------------------------------------------
(* Steps that leave locks, requests and the queue alone. *)

OwnsWhatItOwned(p) ==
  /\ \A i \in Bufs : OwnerProc(p, i)' <=> OwnerProc(p, i)
  /\ proc'[p].pc \in Queueing => proc[p].pc \in Queueing /\ proc'[p].slot = proc[p].slot

SameLocks ==
  /\ buf' \in [Bufs -> BufType]
  /\ \A i \in Bufs : buf'[i].blk = buf[i].blk /\ buf'[i].locked = buf[i].locked

QuietStep(p) ==
  /\ Moves(p) /\ OwnsWhatItOwned(p) /\ SameLocks
  /\ held' \in [Procs -> [Bufs -> Nat]]
  /\ UNCHANGED <<current, req, cur>>

LEMMA OthersKeep ==
  ASSUME IInv, NEW p \in Procs, current = p, current' = current, Moves(p), LocalsOK(p)'
  PROVE OnlySleepersOffCPU' /\ LocalsDefined'
<1>1. OnlySleepersOffCPU'
  BY DEF IInv, OnlySleepersOffCPU, Moves
<1>2. ASSUME NEW q \in Procs, q # p PROVE LocalsOK(q)'
  <2>1. proc'[q] = proc[q] /\ proc[q].pc \in SleepPCs /\ LocalsOK(q)
    BY <1>2 DEF IInv, OnlySleepersOffCPU, Moves, LocalsDefined
  <2> QED BY <2>1 DEF LocalsOK, SleepPCs, Queueing
<1> QED BY <1>1, <1>2 DEF LocalsDefined

LEMMA QuietKeeps ==
  ASSUME IInv, NEW p \in Procs, current = p, QuietStep(p), LocalsOK(p)'
  PROVE IInv'
<1> USE DEF QuietStep
<1>1. TypeOK'
  BY DEF IInv, TypeOK, Moves, SameLocks
<1>2. OnlySleepersOffCPU' /\ LocalsDefined'
  BY OthersKeep
<1>3. BusyHasBuffer' /\ RequestKeepsBlock'
  BY DEF IInv, BusyHasBuffer, RequestKeepsBlock, SameLocks
<1>4. QueueOK'
  <2>1. PICK Q \in SUBSET Slots : IsQueue(Q)
    BY DEF IInv, QueueOK
  <2>2. IsQueue(Q)'
    BY <2>1 DEF IsQueue, Moves, OwnsWhatItOwned
  <2> QED BY <2>2 DEF QueueOK
<1>5. \A i \in Bufs : /\ \A q \in Procs : OwnerProc(q, i)' <=> OwnerProc(q, i)
                      /\ \A s \in Slots : OwnerReq(s, i)' <=> OwnerReq(s, i)
  BY DEF Moves, OwnsWhatItOwned, OwnerProc, OwnerReq
<1>6. LockHasOneOwner'
  BY <1>5 DEF IInv, LockHasOneOwner, SameLocks
<1> QED BY <1>1, <1>2, <1>3, <1>4, <1>6 DEF IInv

LEMMA SleepKeeps ==
  ASSUME IInv, NEW p \in Procs, current = p, proc[p].pc \in SleepPCs, SleepOn(p)
  PROVE IInv'
<1> USE DEF IInv, SleepOn
<1>1. TypeOK'  BY DEF TypeOK
<1>2. OnlySleepersOffCPU'  BY DEF OnlySleepersOffCPU
<1>3. LocalsDefined'  BY DEF LocalsDefined, LocalsOK
<1>4. BusyHasBuffer' /\ RequestKeepsBlock'  BY DEF BusyHasBuffer, RequestKeepsBlock
<1>5. QueueOK'  BY DEF QueueOK, IsQueue
<1>6. LockHasOneOwner'  BY DEF LockHasOneOwner, OwnerProc, OwnerReq
<1> QED BY <1>1, <1>2, <1>3, <1>4, <1>5, <1>6

LEMMA SameBufQuiet == TypeOK /\ UNCHANGED <<buf, held>> => SameLocks /\ held' \in [Procs -> [Bufs -> Nat]]
  BY DEF TypeOK, SameLocks

(* A step that moves p to a place of its own, and nothing but p. *)
LEMMA QuietMove ==
  ASSUME IInv, NEW p \in Procs, current = p, Moves(p), OnlyProc, LocalsOK(p)',
         OwnsWhatItOwned(p)
  PROVE IInv'
<1>1. SameLocks /\ held' \in [Procs -> [Bufs -> Nat]]
  BY SameBufQuiet DEF IInv, OnlyProc
<1> QED BY <1>1, QuietKeeps DEF QuietStep, OnlyProc

(* The places where p owns no lock and queues nothing. *)
FreePCs == PCs \ ({"test", "slot", "fill"} \union Queueing)

LEMMA FreeOwnsNothing ==
  ASSUME NEW p \in Procs, proc[p].pc \in FreePCs, proc'[p].pc \in FreePCs
  PROVE OwnsWhatItOwned(p)
  BY DEF OwnsWhatItOwned, OwnerProc, FreePCs

LEMMA StartKeeps ==
  ASSUME IInv, NEW p \in Procs, StartBread(p) \/ StartScan(p)
  PROVE IInv'
<1>1. current = p /\ proc[p].pc = "idle" /\ OnlyProc
  BY DEF StartBread, StartScan, At
<1>2. TypeOK /\ proc[p] \in ProcType  BY DEF IInv, TypeOK
<1>3. CASE StartBread(p)
  <2>1. PICK k \in Blocks : proc' = [proc EXCEPT ![p] =
                               [@ EXCEPT !.pc = "find", !.op = "bread", !.want = k]]
    BY <1>3 DEF StartBread
  <2> DEFINE r == [proc[p] EXCEPT !.pc = "find", !.op = "bread", !.want = k]
  <2>2. r \in ProcType /\ r.pc = "find"  BY <1>2 DEF ProcType, PCs
  <2>3. proc' = [proc EXCEPT ![p] = r]  BY <2>1
  <2> HIDE DEF r
  <2>4. Moves(p) /\ proc'[p].pc = "find"  BY <1>2, <2>2, <2>3, UpdateMoves
  <2> QED BY <1>1, <2>4, QuietMove, FreeOwnsNothing DEF LocalsOK, Queueing, FreePCs, PCs
<1>4. CASE StartScan(p)
  <2>1. PICK o \in Ops : proc' = [proc EXCEPT ![p] =
                                     [@ EXCEPT !.pc = o, !.op = o, !.b = 1]]
    BY <1>4 DEF StartScan
  <2>2. o \in {"sync", "inval"}  BY BufferCacheAssumption
  <2> DEFINE r == [proc[p] EXCEPT !.pc = o, !.op = o, !.b = 1]
  <2>3. r \in ProcType /\ r.pc = o /\ r.op = o /\ r.b = 1
    BY <1>2, <2>2, SlotsNat DEF ProcType, PCs
  <2>4. proc' = [proc EXCEPT ![p] = r]  BY <2>1
  <2> HIDE DEF r
  <2>5. Moves(p) /\ proc'[p].pc = o /\ proc'[p].op = o /\ proc'[p].b = 1
    BY <1>2, <2>3, <2>4, UpdateMoves
  <2> QED BY <1>1, <2>2, <2>5, SlotsNat, QuietMove, FreeOwnsNothing
          DEF LocalsOK, Queueing, FreePCs, PCs
<1> QED BY <1>3, <1>4

LEMMA ModifyKeeps ==
  ASSUME IInv, NEW p \in Procs, Modify(p)
  PROVE IInv'
<1>1. TypeOK  BY DEF IInv
<1>2. PICK i \in Bufs : buf' = [buf EXCEPT ![i] = [@ EXCEPT !.dirty = TRUE, !.mod = TRUE]]
  BY DEF Modify
<1> DEFINE r == [buf[i] EXCEPT !.dirty = TRUE, !.mod = TRUE]
<1>3. buf[i] \in BufType  BY <1>1 DEF TypeOK
<1>4. r \in BufType /\ r.blk = buf[i].blk /\ r.locked = buf[i].locked
  BY <1>3 DEF BufType
<1>5. buf' = [buf EXCEPT ![i] = r]  BY <1>2
<1> HIDE DEF r
<1>6. SameLocks  BY <1>1, <1>4, <1>5 DEF TypeOK, SameLocks
<1>7. Moves(p) /\ proc' = proc /\ held' = held /\ UNCHANGED <<current, req, cur>>
      /\ current = p /\ proc[p].pc = "idle"
  BY <1>1 DEF Modify, Moves, TypeOK, At
<1>8. OwnsWhatItOwned(p)  BY <1>7, FreeOwnsNothing DEF FreePCs, PCs, Queueing
<1>9. LocalsOK(p)'  BY <1>7 DEF LocalsOK, Queueing
<1> QED BY <1>1, <1>6, <1>7, <1>8, <1>9, QuietKeeps DEF QuietStep, TypeOK

LEMMA StartReleaseKeeps ==
  ASSUME IInv, NEW p \in Procs, StartRelease(p)
  PROVE IInv'
<1>1. TypeOK  BY DEF IInv
<1>2. PICK i \in Bufs : /\ held[p][i] > 0
                        /\ held' = [held EXCEPT ![p][i] = @ - 1]
                        /\ GotoBuf(p, "rel", i)
  BY DEF StartRelease
<1>3. Moves(p) /\ proc'[p].pc = "rel" /\ proc'[p].b \in Bufs
  BY <1>1, <1>2, GotoBufMoves DEF PCs
<1>4. held' \in [Procs -> [Bufs -> Nat]]
  BY <1>1, <1>2 DEF TypeOK
<1>5. current = p /\ proc[p].pc = "idle" /\ UNCHANGED <<current, buf, req, cur>>
  BY DEF StartRelease, At
<1>6. SameLocks  BY <1>1, <1>5 DEF TypeOK, SameLocks
<1>7. OwnsWhatItOwned(p)  BY <1>3, <1>5, FreeOwnsNothing DEF FreePCs, PCs, Queueing
<1>8. LocalsOK(p)'  BY <1>3 DEF LocalsOK, Queueing
<1> QED BY <1>3, <1>4, <1>5, <1>6, <1>7, <1>8, QuietKeeps DEF QuietStep

LEMMA FindPickKeeps ==
  ASSUME IInv, NEW p \in Procs, Find(p) \/ Pick(p) \/ WriteBack(p)
  PROVE IInv'
<1>1. TypeOK /\ LocalsOK(p)  BY DEF IInv, LocalsDefined
<1>2. current = p /\ proc[p].pc \in {"find", "pick", "dirty"}
  BY DEF Find, Pick, WriteBack, At
<1>3. CASE Pick(p) /\ SleepOn(p)
  BY <1>2, <1>3, SleepKeeps DEF Pick, At, SleepPCs
<1>4. CASE ~(Pick(p) /\ SleepOn(p))
  <2>1. /\ OnlyProc
        /\ \/ Goto(p, "pick")
           \/ \E i \in Bufs : GotoBuf(p, "found", i) \/ GotoBuf(p, "wait1", i)
           \/ proc[p].pc = "dirty" /\ (CallRw(p, WRITE) \/ Goto(p, "wait2"))
    BY <1>4 DEF Find, Pick, WriteBack, At
  <2>2. /\ Moves(p) /\ proc'[p].pc \in {"pick", "found", "wait1", "lock", "wait2"}
        /\ proc'[p].pc # "pick" => proc'[p].b \in Bufs
    BY <1>1, <2>1, GotoMoves, GotoBufMoves, CallRwMoves DEF PCs, LocalsOK
  <2>3. LocalsOK(p)'  BY <2>2 DEF LocalsOK, Queueing
  <2>4. OwnsWhatItOwned(p)  BY <1>2, <2>2, FreeOwnsNothing DEF FreePCs, PCs, Queueing
  <2> QED BY <1>2, <2>1, <2>2, <2>3, <2>4, QuietMove
<1> QED BY <1>3, <1>4

(* Steps that count or uncount a reference of p's buffer. *)
LEMMA CountsInChar ==
  ASSUME TypeOK, NEW i \in Bufs
  PROVE /\ (buf[i].count + 1) % CountSize \in 0 .. CountSize - 1
        /\ buf[i].count > 0 => buf[i].count - 1 \in 0 .. CountSize - 1
<1> DEFINE c == buf[i].count
<1>1. c \in 0 .. CountSize - 1 /\ CountSize \in Nat
  BY BufferCacheAssumption DEF TypeOK, BufType
<1> HIDE DEF c
<1>2. CountSize > 0  BY <1>1
<1>3. (c + 1) % CountSize \in 0 .. CountSize - 1  BY <1>1, <1>2
<1> QED BY <1>1, <1>3 DEF c

LEMMA CountSameLocks ==
  ASSUME TypeOK, NEW i \in Bufs, NEW n \in 0 .. CountSize - 1,
         buf' = [buf EXCEPT ![i].count = n]
  PROVE SameLocks
<1> DEFINE r == [buf[i] EXCEPT !.count = n]
<1>1. buf[i] \in BufType  BY DEF TypeOK
<1>2. r \in BufType /\ r.blk = buf[i].blk /\ r.locked = buf[i].locked
  BY <1>1 DEF BufType
<1>3. buf' = [buf EXCEPT ![i] = r]  OBVIOUS
<1> HIDE DEF r
<1> QED BY <1>2, <1>3 DEF TypeOK, SameLocks

LEMMA FoundKeeps ==
  ASSUME IInv, NEW p \in Procs, Found(p)
  PROVE IInv'
<1>1. TypeOK /\ LocalsOK(p) /\ current = p /\ proc[p].pc = "found"
      /\ UNCHANGED <<current, held, req, cur>>
  BY DEF IInv, LocalsDefined, Found, At
<1>2. proc[p].b \in Bufs  BY <1>1 DEF LocalsOK
<1>3. Moves(p) /\ proc'[p].pc = "got" /\ proc'[p].b \in Bufs
  BY <1>1, <1>2, GotoMoves DEF Found, PCs
<1>4. (buf[proc[p].b].count + 1) % CountSize \in 0 .. CountSize - 1
  BY <1>1, <1>2, CountsInChar
<1>5. SameLocks  BY <1>1, <1>2, <1>4, CountSameLocks DEF Found
<1>6. LocalsOK(p)'  BY <1>3 DEF LocalsOK, Queueing
<1>7. OwnsWhatItOwned(p)  BY <1>1, <1>3, FreeOwnsNothing DEF FreePCs, PCs, Queueing
<1> QED BY <1>1, <1>3, <1>5, <1>6, <1>7, QuietKeeps DEF QuietStep, TypeOK

(* Places where p waits for, or tests, its buffer and then moves on. *)
LEMMA WaitKeeps ==
  ASSUME IInv, NEW p \in Procs, Wait1(p) \/ Wait2(p)
  PROVE IInv'
<1>1. TypeOK /\ LocalsOK(p)  BY DEF IInv, LocalsDefined
<1>2. current = p /\ proc[p].pc \in {"wait1", "wait2"} /\ proc[p].b \in Bufs
  BY <1>1 DEF Wait1, Wait2, WaitThenCount, At, LocalsOK
<1>3. \/ SleepOn(p)
      \/ /\ OnlyProc /\ ~buf[proc[p].b].locked
         /\ Goto(p, "pick") \/ Goto(p, "dirty") \/ Goto(p, "claim")
  BY DEF Wait1, Wait2, WaitThenCount
<1>4. CASE SleepOn(p)
  BY <1>2, <1>4, SleepKeeps DEF SleepPCs
<1>5. CASE ~SleepOn(p)
  <2>1. OnlyProc /\ ~buf[proc[p].b].locked
        /\ (Goto(p, "pick") \/ Goto(p, "dirty") \/ Goto(p, "claim"))
    BY <1>3, <1>5
  <2>2. Moves(p) /\ proc'[p].pc \in {"pick", "dirty", "claim"} /\ proc'[p].b = proc[p].b
    BY <1>1, <2>1, GotoMoves DEF PCs
  <2>3. LocalsOK(p)'  BY <1>2, <2>1, <2>2 DEF LocalsOK, Queueing, OnlyProc
  <2>4. OwnsWhatItOwned(p)  BY <1>2, <2>2, FreeOwnsNothing DEF FreePCs, PCs, Queueing
  <2> QED BY <1>2, <2>1, <2>2, <2>3, <2>4, QuietMove
<1> QED BY <1>4, <1>5

LEMMA HoldKeeps ==
  ASSUME IInv, NEW p \in Procs, current = p, proc[p].pc \in {"got", "waitR"}, Hold(p)
  PROVE IInv'
<1>1. TypeOK /\ LocalsOK(p)  BY DEF IInv, LocalsDefined
<1>2. proc[p].b \in Bufs  BY <1>1 DEF LocalsOK
<1>3. Moves(p) /\ proc'[p].pc = "idle" /\ UNCHANGED <<current, buf, req, cur>>
  BY <1>1, LeaveMoves DEF Hold
<1>4. held' \in [Procs -> [Bufs -> Nat]]  BY <1>1, <1>2 DEF Hold, TypeOK
<1>5. SameLocks  BY <1>1, <1>3 DEF TypeOK, SameLocks
<1>6. LocalsOK(p)'  BY <1>3 DEF LocalsOK, Queueing
<1>7. OwnsWhatItOwned(p)  BY <1>3, FreeOwnsNothing DEF FreePCs, PCs, Queueing
<1> QED BY <1>3, <1>4, <1>5, <1>6, <1>7, QuietKeeps DEF QuietStep

LEMMA BreadKeeps ==
  ASSUME IInv, NEW p \in Procs, Got(p) \/ WaitRead(p)
  PROVE IInv'
<1>1. TypeOK /\ LocalsOK(p)  BY DEF IInv, LocalsDefined
<1>2. current = p /\ proc[p].pc \in {"got", "waitR"} /\ proc[p].b \in Bufs
  BY <1>1 DEF Got, WaitRead, At, LocalsOK
<1>3. CASE Hold(p)
  BY <1>2, <1>3, HoldKeeps
<1>4. CASE WaitRead(p) /\ SleepOn(p)
  BY <1>2, <1>4, SleepKeeps DEF WaitRead, At, SleepPCs
<1>5. CASE OnlyProc /\ (CallRw(p, READ) \/ Goto(p, "rel"))
  <2>1. Moves(p) /\ proc'[p].pc \in {"lock", "rel"} /\ proc'[p].b = proc[p].b
    BY <1>1, <1>5, GotoMoves, CallRwMoves DEF PCs
  <2>2. LocalsOK(p)'  BY <1>2, <2>1 DEF LocalsOK, Queueing
  <2>3. OwnsWhatItOwned(p)  BY <1>2, <2>1, FreeOwnsNothing DEF FreePCs, PCs, Queueing
  <2> QED BY <1>2, <1>5, <2>1, <2>2, <2>3, QuietMove
<1> QED BY <1>3, <1>4, <1>5 DEF Got, WaitRead

LEMMA ReleaseKeeps ==
  ASSUME IInv, NEW p \in Procs, Release(p)
  PROVE IInv'
<1>1. TypeOK /\ LocalsOK(p)  BY DEF IInv, LocalsDefined
<1>2. current = p /\ proc[p].pc = "rel" /\ proc[p].b \in Bufs
  BY <1>1 DEF Release, At, LocalsOK
<1>3. CASE SleepOn(p)
  BY <1>2, <1>3, SleepKeeps DEF SleepPCs
<1>4. CASE ~SleepOn(p)
  <2>1. /\ UNCHANGED <<current, held, req, cur>>
        /\ \/ OnlyProc /\ Goto(p, "halt")
           \/ /\ buf[proc[p].b].count > 0 /\ Leave(p)
              /\ buf' = [buf EXCEPT ![proc[p].b].count = @ - 1]
    BY <1>4 DEF Release, OnlyProc
  <2>2. Moves(p) /\ proc'[p].pc \in {"halt", "idle"}
    BY <1>1, <2>1, GotoMoves, LeaveMoves DEF PCs
  <2>3. SameLocks
    <3>1. CASE OnlyProc
      BY <1>1, <3>1, SameBufQuiet DEF OnlyProc
    <3>2. CASE ~OnlyProc
      <4>1. buf[proc[p].b].count > 0  BY <2>1, <3>2
      <4>2. buf[proc[p].b].count - 1 \in 0 .. CountSize - 1
        BY <1>1, <1>2, <4>1, CountsInChar
      <4> QED BY <1>1, <1>2, <2>1, <3>2, <4>2, CountSameLocks
    <3> QED BY <3>1, <3>2
  <2>4. LocalsOK(p)'  BY <2>2 DEF LocalsOK, Queueing
  <2>5. OwnsWhatItOwned(p)  BY <1>2, <2>2, FreeOwnsNothing DEF FreePCs, PCs, Queueing
  <2> QED BY <1>1, <1>2, <2>1, <2>2, <2>3, <2>4, <2>5, QuietKeeps DEF QuietStep, TypeOK
<1> QED BY <1>3, <1>4

LEMMA ScanKeeps ==
  ASSUME IInv, NEW p \in Procs, Sync(p) \/ Invalidate(p)
  PROVE IInv'
<1>1. TypeOK /\ LocalsOK(p)  BY DEF IInv, LocalsDefined
<1>2. current = p /\ proc[p].pc \in {"sync", "inval"} /\ proc[p].b \in Bufs
      /\ proc[p].op # "bread"
  BY <1>1 DEF Sync, Invalidate, At, LocalsOK
<1>3. CASE SleepOn(p)
  BY <1>2, <1>3, SleepKeeps DEF SleepPCs
<1>4. CASE ~SleepOn(p)
  <2>1. /\ UNCHANGED <<current, held, req, cur>>
        /\ NextInScan(p) \/ CallRw(p, WRITE)
    BY <1>4 DEF Sync, Invalidate, OnlyProc
  <2>2. /\ Moves(p) /\ proc'[p].pc \in {"idle", "sync", "inval", "lock"}
        /\ proc'[p].pc # "idle" => proc'[p].b \in Bufs
        /\ proc'[p].pc \in {"sync", "inval"} => proc'[p].op = proc'[p].pc
    BY <1>1, <1>2, <2>1, ScanMoves, CallRwMoves
  <2>3. SameLocks
    <3>1. CASE UNCHANGED buf
      BY <1>1, <3>1 DEF TypeOK, SameLocks
    <3>2. CASE ~UNCHANGED buf
      <4> DEFINE i == proc[p].b
                 r == [buf[i] EXCEPT !.dirty = FALSE, !.mod = FALSE, !.uptodate = FALSE]
      <4>1. buf' = [buf EXCEPT ![i] = r]
        BY <1>4, <3>2 DEF Sync, Invalidate, OnlyProc
      <4>2. buf[i] \in BufType  BY <1>1, <1>2 DEF TypeOK
      <4>3. r \in BufType /\ r.blk = buf[i].blk /\ r.locked = buf[i].locked
        BY <4>2 DEF BufType
      <4> HIDE DEF r
      <4> QED BY <1>1, <1>2, <4>1, <4>3 DEF TypeOK, SameLocks
    <3> QED BY <3>1, <3>2
  <2>4. LocalsOK(p)'  BY <2>2 DEF LocalsOK, Queueing
  <2>5. OwnsWhatItOwned(p)  BY <1>2, <2>2, FreeOwnsNothing DEF FreePCs, PCs, Queueing
  <2> QED BY <1>1, <1>2, <2>1, <2>2, <2>3, <2>4, <2>5, QuietKeeps DEF QuietStep, TypeOK
<1> QED BY <1>3, <1>4

LEMMA SlotKeeps ==
  ASSUME IInv, NEW p \in Procs, Slot(p)
  PROVE IInv'
<1>1. TypeOK /\ LocalsOK(p) /\ proc[p] \in ProcType
  BY DEF IInv, LocalsDefined, TypeOK
<1>2. current = p /\ proc[p].pc = "slot" /\ proc[p].b \in Bufs
  BY <1>1 DEF Slot, At, LocalsOK
<1>3. CASE SleepOn(p)
  BY <1>2, <1>3, SleepKeeps DEF SleepPCs
<1>4. CASE ~SleepOn(p)
  <2>1. PICK s \in Slots :
          /\ ~req[s].busy /\ OnlyProc
          /\ proc' = [proc EXCEPT ![p] = [@ EXCEPT !.pc = "fill", !.slot = s]]
    BY <1>4 DEF Slot, IsLowest
  <2> DEFINE r == [proc[p] EXCEPT !.pc = "fill", !.slot = s]
  <2>2. r \in ProcType /\ r.pc = "fill" /\ r.slot = s /\ r.b = proc[p].b
    BY <1>1 DEF ProcType, PCs
  <2>3. proc' = [proc EXCEPT ![p] = r]  BY <2>1
  <2> HIDE DEF r
  <2>4. Moves(p) /\ proc'[p].pc = "fill" /\ proc'[p].slot = s /\ proc'[p].b = proc[p].b
    BY <1>1, <2>2, <2>3, UpdateMoves
  <2>5. LocalsOK(p)'  BY <1>2, <2>1, <2>4 DEF LocalsOK, Queueing, OnlyProc
  <2>6. OwnsWhatItOwned(p)  BY <1>2, <2>4 DEF OwnsWhatItOwned, OwnerProc, Queueing
  <2> QED BY <1>2, <2>1, <2>4, <2>5, <2>6, QuietMove
<1> QED BY <1>3, <1>4

LEMMA WalkKeeps ==
  ASSUME IInv, NEW p \in Procs, Walk(p)
  PROVE IInv'
<1>1. TypeOK /\ LocalsOK(p) /\ proc[p] \in ProcType
  BY DEF IInv, LocalsDefined, TypeOK
<1>2. current = p /\ proc[p].pc = "walk" /\ proc[p].b \in Bufs /\ proc[p].tmp \in Slots
  BY <1>1 DEF Walk, At, LocalsOK
<1> DEFINE t == req[proc[p].tmp].next
           r == [proc[p] EXCEPT !.tmp = t]
<1>3. OnlyProc /\ (Goto(p, "link") \/ (t # NoReq /\ proc' = [proc EXCEPT ![p] = r]))
  BY DEF Walk
<1>4. t \in Slots \union {NoReq}  BY <1>1, <1>2 DEF TypeOK, ReqType
<1>5. /\ Moves(p) /\ proc'[p].pc \in {"walk", "link"} /\ proc'[p].slot = proc[p].slot
      /\ proc'[p].b = proc[p].b /\ proc'[p].tmp \in Slots
  <2>1. CASE Goto(p, "link")
    BY <1>1, <1>2, <2>1, GotoMoves DEF PCs
  <2>2. CASE t # NoReq /\ proc' = [proc EXCEPT ![p] = r]
    <3>1. r \in ProcType /\ r.tmp = t /\ r.pc = proc[p].pc /\ r.slot = proc[p].slot
          /\ r.b = proc[p].b
      BY <1>1, <1>4 DEF ProcType
    <3> HIDE DEF r
    <3> QED BY <1>1, <1>2, <1>4, <2>2, <3>1, UpdateMoves
  <2> QED BY <1>3, <2>1, <2>2
<1>6. LocalsOK(p)'  BY <1>1, <1>2, <1>3, <1>5 DEF LocalsOK, Queueing, OnlyProc
<1>7. OwnsWhatItOwned(p)  BY <1>2, <1>5 DEF OwnsWhatItOwned, OwnerProc, Queueing
<1> QED BY <1>2, <1>3, <1>5, <1>6, <1>7, QuietMove

-----------------------------------------------------------------------------
(* Steps on the locks, the requests and the queue. *)

(* What keeps the queue: the requests and current_request are as before,   *)
(* and p brings no queued slot to the places where a slot is being queued. *)
LEMMA SameQueue ==
  ASSUME QueueOK, NEW p \in Procs, Moves(p), UNCHANGED <<req, cur>>,
         proc'[p].pc \notin Queueing
  PROVE QueueOK'
<1>1. PICK Q \in SUBSET Slots : IsQueue(Q)  BY DEF QueueOK
<1>2. IsQueue(Q)'  BY <1>1 DEF IsQueue, Moves
<1> QED BY <1>2 DEF QueueOK

LEMMA ClaimKeeps ==
  ASSUME IInv, NEW p \in Procs, Claim(p)
  PROVE IInv'
<1>1. TypeOK /\ LocalsOK(p) /\ proc[p] \in ProcType
  BY DEF IInv, LocalsDefined, TypeOK
<1> DEFINE i == proc[p].b
           r == [buf[i] EXCEPT !.blk = proc[p].want, !.uptodate = FALSE,
                               !.dirty = FALSE, !.count = 1, !.mod = FALSE]
<1>2. current = p /\ proc[p].pc = "claim" /\ i \in Bufs /\ ~buf[i].locked
      /\ UNCHANGED <<current, held, req, cur>>
  BY <1>1 DEF Claim, At, LocalsOK
<1>3. Moves(p) /\ proc'[p].pc = "got" /\ proc'[p].b = i
  BY <1>1, GotoMoves DEF Claim, PCs
<1>4. buf[i] \in BufType  BY <1>1, <1>2 DEF TypeOK
<1>5. r \in BufType /\ r.locked = buf[i].locked
  <2>1. proc[p].want \in Blocks \union {NoBlock}  BY <1>1 DEF ProcType
  <2>2. 1 \in 0 .. CountSize - 1  BY BufferCacheAssumption
  <2> QED BY <1>4, <2>1, <2>2 DEF BufType
<1>6. buf' = [buf EXCEPT ![i] = r]  BY DEF Claim
<1> HIDE DEF r
<1>7. /\ buf' \in [Bufs -> BufType]
      /\ \A j \in Bufs : buf'[j].locked = buf[j].locked
      /\ \A j \in Bufs : j # i => buf'[j] = buf[j]
  BY <1>1, <1>2, <1>5, <1>6 DEF TypeOK
<1>8. TypeOK'  BY <1>1, <1>2, <1>3, <1>7 DEF TypeOK, Moves
<1>9. LocalsOK(p)'  BY <1>2, <1>3 DEF LocalsOK, Queueing
<1>10. OnlySleepersOffCPU' /\ LocalsDefined'  BY <1>2, <1>3, <1>9, OthersKeep
<1>11. BusyHasBuffer'  BY <1>2 DEF IInv, BusyHasBuffer
<1>12. QueueOK'  BY <1>2, <1>3, SameQueue DEF IInv, Queueing
<1>13. \A j \in Bufs : /\ \A q \in Procs : OwnerProc(q, j)' <=> OwnerProc(q, j)
                       /\ \A s \in Slots : OwnerReq(s, j)' <=> OwnerReq(s, j)
  BY <1>2, <1>3 DEF Moves, OwnerProc, OwnerReq
<1>14. LockHasOneOwner'  BY <1>7, <1>13 DEF IInv, LockHasOneOwner
<1>15. RequestKeepsBlock'
  <2>1. \A s \in Slots : ~OwnerReq(s, i)  BY <1>2 DEF IInv, LockHasOneOwner
  <2> QED BY <1>2, <1>7, <2>1 DEF IInv, RequestKeepsBlock, BusyHasBuffer, OwnerReq
<1> QED BY <1>8, <1>10, <1>11, <1>12, <1>14, <1>15 DEF IInv

(* Locking and unlocking p's buffer. *)
SetsLock(i, f) ==
  /\ buf' \in [Bufs -> BufType]
  /\ buf'[i].locked = f
  /\ \A j \in Bufs : buf'[j].blk = buf[j].blk
  /\ \A j \in Bufs : j # i => buf'[j] = buf[j]

LEMMA LockUpdate ==
  ASSUME TypeOK, NEW i \in Bufs, NEW f \in BOOLEAN,
         buf' = [buf EXCEPT ![i] = [@ EXCEPT !.locked = f]]
  PROVE SetsLock(i, f)
<1> DEFINE r == [buf[i] EXCEPT !.locked = f]
<1>1. buf[i] \in BufType  BY DEF TypeOK
<1>2. r \in BufType /\ r.locked = f /\ r.blk = buf[i].blk  BY <1>1 DEF BufType
<1>3. buf' = [buf EXCEPT ![i] = r]  OBVIOUS
<1> HIDE DEF r
<1> QED BY <1>2, <1>3 DEF TypeOK, SetsLock

LEMMA LockKeeps ==
  ASSUME IInv, NEW p \in Procs, Lock(p)
  PROVE IInv'
<1>1. TypeOK /\ LocalsOK(p)  BY DEF IInv, LocalsDefined
<1> DEFINE i == proc[p].b
<1>2. current = p /\ proc[p].pc = "lock" /\ i \in Bufs
  BY <1>1 DEF Lock, At, LocalsOK
<1>3. CASE SleepOn(p)
  BY <1>2, <1>3, SleepKeeps DEF SleepPCs
<1>4. CASE ~SleepOn(p)
  <2>1. ~buf[i].locked /\ UNCHANGED <<current, held, req, cur>>
    BY <1>4 DEF Lock
  <2>2. SetsLock(i, TRUE)  BY <1>1, <1>2, <1>4, LockUpdate DEF Lock
  <2>3. Moves(p) /\ proc'[p].pc = "test" /\ proc'[p].b = i
    BY <1>1, <1>4, GotoMoves DEF Lock, PCs
  <2>4. TypeOK'  BY <1>1, <2>1, <2>2, <2>3 DEF TypeOK, Moves, SetsLock
  <2>5. LocalsOK(p)'  BY <1>2, <2>3 DEF LocalsOK, Queueing
  <2>6. OnlySleepersOffCPU' /\ LocalsDefined'  BY <1>2, <2>1, <2>3, <2>5, OthersKeep
  <2>7. BusyHasBuffer' /\ RequestKeepsBlock'
    BY <2>1, <2>2 DEF IInv, BusyHasBuffer, RequestKeepsBlock, SetsLock
  <2>8. QueueOK'  BY <2>1, <2>3, SameQueue DEF IInv, Queueing
  <2>9. /\ \A q \in Procs : ~OwnerProc(q, i)
        /\ \A s \in Slots : ~OwnerReq(s, i)
    BY <1>2, <2>1 DEF IInv, LockHasOneOwner
  <2>10. \A j \in Bufs :
           /\ \A q \in Procs : OwnerProc(q, j)' <=> OwnerProc(q, j) \/ (q = p /\ j = i)
           /\ \A s \in Slots : OwnerReq(s, j)' <=> OwnerReq(s, j)
    BY <1>2, <2>1, <2>3 DEF Moves, OwnerProc, OwnerReq
  <2>11. LockHasOneOwner'
    BY <1>2, <2>2, <2>9, <2>10 DEF IInv, LockHasOneOwner, SetsLock
  <2> QED BY <2>4, <2>6, <2>7, <2>8, <2>11 DEF IInv
<1> QED BY <1>3, <1>4

LEMMA TestKeeps ==
  ASSUME IInv, NEW p \in Procs, Test(p)
  PROVE IInv'
<1>1. TypeOK /\ LocalsOK(p)  BY DEF IInv, LocalsDefined
<1> DEFINE i == proc[p].b
<1>2. current = p /\ proc[p].pc = "test" /\ i \in Bufs
  BY <1>1 DEF Test, At, LocalsOK
<1>3. CASE OnlyProc /\ Goto(p, "slot")
  <2>1. Moves(p) /\ proc'[p].pc = "slot" /\ proc'[p].b = i
    BY <1>1, <1>3, GotoMoves DEF PCs
  <2>2. LocalsOK(p)'  BY <1>2, <2>1 DEF LocalsOK, Queueing
  <2>3. OwnsWhatItOwned(p)  BY <1>2, <2>1 DEF OwnsWhatItOwned, OwnerProc, Queueing
  <2> QED BY <1>2, <1>3, <2>1, <2>2, <2>3, QuietMove
<1>4. CASE ~(OnlyProc /\ Goto(p, "slot"))
  <2>1. AfterRw(p) /\ UNCHANGED <<current, held, req, cur>>
        /\ buf' = [buf EXCEPT ![i] = [@ EXCEPT !.locked = FALSE]]
    BY <1>4 DEF Test
  <2>2. SetsLock(i, FALSE)  BY <1>1, <1>2, <2>1, LockUpdate
  <2>3. /\ Moves(p) /\ proc'[p].pc \in {"waitR", "dirty", "idle", "sync", "inval"}
        /\ proc'[p].pc # "idle" => proc'[p].b \in Bufs
        /\ proc'[p].pc \in {"sync", "inval"} => proc'[p].op = proc'[p].pc
    BY <1>1, <1>2, <2>1, AfterRwMoves
  <2>4. TypeOK'  BY <1>1, <2>1, <2>2, <2>3 DEF TypeOK, Moves, SetsLock
  <2>5. LocalsOK(p)'  BY <2>3 DEF LocalsOK, Queueing
  <2>6. OnlySleepersOffCPU' /\ LocalsDefined'  BY <1>2, <2>1, <2>3, <2>5, OthersKeep
  <2>7. BusyHasBuffer' /\ RequestKeepsBlock'
    BY <2>1, <2>2 DEF IInv, BusyHasBuffer, RequestKeepsBlock, SetsLock
  <2>8. QueueOK'  BY <2>1, <2>3, SameQueue DEF IInv, Queueing
  <2>9. OwnerProc(p, i) /\ \A j \in Bufs : OwnerProc(p, j) => j = i
    BY <1>2 DEF OwnerProc
  <2>10. /\ \A q \in Procs : OwnerProc(q, i) => q = p
         /\ \A s \in Slots : ~OwnerReq(s, i)
    BY <1>2, <2>9 DEF IInv, LockHasOneOwner
  <2>11. \A j \in Bufs :
           /\ \A q \in Procs : OwnerProc(q, j)' <=> OwnerProc(q, j) /\ q # p
           /\ \A s \in Slots : OwnerReq(s, j)' <=> OwnerReq(s, j)
    BY <2>1, <2>3 DEF Moves, OwnerProc, OwnerReq
  <2>12. LockHasOneOwner'
    BY <1>2, <2>2, <2>9, <2>10, <2>11 DEF IInv, LockHasOneOwner, SetsLock
  <2> QED BY <2>4, <2>6, <2>7, <2>8, <2>12 DEF IInv
<1> QED BY <1>3, <1>4

LEMMA FillKeeps ==
  ASSUME IInv, NEW p \in Procs, Fill(p)
  PROVE IInv'
<1>1. TypeOK /\ LocalsOK(p) /\ proc[p] \in ProcType
  BY DEF IInv, LocalsDefined, TypeOK
<1> DEFINE i == proc[p].b
           s == proc[p].slot
           r == [busy |-> TRUE, b |-> i, blk |-> buf[i].blk,
                 cmd |-> proc[p].cmd, next |-> NoReq]
<1>2. current = p /\ proc[p].pc = "fill" /\ i \in Bufs /\ s \in Slots /\ ~req[s].busy
      /\ UNCHANGED <<current, held, buf, cur>>
  BY <1>1 DEF Fill, At, LocalsOK
<1>3. Moves(p) /\ proc'[p].pc = "add" /\ proc'[p].b = i /\ proc'[p].slot = s
  BY <1>1, GotoMoves DEF Fill, PCs
<1>4. r \in ReqType /\ r.busy /\ r.b = i /\ r.blk = buf[i].blk /\ r.next = NoReq
  BY <1>1, <1>2 DEF ReqType, ProcType, TypeOK, BufType
<1>5. req' = [req EXCEPT ![s] = r]  BY DEF Fill
<1> HIDE DEF r
<1>6. /\ req' \in [Slots -> ReqType] /\ req'[s] = r
      /\ \A t \in Slots : t # s => req'[t] = req[t]
  BY <1>1, <1>2, <1>4, <1>5 DEF TypeOK
<1>7. TypeOK'  BY <1>1, <1>2, <1>3, <1>6 DEF TypeOK, Moves
<1>8. LocalsOK(p)'  BY <1>2, <1>3, <1>4, <1>6 DEF LocalsOK, Queueing
<1>9. OnlySleepersOffCPU' /\ LocalsDefined'  BY <1>2, <1>3, <1>8, OthersKeep
<1>10. BusyHasBuffer' /\ RequestKeepsBlock'
  BY <1>2, <1>4, <1>6 DEF IInv, BusyHasBuffer, RequestKeepsBlock
<1>11. QueueOK'
  <2>1. PICK Q \in SUBSET Slots : IsQueue(Q)  BY DEF IInv, QueueOK
  <2>2. s \notin Q  BY <1>2, <2>1 DEF IsQueue
  <2>3. IsQueue(Q)'
    <3>1. \A t \in Q : req'[t] = req[t]  BY <1>6, <2>1, <2>2 DEF IsQueue
    <3>2. \A q \in Procs : proc'[q].pc \in Queueing => proc'[q].slot \notin Q
      BY <1>3, <2>1, <2>2 DEF IsQueue, Moves
    <3> QED BY <1>2, <2>1, <3>1, <3>2 DEF IsQueue
  <2> QED BY <2>3 DEF QueueOK
<1>12. OwnerProc(p, i) /\ \A j \in Bufs : OwnerProc(p, j) => j = i
  BY <1>2 DEF OwnerProc
<1>13. /\ buf[i].locked
       /\ \A q \in Procs : OwnerProc(q, i) => q = p
       /\ \A t \in Slots : ~OwnerReq(t, i)
  BY <1>2, <1>12 DEF IInv, LockHasOneOwner
<1>14. \A j \in Bufs :
         /\ \A q \in Procs : OwnerProc(q, j)' <=> OwnerProc(q, j) /\ q # p
         /\ \A t \in Slots : OwnerReq(t, j)' <=> OwnerReq(t, j) \/ (t = s /\ j = i)
  BY <1>2, <1>3, <1>4, <1>6 DEF Moves, OwnerProc, OwnerReq
<1>15. LockHasOneOwner'
  BY <1>2, <1>12, <1>13, <1>14 DEF IInv, LockHasOneOwner
<1> QED BY <1>7, <1>9, <1>10, <1>11, <1>15 DEF IInv

(* A step that links requests changes nothing else of them. *)
SameRequests ==
  /\ req' \in [Slots -> ReqType]
  /\ \A s \in Slots : /\ req'[s].busy = req[s].busy /\ req'[s].b = req[s].b
                      /\ req'[s].blk = req[s].blk

(* p has queued its request, or is on its way to. *)
LEMMA QueueingKeeps ==
  ASSUME IInv, NEW p \in Procs, current = p, proc[p].pc \in Queueing, Moves(p),
         proc'[p].pc \notin {"test", "slot", "fill"}, LocalsOK(p)', SameRequests,
         UNCHANGED <<current, held, buf>>, cur' \in Slots \union {NoReq}, QueueOK'
  PROVE IInv'
<1>1. TypeOK'  BY DEF IInv, TypeOK, Moves, SameRequests
<1>2. OnlySleepersOffCPU' /\ LocalsDefined'  BY OthersKeep
<1>3. BusyHasBuffer' /\ RequestKeepsBlock'
  BY DEF IInv, BusyHasBuffer, RequestKeepsBlock, SameRequests
<1>4. \A j \in Bufs : /\ \A q \in Procs : OwnerProc(q, j)' <=> OwnerProc(q, j)
                      /\ \A s \in Slots : OwnerReq(s, j)' <=> OwnerReq(s, j)
  BY DEF Moves, OwnerProc, OwnerReq, SameRequests, Queueing
<1>5. LockHasOneOwner'  BY <1>4 DEF IInv, LockHasOneOwner
<1> QED BY <1>1, <1>2, <1>3, <1>5 DEF IInv

LEMMA AddKeeps ==
  ASSUME IInv, NEW p \in Procs, Add(p)
  PROVE IInv'
<1>1. TypeOK /\ LocalsOK(p) /\ proc[p] \in ProcType
  BY DEF IInv, LocalsDefined, TypeOK
<1> DEFINE s == proc[p].slot
<1>2. current = p /\ proc[p].pc = "add" /\ proc[p].b \in Bufs /\ s \in Slots
      /\ req[s].busy /\ req[s].next = NoReq /\ UNCHANGED <<current, held, buf, req>>
  BY <1>1 DEF Add, At, LocalsOK, Queueing
<1>3. SameRequests  BY <1>1, <1>2 DEF TypeOK, SameRequests
<1>4. CASE cur = NoReq
  <2>1. cur' = s /\ AfterRw(p)  BY <1>4 DEF Add
  <2>2. /\ Moves(p) /\ proc'[p].pc \in {"waitR", "dirty", "idle", "sync", "inval"}
        /\ proc'[p].pc # "idle" => proc'[p].b \in Bufs
        /\ proc'[p].pc \in {"sync", "inval"} => proc'[p].op = proc'[p].pc
    BY <1>1, <1>2, <2>1, AfterRwMoves
  <2>3. LocalsOK(p)'  BY <2>2 DEF LocalsOK, Queueing
  <2>4. \A q \in Procs : proc'[q].pc \notin Queueing
    BY <1>2, <2>2 DEF IInv, OnlySleepersOffCPU, Moves, SleepPCs, Queueing
  <2>5. PICK R \in SUBSET Slots : R = {s}  BY <1>2
  <2>6. IsQueue(R)'
    BY <1>2, <2>1, <2>4, <2>5, SlotsNat DEF IsQueue
  <2>7. QueueOK'  BY <2>6 DEF QueueOK
  <2> QED BY <1>2, <1>3, <2>1, <2>2, <2>3, <2>7, QueueingKeeps DEF Queueing
<1>5. CASE cur # NoReq
  <2>1. Goto(p, "read") /\ cur' = cur  BY <1>5 DEF Add
  <2>2. Moves(p) /\ proc'[p].pc = "read" /\ proc'[p].slot = s /\ proc'[p].b = proc[p].b
    BY <1>1, <2>1, GotoMoves DEF PCs
  <2>3. LocalsOK(p)'  BY <1>2, <2>2 DEF LocalsOK, Queueing
  <2>4. OwnsWhatItOwned(p)
    BY <1>2, <2>2 DEF OwnsWhatItOwned, OwnerProc, Queueing
  <2> QED BY <1>2, <2>1, <2>2, <2>3, <2>4, QuietMove DEF OnlyProc
<1> QED BY <1>4, <1>5

LEMMA ReadHeadKeeps ==
  ASSUME IInv, NEW p \in Procs, ReadHead(p)
  PROVE IInv'
<1>1. TypeOK /\ LocalsOK(p) /\ proc[p] \in ProcType
  BY DEF IInv, LocalsDefined, TypeOK
<1> DEFINE s == proc[p].slot
<1>2. current = p /\ proc[p].pc = "read" /\ proc[p].b \in Bufs /\ s \in Slots
      /\ req[s].busy /\ OnlyProc
  BY <1>1 DEF ReadHead, At, LocalsOK, Queueing
<1>3. SameRequests  BY <1>1, <1>2 DEF TypeOK, SameRequests, OnlyProc
<1>4. CASE cur = NoReq
  <2>1. AfterRw(p)  BY <1>4 DEF ReadHead
  <2>2. /\ Moves(p) /\ proc'[p].pc \in {"waitR", "dirty", "idle", "sync", "inval"}
        /\ proc'[p].pc # "idle" => proc'[p].b \in Bufs
        /\ proc'[p].pc \in {"sync", "inval"} => proc'[p].op = proc'[p].pc
    BY <1>1, <1>2, <2>1, AfterRwMoves
  <2>3. LocalsOK(p)'  BY <2>2 DEF LocalsOK, Queueing
  <2>4. OwnsWhatItOwned(p)
    BY <1>2, <2>2 DEF OwnsWhatItOwned, OwnerProc, Queueing
  <2> QED BY <1>2, <2>2, <2>3, <2>4, QuietMove
<1>5. CASE cur # NoReq
  <2> DEFINE r == [proc[p] EXCEPT !.pc = "walk", !.tmp = cur]
  <2>1. proc' = [proc EXCEPT ![p] = r]  BY <1>5, SlotsNat, <1>1 DEF ReadHead
  <2>2. cur \in Slots  BY <1>1, <1>5 DEF TypeOK
  <2>3. r \in ProcType /\ r.pc = "walk" /\ r.tmp = cur /\ r.slot = s /\ r.b = proc[p].b
    BY <1>1, <2>2 DEF ProcType, PCs
  <2> HIDE DEF r
  <2>4. Moves(p) /\ proc'[p].pc = "walk" /\ proc'[p].tmp = cur /\ proc'[p].slot = s
        /\ proc'[p].b = proc[p].b
    BY <1>1, <2>1, <2>3, UpdateMoves
  <2>5. LocalsOK(p)'  BY <1>2, <2>2, <2>4 DEF LocalsOK, Queueing, OnlyProc
  <2>6. OwnsWhatItOwned(p)
    BY <1>2, <2>4 DEF OwnsWhatItOwned, OwnerProc, Queueing
  <2> QED BY <1>2, <2>4, <2>5, <2>6, QuietMove
<1> QED BY <1>4, <1>5

LEMMA LinkKeeps ==
  ASSUME IInv, NEW p \in Procs, Link(p)
  PROVE IInv'
<1>1. TypeOK /\ LocalsOK(p)  BY DEF IInv, LocalsDefined
<1> DEFINE s == proc[p].tmp
           r == proc[p].slot
           rr == [req[r] EXCEPT !.next = req[s].next]
           mid == [req EXCEPT ![r] = rr]
           ss == [mid[s] EXCEPT !.next = r]
<1>2. current = p /\ proc[p].pc = "link" /\ proc[p].b \in Bufs /\ s \in Slots /\ r \in Slots
      /\ req[r].busy /\ UNCHANGED <<current, held, buf, cur>> /\ AfterRw(p)
  BY <1>1 DEF Link, At, LocalsOK, Queueing
<1>3. req[s] \in ReqType /\ req[r] \in ReqType  BY <1>1, <1>2 DEF TypeOK
<1>4. /\ rr \in ReqType /\ rr.next = req[s].next /\ rr.busy = req[r].busy
      /\ rr.b = req[r].b /\ rr.blk = req[r].blk
  BY <1>2, <1>3 DEF ReqType
<1>5. mid \in [Slots -> ReqType] /\ mid[r] = rr /\ \A t \in Slots : t # r => mid[t] = req[t]
  <2> HIDE DEF rr
  <2> QED BY <1>1, <1>2, <1>4 DEF TypeOK
<1>6. req' = [mid EXCEPT ![s] = ss]
  BY DEF Link
<1> HIDE DEF mid, rr
<1>7. mid[s] \in ReqType  BY <1>2, <1>5
<1>8. /\ ss \in ReqType /\ ss.next = r /\ ss.busy = mid[s].busy /\ ss.b = mid[s].b
      /\ ss.blk = mid[s].blk
  BY <1>2, <1>7 DEF ReqType
<1> HIDE DEF ss
<1>9. /\ req' \in [Slots -> ReqType] /\ req'[s] = ss
      /\ \A t \in Slots : t # s => req'[t] = mid[t]
  BY <1>2, <1>5, <1>6, <1>8
<1>10. SameRequests
  <2>1. \A t \in Slots : /\ mid[t].busy = req[t].busy /\ mid[t].b = req[t].b
                         /\ mid[t].blk = req[t].blk
    BY <1>2, <1>4, <1>5
  <2>2. \A t \in Slots : /\ req'[t].busy = mid[t].busy /\ req'[t].b = mid[t].b
                         /\ req'[t].blk = mid[t].blk
    BY <1>2, <1>8, <1>9
  <2> QED BY <1>9, <2>1, <2>2 DEF SameRequests
<1>11. /\ Moves(p) /\ proc'[p].pc \in {"waitR", "dirty", "idle", "sync", "inval"}
       /\ proc'[p].pc # "idle" => proc'[p].b \in Bufs
       /\ proc'[p].pc \in {"sync", "inval"} => proc'[p].op = proc'[p].pc
  BY <1>1, <1>2, AfterRwMoves
<1>12. LocalsOK(p)'  BY <1>11 DEF LocalsOK, Queueing
<1>13. \A q \in Procs : proc'[q].pc \notin Queueing
  BY <1>2, <1>11 DEF IInv, OnlySleepersOffCPU, Moves, SleepPCs, Queueing
<1>14. QueueOK'
  <2>1. PICK Q \in SUBSET Slots : IsQueue(Q)  BY DEF IInv, QueueOK
  <2>2. r \notin Q  BY <1>2, <2>1 DEF IsQueue, Queueing
  <2>3. r # cur  BY <1>2, <2>1, <2>2, SlotsNat DEF IsQueue
  <2>4. CASE s \in Q
    <3>1. s # r  BY <2>2, <2>4
    <3>2. req'[s].next = r /\ req'[r].next = req[s].next
          /\ \A t \in Q : t # s => req'[t] = req[t]
      BY <1>2, <1>4, <1>5, <1>8, <1>9, <2>2, <3>1
    <3>3. \A t \in Q \union {r} :
            /\ req'[t].busy
            /\ req'[t].next = NoReq \/ (req'[t].next \in Q \union {r} /\ req'[t].next # cur')
      BY <1>2, <1>10, <2>1, <2>2, <2>3, <2>4, <3>2 DEF IsQueue, SameRequests
    <3>4. \A t, u \in Q \union {r} :
            req'[t].next = req'[u].next /\ req'[t].next # NoReq => t = u
      <4>1. \A t, u \in Q : req[t].next = req[u].next /\ req[t].next # NoReq => t = u
        BY <2>1 DEF IsQueue
      <4>2. \A t \in Q : req[t].next # r
        BY <1>2, <2>1, <2>2, SlotsNat DEF IsQueue
      <4> QED BY <2>2, <2>4, <3>2, <4>1, <4>2
    <3>5. PICK R \in SUBSET Slots : R = Q \union {r}  BY <1>2
    <3>6. IsQueue(R)'
      BY <1>2, <1>13, <2>1, <3>3, <3>4, <3>5 DEF IsQueue
    <3> QED BY <3>6 DEF QueueOK
  <2>5. CASE s \notin Q
    <3>1. \A t \in Q : req'[t] = req[t]
      BY <1>5, <1>9, <2>2, <2>5
    <3>2. IsQueue(Q)'
      BY <1>2, <1>13, <2>1, <3>1 DEF IsQueue
    <3> QED BY <3>2 DEF QueueOK
  <2> QED BY <2>4, <2>5
<1>15. cur' \in Slots \union {NoReq}  BY <1>1, <1>2 DEF TypeOK
<1> QED BY <1>2, <1>10, <1>11, <1>12, <1>14, <1>15, QueueingKeeps DEF Queueing

LEMMA EndRequestKeeps ==
  ASSUME IInv, EndRequest
  PROVE IInv'
<1>1. TypeOK  BY DEF IInv
<1>2. PICK Q \in SUBSET Slots : IsQueue(Q)  BY DEF IInv, QueueOK
<1>3. cur \in Q /\ cur \in Slots /\ req[cur].busy /\ req[cur].b \in Bufs
  BY <1>2 DEF EndRequest, IsQueue, IInv, BusyHasBuffer
<1> DEFINE i == req[cur].b
           bb(ok) == [buf[i] EXCEPT !.uptodate = ok, !.locked = FALSE,
                                    !.mod = buf[i].mod /\ ~ok]
           rr == [req[cur] EXCEPT !.busy = FALSE]
<1>4. PICK ok \in Outcomes : buf' = [buf EXCEPT ![i] = bb(ok)]
  BY DEF EndRequest
<1>5. req' = [req EXCEPT ![cur] = rr] /\ cur' = req[cur].next
      /\ UNCHANGED <<current, proc, held>>
  BY DEF EndRequest
<1>6. buf[i] \in BufType /\ req[cur] \in ReqType  BY <1>1, <1>3 DEF TypeOK
<1>7. ok \in BOOLEAN  BY BufferCacheAssumption
<1>8. /\ rr \in ReqType /\ ~rr.busy /\ rr.b = req[cur].b /\ rr.blk = req[cur].blk
      /\ rr.next = req[cur].next
  BY <1>6 DEF ReqType
<1>9. bb(ok) \in BufType /\ ~bb(ok).locked /\ bb(ok).blk = buf[i].blk
  <2> DEFINE m == buf[i].mod /\ ~ok
  <2>1. m \in BOOLEAN  OBVIOUS
  <2> HIDE DEF m
  <2>2. bb(ok) = [buf[i] EXCEPT !.uptodate = ok, !.locked = FALSE, !.mod = m]  BY DEF m
  <2> QED BY <1>6, <1>7, <2>1, <2>2 DEF BufType
<1> HIDE DEF bb, rr
<1>10. /\ req' \in [Slots -> ReqType] /\ req'[cur] = rr
       /\ \A t \in Slots : t # cur => req'[t] = req[t]
  BY <1>1, <1>3, <1>5, <1>8 DEF TypeOK
<1>11. /\ buf' \in [Bufs -> BufType] /\ ~buf'[i].locked
       /\ \A j \in Bufs : buf'[j].blk = buf[j].blk
       /\ \A j \in Bufs : j # i => buf'[j] = buf[j]
  BY <1>1, <1>3, <1>4, <1>9 DEF TypeOK
<1>12. TypeOK'  BY <1>1, <1>3, <1>5, <1>6, <1>10, <1>11 DEF TypeOK, ReqType
<1>13. OnlySleepersOffCPU'  BY <1>5 DEF IInv, OnlySleepersOffCPU
<1>14. LocalsDefined'
  <2>1. SUFFICES ASSUME NEW p \in Procs PROVE LocalsOK(p)'  BY DEF LocalsDefined
  <2>2. LocalsOK(p)  BY DEF IInv, LocalsDefined
  <2>3. proc[p].pc \in Queueing => proc[p].slot # cur  BY <1>2, <1>3 DEF IsQueue
  <2>4. proc[p].pc = "claim" => ~buf'[proc[p].b].locked
    BY <1>11, <2>2 DEF LocalsOK
  <2> QED BY <1>5, <1>8, <1>10, <2>2, <2>3, <2>4 DEF LocalsOK, Queueing
<1>15. BusyHasBuffer' /\ RequestKeepsBlock'
  BY <1>8, <1>10, <1>11 DEF IInv, BusyHasBuffer, RequestKeepsBlock
<1>16. QueueOK'
  <2>0. PICK R \in SUBSET Slots : R = Q \ {cur}  OBVIOUS
  <2>1. \A t \in R : req'[t] = req[t]  BY <1>10, <2>0
  <2>2. cur' \in R \union {NoReq}  BY <1>2, <1>3, <1>5, <2>0 DEF IsQueue
  <2>3. \A t \in R : /\ req[t].busy
                     /\ req[t].next = NoReq \/ (req[t].next \in R /\ req[t].next # cur')
    BY <1>2, <1>3, <1>5, <2>0 DEF IsQueue
  <2>4. IsQueue(R)'  BY <1>2, <1>5, <2>0, <2>1, <2>2, <2>3 DEF IsQueue
  <2> QED BY <2>4 DEF QueueOK
<1>17. OwnerReq(cur, i) /\ \A j \in Bufs : OwnerReq(cur, j) => j = i
  BY <1>3 DEF OwnerReq
<1>18. /\ \A q \in Procs : ~OwnerProc(q, i)
       /\ \A t \in Slots : OwnerReq(t, i) => t = cur
  BY <1>3, <1>17 DEF IInv, LockHasOneOwner
<1>19. \A j \in Bufs :
         /\ \A q \in Procs : OwnerProc(q, j)' <=> OwnerProc(q, j)
         /\ \A t \in Slots : OwnerReq(t, j)' <=> OwnerReq(t, j) /\ t # cur
  BY <1>5, <1>8, <1>10 DEF OwnerProc, OwnerReq
<1>20. LockHasOneOwner'
  BY <1>3, <1>11, <1>17, <1>18, <1>19 DEF IInv, LockHasOneOwner
<1> QED BY <1>12, <1>13, <1>14, <1>15, <1>16, <1>20 DEF IInv

-----------------------------------------------------------------------------
LEMMA InitKeeps == Init => IInv
<1> SUFFICES ASSUME Init PROVE IInv
  OBVIOUS
<1> USE BufferCacheAssumption DEF Init, Outside
<1>1. TypeOK
  BY DEF TypeOK, ProcType, BufType, ReqType, PCs
<1>2. OnlySleepersOffCPU
  BY DEF OnlySleepersOffCPU, SleepPCs
<1>3. LocalsDefined
  BY DEF LocalsDefined, LocalsOK, Queueing
<1>4. BusyHasBuffer
  BY DEF BusyHasBuffer
<1>5. IsQueue({})
  BY DEF IsQueue, Queueing
<1>6. LockHasOneOwner /\ RequestKeepsBlock
  BY DEF LockHasOneOwner, RequestKeepsBlock, OwnerProc, OwnerReq
<1> QED BY <1>1, <1>2, <1>3, <1>4, <1>5, <1>6 DEF IInv, QueueOK

LEMMA StepKeeps ==
  ASSUME IInv, [Next]_vars
  PROVE IInv'
<1>1. CASE EndRequest
  BY <1>1, EndRequestKeeps
<1>2. ASSUME NEW p \in Procs, ProcStep(p) PROVE IInv'
  <2>1. CASE SleepElsewhere(p)
    BY <2>1, SleepKeeps DEF SleepElsewhere, At, SleepPCs
  <2> QED
    BY <1>2, <2>1, StartKeeps, ModifyKeeps, StartReleaseKeeps, FindPickKeeps, FoundKeeps,
       WaitKeeps, ClaimKeeps, BreadKeeps, ReleaseKeeps, ScanKeeps, LockKeeps, TestKeeps,
       SlotKeeps, FillKeeps, AddKeeps, ReadHeadKeeps, WalkKeeps, LinkKeeps DEF ProcStep
<1>3. CASE UNCHANGED vars
  <2> USE <1>3 DEF vars, IInv
  <2>1. TypeOK'  BY DEF TypeOK
  <2>2. OnlySleepersOffCPU' /\ BusyHasBuffer' /\ RequestKeepsBlock'
    BY DEF OnlySleepersOffCPU, BusyHasBuffer, RequestKeepsBlock
  <2>3. LocalsDefined'  BY DEF LocalsDefined, LocalsOK
  <2>4. QueueOK'  BY DEF QueueOK, IsQueue
  <2>5. LockHasOneOwner'  BY DEF LockHasOneOwner, OwnerProc, OwnerReq
  <2> QED BY <2>1, <2>2, <2>3, <2>4, <2>5
<1> QED BY <1>1, <1>2, <1>3 DEF Next

(* All that the inductive invariant says holds in every reachable state,   *)
(* for any number of processes, buffers, request slots and blocks.         *)
THEOREM Invariance == Spec => []IInv
<1>1. Init => IInv
  BY InitKeeps
<1>2. IInv /\ [Next]_vars => IInv'
  BY StepKeeps
<1> QED BY <1>1, <1>2, PTL DEF Spec

(* Every variable of the cache keeps the values of its type: in particular *)
(* no count goes below zero and no scan leaves mem_buffers[].              *)
THEOREM TypeCorrect == Spec => []TypeOK
<1>1. IInv => TypeOK
  BY DEF IInv
<1> QED BY <1>1, Invariance, PTL

(* lock_mem_buffer, rw_blk and end_request hand the lock of a buffer from  *)
(* a process to a request and no further: it has exactly one owner.        *)
THEOREM LockOwnership == Spec => []LockHasOneOwner
<1>1. IInv => LockHasOneOwner
  BY DEF IInv
<1> QED BY <1>1, Invariance, PTL

(* get_buffer never re-uses a buffer that a request is queued for, also    *)
(* when the request was linked behind a dead one and stays for ever.       *)
THEOREM RequestBlock == Spec => []RequestKeepsBlock
<1>1. IInv => RequestKeepsBlock
  BY DEF IInv
<1> QED BY <1>1, Invariance, PTL

-----------------------------------------------------------------------------
(* What is queued.  Queued is the least of the sets of IsQueue, so what    *)
(* the invariant says of some set holds of Queued itself.                  *)

LEMMA QueuedLeadsOn == TypeOK => FollowsQueue(Queued) /\ Queued \subseteq Slots
BY DEF TypeOK, ReqType, Queued, FollowsQueue

LEMMA QueuedIsQueue == IInv => IsQueue(Queued)
<1> SUFFICES ASSUME IInv PROVE IsQueue(Queued)
  OBVIOUS
<1>1. TypeOK  BY DEF IInv
<1>2. PICK Q \in SUBSET Slots : IsQueue(Q)  BY DEF IInv, QueueOK
<1>3. FollowsQueue(Q)  BY <1>2 DEF IsQueue, FollowsQueue
<1>4. Queued \subseteq Q  BY <1>3 DEF Queued
<1>5. FollowsQueue(Queued)  BY <1>1, QueuedLeadsOn
<1>6. cur \in Queued \union {NoReq}  BY <1>5 DEF FollowsQueue
<1>7. \A s \in Queued : req[s].next # NoReq => req[s].next \in Queued
  BY <1>5 DEF FollowsQueue
<1> QED BY <1>2, <1>4, <1>6, <1>7 DEF IsQueue

(* The queue changes only where the next of a queued request changes. *)
LEMMA SameQueued ==
  ASSUME TypeOK, cur' = cur, \A s \in Queued : req'[s].next = req[s].next
  PROVE Queued' = Queued
<1>1. FollowsQueue(Queued) /\ Queued \subseteq Slots  BY QueuedLeadsOn
<1>2. Queued' \subseteq Queued
  <2>1. /\ cur' # NoReq => cur' \in Queued
        /\ \A s \in Queued : req'[s].next # NoReq => req'[s].next \in Queued
    BY <1>1 DEF FollowsQueue
  <2>2. PICK S \in SUBSET Slots : S = Queued  BY <1>1
  <2>3. FollowsQueue(S)'  BY <2>1, <2>2 DEF FollowsQueue
  <2>4. Queued' \subseteq S  BY <2>3 DEF Queued
  <2> QED BY <2>2, <2>4
<1>3. ASSUME NEW S \in SUBSET Slots, FollowsQueue(S)' PROVE Queued \subseteq S
  <2>1. PICK T \in SUBSET Slots : T = S \intersect Queued  OBVIOUS
  <2>2. FollowsQueue(T)  BY <1>1, <1>3, <2>1 DEF FollowsQueue
  <2>3. Queued \subseteq T  BY <2>2 DEF Queued
  <2> QED BY <2>1, <2>3
<1>4. Queued \subseteq Queued'  BY <1>1, <1>3 DEF Queued
<1> QED BY <1>2, <1>4

(* end_request takes the request at the head, and no other. *)
LEMMA EndRequestQueued ==
  ASSUME IInv, EndRequest
  PROVE /\ cur \in Queued /\ Queued \ {cur} \subseteq Queued'
        /\ \A s \in Slots : req'[s].busy <=> req[s].busy /\ s # cur
        /\ \A s \in Slots : req'[s].next = req[s].next
<1>1. TypeOK /\ IsQueue(Queued)  BY QueuedIsQueue DEF IInv
<1>2. cur \in Queued /\ cur \in Slots  BY <1>1 DEF EndRequest, IsQueue
<1> DEFINE rr == [req[cur] EXCEPT !.busy = FALSE]
<1>3. req' = [req EXCEPT ![cur] = rr] /\ cur' = req[cur].next
  BY DEF EndRequest
<1>4. rr \in ReqType /\ ~rr.busy /\ rr.next = req[cur].next
  BY <1>1, <1>2 DEF TypeOK, ReqType
<1> HIDE DEF rr
<1>5. \A s \in Slots : /\ req'[s].next = req[s].next
                       /\ req'[s].busy <=> req[s].busy /\ s # cur
  BY <1>1, <1>2, <1>3, <1>4 DEF TypeOK
<1>6. ASSUME NEW S \in SUBSET Slots, FollowsQueue(S)' PROVE Queued \ {cur} \subseteq S
  <2>1. PICK T \in SUBSET Slots : T = S \union {cur}  BY <1>2
  <2>2. FollowsQueue(T)  BY <1>2, <1>3, <1>5, <1>6, <2>1 DEF FollowsQueue
  <2>3. Queued \subseteq T  BY <2>2 DEF Queued
  <2> QED BY <2>1, <2>3
<1>7. Queued \ {cur} \subseteq Queued'  BY <1>1, <1>6 DEF Queued, IsQueue
<1> QED BY <1>2, <1>5, <1>7

(* A step of p is one of add_request and what leads to it, or leaves the   *)
(* requests as they are and p outside add_request.                         *)
OutsideAdd(p) ==
  UNCHANGED <<req, cur>> /\ proc[p].pc \notin Queueing /\ proc'[p].pc \notin Queueing

LEMMA ProcStepShape ==
  ASSUME IInv, NEW p \in Procs, ProcStep(p)
  PROVE /\ current = p /\ \A q \in Procs : q # p => proc'[q] = proc[q]
        /\ OutsideAdd(p) \/ Fill(p) \/ Add(p) \/ ReadHead(p) \/ Walk(p) \/ Link(p)
<1>1. TypeOK /\ LocalsOK(p) /\ proc[p] \in ProcType
  BY DEF IInv, TypeOK, LocalsDefined
<1> DEFINE Shape == /\ current = p /\ \A q \in Procs : q # p => proc'[q] = proc[q]
                    /\ OutsideAdd(p) \/ Fill(p) \/ Add(p) \/ ReadHead(p) \/ Walk(p) \/ Link(p)
<1>2. ASSUME At(p, "idle") \/ proc[p].pc \notin Queueing, current = p,
             UNCHANGED <<req, cur>>, Moves(p) \/ UNCHANGED proc,
             proc'[p].pc \notin Queueing
      PROVE  Shape
  BY <1>2 DEF At, Queueing, Moves, OutsideAdd
<1>3. CASE StartBread(p) \/ StartScan(p)
  <2>1. PICK r : proc' = [proc EXCEPT ![p] = r] /\ r.pc \notin Queueing
    <3>1. CASE StartBread(p)
      <4>1. PICK k \in Blocks : proc' = [proc EXCEPT ![p] =
                  [proc[p] EXCEPT !.pc = "find", !.op = "bread", !.want = k]]
        BY <3>1 DEF StartBread
      <4>2. [proc[p] EXCEPT !.pc = "find", !.op = "bread", !.want = k].pc \notin Queueing
        BY <1>1 DEF ProcType, Queueing
      <4> QED BY <4>1, <4>2
    <3>2. CASE StartScan(p)
      <4>1. PICK o \in Ops : proc' = [proc EXCEPT ![p] =
                  [proc[p] EXCEPT !.pc = o, !.op = o, !.b = 1]]
        BY <3>2 DEF StartScan
      <4>2. [proc[p] EXCEPT !.pc = o, !.op = o, !.b = 1].pc \notin Queueing
        BY <1>1, BufferCacheAssumption DEF ProcType, Queueing
      <4> QED BY <4>1, <4>2
    <3> QED BY <1>3, <3>1, <3>2
  <2>2. UNCHANGED <<req, cur>> /\ At(p, "idle")
    BY <1>3 DEF StartBread, StartScan, OnlyProc
  <2> QED BY <1>1, <2>1, <2>2 DEF TypeOK, OutsideAdd, Queueing, At
<1>4. CASE Modify(p) \/ StartRelease(p)
  <2>1. At(p, "idle") /\ UNCHANGED <<req, cur>>
        /\ (UNCHANGED proc \/ \E i \in Bufs : GotoBuf(p, "rel", i))
    BY <1>4 DEF Modify, StartRelease
  <2> QED BY <1>1, <1>2, <2>1, GotoBufMoves DEF At, PCs, Queueing
<1>5. CASE Find(p) \/ Pick(p) \/ WriteBack(p) \/ Found(p) \/ Wait1(p) \/ Wait2(p) \/ Claim(p)
  <2>1. current = p /\ proc[p].pc \notin Queueing /\ UNCHANGED <<req, cur>>
        /\ \/ UNCHANGED proc
           \/ \E l \in {"pick", "got", "dirty", "wait2", "claim"} : Goto(p, l)
           \/ \E l \in {"found", "wait1"}, i \in Bufs : GotoBuf(p, l, i)
           \/ CallRw(p, WRITE)
    BY <1>5 DEF Find, Pick, WriteBack, Found, Wait1, Wait2, WaitThenCount, Claim, SleepOn,
                OnlyProc, At, Queueing
  <2>2. (Moves(p) /\ proc'[p].pc \notin Queueing) \/ UNCHANGED proc
    BY <1>1, <2>1, GotoMoves, GotoBufMoves, CallRwMoves DEF PCs, Queueing
  <2> QED BY <1>2, <2>1, <2>2
<1>6. CASE Got(p) \/ WaitRead(p) \/ Release(p) \/ Lock(p) \/ SleepElsewhere(p)
  <2>1. current = p /\ proc[p].pc \notin Queueing /\ UNCHANGED <<req, cur>>
        /\ \/ UNCHANGED proc \/ Leave(p) \/ CallRw(p, READ)
           \/ \E l \in {"rel", "halt", "test"} : Goto(p, l)
    BY <1>6 DEF Got, WaitRead, Release, Lock, SleepElsewhere, Hold, SleepOn, OnlyProc, At, Queueing
  <2>2. (Moves(p) /\ proc'[p].pc \notin Queueing) \/ UNCHANGED proc
    BY <1>1, <2>1, GotoMoves, LeaveMoves, CallRwMoves DEF PCs, Queueing
  <2> QED BY <1>2, <2>1, <2>2
<1>7. CASE Sync(p) \/ Invalidate(p) \/ Test(p)
  <2>1. current = p /\ proc[p].pc \in {"sync", "inval", "test"} /\ UNCHANGED <<req, cur>>
        /\ \/ UNCHANGED proc \/ CallRw(p, WRITE) \/ Goto(p, "slot")
           \/ AfterRw(p) \/ (NextInScan(p) /\ proc[p].pc # "test")
    <3>1. CASE Sync(p)  BY <3>1 DEF Sync, SleepOn, OnlyProc, At
    <3>2. CASE Invalidate(p)  BY <3>2 DEF Invalidate, SleepOn, At
    <3>3. CASE Test(p)  BY <3>3 DEF Test, OnlyProc, At
    <3> QED BY <1>7, <3>1, <3>2, <3>3
  <2>2. proc[p].b \in Bufs /\ (proc[p].pc # "test" => proc[p].op # "bread")
    BY <1>1, <2>1 DEF LocalsOK
  <2>3. (Moves(p) /\ proc'[p].pc \notin Queueing) \/ UNCHANGED proc
    BY <1>1, <2>1, <2>2, GotoMoves, CallRwMoves, AfterRwMoves, ScanMoves DEF PCs, Queueing
  <2> QED BY <1>2, <2>1, <2>3 DEF Queueing
<1>8. CASE Slot(p)
  <2> DEFINE r(s) == [proc[p] EXCEPT !.pc = "fill", !.slot = s]
  <2>1. current = p /\ proc[p].pc = "slot" /\ UNCHANGED <<req, cur>>
        /\ (UNCHANGED proc \/ \E s \in Slots : proc' = [proc EXCEPT ![p] = r(s)])
    BY <1>8 DEF Slot, At, SleepOn, OnlyProc
  <2>2. \A s \in Slots : r(s) \in ProcType /\ r(s).pc = "fill"
    BY <1>1 DEF ProcType, PCs
  <2> HIDE DEF r
  <2>3. (Moves(p) /\ proc'[p].pc \notin Queueing) \/ UNCHANGED proc
    BY <1>1, <2>1, <2>2, UpdateMoves DEF Queueing
  <2> QED BY <1>2, <2>1, <2>3 DEF Queueing
<1>9. CASE Fill(p) \/ Add(p) \/ ReadHead(p) \/ Walk(p) \/ Link(p)
  <2>1. current = p  BY <1>9 DEF Fill, Add, ReadHead, Walk, Link, At
  <2>2. CASE Fill(p)
    <3>1. Goto(p, "add")  BY <2>2 DEF Fill
    <3> QED BY <1>1, <2>1, <2>2, <3>1, GotoMoves DEF PCs, Moves
  <2>3. CASE Link(p) \/ ((Add(p) \/ ReadHead(p)) /\ AfterRw(p))
    <3>1. AfterRw(p) /\ proc[p].b \in Bufs
      BY <1>1, <2>3 DEF Link, Add, ReadHead, At, LocalsOK
    <3> QED BY <1>1, <2>1, <2>3, <3>1, AfterRwMoves DEF Moves
  <2>4. CASE Walk(p) \/ ((Add(p) \/ ReadHead(p)) /\ ~AfterRw(p))
    <3>1. PICK r : proc' = [proc EXCEPT ![p] = r]
      BY <2>4 DEF Walk, Add, ReadHead, Goto
    <3>2. \A q \in Procs : q # p => proc'[q] = proc[q]
      BY <1>1, <3>1 DEF TypeOK
    <3> QED BY <2>1, <2>4, <3>2
  <2> QED BY <1>9, <2>2, <2>3, <2>4
<1> QED BY <1>3, <1>4, <1>5, <1>6, <1>7, <1>8, <1>9 DEF ProcStep

(* Adding and linking put the request of p into the queue, except behind a *)
(* request that is not queued any more.                                    *)
LEMMA FillQueued ==
  ASSUME IInv, NEW p \in Procs, Fill(p)
  PROVE Queued' = Queued /\ proc'[p].slot = proc[p].slot /\ proc'[p].pc = "add"
        /\ \A s \in Slots : s # proc[p].slot => req'[s] = req[s]
<1>1. TypeOK /\ LocalsOK(p)  BY DEF IInv, LocalsDefined
<1>2. proc[p].slot \in Slots /\ ~req[proc[p].slot].busy
  BY <1>1 DEF Fill, At, LocalsOK
<1>3. proc[p].slot \notin Queued  BY <1>2, QueuedIsQueue DEF IsQueue
<1>4. \A s \in Slots : s # proc[p].slot => req'[s] = req[s]
  BY <1>1, <1>2 DEF Fill, TypeOK
<1>5. cur' = cur /\ Goto(p, "add")  BY DEF Fill
<1>6. \A s \in Queued : req'[s].next = req[s].next
  BY <1>1, <1>3, <1>4, QueuedLeadsOn
<1> QED BY <1>1, <1>4, <1>5, <1>6, SameQueued, GotoMoves DEF PCs

LEMMA AddQueued ==
  ASSUME IInv, NEW p \in Procs, Add(p)
  PROVE /\ cur = NoReq => proc[p].slot \in Queued'
        /\ Queued \subseteq Queued' /\ UNCHANGED req
        /\ cur # NoReq => Queued' = Queued /\ proc'[p].pc = "read"
                         /\ proc'[p].slot = proc[p].slot
<1>1. TypeOK /\ LocalsOK(p) /\ proc[p] \in ProcType
  BY DEF IInv, LocalsDefined, TypeOK
<1>2. proc[p].slot \in Slots /\ UNCHANGED req
  BY <1>1 DEF Add, At, LocalsOK, Queueing
<1>3. CASE cur = NoReq
  <2>1. cur' = proc[p].slot /\ cur' # NoReq  BY <1>2, <1>3, SlotsNat DEF Add
  <2>2. proc[p].slot \in Queued'  BY <1>2, <2>1 DEF Queued, FollowsQueue
  <2>3. PICK S \in SUBSET Slots : S = {}  OBVIOUS
  <2>4. FollowsQueue(S)  BY <1>3, <2>3 DEF FollowsQueue
  <2>5. Queued = {}  BY <2>3, <2>4 DEF Queued
  <2> QED BY <1>2, <1>3, <2>2, <2>5
<1>4. CASE cur # NoReq
  <2>1. Goto(p, "read") /\ cur' = cur  BY <1>4 DEF Add
  <2>2. Queued' = Queued  BY <1>1, <1>2, <2>1, SameQueued
  <2>3. proc'[p].pc = "read" /\ proc'[p].slot = proc[p].slot
    BY <1>1, <2>1, GotoMoves DEF PCs
  <2> QED BY <1>2, <1>4, <2>2, <2>3
<1> QED BY <1>3, <1>4

(* Reading the head again starts the walk at it, or loses the request. *)
LEMMA ReadHeadQueued ==
  ASSUME IInv, NEW p \in Procs, ReadHead(p)
  PROVE /\ Queued' = Queued /\ UNCHANGED <<req, cur>> /\ At(p, "read")
        /\ cur = NoReq => AfterRw(p)
        /\ cur # NoReq => /\ proc'[p].pc = "walk" /\ proc'[p].tmp = cur
                         /\ proc'[p].slot = proc[p].slot
<1>1. TypeOK /\ proc[p] \in ProcType  BY DEF IInv, TypeOK
<1>2. UNCHANGED <<req, cur>> /\ At(p, "read") /\ (cur = NoReq => AfterRw(p))
  BY DEF ReadHead, OnlyProc
<1>3. Queued' = Queued  BY <1>2 DEF Queued, FollowsQueue
<1>4. CASE cur # NoReq
  <2> DEFINE r == [proc[p] EXCEPT !.pc = "walk", !.tmp = cur]
  <2>1. proc' = [proc EXCEPT ![p] = r]  BY <1>4 DEF ReadHead
  <2>2. r.pc = "walk" /\ r.tmp = cur /\ r.slot = proc[p].slot  BY <1>1 DEF ProcType
  <2> HIDE DEF r
  <2>3. proc'[p] = r  BY <1>1, <2>1 DEF TypeOK
  <2> QED BY <1>2, <1>3, <1>4, <2>2, <2>3
<1> QED BY <1>2, <1>3, <1>4

LEMMA LinkQueued ==
  ASSUME IInv, NEW p \in Procs, Link(p)
  PROVE /\ Queued \subseteq Queued'
        /\ proc[p].tmp \in Queued => proc[p].slot \in Queued'
        /\ \A s \in Slots : req'[s].busy = req[s].busy
<1>1. TypeOK /\ LocalsOK(p)  BY DEF IInv, LocalsDefined
<1> DEFINE s == proc[p].tmp
           r == proc[p].slot
           rr == [req[r] EXCEPT !.next = req[s].next]
           mid == [req EXCEPT ![r] = rr]
           ss == [mid[s] EXCEPT !.next = r]
<1>2. s \in Slots /\ r \in Slots /\ cur' = cur /\ r # NoReq
  BY <1>1, SlotsNat DEF Link, At, LocalsOK, Queueing
<1>3. r \notin Queued  BY QueuedIsQueue DEF IsQueue, Link, At, Queueing
<1>4. req[s] \in ReqType /\ req[r] \in ReqType  BY <1>1, <1>2 DEF TypeOK
<1>5. rr \in ReqType /\ rr.next = req[s].next /\ rr.busy = req[r].busy
  BY <1>2, <1>4 DEF ReqType
<1>6. req' = [mid EXCEPT ![s] = ss]  BY DEF Link
<1>7. mid \in [Slots -> ReqType] /\ mid[r] = rr /\ \A t \in Slots : t # r => mid[t] = req[t]
  <2> HIDE DEF rr
  <2> QED BY <1>1, <1>2, <1>5 DEF TypeOK
<1> HIDE DEF mid, rr
<1>8. mid[s] \in ReqType  BY <1>2, <1>7
<1>9. ss.next = r /\ ss.busy = mid[s].busy  BY <1>8 DEF ReqType
<1> HIDE DEF ss
<1>10. req'[s] = ss /\ \A t \in Slots : t # s => req'[t] = mid[t]
  BY <1>2, <1>6, <1>7
<1>11. \A t \in Slots : req'[t].busy = req[t].busy
  BY <1>2, <1>5, <1>7, <1>9, <1>10
<1>12. FollowsQueue(Queued) /\ Queued \subseteq Slots  BY <1>1, QueuedLeadsOn
<1>13. CASE s \notin Queued
  <2>1. \A t \in Queued : req'[t].next = req[t].next
    BY <1>3, <1>7, <1>10, <1>12, <1>13
  <2> QED BY <1>1, <1>2, <1>11, <1>13, <2>1, SameQueued
<1>14. CASE s \in Queued
  <2>1. /\ req'[s].next = r /\ req'[r].next = req[s].next
        /\ \A t \in Queued : t # s => req'[t].next = req[t].next
    BY <1>2, <1>3, <1>5, <1>7, <1>9, <1>10, <1>12, <1>14
  <2>2. ASSUME NEW S \in SUBSET Slots, FollowsQueue(S)' PROVE Queued \union {r} \subseteq S
    <3>1. PICK T \in SUBSET Slots : T = S \intersect Queued  OBVIOUS
    <3>2. cur # NoReq => cur \in T  BY <1>2, <1>12, <2>2, <3>1 DEF FollowsQueue
    <3>3. ASSUME NEW t \in T, req[t].next # NoReq PROVE req[t].next \in T
      <4>1. req[t].next \in Queued  BY <1>12, <3>1, <3>3 DEF FollowsQueue
      <4>2. CASE t # s  BY <2>1, <2>2, <3>1, <3>3, <4>1, <4>2 DEF FollowsQueue
      <4>3. CASE t = s
        <5>1. r \in S  BY <1>2, <2>1, <2>2, <3>1, <4>3 DEF FollowsQueue
        <5> QED BY <2>1, <2>2, <3>1, <3>3, <4>1, <4>3, <5>1 DEF FollowsQueue
      <4> QED BY <4>2, <4>3
    <3>4. FollowsQueue(T)  BY <3>2, <3>3 DEF FollowsQueue
    <3>5. Queued \subseteq S  BY <3>1, <3>4 DEF Queued
    <3>6. r \in S  BY <1>2, <1>14, <2>1, <2>2, <3>5 DEF FollowsQueue
    <3> QED BY <3>5, <3>6
  <2>3. Queued \union {r} \subseteq Queued'  BY <1>2, <1>12, <2>2 DEF Queued
  <2> QED BY <1>11, <2>3
<1> QED BY <1>13, <1>14

(* The walk of add_request goes over requests that are queued or ended: of *)
(* those that were in the queue when it began, none is refilled while the  *)
(* process that walks has the CPU.                                         *)
WalkedOn(D) ==
  \A s \in D : /\ s \in Queued \/ ~req[s].busy
               /\ req[s].next # NoReq => req[s].next \in D

WalkOK ==
  \A p \in Procs : proc[p].pc \in {"walk", "link"} =>
    \E D \in SUBSET Slots : proc[p].tmp \in D /\ WalkedOn(D)

LEMMA WalkStays ==
  ASSUME IInv, WalkOK, [Next]_vars
  PROVE WalkOK'
<1>1. SUFFICES ASSUME NEW p \in Procs, proc'[p].pc \in {"walk", "link"}
               PROVE  \E D \in SUBSET Slots : proc'[p].tmp \in D /\ WalkedOn(D)'
  BY DEF WalkOK
<1>2. TypeOK /\ LocalsOK(p) /\ proc[p] \in ProcType
  BY DEF IInv, TypeOK, LocalsDefined
<1>3. CASE UNCHANGED vars
  <2>1. PICK D \in SUBSET Slots : proc[p].tmp \in D /\ WalkedOn(D)
    BY <1>1, <1>3 DEF WalkOK, vars
  <2>2. WalkedOn(D)'  BY <1>3, <2>1 DEF WalkedOn, Queued, FollowsQueue, vars
  <2> QED BY <1>3, <2>1, <2>2 DEF vars
<1>4. CASE EndRequest
  <2>1. proc' = proc  BY <1>4 DEF EndRequest
  <2>2. PICK D \in SUBSET Slots : proc[p].tmp \in D /\ WalkedOn(D)
    BY <1>1, <2>1 DEF WalkOK
  <2>3. WalkedOn(D)'  BY <1>4, <2>2, EndRequestQueued DEF WalkedOn
  <2> QED BY <2>1, <2>2, <2>3
<1>5. ASSUME NEW q \in Procs, ProcStep(q)
      PROVE  \E D \in SUBSET Slots : proc'[p].tmp \in D /\ WalkedOn(D)'
  <2>1. q = p
    BY <1>1, <1>5, ProcStepShape DEF IInv, OnlySleepersOffCPU, SleepPCs
  <2>2. ~OutsideAdd(p)  BY <1>1 DEF OutsideAdd, Queueing
  <2>3. ~Fill(p)  BY <1>1, FillQueued
  <2>4. ~AfterRw(p) \/ proc[p].b \notin Bufs  BY <1>1, <1>2, AfterRwMoves
  <2>5. ~Link(p)  BY <1>2, <2>4 DEF Link, At, LocalsOK
  <2>6. CASE ReadHead(p)
    <3>1. cur # NoReq
      BY <1>2, <2>4, <2>6, ReadHeadQueued DEF At, LocalsOK
    <3>2. proc'[p].tmp = cur /\ Queued' = Queued /\ UNCHANGED req
      BY <2>6, <3>1, ReadHeadQueued
    <3>3. FollowsQueue(Queued) /\ Queued \subseteq Slots  BY <1>2, QueuedLeadsOn
    <3>4. PICK D \in SUBSET Slots : D = Queued  BY <3>3
    <3>5. cur \in D /\ WalkedOn(D)'
      BY <3>1, <3>2, <3>3, <3>4 DEF FollowsQueue, WalkedOn
    <3> QED BY <3>2, <3>5
  <2>7. CASE Walk(p)
    <3>1. PICK D \in SUBSET Slots : proc[p].tmp \in D /\ WalkedOn(D)
      BY <2>7 DEF Walk, At, WalkOK
    <3>2. UNCHANGED <<req, cur>>  BY <2>7 DEF Walk, OnlyProc
    <3>3. Queued' = Queued  BY <3>2 DEF Queued, FollowsQueue
    <3>4. WalkedOn(D)'  BY <3>1, <3>2, <3>3 DEF WalkedOn
    <3> DEFINE t == req[proc[p].tmp].next
               r == [proc[p] EXCEPT !.tmp = t]
    <3>5. Goto(p, "link") \/ (t # NoReq /\ proc' = [proc EXCEPT ![p] = r])
      BY <2>7 DEF Walk
    <3>6. r.tmp = t  BY <1>2 DEF ProcType
    <3>7. proc'[p].tmp = proc[p].tmp \/ (t # NoReq /\ proc'[p].tmp = t)
      <4> HIDE DEF r
      <4>1. CASE Goto(p, "link")  BY <1>2, <4>1, GotoMoves DEF PCs
      <4>2. CASE t # NoReq /\ proc' = [proc EXCEPT ![p] = r]
        BY <1>2, <3>6, <4>2 DEF TypeOK
      <4> QED BY <3>5, <4>1, <4>2
    <3>8. proc'[p].tmp \in D  BY <3>1, <3>7 DEF WalkedOn
    <3> QED BY <3>4, <3>8
  <2>8. ~Add(p)
    <3>1. CASE cur = NoReq  BY <1>2, <2>4, <3>1 DEF Add, At, LocalsOK
    <3>2. CASE cur # NoReq  BY <1>1, <3>2, AddQueued
    <3> QED BY <3>1, <3>2
  <2> QED BY <1>5, <2>1, <2>2, <2>3, <2>5, <2>6, <2>7, <2>8, ProcStepShape
<1> QED BY <1>3, <1>4, <1>5 DEF Next

LEMMA WalkInvariance == Spec => [](IInv /\ WalkOK)
<1>1. Init => IInv /\ WalkOK
  BY InitKeeps DEF Init, WalkOK, Outside
<1>2. IInv /\ WalkOK /\ [Next]_vars => (IInv /\ WalkOK)'
  BY StepKeeps, WalkStays
<1> QED BY <1>1, <1>2, PTL DEF Spec

(* add_request and end_request: whatever is put into the queue, and        *)
(* wherever, each queued request stays in it until end_request ends it.    *)
THEOREM QueuedStays == Spec => QueuedUntilEnded
<1>1. ASSUME IInv, [Next]_vars
      PROVE  \A s \in Queued : s \in Queued' \/ (s = cur /\ ~req'[s].busy)
  <2>1. CASE UNCHANGED <<req, cur>>
    BY <2>1 DEF Queued, FollowsQueue
  <2>2. CASE EndRequest
    BY <1>1, <2>2, EndRequestQueued DEF Queued
  <2>3. ASSUME NEW p \in Procs, ProcStep(p)
        PROVE  Queued \subseteq Queued' \/ UNCHANGED <<req, cur>>
    <3>1. CASE OutsideAdd(p) \/ ReadHead(p) \/ Walk(p)
      BY <3>1 DEF OutsideAdd, ReadHead, Walk, OnlyProc
    <3> QED BY <1>1, <2>3, <3>1, ProcStepShape, FillQueued, AddQueued, LinkQueued
  <2> QED BY <1>1, <2>1, <2>2, <2>3 DEF Next, vars
<1> QED BY <1>1, Invariance, PTL DEF Spec, QueuedUntilEnded

(* How a request comes to be lost, for the steps of a process: it finds    *)
(* the queue emptied, or links it behind a request that is not queued.     *)
LEMMA LostByProcess ==
  ASSUME IInv, NEW p \in Procs, ProcStep(p), NEW s \in Slots, Lost(s)', ~Lost(s)
  PROVE /\ proc[p].slot = s
        /\ \/ ReadHead(p) /\ cur = NoReq
           \/ Link(p) /\ proc[p].tmp \notin Queued
<1>1. TypeOK /\ LocalsOK(p)  BY DEF IInv, LocalsDefined
<1>2. \A q \in Procs : q # p => proc[q].pc \notin Queueing
  BY ProcStepShape DEF IInv, OnlySleepersOffCPU, SleepPCs, Queueing
<1>3. \A q \in Procs : q # p => proc'[q] = proc[q]
  BY ProcStepShape
<1>4. /\ req'[s].busy /\ s \notin Queued'
      /\ proc'[p].slot = s => proc'[p].pc \notin Queueing
  BY DEF Lost, Queueing
<1>5. ASSUME req[s].busy, s \notin Queued
      PROVE  proc[p].slot = s /\ proc[p].pc \in Queueing
  BY <1>2, <1>5 DEF Lost, Queueing
<1>6. CASE OutsideAdd(p)
  <2>1. Queued' = Queued  BY <1>6 DEF OutsideAdd, Queued, FollowsQueue
  <2> QED BY <1>4, <1>5, <1>6, <2>1 DEF OutsideAdd
<1>7. CASE Fill(p)
  <2>1. Queued' = Queued /\ proc'[p].slot = proc[p].slot /\ proc'[p].pc = "add"
        /\ \A t \in Slots : t # proc[p].slot => req'[t] = req[t]
    BY <1>7, FillQueued
  <2>2. s # proc[p].slot  BY <1>4, <2>1 DEF Queueing
  <2> QED BY <1>4, <1>5, <1>7, <2>1, <2>2 DEF Fill, At, Queueing
<1>8. CASE Add(p)
  BY <1>4, <1>5, <1>8, AddQueued DEF Queueing
<1>9. CASE Walk(p)
  <2>1. UNCHANGED <<req, cur>>  BY <1>9 DEF Walk, OnlyProc
  <2>2. Queued' = Queued  BY <2>1 DEF Queued, FollowsQueue
  <2>3. proc'[p].slot = proc[p].slot /\ proc'[p].pc \in Queueing
    <3> DEFINE r == [proc[p] EXCEPT !.tmp = req[proc[p].tmp].next]
    <3>1. proc[p] \in ProcType  BY <1>1 DEF TypeOK
    <3>2. r.slot = proc[p].slot /\ r.pc = proc[p].pc  BY <3>1 DEF ProcType
    <3>3. Goto(p, "link") \/ proc' = [proc EXCEPT ![p] = r]  BY <1>9 DEF Walk
    <3> HIDE DEF r
    <3>4. CASE Goto(p, "link")  BY <1>1, <3>4, GotoMoves DEF PCs, Queueing
    <3>5. CASE proc' = [proc EXCEPT ![p] = r]
      BY <1>1, <1>9, <3>2, <3>5 DEF TypeOK, Walk, At, Queueing
    <3> QED BY <3>3, <3>4, <3>5
  <2> QED BY <1>4, <1>5, <2>1, <2>2, <2>3
<1>10. CASE Link(p)
  BY <1>4, <1>5, <1>10, LinkQueued
<1>11. CASE ReadHead(p)
  <2>1. CASE cur = NoReq
    BY <1>5, <1>4, <1>11, <2>1, ReadHeadQueued
  <2>2. CASE cur # NoReq
    BY <1>4, <1>5, <1>11, <2>2, ReadHeadQueued DEF Queueing
  <2> QED BY <2>1, <2>2
<1> QED BY <1>6, <1>7, <1>8, <1>9, <1>10, <1>11, ProcStepShape

(* add_request loses a request in two ways only, and both need end_request *)
(* to come in: between its two reads of current_request, or between the    *)
(* walk and the link.  While neither happens every request of rw_blk is in *)
(* the queue, for any number of them.                                      *)
THEOREM LossNeedsARace == Spec => LostOnlyToEndRequest
<1>1. ASSUME IInv, WalkOK, [Next]_vars, NEW s \in Slots, Lost(s)', ~Lost(s)
      PROVE  \E p \in Procs : /\ proc[p].slot = s
                              /\ \/ At(p, "read") /\ cur = NoReq
                                 \/ At(p, "link") /\ ~req[proc[p].tmp].busy
  <2>1. CASE UNCHANGED vars
    BY <1>1, <2>1 DEF Lost, Queued, FollowsQueue, vars
  <2>2. CASE EndRequest
    <3>1. UNCHANGED proc  BY <2>2 DEF EndRequest
    <3> QED BY <1>1, <2>2, <3>1, EndRequestQueued DEF Lost
  <2>3. ASSUME NEW p \in Procs, ProcStep(p)
        PROVE  /\ proc[p].slot = s
               /\ \/ At(p, "read") /\ cur = NoReq
                  \/ At(p, "link") /\ ~req[proc[p].tmp].busy
    <3>1. /\ proc[p].slot = s
          /\ \/ ReadHead(p) /\ cur = NoReq
             \/ Link(p) /\ proc[p].tmp \notin Queued
      BY <1>1, <2>3, LostByProcess
    <3>2. CASE ReadHead(p) /\ cur = NoReq
      BY <3>1, <3>2 DEF ReadHead
    <3>3. CASE Link(p) /\ proc[p].tmp \notin Queued
      <4>1. ~req[proc[p].tmp].busy
        BY <1>1, <3>3 DEF WalkOK, WalkedOn, Link, At
      <4> QED BY <3>1, <3>3, <4>1 DEF Link
    <3> QED BY <3>1, <3>2, <3>3
  <2> QED BY <1>1, <2>1, <2>2, <2>3 DEF Next, vars
<1>2. IInv /\ WalkOK /\ [Next]_vars
        => \A s \in Slots :
             Lost(s)' => \/ Lost(s)
                        \/ \E p \in Procs :
                             /\ proc[p].slot = s
                             /\ \/ At(p, "read") /\ cur = NoReq
                                \/ At(p, "link") /\ ~req[proc[p].tmp].busy
  BY <1>1
<1> QED BY <1>2, WalkInvariance, PTL DEF Spec, LostOnlyToEndRequest
=============================================================================
