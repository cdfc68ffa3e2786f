--------------------------- MODULE BufferPoolProofs ---------------------------
(***************************************************************************)
(* bread and brelease keep the promise of BufferPool, for any processes,   *)
(* buffers, blocks and transfer outcomes, and what their callers rely on:  *)
(* counts tell the users and never wrap, and no used or modified buffer is *)
(* given away.                                                             *)
(*                                                                         *)
(* Beside the invariants of BufferCacheProofs and BufferCacheUseProofs     *)
(* the refinement rests on PoolOK: a process that has found or claimed a   *)
(* buffer finds the block it asked for there, however long it sleeps until *)
(* bread returns, and no process is ever in the halt of brelease.  Every   *)
(* step of the cache is then a step of the pool (Keeps), or changes        *)
(* nothing that the pool is about (Silent).                                *)
(***************************************************************************)
EXTENDS BufferCacheUseProofs

PoolOK(p) ==
  /\ proc[p].pc # "halt"
  /\ proc[p].pc = "found" \/ CallOf(proc[p]).at = "gets"
       => buf[proc[p].b].blk = proc[p].want

PoolInv == \A p \in Procs : PoolOK(p)

AskPCs == {"find", "found", "pick", "wait1", "dirty", "wait2", "claim"}

-----------------------------------------------------------------------------
(* The variables of the pool, and how a step of p changes them. *)

Block    == [i \in Bufs |-> buf[i].blk]
Modified == [i \in Bufs |-> buf[i].mod]
Call     == [p \in Procs |-> CallOf(proc[p])]

LEMMA CallOfIs ==
  ASSUME NEW r
  PROVE /\ r.pc \in AskPCs => CallOf(r) = Pool!Asks(r.want)
        /\ r.pc \in {"got", "waitR"} => CallOf(r) = Pool!Gets(r.want, r.b)
        /\ r.pc \in RwPCs /\ r.op = "bread" /\ r.cmd = WRITE
             => CallOf(r) = Pool!Asks(r.want)
        /\ r.pc \in RwPCs /\ r.op = "bread" /\ r.cmd = READ
             => CallOf(r) = Pool!Gets(r.want, r.b)
        /\ r.pc \in {"rel", "halt"} => CallOf(r) = Pool!Gives(r.b)
        /\ r.pc \in {"idle", "sync", "inval"} => CallOf(r) = Pool!Out
        /\ r.pc \in RwPCs /\ r.op # "bread" => CallOf(r) = Pool!Out
BY DEF CallOf, AskPCs, RwPCs, READ, WRITE, Pool!Asks, Pool!Gets, Pool!Gives, Pool!Out

LEMMA CallFields ==
  ASSUME NEW k, NEW i
  PROVE /\ Pool!Asks(k).at = "asks" /\ Pool!Asks(k).blk = k
        /\ Pool!Gets(k, i).at = "gets" /\ Pool!Gets(k, i).blk = k /\ Pool!Gets(k, i).buf = i
        /\ Pool!Gives(i).at = "gives" /\ Pool!Gives(i).buf = i
        /\ Pool!Out.at = "out"
BY DEF Pool!Asks, Pool!Gets, Pool!Gives, Pool!Out

LEMMA OneCall ==
  ASSUME NEW p \in Procs, Moves(p)
  PROVE  Call' = [Call EXCEPT ![p] = CallOf(proc'[p])]
<1>1. \A q \in Procs : q # p => CallOf(proc[q])' = CallOf(proc[q])
  BY DEF Moves, CallOf
<1> QED BY <1>1 DEF Call

(* Nothing that the pool is about changes. *)
Silent == Block' = Block /\ Modified' = Modified /\ held' = held /\ Call' = Call

Keeps == Pool!Next \/ Silent
(* What holds before and after each step. *)
Sure == IInv /\ UInv /\ PoolInv /\ OnlyUnusedChangeBlock

SameData == \A i \in Bufs : buf'[i].blk = buf[i].blk /\ buf'[i].mod = buf[i].mod

-----------------------------------------------------------------------------
(* A call that has a buffer carries a reference of it. *)
LEMMA GetsCarries ==
  ASSUME NEW p \in Procs, CallOf(proc[p]).at = "gets", LocalsOK(p)
  PROVE  /\ CarriesRef(p, proc[p].b) /\ proc[p].b \in Bufs
         /\ CallOf(proc[p]) = Pool!Gets(proc[p].want, proc[p].b)
BY DEF CallOf, CarriesRef, LocalsOK, RwPCs, Pool!Gets

LEMMA GetsItsBuffer ==
  ASSUME NEW r, CallOf(r).at = "gets"
  PROVE  CallOf(r).blk = r.want /\ CallOf(r).buf = r.b
BY DEF CallOf

LEMMA UsesCarries ==
  ASSUME TypeOK, PoolInv, NEW q \in Procs, NEW i \in Bufs, Refs(q, i) = 0
  PROVE  ~Pool!Uses(q, i)
<1>1. held[q][i] \in Nat  BY DEF TypeOK
<1>2. held[q][i] = 0 /\ ~CarriesRef(q, i)  BY <1>1 DEF Refs
<1>3. CallOf(proc[q]).at \in {"gets", "gives"} => CallOf(proc[q]).buf # i
  <2>1. proc[q].pc # "halt"  BY DEF PoolInv, PoolOK
  <2> QED BY <1>2, <2>1 DEF CallOf, CarriesRef, RwPCs
<1> QED BY <1>2, <1>3 DEF Pool!Uses

(* What the other processes have found stays what they asked for. *)
LEMMA OthersPool ==
  ASSUME Sure, NEW p \in Procs, current = p, Moves(p), PoolOK(p)'
  PROVE  PoolInv'
<1>1. SUFFICES ASSUME NEW q \in Procs, q # p PROVE PoolOK(q)'
  BY DEF PoolInv
<1>2. /\ proc'[q] = proc[q] /\ proc[q].pc \in SleepPCs /\ LocalsOK(q) /\ PoolOK(q)
      /\ TypeOK /\ Counted
  BY <1>1 DEF Sure, IInv, UInv, PoolInv, OnlySleepersOffCPU, Moves, LocalsDefined
<1>3. CallOf(proc[q])' = CallOf(proc[q])
  BY <1>2 DEF CallOf
<1>4. CASE CallOf(proc[q]).at = "gets"
  <2> PICK i \in Bufs : i = proc[q].b
    BY <1>2, <1>4, GetsCarries
  <2>1. CarriesRef(q, i)  BY <1>2, <1>4, GetsCarries
  <2>2. Refs(q, i) # 0  BY <1>2, <2>1 DEF Refs, TypeOK
  <2>3. buf[i].count # 0  BY <1>2, <2>2, UncountedIsUnused
  <2>4. buf'[i].blk = buf[i].blk  BY <2>3 DEF Sure, OnlyUnusedChangeBlock
  <2> QED BY <1>2, <1>4, <2>4 DEF PoolOK
<1>5. CASE CallOf(proc[q]).at # "gets"
  BY <1>2, <1>3, <1>5 DEF PoolOK, SleepPCs
<1> QED BY <1>4, <1>5

LEMMA SilentStep ==
  ASSUME Sure, NEW p \in Procs, current = p, Moves(p), SameData, held' = held,
         CallOf(proc'[p]) = CallOf(proc[p]), proc'[p].pc \notin {"found", "halt"}
  PROVE  PoolInv' /\ Keeps
<1>1. Call' = Call
  <2>1. Call' = [Call EXCEPT ![p] = CallOf(proc'[p])]  BY OneCall
  <2>2. Call = [Call EXCEPT ![p] = CallOf(proc[p])]  BY DEF Call
  <2> QED BY <2>1, <2>2
<1>2. Block' = Block /\ Modified' = Modified
  BY DEF SameData, Block, Modified
<1>3. PoolOK(p)'
  <2>1. ASSUME CallOf(proc[p]).at = "gets"
        PROVE  buf'[proc'[p].b].blk = proc'[p].want
    <3>1. proc'[p].b = proc[p].b /\ proc'[p].want = proc[p].want
      BY <2>1, GetsItsBuffer
    <3>2. LocalsOK(p) /\ PoolOK(p)  BY DEF Sure, IInv, LocalsDefined, PoolInv
    <3>3. proc[p].b \in Bufs  BY <2>1, <3>2, GetsCarries
    <3> QED BY <2>1, <3>1, <3>2, <3>3 DEF SameData, PoolOK
  <2> QED BY <2>1 DEF PoolOK
<1> QED BY <1>1, <1>2, <1>3, OthersPool DEF Silent, Keeps

LEMMA SleepPool ==
  ASSUME Sure, NEW p \in Procs, SleepOn(p)
  PROVE  PoolInv' /\ Keeps
<1>1. UNCHANGED <<proc, held, buf>>  BY DEF SleepOn
<1>2. PoolInv'  BY <1>1 DEF Sure, PoolInv, PoolOK, CallOf
<1>3. Silent  BY <1>1 DEF Silent, Block, Modified, Call, CallOf
<1> QED BY <1>2, <1>3 DEF Keeps
-----------------------------------------------------------------------------
(* One lemma per step, or per group of steps alike. *)

LEMMA StartPool ==
  ASSUME Sure, NEW p \in Procs, StartBread(p) \/ StartScan(p)
  PROVE  PoolInv' /\ Keeps
<1>1. current = p /\ proc[p].pc = "idle" /\ OnlyProc
  BY DEF StartBread, StartScan, At
<1>2. TypeOK /\ proc[p] \in ProcType  BY DEF Sure, IInv, TypeOK
<1>3. CASE StartBread(p)
  <2>1. PICK k \in Blocks : proc' = [proc EXCEPT ![p] =
                               [@ EXCEPT !.pc = "find", !.op = "bread", !.want = k]]
    BY <1>3 DEF StartBread
  <2> DEFINE r == [proc[p] EXCEPT !.pc = "find", !.op = "bread", !.want = k]
  <2>2. r \in ProcType /\ r.pc = "find" /\ r.want = k  BY <1>2 DEF ProcType, PCs
  <2>3. proc' = [proc EXCEPT ![p] = r]  BY <2>1
  <2> HIDE DEF r
  <2>4. Moves(p) /\ proc'[p] = r  BY <1>2, <2>2, <2>3, UpdateMoves
  <2>5. CallOf(proc'[p]) = Pool!Asks(k) /\ CallOf(proc[p]) = Pool!Out
    BY <1>1, <2>2, <2>4, CallOfIs DEF AskPCs
  <2>6. PoolOK(p)'
    <3>1. CallOf(proc'[p]).at # "gets"  BY <2>5, CallFields
    <3> QED BY <2>2, <2>4, <3>1 DEF PoolOK
  <2>7. Pool!Ask(p)
    <3>1. Call' = [Call EXCEPT ![p] = Pool!Asks(k)]  BY <2>4, <2>5, OneCall
    <3>2. \A i \in Bufs : held[p][i] < MaxHold  BY <1>3 DEF StartBread
    <3> QED BY <1>1, <2>5, <3>1, <3>2 DEF Pool!Ask, Pool!Calls, Call, OnlyProc
  <2> QED BY <1>1, <2>4, <2>6, <2>7, OthersPool DEF Keeps, Pool!Next
<1>4. CASE StartScan(p)
  <2>1. PICK o \in Ops : proc' = [proc EXCEPT ![p] =
                                     [@ EXCEPT !.pc = o, !.op = o, !.b = 1]]
    BY <1>4 DEF StartScan
  <2>2. o \in {"sync", "inval"}  BY BufferCacheAssumption
  <2> DEFINE r == [proc[p] EXCEPT !.pc = o, !.op = o, !.b = 1]
  <2>3. r \in ProcType /\ r.pc = o  BY <1>2, <2>2, SlotsNat DEF ProcType, PCs
  <2>4. proc' = [proc EXCEPT ![p] = r]  BY <2>1
  <2> HIDE DEF r
  <2>5. Moves(p) /\ proc'[p] = r  BY <1>2, <2>3, <2>4, UpdateMoves
  <2>6. CallOf(proc'[p]) = CallOf(proc[p])
    BY <1>1, <2>2, <2>3, <2>5, CallOfIs
  <2> QED BY <1>1, <2>2, <2>3, <2>5, <2>6, SilentStep DEF SameData, OnlyProc
<1> QED BY <1>3, <1>4

LEMMA ModifyPool ==
  ASSUME Sure, NEW p \in Procs, Modify(p)
  PROVE  PoolInv' /\ Keeps
<1>1. TypeOK  BY DEF Sure, IInv
<1>2. PICK i \in Bufs :
        /\ held[p][i] > 0
        /\ buf' = [buf EXCEPT ![i] = [@ EXCEPT !.dirty = TRUE, !.mod = TRUE]]
  BY DEF Modify
<1> DEFINE r == [buf[i] EXCEPT !.dirty = TRUE, !.mod = TRUE]
<1>3. buf[i] \in BufType  BY <1>1 DEF TypeOK
<1>4. r.mod = TRUE /\ r.blk = buf[i].blk
  BY <1>3 DEF BufType
<1>5. buf' = [buf EXCEPT ![i] = r]  BY <1>2
<1> HIDE DEF r
<1>6. buf'[i] = r /\ \A j \in Bufs : j # i => buf'[j] = buf[j]
  BY <1>1, <1>5 DEF TypeOK
<1>7. proc' = proc /\ held' = held /\ proc[p].pc = "idle" /\ current = p
  BY DEF Modify, At
<1>8. Block' = Block /\ Modified' = [Modified EXCEPT ![i] = TRUE]
  BY <1>4, <1>6 DEF Block, Modified
<1>9. Call' = Call  BY <1>7 DEF Call, CallOf
<1>10. Call[p] = Pool!Out  BY <1>7, CallOfIs DEF Call
<1>11. Pool!Write(p, i)
  BY <1>2, <1>7, <1>8, <1>9, <1>10 DEF Pool!Write, Call, Block, Modified
<1>12. PoolOK(p)'
  <2>1. CallOf(proc[p]).at # "gets"  BY <1>7, CallOfIs, CallFields
  <2>2. CallOf(proc[p])' = CallOf(proc[p])  BY <1>7 DEF CallOf
  <2> QED BY <1>7, <2>1, <2>2 DEF PoolOK
<1>13. Moves(p)  BY <1>1, <1>7 DEF Moves, TypeOK
<1> QED BY <1>7, <1>11, <1>12, <1>13, OthersPool DEF Keeps, Pool!Next

LEMMA StartReleasePool ==
  ASSUME Sure, NEW p \in Procs, StartRelease(p)
  PROVE  PoolInv' /\ Keeps
<1>1. TypeOK  BY DEF Sure, IInv
<1>2. PICK i \in Bufs : /\ held[p][i] > 0
                        /\ held' = [held EXCEPT ![p][i] = @ - 1]
                        /\ GotoBuf(p, "rel", i)
  BY DEF StartRelease
<1>3. Moves(p) /\ proc'[p].pc = "rel" /\ proc'[p].b = i
  BY <1>1, <1>2, GotoBufMoves DEF PCs
<1>4. current = p /\ proc[p].pc = "idle" /\ buf' = buf
  BY DEF StartRelease, At
<1>5. CallOf(proc'[p]) = Pool!Gives(i) /\ CallOf(proc[p]) = Pool!Out
  BY <1>3, <1>4, CallOfIs
<1>6. Call' = [Call EXCEPT ![p] = Pool!Gives(i)]
  BY <1>3, <1>5, OneCall
<1>7. Pool!GiveBack(p, i)
  BY <1>2, <1>4, <1>5, <1>6 DEF Pool!GiveBack, Pool!Calls, Call, Block, Modified
<1>8. PoolOK(p)'
  <2>1. CallOf(proc'[p]).at # "gets"  BY <1>5, CallFields
  <2> QED BY <1>3, <2>1 DEF PoolOK
<1> QED BY <1>3, <1>4, <1>7, <1>8, OthersPool DEF Keeps, Pool!Next

LEMMA FindPickPool ==
  ASSUME Sure, NEW p \in Procs, Find(p) \/ Pick(p)
  PROVE  PoolInv' /\ Keeps
<1>1. TypeOK  BY DEF Sure, IInv
<1>2. current = p /\ proc[p].pc \in {"find", "pick"}
  BY DEF Find, Pick, At
<1>3. CASE Pick(p) /\ SleepOn(p)
  BY <1>3, SleepPool
<1>4. CASE OnlyProc /\ (Goto(p, "pick") \/ \E i \in Bufs : GotoBuf(p, "wait1", i))
  <2>1. /\ Moves(p) /\ proc'[p].pc \in {"pick", "wait1"}
        /\ proc'[p].want = proc[p].want
    BY <1>1, <1>4, GotoMoves, GotoBufMoves DEF PCs
  <2>2. CallOf(proc'[p]) = CallOf(proc[p])
    BY <1>2, <2>1, CallOfIs DEF AskPCs
  <2> QED BY <1>2, <1>4, <2>1, <2>2, SilentStep DEF SameData, OnlyProc
<1>5. CASE Find(p) /\ \E i \in Bufs : IsLowest(i, {j \in Bufs : buf[j].blk = proc[p].want})
                                      /\ GotoBuf(p, "found", i)
  <2>1. PICK i \in Bufs : buf[i].blk = proc[p].want /\ GotoBuf(p, "found", i)
    BY <1>5 DEF IsLowest
  <2>2. OnlyProc  BY <1>5 DEF Find
  <2>3. Moves(p) /\ proc'[p].pc = "found" /\ proc'[p].b = i /\ proc'[p].want = proc[p].want
    BY <1>1, <2>1, GotoBufMoves DEF PCs
  <2>4. CallOf(proc'[p]) = CallOf(proc[p])
    BY <1>2, <2>3, CallOfIs DEF AskPCs
  <2>5. Call' = [Call EXCEPT ![p] = Call[p]]
    BY <2>3, <2>4, OneCall DEF Call
  <2>6. Silent
    BY <2>2, <2>5 DEF Silent, Call, Block, Modified, OnlyProc
  <2>7. PoolOK(p)'
    BY <2>1, <2>2, <2>3 DEF PoolOK, OnlyProc
  <2> QED BY <1>2, <2>3, <2>6, <2>7, OthersPool DEF Keeps
<1> QED BY <1>3, <1>4, <1>5 DEF Find, Pick
LEMMA GetPool ==
  ASSUME Sure, NEW p \in Procs, Wait1(p) \/ Wait2(p) \/ WriteBack(p)
  PROVE  PoolInv' /\ Keeps
<1>1. TypeOK /\ UseOK(p)  BY DEF Sure, IInv, UInv, UsesOK
<1>2. current = p /\ proc[p].pc \in {"wait1", "wait2", "dirty"} /\ proc[p].op = "bread"
  BY <1>1 DEF Wait1, Wait2, WaitThenCount, WriteBack, At, UseOK, GetBufferPCs
<1>3. CASE SleepOn(p)
  BY <1>3, SleepPool
<1>4. CASE OnlyProc /\ \E l \in {"pick", "dirty", "claim", "wait2"} : Goto(p, l)
  <2>1. /\ Moves(p) /\ proc'[p].pc \in AskPCs \ {"found"}
        /\ proc'[p].want = proc[p].want
    BY <1>1, <1>4, GotoMoves DEF PCs, AskPCs
  <2>2. CallOf(proc'[p]) = CallOf(proc[p])
    BY <1>2, <2>1, CallOfIs DEF AskPCs
  <2>3. proc'[p].pc \notin {"found", "halt"}  BY <2>1 DEF AskPCs
  <2> QED BY <1>2, <1>4, <2>1, <2>2, <2>3, SilentStep DEF SameData, OnlyProc
<1>5. CASE OnlyProc /\ CallRw(p, WRITE)
  <2>1. /\ Moves(p) /\ proc'[p].pc = "lock" /\ proc'[p].op = "bread"
        /\ proc'[p].cmd = WRITE /\ proc'[p].want = proc[p].want
    BY <1>1, <1>2, <1>5, CallRwFields
  <2>2. CallOf(proc'[p]) = CallOf(proc[p])
    BY <1>2, <2>1, CallOfIs DEF AskPCs, RwPCs
  <2> QED BY <1>2, <1>5, <2>1, <2>2, SilentStep DEF SameData, OnlyProc
<1> QED BY <1>3, <1>4, <1>5 DEF Wait1, Wait2, WaitThenCount, WriteBack

LEMMA FoundPool ==
  ASSUME Sure, NEW p \in Procs, Found(p)
  PROVE  PoolInv' /\ Keeps
<1>1. TypeOK /\ PoolOK(p) /\ LocalsOK(p)
  BY DEF Sure, IInv, PoolInv, LocalsDefined
<1>2. current = p /\ proc[p].pc = "found" /\ held' = held
  BY DEF Found, At
<1> PICK i \in Bufs : i = proc[p].b
  BY <1>1, <1>2 DEF LocalsOK
<1> DEFINE r == [buf[i] EXCEPT !.count = (buf[i].count + 1) % CountSize]
<1>3. /\ Moves(p) /\ proc'[p].pc = "got" /\ proc'[p].b = i
      /\ proc'[p].want = proc[p].want
  BY <1>1, GotoMoves DEF Found, PCs
<1>4. r.blk = buf[i].blk /\ r.mod = buf[i].mod  BY <1>1 DEF TypeOK, BufType
<1>5. buf' = [buf EXCEPT ![i] = r]  BY DEF Found
<1> HIDE DEF r
<1>6. SameData  BY <1>1, <1>4, <1>5 DEF TypeOK, SameData
<1>7. buf[i].blk = proc[p].want  BY <1>1, <1>2 DEF PoolOK
<1>8. PoolOK(p)'  BY <1>3, <1>6, <1>7 DEF PoolOK, SameData
<1>9. /\ CallOf(proc[p]) = Pool!Asks(buf[i].blk)
      /\ CallOf(proc'[p]) = Pool!Gets(buf[i].blk, i)
  BY <1>2, <1>3, <1>7, CallOfIs DEF AskPCs
<1>10. Call' = [Call EXCEPT ![p] = Pool!Gets(buf[i].blk, i)]
  BY <1>3, <1>9, OneCall
<1>11. Block' = Block /\ Modified' = Modified
  BY <1>6 DEF SameData, Block, Modified
<1>12. Pool!Share(p, i)
  BY <1>2, <1>9, <1>10, <1>11 DEF Pool!Share, Pool!Calls, Call, Block, Modified
<1> QED BY <1>2, <1>3, <1>8, <1>12, OthersPool DEF Keeps, Pool!Next

LEMMA ClaimPool ==
  ASSUME Sure, NEW p \in Procs, Claim(p)
  PROVE  PoolInv' /\ Keeps
<1>1. TypeOK /\ UseOK(p) /\ LocalsOK(p)
  BY DEF Sure, IInv, UInv, UsesOK, LocalsDefined
<1>2. current = p /\ proc[p].pc = "claim" /\ held' = held
  BY DEF Claim, At
<1> PICK i \in Bufs : i = proc[p].b
  BY <1>1, <1>2 DEF LocalsOK
<1>3. buf[i].count = 0 /\ ~buf[i].mod
  BY <1>1, <1>2 DEF UseOK, Sure, UInv, ModifiedIsDirty
<1> DEFINE k == proc[p].want
           r == [buf[i] EXCEPT !.blk = k, !.uptodate = FALSE,
                               !.dirty = FALSE, !.count = 1, !.mod = FALSE]
<1>4. /\ Moves(p) /\ proc'[p].pc = "got" /\ proc'[p].b = i /\ proc'[p].want = k
  BY <1>1, GotoMoves DEF Claim, PCs
<1>5. r.blk = k /\ r.mod = FALSE  BY <1>1 DEF TypeOK, BufType
<1>6. buf' = [buf EXCEPT ![i] = r]  BY DEF Claim
<1> HIDE DEF r, k
<1>7. buf'[i] = r /\ \A j \in Bufs : j # i => buf'[j] = buf[j]
  BY <1>1, <1>6 DEF TypeOK
<1>8. Block' = [Block EXCEPT ![i] = k] /\ Modified' = Modified
  BY <1>3, <1>5, <1>7, <1>1 DEF Block, Modified, TypeOK, BufType
<1>9. CallOf(proc[p]) = Pool!Asks(k) /\ CallOf(proc'[p]) = Pool!Gets(k, i)
  BY <1>2, <1>4, CallOfIs DEF AskPCs, k
<1>10. Call' = [Call EXCEPT ![p] = Pool!Gets(k, i)]
  BY <1>4, <1>9, OneCall
<1>11. Call[p].at = "asks" /\ Call[p].blk = k
  BY <1>9, CallFields DEF Call
<1>12. \A q \in Procs : ~Pool!Uses(q, i)
  BY <1>1, <1>3, UncountedIsUnused, UsesCarries DEF Sure, UInv
<1>13. Pool!Reuse(p, i)
  BY <1>2, <1>3, <1>8, <1>10, <1>11, <1>12 DEF Pool!Reuse, Pool!Calls, Call, Block, Modified
<1>14. PoolOK(p)'  BY <1>4, <1>5, <1>7 DEF PoolOK
<1> QED BY <1>2, <1>4, <1>13, <1>14, OthersPool DEF Keeps, Pool!Next

(* Where bread leaves with the buffer. *)
LEMMA HoldPool ==
  ASSUME Sure, NEW p \in Procs, current = p, proc[p].pc \in {"got", "waitR"}, Hold(p)
  PROVE  PoolInv' /\ Keeps
<1>1. TypeOK /\ PoolOK(p) /\ LocalsOK(p)
  BY DEF Sure, IInv, PoolInv, LocalsDefined
<1> PICK i \in Bufs : i = proc[p].b
  BY <1>1 DEF LocalsOK
<1>2. Moves(p) /\ proc'[p].pc = "idle" /\ buf' = buf
  BY <1>1, LeaveMoves DEF Hold
<1>3. CallOf(proc[p]) = Pool!Gets(proc[p].want, i) /\ CallOf(proc'[p]) = Pool!Out
  BY <1>2, CallOfIs
<1>4. buf[i].blk = proc[p].want
  BY <1>1, <1>3, CallFields DEF PoolOK
<1>5. Call' = [Call EXCEPT ![p] = Pool!Out]
  BY <1>2, <1>3, OneCall
<1>6. held' = [held EXCEPT ![p][i] = @ + 1]  BY DEF Hold
<1>7. Pool!Return(p, i)
  BY <1>2, <1>3, <1>4, <1>5, <1>6 DEF Pool!Return, Pool!Calls, Call, Block, Modified
<1>8. PoolOK(p)'
  <2>1. CallOf(proc'[p]).at # "gets"  BY <1>3, CallFields
  <2> QED BY <1>2, <2>1 DEF PoolOK
<1> QED BY <1>2, <1>7, <1>8, OthersPool DEF Keeps, Pool!Next
LEMMA BreadPool ==
  ASSUME Sure, NEW p \in Procs, Got(p) \/ WaitRead(p)
  PROVE  PoolInv' /\ Keeps
<1>1. TypeOK /\ UseOK(p) /\ LocalsOK(p)
  BY DEF Sure, IInv, UInv, UsesOK, LocalsDefined
<1>2. current = p /\ proc[p].pc \in {"got", "waitR"} /\ proc[p].op = "bread"
  BY <1>1 DEF Got, WaitRead, At, UseOK, GetBufferPCs
<1> PICK i \in Bufs : i = proc[p].b
  BY <1>1, <1>2 DEF LocalsOK
<1>3. CASE Hold(p)
  BY <1>2, <1>3, HoldPool
<1>4. CASE SleepOn(p)
  BY <1>4, SleepPool
<1>5. CASE OnlyProc /\ CallRw(p, READ)
  <2>1. /\ Moves(p) /\ proc'[p].pc = "lock" /\ proc'[p].op = "bread" /\ proc'[p].b = i
        /\ proc'[p].cmd = READ /\ proc'[p].want = proc[p].want
    BY <1>1, <1>2, <1>5, CallRwFields
  <2>2. CallOf(proc'[p]) = CallOf(proc[p])
    BY <1>2, <2>1, CallOfIs DEF RwPCs
  <2> QED BY <1>2, <1>5, <2>1, <2>2, SilentStep DEF SameData, OnlyProc
<1>6. CASE OnlyProc /\ Goto(p, "rel")
  <2>1. Moves(p) /\ proc'[p].pc = "rel" /\ proc'[p].b = i
    BY <1>1, <1>6, GotoMoves DEF PCs
  <2>2. CallOf(proc[p]) = Pool!Gets(proc[p].want, i) /\ CallOf(proc'[p]) = Pool!Gives(i)
    BY <1>2, <2>1, CallOfIs
  <2>3. Call[p].at = "gets" /\ Call[p].buf = i
    BY <2>2, CallFields DEF Call
  <2>4. Call' = [Call EXCEPT ![p] = Pool!Gives(i)]
    BY <2>1, <2>2, OneCall
  <2>5. Pool!Refuse(p, i)
    BY <1>6, <2>3, <2>4 DEF Pool!Refuse, Pool!Calls, Call, Block, Modified, OnlyProc
  <2>6. PoolOK(p)'
    <3>1. CallOf(proc'[p]).at # "gets"  BY <2>2, CallFields
    <3> QED BY <2>1, <3>1 DEF PoolOK
  <2> QED BY <1>2, <2>1, <2>5, <2>6, OthersPool DEF Keeps, Pool!Next
<1> QED BY <1>3, <1>4, <1>5, <1>6 DEF Got, WaitRead

(* The halt of brelease is never reached: p has a reference still. *)
LEMMA ReleasePool ==
  ASSUME Sure, NEW p \in Procs, Release(p)
  PROVE  PoolInv' /\ Keeps
<1>1. TypeOK /\ LocalsOK(p) /\ Counted
  BY DEF Sure, IInv, UInv, LocalsDefined
<1>2. current = p /\ proc[p].pc = "rel"
  BY DEF Release, At
<1> PICK i \in Bufs : i = proc[p].b
  BY <1>1, <1>2 DEF LocalsOK
<1>3. buf[i].count # 0
  <2>1. held[p][i] \in Nat /\ CarriesRef(p, i)
    BY <1>1, <1>2 DEF TypeOK, CarriesRef
  <2>2. Refs(p, i) # 0  BY <2>1 DEF Refs
  <2> QED BY <1>1, <2>2, UncountedIsUnused
<1>4. CASE SleepOn(p)
  BY <1>4, SleepPool
<1>5. CASE Leave(p) /\ held' = held /\ buf' = [buf EXCEPT ![i].count = @ - 1]
  <2> DEFINE r == [buf[i] EXCEPT !.count = buf[i].count - 1]
  <2>1. Moves(p) /\ proc'[p].pc = "idle"
    BY <1>1, <1>5, LeaveMoves
  <2>2. r.blk = buf[i].blk /\ r.mod = buf[i].mod  BY <1>1 DEF TypeOK, BufType
  <2>3. buf' = [buf EXCEPT ![i] = r]  BY <1>5
  <2> HIDE DEF r
  <2>4. SameData  BY <1>1, <2>2, <2>3 DEF TypeOK, SameData
  <2>5. CallOf(proc[p]) = Pool!Gives(i) /\ CallOf(proc'[p]) = Pool!Out
    BY <1>2, <2>1, CallOfIs
  <2>6. Call' = [Call EXCEPT ![p] = Pool!Out] /\ Call[p].at = "gives"
    BY <2>1, <2>5, OneCall, CallFields DEF Call
  <2>7. Block' = Block /\ Modified' = Modified
    BY <2>4 DEF SameData, Block, Modified
  <2>8. Pool!Given(p)
    BY <1>5, <2>6, <2>7 DEF Pool!Given, Pool!Calls, Call, Block, Modified
  <2>9. PoolOK(p)'
    <3>1. CallOf(proc'[p]).at # "gets"  BY <2>5, CallFields
    <3> QED BY <2>1, <3>1 DEF PoolOK
  <2> QED BY <1>2, <2>1, <2>8, <2>9, OthersPool DEF Keeps, Pool!Next
<1> QED BY <1>3, <1>4, <1>5 DEF Release

(* The next buffer of a scan, or its end. *)
LEMMA ScanCalls ==
  ASSUME TypeOK, NEW p \in Procs, LocalsOK(p), proc[p].op # "bread",
         proc[p].pc \in {"sync", "inval"} \union RwPCs,
         NextInScan(p) \/ CallRw(p, WRITE)
  PROVE  /\ Moves(p) /\ CallOf(proc'[p]) = CallOf(proc[p])
         /\ proc'[p].pc \in {"idle", "sync", "inval", "lock"}
<1>1. proc[p].b \in Bufs  BY DEF LocalsOK, RwPCs
<1>2. CallOf(proc[p]) = Pool!Out  BY CallOfIs
<1>3. CASE NextInScan(p)
  BY <1>1, <1>2, <1>3, ScanMoves, CallOfIs
<1>4. CASE CallRw(p, WRITE)
  <2>1. Moves(p) /\ proc'[p].pc = "lock" /\ proc'[p].op = proc[p].op
    BY <1>4, CallRwFields
  <2> QED BY <1>2, <2>1, CallOfIs DEF RwPCs
<1> QED BY <1>3, <1>4

LEMMA ScanPool ==
  ASSUME Sure, NEW p \in Procs, Sync(p) \/ Invalidate(p)
  PROVE  PoolInv' /\ Keeps
<1>1. TypeOK /\ LocalsOK(p)  BY DEF Sure, IInv, LocalsDefined
<1>2. current = p /\ proc[p].pc \in {"sync", "inval"} /\ proc[p].op # "bread"
  BY <1>1 DEF Sync, Invalidate, At, LocalsOK
<1> PICK i \in Bufs : i = proc[p].b
  BY <1>1, <1>2 DEF LocalsOK
<1>3. CASE SleepOn(p)
  BY <1>3, SleepPool
<1>4. CASE (NextInScan(p) \/ CallRw(p, WRITE)) /\ buf' = buf /\ held' = held
  <2>1. /\ Moves(p) /\ CallOf(proc'[p]) = CallOf(proc[p])
        /\ proc'[p].pc \in {"idle", "sync", "inval", "lock"}
    BY <1>1, <1>2, <1>4, ScanCalls
  <2> QED BY <1>2, <1>4, <2>1, SilentStep DEF SameData
<1>5. CASE /\ NextInScan(p) /\ held' = held
           /\ buf' = [buf EXCEPT ![i] = [@ EXCEPT !.dirty = FALSE, !.mod = FALSE,
                                                  !.uptodate = FALSE]]
  <2> DEFINE r == [buf[i] EXCEPT !.dirty = FALSE, !.mod = FALSE, !.uptodate = FALSE]
  <2>1. /\ Moves(p) /\ CallOf(proc'[p]) = CallOf(proc[p])
        /\ proc'[p].pc \in {"idle", "sync", "inval", "lock"}
    BY <1>1, <1>2, <1>5, ScanCalls
  <2>2. r.blk = buf[i].blk /\ r.mod = FALSE  BY <1>1 DEF TypeOK, BufType
  <2>3. buf' = [buf EXCEPT ![i] = r]  BY <1>5
  <2> HIDE DEF r
  <2>4. buf'[i] = r /\ \A j \in Bufs : j # i => buf'[j] = buf[j]
    BY <1>1, <2>3 DEF TypeOK
  <2>5. Block' = Block /\ Modified' = [Modified EXCEPT ![i] = FALSE]
    BY <2>2, <2>4 DEF Block, Modified
  <2>6. Call' = [Call EXCEPT ![p] = Call[p]]
    BY <2>1, OneCall DEF Call
  <2>7. Pool!Clean(i)
    BY <1>5, <2>5, <2>6 DEF Pool!Clean, Call, Block, Modified
  <2>8. PoolOK(p)'
    <3>1. CallOf(proc'[p]).at # "gets"  BY <1>2, <2>1, CallOfIs, CallFields
    <3> QED BY <2>1, <3>1 DEF PoolOK
  <2> QED BY <1>2, <2>1, <2>7, <2>8, OthersPool DEF Keeps, Pool!Next
<1> QED BY <1>3, <1>4, <1>5 DEF Sync, Invalidate, OnlyProc
(* rw_blk on its way changes no call, and neither does its return. *)
LEMMA RwSteps ==
  ASSUME TypeOK, NEW p \in Procs, LocalsOK(p),
         Lock(p) \/ Test(p) \/ Slot(p) \/ Fill(p) \/ Add(p) \/ ReadHead(p)
           \/ Walk(p) \/ Link(p)
  PROVE  \/ SleepOn(p)
         \/ AfterRw(p)
         \/ /\ Moves(p) /\ proc'[p].pc \in RwPCs
            /\ proc'[p].b = proc[p].b /\ proc'[p].want = proc[p].want
            /\ proc'[p].op = proc[p].op /\ proc'[p].cmd = proc[p].cmd
<1>1. proc[p] \in ProcType  BY DEF TypeOK
<1>2. CASE \E l \in {"test", "slot", "add", "read", "link"} : Goto(p, l)
  BY <1>2, GotoMoves DEF PCs, RwPCs
<1>3. CASE Slot(p) /\ ~SleepOn(p)
  <2>1. PICK s \in Slots : proc' = [proc EXCEPT ![p] = [@ EXCEPT !.pc = "fill", !.slot = s]]
    BY <1>3 DEF Slot
  <2> DEFINE r == [proc[p] EXCEPT !.pc = "fill", !.slot = s]
  <2>2. /\ r \in ProcType /\ r.pc = "fill" /\ r.b = proc[p].b /\ r.want = proc[p].want
        /\ r.op = proc[p].op /\ r.cmd = proc[p].cmd
    BY <1>1 DEF ProcType, PCs
  <2>3. proc' = [proc EXCEPT ![p] = r]  BY <2>1
  <2> HIDE DEF r
  <2> QED BY <2>2, <2>3, UpdateMoves DEF RwPCs
<1>4. CASE \/ ReadHead(p) /\ ~AfterRw(p)
           \/ Walk(p) /\ ~Goto(p, "link")
  <2>1. PICK t \in Slots \union {NoReq} :
          proc' = [proc EXCEPT ![p] = [@ EXCEPT !.pc = "walk", !.tmp = t]]
    <3>1. CASE ReadHead(p)
      BY <1>4, <3>1 DEF ReadHead, Walk, At, TypeOK
    <3>2. CASE Walk(p) /\ ~Goto(p, "link")
      <4> DEFINE t == req[proc[p].tmp].next
      <4>1. t \in Slots \union {NoReq}
        BY <3>2 DEF Walk, At, LocalsOK, TypeOK, ReqType
      <4>2. proc[p].pc = "walk" /\ proc' = [proc EXCEPT ![p] = [@ EXCEPT !.tmp = t]]
        BY <3>2 DEF Walk, At
      <4>3. [proc[p] EXCEPT !.tmp = t] = [proc[p] EXCEPT !.pc = "walk", !.tmp = t]
        BY <1>1, <4>2 DEF ProcType
      <4> QED BY <4>1, <4>2, <4>3
    <3> QED BY <1>4, <3>1, <3>2
  <2> DEFINE r == [proc[p] EXCEPT !.pc = "walk", !.tmp = t]
  <2>2. /\ r \in ProcType /\ r.pc = "walk" /\ r.b = proc[p].b /\ r.want = proc[p].want
        /\ r.op = proc[p].op /\ r.cmd = proc[p].cmd
    BY <1>1 DEF ProcType, PCs
  <2>3. proc' = [proc EXCEPT ![p] = r]  BY <2>1
  <2> HIDE DEF r
  <2> QED BY <2>2, <2>3, UpdateMoves DEF RwPCs
<1> QED BY <1>2, <1>3, <1>4 DEF Lock, Test, Fill, Add, Link

LEMMA RwSameData ==
  ASSUME TypeOK, NEW p \in Procs, LocalsOK(p),
         Lock(p) \/ Test(p) \/ Slot(p) \/ Fill(p) \/ Add(p) \/ ReadHead(p)
           \/ Walk(p) \/ Link(p)
  PROVE  SameData /\ held' = held
<1>1. CASE UNCHANGED <<held, buf>>
  BY <1>1 DEF SameData
<1>2. CASE ~UNCHANGED <<held, buf>>
  <2>1. proc[p].pc \in {"lock", "test"}
    BY <1>2 DEF Lock, Test, Slot, Fill, Add, ReadHead, Walk, Link, At, SleepOn, OnlyProc
  <2> PICK i \in Bufs : i = proc[p].b
    BY <2>1 DEF LocalsOK
  <2>2. /\ held' = held
        /\ \E f \in BOOLEAN : buf' = [buf EXCEPT ![i] = [@ EXCEPT !.locked = f]]
    BY <1>2 DEF Lock, Test, Slot, Fill, Add, ReadHead, Walk, Link, SleepOn, OnlyProc
  <2>3. PICK f \in BOOLEAN : buf' = [buf EXCEPT ![i] = [@ EXCEPT !.locked = f]]
    BY <2>2
  <2> DEFINE r == [buf[i] EXCEPT !.locked = f]
  <2>4. r.blk = buf[i].blk /\ r.mod = buf[i].mod  BY DEF TypeOK, BufType
  <2>5. buf' = [buf EXCEPT ![i] = r]  BY <2>3
  <2> HIDE DEF r
  <2> QED BY <2>2, <2>4, <2>5 DEF TypeOK, SameData
<1> QED BY <1>1, <1>2

LEMMA RwPool ==
  ASSUME Sure, NEW p \in Procs,
         Lock(p) \/ Test(p) \/ Slot(p) \/ Fill(p) \/ Add(p) \/ ReadHead(p)
           \/ Walk(p) \/ Link(p)
  PROVE  PoolInv' /\ Keeps
<1>1. TypeOK /\ LocalsOK(p) /\ proc[p] \in ProcType
  BY DEF Sure, IInv, LocalsDefined, TypeOK
<1>2. current = p /\ proc[p].pc \in RwPCs
  BY DEF Lock, Test, Slot, Fill, Add, ReadHead, Walk, Link, At, RwPCs
<1>3. proc[p].b \in Bufs /\ proc[p].cmd \in {READ, WRITE}
  BY <1>1, <1>2 DEF LocalsOK, RwPCs, ProcType
<1>4. SameData /\ held' = held
  BY <1>1, RwSameData
<1>5. CASE SleepOn(p)
  BY <1>5, SleepPool
<1>6. CASE AfterRw(p)
  <2>1. CASE proc[p].op # "bread"
    <3>1. NextInScan(p)  BY <1>6, <2>1 DEF AfterRw
    <3>2. /\ Moves(p) /\ CallOf(proc'[p]) = CallOf(proc[p])
          /\ proc'[p].pc \in {"idle", "sync", "inval", "lock"}
      BY <1>1, <1>2, <2>1, <3>1, ScanCalls
    <3> QED BY <1>2, <1>4, <3>2, SilentStep
  <2>2. CASE proc[p].op = "bread"
    <3>1. /\ Moves(p)
          /\ proc'[p].pc = (IF proc[p].cmd = READ THEN "waitR" ELSE "dirty")
          /\ proc'[p].b = proc[p].b /\ proc'[p].want = proc[p].want
      BY <1>1, <1>3, <1>6, <2>2, AfterRwFields
    <3>2. CallOf(proc'[p]) = CallOf(proc[p])
      BY <1>2, <1>3, <2>2, <3>1, CallOfIs DEF AskPCs, READ, WRITE
    <3> QED BY <1>2, <1>4, <3>1, <3>2, SilentStep
  <2> QED BY <2>1, <2>2
<1>7. CASE /\ Moves(p) /\ proc'[p].pc \in RwPCs
           /\ proc'[p].b = proc[p].b /\ proc'[p].want = proc[p].want
           /\ proc'[p].op = proc[p].op /\ proc'[p].cmd = proc[p].cmd
  <2>1. CallOf(proc'[p]) = CallOf(proc[p])
    BY <1>2, <1>3, <1>7, CallOfIs
  <2>2. proc'[p].pc \notin {"found", "halt"}  BY <1>7 DEF RwPCs
  <2> QED BY <1>2, <1>4, <1>7, <2>1, <2>2, SilentStep
<1> QED BY <1>1, <1>5, <1>6, <1>7, RwSteps

LEMMA EndRequestPool ==
  ASSUME Sure, EndRequest
  PROVE  PoolInv' /\ Keeps
<1>1. TypeOK  BY DEF Sure, IInv
<1>2. cur \in Slots /\ req[cur].b \in Bufs /\ UNCHANGED <<current, proc, held>>
  <2>1. PICK Q \in SUBSET Slots : IsQueue(Q)  BY DEF Sure, IInv, QueueOK
  <2> QED BY <2>1 DEF EndRequest, IsQueue, Sure, IInv, BusyHasBuffer
<1> PICK i \in Bufs : i = req[cur].b
  BY <1>2
<1>3. PICK ok \in Outcomes :
        buf' = [buf EXCEPT ![i] = [@ EXCEPT !.uptodate = ok, !.locked = FALSE,
                                            !.mod = buf[i].mod /\ ~ok]]
  BY DEF EndRequest
<1> DEFINE m == buf[i].mod /\ ~ok
           r == [buf[i] EXCEPT !.uptodate = ok, !.locked = FALSE, !.mod = m]
<1>4. buf[i] \in BufType  BY <1>1 DEF TypeOK
<1>5. m \in {buf[i].mod, FALSE}
  <2>1. buf[i].mod \in BOOLEAN /\ ok \in BOOLEAN
    BY <1>4, BufferCacheAssumption DEF BufType
  <2> QED BY <2>1
<1>6. buf' = [buf EXCEPT ![i] = r]  BY <1>3
<1> HIDE DEF m
<1>7. r.blk = buf[i].blk /\ r.mod = m  BY <1>4 DEF BufType
<1> HIDE DEF r
<1>8. buf'[i] = r /\ \A j \in Bufs : j # i => buf'[j] = buf[j]
  BY <1>1, <1>6 DEF TypeOK
<1>9. Block' = Block /\ Call' = Call /\ held' = held
  BY <1>2, <1>7, <1>8 DEF Block, Call, CallOf
<1>10. Modified' = Modified \/ Modified' = [Modified EXCEPT ![i] = FALSE]
  BY <1>5, <1>7, <1>8 DEF Modified
<1>11. PoolInv'
  <2>1. ASSUME NEW p \in Procs PROVE PoolOK(p)'
    <3>1. PoolOK(p) /\ LocalsOK(p)  BY DEF Sure, PoolInv, IInv, LocalsDefined
    <3>2. CallOf(proc[p])' = CallOf(proc[p])  BY <1>2 DEF CallOf
    <3>3. proc[p].pc = "found" \/ CallOf(proc[p]).at = "gets" => proc[p].b \in Bufs
      BY <3>1, GetsCarries DEF LocalsOK
    <3>4. \A j \in Bufs : buf'[j].blk = buf[j].blk  BY <1>7, <1>8
    <3> QED BY <1>2, <3>1, <3>2, <3>3, <3>4 DEF PoolOK
  <2> QED BY <2>1 DEF PoolInv
<1>12. CASE Modified' = Modified
  BY <1>9, <1>11, <1>12 DEF Keeps, Silent
<1>13. CASE Modified' = [Modified EXCEPT ![i] = FALSE]
  <2>1. Pool!Clean(i)  BY <1>9, <1>13 DEF Pool!Clean, Block, Modified, Call
  <2> QED BY <1>11, <2>1 DEF Keeps, Pool!Next
<1> QED BY <1>10, <1>12, <1>13
-----------------------------------------------------------------------------
LEMMA InitPool == Init => PoolInv /\ Pool!Init
<1> SUFFICES ASSUME Init PROVE PoolInv /\ Pool!Init
  OBVIOUS
<1>1. \A p \in Procs : proc[p] = Outside /\ CallOf(proc[p]) = Pool!Out
  BY DEF Init, Outside, CallOf, RwPCs, Pool!Out
<1>2. PoolInv
  BY <1>1, CallFields DEF PoolInv, PoolOK, Outside
<1>3. Block = [i \in Bufs |-> NoBlock] /\ Modified = [i \in Bufs |-> FALSE]
  BY DEF Init, Block, Modified
<1> QED BY <1>1, <1>2, <1>3 DEF Init, Pool!Init, Block, Modified

LEMMA StepPool ==
  ASSUME IInv, UInv, PoolInv, CountHasRoom, [Next]_vars
  PROVE  PoolInv' /\ Keeps
<1>1. Sure  BY StepUse DEF Sure
<1>2. CASE EndRequest
  BY <1>1, <1>2, EndRequestPool
<1>3. ASSUME NEW p \in Procs, ProcStep(p) PROVE PoolInv' /\ Keeps
  <2>1. CASE SleepElsewhere(p)
    BY <1>1, <2>1, SleepPool DEF SleepElsewhere
  <2> QED
    BY <1>1, <1>3, <2>1, StartPool, ModifyPool, StartReleasePool, FindPickPool, GetPool,
       FoundPool, ClaimPool, BreadPool, ReleasePool, ScanPool, RwPool DEF ProcStep
<1>4. CASE UNCHANGED vars
  <2>1. PoolInv'  BY <1>4 DEF vars, PoolInv, PoolOK, CallOf
  <2>2. Silent  BY <1>4 DEF vars, Silent, Block, Modified, Call, CallOf
  <2> QED BY <2>1, <2>2 DEF Keeps
<1> QED BY <1>2, <1>3, <1>4 DEF Next

LEMMA KeepsIsStep == Keeps => [Pool!Next]_(Pool!vars)
BY DEF Keeps, Silent, Block, Modified, Call, Pool!vars

-----------------------------------------------------------------------------
(* How many references a process may come to have.  While it asks for a    *)
(* buffer, and until it has it, it has fewer than MaxHold of every one.    *)

HoldOK(p) ==
  \A i \in Bufs :
    /\ held[p][i] <= MaxHold
    /\ Call[p].at \in {"asks", "gets"} => held[p][i] < MaxHold
    /\ Call[p].at = "gives" /\ Call[p].buf = i => held[p][i] < MaxHold

HoldsOK == \A p \in Procs : HoldOK(p)

LEMMA PoolCalls ==
  ASSUME NEW p, NEW c, Pool!Calls(p, c)
  PROVE  Call' = [Call EXCEPT ![p] = c]
BY DEF Pool!Calls, Call

(* p alone makes a step, and what it holds is within the bound after it. *)
LEMMA OneHolds ==
  ASSUME HoldsOK, NEW p \in Procs, NEW c, Call' = [Call EXCEPT ![p] = c],
         \A q \in Procs : q # p => held'[q] = held[q],
         \A i \in Bufs : /\ held'[p][i] <= MaxHold
                         /\ c.at \in {"asks", "gets"} => held'[p][i] < MaxHold
                         /\ c.at = "gives" /\ c.buf = i => held'[p][i] < MaxHold
  PROVE  HoldsOK'
<1>1. Call'[p] = c /\ \A q \in Procs : q # p => Call'[q] = Call[q]
  BY DEF Call
<1> QED BY <1>1 DEF HoldsOK, HoldOK
LEMMA PoolStepHolds ==
  ASSUME TypeOK, HoldsOK, Keeps
  PROVE  HoldsOK'
<1>1. held \in [Procs -> [Bufs -> Nat]] /\ MaxHold \in Nat
  BY BufferCacheAssumption DEF TypeOK
<1>2. ASSUME NEW p \in Procs, Pool!Ask(p) PROVE HoldsOK'
  <2>1. PICK k : Pool!Calls(p, Pool!Asks(k))  BY <1>2 DEF Pool!Ask
  <2>2. held' = held /\ \A i \in Bufs : held[p][i] < MaxHold
    BY <1>2 DEF Pool!Ask
  <2>3. \A i \in Bufs : held[p][i] <= MaxHold  BY DEF HoldsOK, HoldOK
  <2>4. Call' = [Call EXCEPT ![p] = Pool!Asks(k)]  BY <2>1, PoolCalls
  <2>5. Pool!Asks(k).at = "asks"  BY CallFields
  <2> QED BY <2>2, <2>3, <2>4, <2>5, OneHolds
<1>3. ASSUME NEW p \in Procs, NEW i \in Bufs, Pool!Share(p, i) \/ Pool!Reuse(p, i)
      PROVE  HoldsOK'
  <2>1. PICK k : Pool!Calls(p, Pool!Gets(k, i))  BY <1>3 DEF Pool!Share, Pool!Reuse
  <2>2. held' = held /\ Call[p].at = "asks"
    BY <1>3, CallFields DEF Pool!Share, Pool!Reuse, Call
  <2>3. \A j \in Bufs : held[p][j] <= MaxHold /\ held[p][j] < MaxHold
    BY <2>2 DEF HoldsOK, HoldOK
  <2>4. Call' = [Call EXCEPT ![p] = Pool!Gets(k, i)]  BY <2>1, PoolCalls
  <2>5. Pool!Gets(k, i).at = "gets"  BY CallFields
  <2> QED BY <2>2, <2>3, <2>4, <2>5, OneHolds
<1>4. ASSUME NEW p \in Procs, NEW i \in Bufs, Pool!Return(p, i) PROVE HoldsOK'
  <2>1. Call[p].at = "gets"  BY <1>4, CallFields DEF Pool!Return, Call
  <2>2. held' = [held EXCEPT ![p][i] = @ + 1]  BY <1>4 DEF Pool!Return
  <2>3. Call' = [Call EXCEPT ![p] = Pool!Out]  BY <1>4, PoolCalls DEF Pool!Return
  <2>4. \A j \in Bufs : held'[p][j] <= MaxHold
    <3>1. \A j \in Bufs : held[p][j] < MaxHold  BY <2>1 DEF HoldsOK, HoldOK
    <3>2. \A j \in Bufs : held'[p][j] \in {held[p][j], held[p][j] + 1}
      BY <1>1, <2>2
    <3> QED BY <1>1, <3>1, <3>2
  <2>5. \A q \in Procs : q # p => held'[q] = held[q]  BY <1>1, <2>2
  <2>6. Pool!Out.at = "out"  BY CallFields
  <2> QED BY <2>3, <2>4, <2>5, <2>6, OneHolds
<1>5. ASSUME NEW p \in Procs, NEW i \in Bufs, Pool!Refuse(p, i) PROVE HoldsOK'
  <2>1. held' = held /\ Call[p].at = "gets"  BY <1>5 DEF Pool!Refuse, Call
  <2>2. Call' = [Call EXCEPT ![p] = Pool!Gives(i)]  BY <1>5, PoolCalls DEF Pool!Refuse
  <2>3. \A j \in Bufs : held[p][j] <= MaxHold /\ held[p][j] < MaxHold
    BY <2>1 DEF HoldsOK, HoldOK
  <2>4. Pool!Gives(i).at = "gives"  BY CallFields
  <2> QED BY <2>1, <2>2, <2>3, <2>4, OneHolds
<1>6. ASSUME NEW p \in Procs, NEW i \in Bufs, Pool!GiveBack(p, i) PROVE HoldsOK'
  <2>1. held[p][i] > 0 /\ held' = [held EXCEPT ![p][i] = @ - 1]
    BY <1>6 DEF Pool!GiveBack
  <2>2. PICK c : c = Pool!Gives(i)  OBVIOUS
  <2>3. Call' = [Call EXCEPT ![p] = c]  BY <1>6, <2>2, PoolCalls DEF Pool!GiveBack
  <2>4. \A j \in Bufs : held'[p][j] <= MaxHold /\ (j = i => held'[p][j] < MaxHold)
    <3>1. \A j \in Bufs : held[p][j] <= MaxHold  BY DEF HoldsOK, HoldOK
    <3>2. \A j \in Bufs : held'[p][j] = IF j = i THEN held[p][j] - 1 ELSE held[p][j]
      BY <1>1, <2>1
    <3> QED BY <1>1, <3>1, <3>2
  <2>5. \A q \in Procs : q # p => held'[q] = held[q]  BY <1>1, <2>1
  <2>6. c.at = "gives" /\ c.buf = i  BY <2>2, CallFields
  <2>7. \A j \in Bufs : /\ held'[p][j] <= MaxHold
                        /\ c.at \in {"asks", "gets"} => held'[p][j] < MaxHold
                        /\ c.at = "gives" /\ c.buf = j => held'[p][j] < MaxHold
    BY <2>4, <2>6
  <2> QED BY <2>3, <2>5, <2>7, OneHolds
<1>7. ASSUME NEW p \in Procs, Pool!Given(p) PROVE HoldsOK'
  <2>1. held' = held /\ Call' = [Call EXCEPT ![p] = Pool!Out]
    BY <1>7, PoolCalls DEF Pool!Given
  <2>2. \A j \in Bufs : held[p][j] <= MaxHold  BY DEF HoldsOK, HoldOK
  <2>3. Pool!Out.at = "out"  BY CallFields
  <2> QED BY <2>1, <2>2, <2>3, OneHolds
<1>8. ASSUME held' = held, Call' = Call PROVE HoldsOK'
  BY <1>8 DEF HoldsOK, HoldOK
<1>9. \A p \in Procs, i \in Bufs : Pool!Write(p, i) => HoldsOK'
  BY <1>8 DEF Pool!Write, Call
<1>10. ASSUME NEW i \in Bufs, Pool!Clean(i) PROVE HoldsOK'
  BY <1>8, <1>10 DEF Pool!Clean, Call
<1>11. CASE Silent
  BY <1>8, <1>11 DEF Silent
<1>12. CASE Pool!Next
  BY <1>2, <1>3, <1>4, <1>5, <1>6, <1>7, <1>9, <1>10, <1>12 DEF Pool!Next
<1> QED BY <1>11, <1>12 DEF Keeps

LEMMA InitHolds == Init => HoldsOK
<1> SUFFICES ASSUME Init, NEW p \in Procs PROVE HoldOK(p)
  BY DEF HoldsOK
<1>1. Call[p] = Pool!Out /\ MaxHold \in Nat
  BY CallOfIs, BufferCacheAssumption DEF Init, Outside, Call
<1>2. \A i \in Bufs : held[p][i] = 0  BY DEF Init
<1> QED BY <1>1, <1>2, CallFields DEF HoldOK

LEMMA RefsAreFew ==
  ASSUME IInv, PoolInv, HoldsOK, NEW p \in Procs, NEW i \in Bufs
  PROVE  Refs(p, i) <= MaxHold /\ (proc[p].pc = "found" => Refs(p, i) < MaxHold)
<1>1. HoldOK(p) /\ proc[p].pc # "halt" /\ held[p][i] \in Nat
  BY DEF IInv, HoldsOK, PoolInv, PoolOK, TypeOK
<1>2. CarriesRef(p, i) => Call[p].at = "gets" \/ (Call[p].at = "gives" /\ Call[p].buf = i)
  BY <1>1 DEF Call, CallOf, CarriesRef, RwPCs, READ, WRITE
<1>3. CarriesRef(p, i) => held[p][i] < MaxHold
  BY <1>1, <1>2 DEF HoldOK
<1>4. proc[p].pc = "found" => ~CarriesRef(p, i) /\ Call[p].at = "asks"
  BY DEF Call, CallOf, CarriesRef, RwPCs
<1> QED BY <1>1, <1>3, <1>4, BufferCacheAssumption DEF HoldOK, Refs

(* The references of all processes fit into the unsigned char of count. *)
LEMMA NoCountWraps ==
  ASSUME IInv, UInv, PoolInv, HoldsOK
  PROVE  CountHasRoom
<1> SUFFICES ASSUME NEW p \in Procs, proc[p].pc = "found"
             PROVE  buf[proc[p].b].count + 1 < CountSize
  BY DEF CountHasRoom
<1>1. TypeOK /\ proc[p].b \in Bufs
  BY DEF IInv, LocalsDefined, LocalsOK
<1> PICK i \in Bufs : i = proc[p].b
  BY <1>1
<1>2. PICK R \in [Procs -> Nat] : R = RefsOf(i)
  BY <1>1, RefsTyped
<1>3. \A q \in Procs : R[q] = Refs(q, i)  BY <1>2 DEF RefsOf
<1>4. PICK n \in Nat : n = R[p] + 1  OBVIOUS
<1>5. PICK S \in [Procs -> Nat] : S = [R EXCEPT ![p] = n]
  OBVIOUS
<1>6. \A q \in Procs : S[q] <= MaxHold
  <2>1. \A q \in Procs : R[q] <= MaxHold /\ (q = p => R[q] < MaxHold)
    BY <1>3, RefsAreFew
  <2> QED BY <1>4, <1>5, <2>1, BufferCacheAssumption
<1>7. Total(S) <= Cardinality(Procs) * MaxHold
  BY <1>6, TotalBounded, BufferCacheAssumption
<1>8. Total(S) = Total(R) - R[p] + S[p]
  <2>1. AllBut(p, R, S)  BY <1>5 DEF AllBut
  <2>2. IsFiniteSet(Units(R))  BY <1>2 DEF UInv, Counted
  <2> QED BY <2>1, <2>2, TotalChanges
<1>9. buf[i].count = Total(R) /\ buf[i].count \in Nat
  BY <1>1, <1>2 DEF UInv, Counted, TypeOK, BufType
<1>10. Total(S) = buf[i].count + 1
  BY <1>4, <1>5, <1>8, <1>9
<1>11. Cardinality(Procs) * MaxHold \in Nat /\ CountSize \in Nat
  <2>1. Cardinality(Procs) \in Nat  BY FS_CardinalityType, BufferCacheAssumption
  <2> QED BY <2>1, BufferCacheAssumption
<1> QED BY <1>7, <1>9, <1>10, <1>11, BufferCacheAssumption

LEMMA PoolInvariance == Spec => [](IInv /\ UInv /\ PoolInv /\ CountHasRoom)
<1>1. Init => IInv /\ UInv /\ PoolInv /\ HoldsOK
  BY InitKeeps, InitUse, InitPool, InitHolds
<1>2. /\ IInv /\ UInv /\ PoolInv /\ HoldsOK /\ [Next]_vars
        => (IInv /\ UInv /\ PoolInv /\ HoldsOK)'
  <2> SUFFICES ASSUME IInv, UInv, PoolInv, HoldsOK, [Next]_vars
               PROVE  (IInv /\ UInv /\ PoolInv /\ HoldsOK)'
    OBVIOUS
  <2>1. CountHasRoom  BY NoCountWraps
  <2>2. IInv' /\ UInv' /\ PoolInv' /\ Keeps
    BY <2>1, StepKeeps, StepUse, StepPool
  <2>3. HoldsOK'  BY <2>2, PoolStepHolds DEF IInv
  <2> QED BY <2>2, <2>3
<1>3. IInv /\ UInv /\ PoolInv /\ HoldsOK => CountHasRoom
  BY NoCountWraps
<1> QED BY <1>1, <1>2, <1>3, PTL DEF Spec

(* The count of a buffer is the number of its references, for any number   *)
(* of processes: brelease never finds a zero count, and the unsigned char  *)
(* never wraps.                                                            *)
THEOREM CountCorrect == Spec => []CountIsUsers
<1>1. IInv /\ UInv => CountIsUsers
  BY DEF UInv, Counted, CountIsUsers, RefsOf
<1> QED BY <1>1, PoolInvariance, PTL

(* A buffer keeps its block from the moment a process takes a reference of *)
(* it to the moment the process has given it back.                         *)
THEOREM UsedBufferStays == Spec => UsedBufferKeepsBlock
<1> DEFINE BlockStays == \A p \in Procs, i \in Bufs :
                      Refs(p, i) > 0 /\ Refs(p, i)' > 0 => buf'[i].blk = buf[i].blk
<1>1. IInv /\ UInv /\ CountHasRoom /\ [Next]_vars => [BlockStays]_vars
  <2> SUFFICES ASSUME IInv, UInv, CountHasRoom, [Next]_vars, NEW p \in Procs, NEW i \in Bufs,
                      Refs(p, i) > 0
               PROVE  buf'[i].blk = buf[i].blk
    OBVIOUS
  <2>1. OnlyUnusedChangeBlock
    BY StepUse
  <2>2. CASE buf[i].count = 0
    <3>1. Refs(p, i) = 0
      BY <2>2, UncountedIsUnused DEF IInv, UInv
    <3> QED BY <3>1
  <2> QED BY <2>1, <2>2 DEF OnlyUnusedChangeBlock
<1> QED BY <1>1, PoolInvariance, PTL DEF Spec, UsedBufferKeepsBlock

(* get_buffer gives no buffer away whose data a holder has changed since   *)
(* the last successful write.                                              *)
THEOREM NoModifiedReused == Spec => NoModifiedBufferReused
<1> DEFINE Clean == \A i \in Bufs : buf'[i].blk # buf[i].blk => ~buf[i].mod
<1>1. IInv /\ UInv /\ CountHasRoom /\ [Next]_vars => [Clean]_vars
  BY StepUse DEF OnlyUnusedChangeBlock, UInv, ModifiedIsDirty
<1> QED BY <1>1, PoolInvariance, PTL DEF Spec, NoModifiedBufferReused
(* bread and brelease implement the pool of buffers: a process gets a      *)
(* buffer of the block it asked for, or none; no buffer that anybody has   *)
(* a reference of is given to another block, and none whose data are newer *)
(* than the device's.                                                      *)
THEOREM PoolImplemented == Spec => KeepsPool
<1>1. Init => Pool!Init
  BY InitPool
<1>2. IInv /\ UInv /\ PoolInv /\ CountHasRoom /\ [Next]_vars => [Pool!Next]_(Pool!vars)
  BY StepPool, KeepsIsStep
<1> QED BY <1>1, <1>2, PoolInvariance, PTL DEF Spec, KeepsPool, Pool!Spec
=============================================================================
