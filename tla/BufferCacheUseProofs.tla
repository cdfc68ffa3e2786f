------------------------- MODULE BufferCacheUseProofs -------------------------
(***************************************************************************)
(* What the users of a buffer may rely on, for any processes, buffers and  *)
(* blocks: every step keeps its count at the number of its references,     *)
(* unless the count wraps, and gives it to another block only while it is  *)
(* neither used nor modified (UInv, StepUse).  BufferPoolProofs shows that *)
(* no count wraps and draws the theorems.                                  *)
(*                                                                         *)
(* Beside the invariant of BufferCacheProofs these rest on what a process  *)
(* knows of its buffer where it is in get_buffer and rw_blk (UseOK): what  *)
(* it tested last is still true there, since everything that could change  *)
(* it runs on the CPU that the process has not given up since, or waits    *)
(* for the lock that the process has.                                      *)
(***************************************************************************)
EXTENDS BufferCacheProofs, TotalsProofs

GetBufferPCs == {"find", "found", "pick", "wait1", "dirty", "wait2", "claim",
                 "got", "waitR"}

UseOK(p) ==
  /\ proc[p].pc \in GetBufferPCs => proc[p].op = "bread"
  /\ proc[p].pc = "dirty" => ~buf[proc[p].b].locked \/ buf[proc[p].b].dirty
  /\ proc[p].pc \in {"wait2", "claim"} => p = current /\ ~buf[proc[p].b].dirty
  /\ proc[p].pc = "wait2" => ~buf[proc[p].b].locked
  /\ proc[p].pc = "claim" => buf[proc[p].b].count = 0
  /\ proc[p].pc \in {"slot", "fill"} \union Queueing /\ proc[p].cmd = WRITE
       => buf[proc[p].b].dirty

UsesOK == \A p \in Procs : UseOK(p)

ModifiedIsDirty == \A i \in Bufs : buf[i].mod => buf[i].dirty

RefsOf(i) == [p \in Procs |-> Refs(p, i)]

Counted == \A i \in Bufs : /\ IsFiniteSet(Units(RefsOf(i)))
                           /\ buf[i].count = Total(RefsOf(i))

UInv == UsesOK /\ ModifiedIsDirty /\ Counted

(* find_buffer counts a reference in an unsigned char. *)
CountHasRoom ==
  \A p \in Procs : proc[p].pc = "found" => buf[proc[p].b].count + 1 < CountSize

(* What a step may do to the block of a buffer. *)
OnlyUnusedChangeBlock ==
  \A i \in Bufs : buf'[i].blk # buf[i].blk => buf[i].count = 0 /\ ~buf[i].dirty

-----------------------------------------------------------------------------
LEMMA RefsTyped ==
  ASSUME TypeOK, NEW i \in Bufs
  PROVE  RefsOf(i) \in [Procs -> Nat] /\ \A p \in Procs : RefsOf(i)[p] = Refs(p, i)
BY DEF RefsOf, Refs, TypeOK

(* A buffer whose count is zero is nobody's. *)
LEMMA UncountedIsUnused ==
  ASSUME TypeOK, Counted, NEW i \in Bufs, buf[i].count = 0, NEW p \in Procs
  PROVE  Refs(p, i) = 0
<1>1. RefsOf(i) \in [Procs -> Nat] /\ RefsOf(i)[p] = Refs(p, i)
  BY RefsTyped
<1>2. IsFiniteSet(Units(RefsOf(i))) /\ Total(RefsOf(i)) = 0
  BY DEF Counted
<1> QED BY <1>1, <1>2, NothingInTotal

-----------------------------------------------------------------------------
(* Steps that take and give back no reference. *)

LEMMA CallRwFields ==
  ASSUME TypeOK, NEW p \in Procs, NEW c \in {READ, WRITE}, CallRw(p, c)
  PROVE /\ Moves(p) /\ proc'[p].pc = "lock" /\ proc'[p].b = proc[p].b
        /\ proc'[p].op = proc[p].op /\ proc'[p].cmd = c /\ proc'[p].want = proc[p].want
<1> DEFINE r == [proc[p] EXCEPT !.pc = "lock", !.cmd = c]
<1>1. proc[p] \in ProcType  BY DEF TypeOK
<1>2. r \in ProcType /\ proc' = [proc EXCEPT ![p] = r]
  BY <1>1 DEF ProcType, CallRw, PCs
<1>3. /\ r.pc = "lock" /\ r.b = proc[p].b /\ r.op = proc[p].op /\ r.cmd = c
      /\ r.want = proc[p].want
  BY <1>1 DEF ProcType
<1> HIDE DEF r
<1> QED BY <1>2, <1>3, UpdateMoves

LEMMA AfterRwFields ==
  ASSUME TypeOK, NEW p \in Procs, AfterRw(p), proc[p].b \in Bufs
  PROVE /\ Moves(p)
        /\ proc[p].op = "bread"
             => /\ proc'[p].pc = (IF proc[p].cmd = READ THEN "waitR" ELSE "dirty")
                /\ proc'[p].b = proc[p].b /\ proc'[p].op = "bread"
                /\ proc'[p].want = proc[p].want
        /\ proc[p].op # "bread" => proc'[p].pc \in {"idle", "sync", "inval"}
<1>0. proc[p] \in ProcType  BY DEF TypeOK
<1>1. CASE proc[p].op # "bread"
  <2>1. NextInScan(p)  BY <1>1 DEF AfterRw
  <2> QED BY <1>1, <2>1, ScanMoves
<1>2. CASE proc[p].op = "bread"
  <2> DEFINE l == IF proc[p].cmd = READ THEN "waitR" ELSE "dirty"
             r == [proc[p] EXCEPT !.pc = l, !.cmd = READ, !.slot = NoReq, !.tmp = NoReq]
  <2>1. ResumeGetBuffer(p, l)
    <3>1. CASE proc[p].cmd = READ
      <4>1. ResumeGetBuffer(p, "waitR")  BY <1>2, <3>1 DEF AfterRw, READ, WRITE
      <4>2. l = "waitR"  BY <3>1
      <4> QED BY <4>1, <4>2
    <3>2. CASE proc[p].cmd = WRITE
      <4>1. ResumeGetBuffer(p, "dirty")  BY <1>2, <3>2 DEF AfterRw, READ, WRITE
      <4>2. l = "dirty"  BY <3>2 DEF READ, WRITE
      <4> QED BY <4>1, <4>2
    <3> QED BY <1>0, <3>1, <3>2 DEF ProcType
  <2>2. l \in PCs  BY DEF PCs
  <2>3. proc' = [proc EXCEPT ![p] = r]  BY <2>1 DEF ResumeGetBuffer
  <2> HIDE DEF l
  <2>4. r \in ProcType  BY <1>0, <2>2 DEF ProcType
  <2>5. r.pc = l /\ r.b = proc[p].b /\ r.op = proc[p].op /\ r.want = proc[p].want
    BY <1>0 DEF ProcType
  <2> HIDE DEF r
  <2>6. Moves(p) /\ proc'[p] = r  BY <2>3, <2>4, UpdateMoves
  <2> QED BY <1>2, <2>5, <2>6 DEF l
<1> QED BY <1>1, <1>2

(* What processes off the CPU, and the owners of locks, rely on. *)
KeepsDirty ==
  /\ \A i \in Bufs : buf[i].locked /\ buf[i].dirty => buf'[i].dirty
  /\ \A i \in Bufs : buf'[i].mod => buf'[i].dirty

KeepsCounts ==
  \A i \in Bufs : buf'[i].count = buf[i].count /\ buf'[i].blk = buf[i].blk

KeepsRefs(p) == \A i \in Bufs : Refs(p, i)' = Refs(p, i)

LEMMA OthersUse ==
  ASSUME IInv, UInv, NEW p \in Procs, current = p, Moves(p), KeepsDirty, UseOK(p)'
  PROVE UsesOK'
<1>1. SUFFICES ASSUME NEW q \in Procs, q # p PROVE UseOK(q)'
  BY DEF UsesOK
<1>2. proc'[q] = proc[q] /\ proc[q].pc \in SleepPCs /\ LocalsOK(q) /\ UseOK(q)
  BY <1>1 DEF IInv, UInv, UsesOK, OnlySleepersOffCPU, Moves, LocalsDefined
<1>3. proc[q].pc # "wait2"
  BY <1>1, <1>2 DEF UseOK
<1>4. proc[q].pc = "slot" => proc[q].b \in Bufs /\ buf[proc[q].b].locked
  BY <1>2 DEF LocalsOK, IInv, LockHasOneOwner, OwnerProc
<1> QED BY <1>2, <1>3, <1>4 DEF UseOK, SleepPCs, GetBufferPCs, Queueing, KeepsDirty

LEMMA OthersRefs ==
  ASSUME NEW p \in Procs, Moves(p), \A q \in Procs : q # p => held'[q] = held[q],
         NEW q \in Procs, q # p, NEW i \in Bufs
  PROVE Refs(q, i)' = Refs(q, i)
BY DEF Moves, Refs, CarriesRef

LEMMA SameReferences ==
  ASSUME Counted, KeepsCounts, \A p \in Procs : KeepsRefs(p)
  PROVE Counted' /\ OnlyUnusedChangeBlock
<1>1. \A i \in Bufs : RefsOf(i)' = RefsOf(i)
  BY DEF KeepsRefs, RefsOf
<1> QED BY <1>1 DEF Counted, KeepsCounts, OnlyUnusedChangeBlock

LEMMA SteadyUse ==
  ASSUME IInv, UInv, NEW p \in Procs, current = p, Moves(p), KeepsDirty, KeepsCounts,
         KeepsRefs(p), \A q \in Procs : q # p => held'[q] = held[q], UseOK(p)'
  PROVE UInv' /\ OnlyUnusedChangeBlock
<1>1. UsesOK'  BY OthersUse
<1>2. ModifiedIsDirty'  BY DEF KeepsDirty, ModifiedIsDirty
<1>3. Counted' /\ OnlyUnusedChangeBlock
  BY OthersRefs, SameReferences DEF UInv, KeepsRefs
<1> QED BY <1>1, <1>2, <1>3 DEF UInv

(* The same for steps that leave the buffers and what is held alone. *)
LEMMA QuietUse ==
  ASSUME IInv, UInv, NEW p \in Procs, current = p, Moves(p), UNCHANGED <<held, buf>>,
         KeepsRefs(p), UseOK(p)'
  PROVE UInv' /\ OnlyUnusedChangeBlock
<1>1. KeepsDirty /\ KeepsCounts
  BY DEF KeepsDirty, KeepsCounts, UInv, ModifiedIsDirty
<1> QED BY <1>1, SteadyUse

LEMMA SleepUse ==
  ASSUME IInv, UInv, NEW p \in Procs, current = p, proc[p].pc \in SleepPCs,
         proc[p].pc # "wait2", SleepOn(p)
  PROVE UInv' /\ OnlyUnusedChangeBlock
<1>1. UNCHANGED <<proc, held, buf>>
  BY DEF SleepOn
<1>2. UsesOK'
  <2>1. SUFFICES ASSUME NEW q \in Procs PROVE UseOK(q)'
    BY DEF UsesOK
  <2>2. UseOK(q)  BY DEF UInv, UsesOK
  <2>3. proc[q].pc \notin {"wait2", "claim"}
    BY <2>2 DEF UseOK, SleepPCs
  <2> QED BY <1>1, <2>2, <2>3 DEF UseOK
<1>3. ModifiedIsDirty'  BY <1>1 DEF UInv, ModifiedIsDirty
<1>4. Counted' /\ OnlyUnusedChangeBlock
  <2>1. KeepsCounts /\ \A q \in Procs : KeepsRefs(q)
    BY <1>1 DEF KeepsCounts, KeepsRefs, Refs, CarriesRef
  <2> QED BY <2>1, SameReferences DEF UInv
<1> QED BY <1>2, <1>3, <1>4 DEF UInv

(* The places where a process carries no reference, whatever its call. *)
BarePCs == {"idle", "find", "found", "pick", "wait1", "dirty", "wait2", "claim",
            "sync", "inval", "halt"}

LEMMA BareRefs ==
  ASSUME NEW p \in Procs, proc[p].pc \in BarePCs, proc'[p].pc \in BarePCs,
         held'[p] = held[p]
  PROVE KeepsRefs(p)
BY DEF BarePCs, KeepsRefs, Refs, CarriesRef, RwPCs

-----------------------------------------------------------------------------
(* One lemma per step, or per group of steps alike. *)

LEMMA StartUse ==
  ASSUME IInv, UInv, NEW p \in Procs, StartBread(p) \/ StartScan(p)
  PROVE UInv' /\ OnlyUnusedChangeBlock
<1>1. current = p /\ proc[p].pc = "idle" /\ OnlyProc
  BY DEF StartBread, StartScan, At
<1>2. TypeOK /\ proc[p] \in ProcType  BY DEF IInv, TypeOK
<1>3. /\ Moves(p) /\ proc'[p].pc \in {"find", "sync", "inval"}
      /\ proc'[p].pc = "find" => proc'[p].op = "bread"
  <2>1. CASE StartBread(p)
    <3>1. PICK k \in Blocks : proc' = [proc EXCEPT ![p] =
                                 [@ EXCEPT !.pc = "find", !.op = "bread", !.want = k]]
      BY <2>1 DEF StartBread
    <3> DEFINE r == [proc[p] EXCEPT !.pc = "find", !.op = "bread", !.want = k]
    <3>2. r \in ProcType /\ r.pc = "find" /\ r.op = "bread"  BY <1>2 DEF ProcType, PCs
    <3>3. proc' = [proc EXCEPT ![p] = r]  BY <3>1
    <3> HIDE DEF r
    <3> QED BY <1>2, <3>2, <3>3, UpdateMoves
  <2>2. CASE StartScan(p)
    <3>1. PICK o \in Ops : proc' = [proc EXCEPT ![p] =
                                       [@ EXCEPT !.pc = o, !.op = o, !.b = 1]]
      BY <2>2 DEF StartScan
    <3>2. o \in {"sync", "inval"}  BY BufferCacheAssumption
    <3> DEFINE r == [proc[p] EXCEPT !.pc = o, !.op = o, !.b = 1]
    <3>3. r \in ProcType /\ r.pc = o  BY <1>2, <3>2, SlotsNat DEF ProcType, PCs
    <3>4. proc' = [proc EXCEPT ![p] = r]  BY <3>1
    <3> HIDE DEF r
    <3> QED BY <1>2, <3>2, <3>3, <3>4, UpdateMoves
  <2> QED BY <2>1, <2>2
<1>4. KeepsRefs(p)  BY <1>1, <1>3, BareRefs DEF BarePCs, OnlyProc
<1>5. UseOK(p)'  BY <1>3 DEF UseOK, GetBufferPCs, Queueing
<1> QED BY <1>1, <1>3, <1>4, <1>5, QuietUse DEF OnlyProc

LEMMA ModifyUse ==
  ASSUME IInv, UInv, NEW p \in Procs, Modify(p)
  PROVE UInv' /\ OnlyUnusedChangeBlock
<1>1. TypeOK  BY DEF IInv
<1>2. PICK i \in Bufs : buf' = [buf EXCEPT ![i] = [@ EXCEPT !.dirty = TRUE, !.mod = TRUE]]
  BY DEF Modify
<1> DEFINE r == [buf[i] EXCEPT !.dirty = TRUE, !.mod = TRUE]
<1>3. buf[i] \in BufType  BY <1>1 DEF TypeOK
<1>4. r.dirty /\ r.blk = buf[i].blk /\ r.count = buf[i].count
  BY <1>3 DEF BufType
<1>5. buf' = [buf EXCEPT ![i] = r]  BY <1>2
<1> HIDE DEF r
<1>6. buf'[i] = r /\ \A j \in Bufs : j # i => buf'[j] = buf[j]
  BY <1>1, <1>5 DEF TypeOK
<1>7. KeepsDirty /\ KeepsCounts
  BY <1>4, <1>6 DEF KeepsDirty, KeepsCounts, UInv, ModifiedIsDirty
<1>8. Moves(p) /\ proc' = proc /\ held' = held /\ current = p /\ proc[p].pc = "idle"
  BY <1>1 DEF Modify, Moves, TypeOK, At
<1>9. KeepsRefs(p)  BY <1>8, BareRefs DEF BarePCs
<1>10. UseOK(p)'  BY <1>8 DEF UseOK, GetBufferPCs, Queueing
<1> QED BY <1>7, <1>8, <1>9, <1>10, SteadyUse

LEMMA StartReleaseUse ==
  ASSUME IInv, UInv, NEW p \in Procs, StartRelease(p)
  PROVE UInv' /\ OnlyUnusedChangeBlock
<1>1. TypeOK  BY DEF IInv
<1>2. PICK i \in Bufs : /\ held[p][i] > 0
                        /\ held' = [held EXCEPT ![p][i] = @ - 1]
                        /\ GotoBuf(p, "rel", i)
  BY DEF StartRelease
<1>3. Moves(p) /\ proc'[p].pc = "rel" /\ proc'[p].b = i
  BY <1>1, <1>2, GotoBufMoves DEF PCs
<1>4. current = p /\ proc[p].pc = "idle" /\ buf' = buf
  BY DEF StartRelease, At
<1>5. KeepsRefs(p)
  <2>1. held[p] \in [Bufs -> Nat]  BY <1>1 DEF TypeOK
  <2>2. /\ held'[p][i] = held[p][i] - 1
        /\ \A j \in Bufs : j # i => held'[p][j] = held[p][j]
    BY <1>1, <1>2, <2>1 DEF TypeOK
  <2>3. \A j \in Bufs : ~CarriesRef(p, j) /\ (CarriesRef(p, j)' <=> j = i)
    BY <1>3, <1>4 DEF CarriesRef, RwPCs
  <2> QED BY <2>1, <2>2, <2>3 DEF KeepsRefs, Refs
<1>6. \A q \in Procs : q # p => held'[q] = held[q]
  BY <1>1, <1>2 DEF TypeOK
<1>7. UseOK(p)'  BY <1>3 DEF UseOK, GetBufferPCs, Queueing
<1>8. KeepsDirty /\ KeepsCounts
  BY <1>4 DEF KeepsDirty, KeepsCounts, UInv, ModifiedIsDirty
<1> QED BY <1>3, <1>4, <1>5, <1>6, <1>7, <1>8, SteadyUse

LEMMA FindPickUse ==
  ASSUME IInv, UInv, NEW p \in Procs, Find(p) \/ Pick(p)
  PROVE UInv' /\ OnlyUnusedChangeBlock
<1>1. TypeOK /\ UseOK(p)  BY DEF IInv, UInv, UsesOK
<1>2. current = p /\ proc[p].pc \in {"find", "pick"} /\ proc[p].op = "bread"
  BY <1>1 DEF Find, Pick, At, UseOK, GetBufferPCs
<1>3. CASE Pick(p) /\ SleepOn(p)
  BY <1>2, <1>3, SleepUse DEF Pick, At, SleepPCs
<1>4. CASE ~(Pick(p) /\ SleepOn(p))
  <2>1. /\ OnlyProc
        /\ \/ Goto(p, "pick")
           \/ \E i \in Bufs : GotoBuf(p, "found", i) \/ GotoBuf(p, "wait1", i)
    BY <1>4 DEF Find, Pick, At
  <2>2. Moves(p) /\ proc'[p].pc \in {"pick", "found", "wait1"} /\ proc'[p].op = "bread"
    BY <1>1, <1>2, <2>1, GotoMoves, GotoBufMoves DEF PCs
  <2>3. KeepsRefs(p)  BY <1>2, <2>1, <2>2, BareRefs DEF BarePCs, OnlyProc
  <2>4. UseOK(p)'  BY <2>2 DEF UseOK, Queueing
  <2> QED BY <1>2, <2>1, <2>2, <2>3, <2>4, QuietUse DEF OnlyProc
<1> QED BY <1>3, <1>4

LEMMA WaitUse ==
  ASSUME IInv, UInv, NEW p \in Procs, Wait1(p) \/ Wait2(p)
  PROVE UInv' /\ OnlyUnusedChangeBlock
<1>1. TypeOK /\ UseOK(p) /\ LocalsOK(p)  BY DEF IInv, LocalsDefined, UInv, UsesOK
<1> DEFINE i == proc[p].b
<1>2. current = p /\ proc[p].pc \in {"wait1", "wait2"} /\ proc[p].op = "bread" /\ i \in Bufs
  BY <1>1 DEF Wait1, Wait2, WaitThenCount, At, UseOK, GetBufferPCs, LocalsOK
<1>3. CASE SleepOn(p) /\ buf[i].locked
  BY <1>1, <1>2, <1>3, SleepUse DEF SleepPCs, UseOK
<1>4. CASE ~(SleepOn(p) /\ buf[i].locked)
  <2>1. /\ OnlyProc /\ ~buf[i].locked
        /\ \/ Goto(p, "pick") \/ Goto(p, "dirty")
           \/ Goto(p, "claim") /\ buf[i].count = 0 /\ ~buf[i].dirty
    <3>1. buf[i].count \in Nat  BY <1>1, <1>2 DEF TypeOK, BufType
    <3> QED BY <1>1, <1>4, <3>1 DEF Wait1, Wait2, WaitThenCount, At, UseOK
  <2>2. /\ Moves(p) /\ proc'[p].pc \in {"pick", "dirty", "claim"} /\ proc'[p].b = i
        /\ proc'[p].op = "bread"
        /\ proc'[p].pc = "claim" => buf[i].count = 0 /\ ~buf[i].dirty
    BY <1>1, <1>2, <2>1, GotoMoves DEF PCs
  <2>3. KeepsRefs(p)  BY <1>2, <2>1, <2>2, BareRefs DEF BarePCs, OnlyProc
  <2>4. UseOK(p)'  BY <1>2, <2>1, <2>2 DEF UseOK, Queueing, OnlyProc
  <2> QED BY <1>2, <2>1, <2>2, <2>3, <2>4, QuietUse DEF OnlyProc
<1> QED BY <1>3, <1>4

LEMMA WriteBackUse ==
  ASSUME IInv, UInv, NEW p \in Procs, WriteBack(p)
  PROVE UInv' /\ OnlyUnusedChangeBlock
<1>1. TypeOK /\ UseOK(p)  BY DEF IInv, UInv, UsesOK
<1> DEFINE i == proc[p].b
<1>2. /\ current = p /\ proc[p].pc = "dirty" /\ proc[p].op = "bread" /\ OnlyProc
      /\ \/ CallRw(p, WRITE)
         \/ Goto(p, "wait2") /\ ~buf[i].dirty /\ ~buf[i].locked
  BY <1>1 DEF WriteBack, At, UseOK, GetBufferPCs
<1>3. CASE CallRw(p, WRITE)
  <2>1. /\ Moves(p) /\ proc'[p].pc = "lock" /\ proc'[p].cmd = WRITE
    BY <1>1, <1>3, CallRwFields
  <2>2. KeepsRefs(p)
    BY <1>2, <2>1 DEF KeepsRefs, Refs, CarriesRef, RwPCs, OnlyProc, READ, WRITE
  <2>3. UseOK(p)'  BY <2>1 DEF UseOK, GetBufferPCs, Queueing
  <2> QED BY <1>2, <2>1, <2>2, <2>3, QuietUse DEF OnlyProc
<1>4. CASE Goto(p, "wait2") /\ ~buf[i].dirty /\ ~buf[i].locked
  <2>1. Moves(p) /\ proc'[p].pc = "wait2" /\ proc'[p].b = i /\ proc'[p].op = "bread"
    BY <1>1, <1>2, <1>4, GotoMoves DEF PCs
  <2>2. KeepsRefs(p)  BY <1>2, <2>1, BareRefs DEF BarePCs, OnlyProc
  <2>3. UseOK(p)'  BY <1>2, <1>4, <2>1 DEF UseOK, Queueing, OnlyProc
  <2> QED BY <1>2, <2>1, <2>2, <2>3, QuietUse DEF OnlyProc
<1> QED BY <1>2, <1>3, <1>4

(* p takes a reference of buffer i, or gives one back, and nobody else     *)
(* does anything.                                                          *)
OnlyRefOf(p, i, n) ==
  /\ Refs(p, i)' = n
  /\ \A q \in Procs, j \in Bufs : q # p \/ j # i => Refs(q, j)' = Refs(q, j)
  /\ \A j \in Bufs : j # i => buf'[j].count = buf[j].count

LEMMA CountFollows ==
  ASSUME TypeOK, Counted, NEW p \in Procs, NEW i \in Bufs, NEW n \in Nat,
         OnlyRefOf(p, i, n), buf'[i].count = buf[i].count - Refs(p, i) + n
  PROVE  Counted'
<1>1. PICK R \in [Procs -> Nat] : R = RefsOf(i)
  BY RefsTyped
<1>2. R[p] = Refs(p, i)
  BY <1>1 DEF RefsOf
<1>3. PICK S \in [Procs -> Nat] : S = [R EXCEPT ![p] = n]
  OBVIOUS
<1>4. RefsOf(i)' = S
  <2>1. \A q \in Procs : S[q] = Refs(q, i)'
    BY <1>1, <1>3 DEF RefsOf, OnlyRefOf
  <2> QED BY <2>1 DEF RefsOf
<1>5. \A j \in Bufs : j # i => RefsOf(j)' = RefsOf(j)
  BY DEF RefsOf, OnlyRefOf
<1>6. IsFiniteSet(Units(S)) /\ Total(S) = Total(R) - R[p] + S[p]
  <2>1. AllBut(p, R, S)  BY <1>3 DEF AllBut
  <2>2. IsFiniteSet(Units(R))  BY <1>1 DEF Counted
  <2> QED BY <2>1, <2>2, TotalChanges
<1>7. buf'[i].count = Total(S)
  BY <1>1, <1>2, <1>3, <1>6 DEF Counted
<1> QED BY <1>4, <1>5, <1>6, <1>7 DEF Counted, OnlyRefOf

LEMMA FoundUse ==
  ASSUME IInv, UInv, CountHasRoom, NEW p \in Procs, Found(p)
  PROVE UInv' /\ OnlyUnusedChangeBlock
<1>1. TypeOK /\ UseOK(p) /\ LocalsOK(p)  BY DEF IInv, LocalsDefined, UInv, UsesOK
<1> DEFINE i == proc[p].b
           r == [buf[i] EXCEPT !.count = buf[i].count + 1]
<1>2. current = p /\ proc[p].pc = "found" /\ proc[p].op = "bread" /\ i \in Bufs
      /\ held' = held
  BY <1>1 DEF Found, At, UseOK, GetBufferPCs, LocalsOK
<1>3. Moves(p) /\ proc'[p].pc = "got" /\ proc'[p].b = i /\ proc'[p].op = "bread"
  BY <1>1, <1>2, GotoMoves DEF Found, PCs
<1>4. buf[i] \in BufType  BY <1>1, <1>2 DEF TypeOK
<1>5. /\ r.count = buf[i].count + 1 /\ r.blk = buf[i].blk /\ r.dirty = buf[i].dirty
      /\ r.mod = buf[i].mod
  BY <1>4 DEF BufType
<1>6. buf' = [buf EXCEPT ![i] = r]
  <2>1. buf[i].count \in Nat /\ buf[i].count + 1 < CountSize /\ CountSize \in Nat
    BY <1>2, <1>4, BufferCacheAssumption DEF BufType, CountHasRoom
  <2> DEFINE c == buf[i].count
  <2> HIDE DEF c
  <2>2. c \in Nat /\ c + 1 < CountSize /\ CountSize \in Nat  BY <2>1 DEF c
  <2>3. (c + 1) % CountSize = c + 1  BY <2>2
  <2>4. (buf[i].count + 1) % CountSize = buf[i].count + 1  BY <2>3 DEF c
  <2>5. buf' = [buf EXCEPT ![i].count = (@ + 1) % CountSize]  BY DEF Found
  <2> QED BY <2>4, <2>5
<1> HIDE DEF r
<1>7. buf'[i] = r /\ \A j \in Bufs : j # i => buf'[j] = buf[j]
  BY <1>1, <1>2, <1>6 DEF TypeOK
<1>8. KeepsDirty /\ OnlyUnusedChangeBlock
  BY <1>5, <1>7 DEF KeepsDirty, OnlyUnusedChangeBlock, UInv, ModifiedIsDirty
<1>9. UseOK(p)'  BY <1>3 DEF UseOK, Queueing
<1>10. UsesOK'  BY <1>2, <1>3, <1>8, <1>9, OthersUse
<1>11. Counted'
  <2>1. \A j \in Bufs : ~CarriesRef(p, j) /\ (CarriesRef(p, j)' <=> j = i)
    BY <1>2, <1>3 DEF CarriesRef, RwPCs
  <2>2. \A j \in Bufs : Refs(p, j)' = IF j = i THEN Refs(p, j) + 1 ELSE Refs(p, j)
    <3>1. \A j \in Bufs : held[p][j] \in Nat  BY <1>1 DEF TypeOK
    <3> QED BY <1>2, <2>1, <3>1 DEF Refs
  <2>3. OnlyRefOf(p, i, Refs(p, i) + 1)
    BY <1>2, <1>3, <1>7, <2>2, OthersRefs DEF OnlyRefOf
  <2>4. PICK n \in Nat : n = Refs(p, i) + 1
    BY <1>1, <1>2, RefsTyped
  <2>5. buf'[i].count = buf[i].count - Refs(p, i) + n
    BY <1>1, <1>2, <1>4, <1>5, <1>7, <2>4, RefsTyped DEF BufType
  <2>6. OnlyRefOf(p, i, n)
    BY <2>3, <2>4
  <2> QED BY <1>1, <1>2, <2>5, <2>6, CountFollows DEF UInv
<1> QED BY <1>8, <1>10, <1>11 DEF UInv, KeepsDirty, ModifiedIsDirty

LEMMA ClaimUse ==
  ASSUME IInv, UInv, NEW p \in Procs, Claim(p)
  PROVE UInv' /\ OnlyUnusedChangeBlock
<1>1. TypeOK /\ UseOK(p) /\ LocalsOK(p)  BY DEF IInv, LocalsDefined, UInv, UsesOK
<1> DEFINE i == proc[p].b
           r == [buf[i] EXCEPT !.blk = proc[p].want, !.uptodate = FALSE,
                               !.dirty = FALSE, !.count = 1, !.mod = FALSE]
<1>2. /\ current = p /\ proc[p].pc = "claim" /\ proc[p].op = "bread" /\ i \in Bufs
      /\ held' = held /\ ~buf[i].locked /\ ~buf[i].dirty /\ buf[i].count = 0
  BY <1>1 DEF Claim, At, UseOK, GetBufferPCs, LocalsOK
<1>3. Moves(p) /\ proc'[p].pc = "got" /\ proc'[p].b = i /\ proc'[p].op = "bread"
  BY <1>1, <1>2, GotoMoves DEF Claim, PCs
<1>4. buf[i] \in BufType  BY <1>1, <1>2 DEF TypeOK
<1>5. r.count = buf[i].count + 1 /\ ~r.mod
  BY <1>2, <1>4 DEF BufType
<1>6. buf' = [buf EXCEPT ![i] = r]  BY DEF Claim
<1> HIDE DEF r
<1>7. buf'[i] = r /\ \A j \in Bufs : j # i => buf'[j] = buf[j]
  BY <1>1, <1>2, <1>6 DEF TypeOK
<1>8. KeepsDirty /\ OnlyUnusedChangeBlock
  BY <1>2, <1>5, <1>7 DEF KeepsDirty, OnlyUnusedChangeBlock, UInv, ModifiedIsDirty
<1>9. UseOK(p)'  BY <1>3 DEF UseOK, Queueing
<1>10. UsesOK'  BY <1>2, <1>3, <1>8, <1>9, OthersUse
<1>11. Counted'
  <2>1. \A j \in Bufs : ~CarriesRef(p, j) /\ (CarriesRef(p, j)' <=> j = i)
    BY <1>2, <1>3 DEF CarriesRef, RwPCs
  <2>2. \A j \in Bufs : Refs(p, j)' = IF j = i THEN Refs(p, j) + 1 ELSE Refs(p, j)
    <3>1. \A j \in Bufs : held[p][j] \in Nat  BY <1>1 DEF TypeOK
    <3> QED BY <1>2, <2>1, <3>1 DEF Refs
  <2>3. OnlyRefOf(p, i, Refs(p, i) + 1)
    BY <1>2, <1>3, <1>7, <2>2, OthersRefs DEF OnlyRefOf
  <2>4. PICK n \in Nat : n = Refs(p, i) + 1
    BY <1>1, <1>2, RefsTyped
  <2>5. buf'[i].count = buf[i].count - Refs(p, i) + n
    BY <1>1, <1>2, <1>4, <1>5, <1>7, <2>4, RefsTyped DEF BufType
  <2>6. OnlyRefOf(p, i, n)
    BY <2>3, <2>4
  <2> QED BY <1>1, <1>2, <2>5, <2>6, CountFollows DEF UInv
<1> QED BY <1>8, <1>10, <1>11 DEF UInv, KeepsDirty, ModifiedIsDirty

LEMMA HoldUse ==
  ASSUME IInv, UInv, NEW p \in Procs, current = p, proc[p].pc \in {"got", "waitR"}, Hold(p)
  PROVE UInv' /\ OnlyUnusedChangeBlock
<1>1. TypeOK /\ LocalsOK(p)  BY DEF IInv, LocalsDefined
<1> DEFINE i == proc[p].b
<1>2. i \in Bufs  BY <1>1 DEF LocalsOK
<1>3. Moves(p) /\ proc'[p].pc = "idle" /\ buf' = buf
  BY <1>1, LeaveMoves DEF Hold
<1>4. /\ \A j \in Bufs : held'[p][j] = held[p][j] + (IF j = i THEN 1 ELSE 0)
      /\ \A q \in Procs : q # p => held'[q] = held[q]
  BY <1>1, <1>2 DEF Hold, TypeOK
<1>5. \A j \in Bufs : ~CarriesRef(p, j)' /\ (CarriesRef(p, j) <=> j = i)
  BY <1>2, <1>3 DEF CarriesRef, RwPCs
<1>6. KeepsRefs(p)
  <2>1. \A j \in Bufs : held[p][j] \in Nat  BY <1>1 DEF TypeOK
  <2> QED BY <1>4, <1>5, <2>1 DEF KeepsRefs, Refs
<1>7. UseOK(p)'  BY <1>3 DEF UseOK, GetBufferPCs, Queueing
<1>8. KeepsDirty /\ KeepsCounts
  BY <1>3 DEF KeepsDirty, KeepsCounts, UInv, ModifiedIsDirty
<1> QED BY <1>3, <1>4, <1>6, <1>7, <1>8, SteadyUse

LEMMA BreadUse ==
  ASSUME IInv, UInv, NEW p \in Procs, Got(p) \/ WaitRead(p)
  PROVE UInv' /\ OnlyUnusedChangeBlock
<1>1. TypeOK /\ UseOK(p)  BY DEF IInv, UInv, UsesOK
<1>2. current = p /\ proc[p].pc \in {"got", "waitR"} /\ proc[p].op = "bread"
  BY <1>1 DEF Got, WaitRead, At, UseOK, GetBufferPCs
<1>3. CASE Hold(p)
  BY <1>2, <1>3, HoldUse
<1>4. CASE WaitRead(p) /\ SleepOn(p)
  BY <1>2, <1>4, SleepUse DEF WaitRead, At, SleepPCs
<1>5. CASE OnlyProc /\ (CallRw(p, READ) \/ Goto(p, "rel"))
  <2>1. /\ Moves(p) /\ proc'[p].pc \in {"lock", "rel"} /\ proc'[p].b = proc[p].b
        /\ proc'[p].op = "bread"
        /\ proc'[p].pc = "lock" => proc'[p].cmd = READ
    BY <1>1, <1>2, <1>5, GotoMoves, CallRwFields DEF PCs
  <2>2. \A j \in Bufs : CarriesRef(p, j)' <=> CarriesRef(p, j)
    BY <1>2, <2>1 DEF CarriesRef, RwPCs
  <2>3. KeepsRefs(p)  BY <1>5, <2>2 DEF KeepsRefs, Refs, OnlyProc
  <2>4. UseOK(p)'  BY <2>1 DEF UseOK, GetBufferPCs, Queueing
  <2> QED BY <1>2, <1>5, <2>1, <2>3, <2>4, QuietUse DEF OnlyProc
<1> QED BY <1>3, <1>4, <1>5 DEF Got, WaitRead

LEMMA ReleaseUse ==
  ASSUME IInv, UInv, NEW p \in Procs, Release(p)
  PROVE UInv' /\ OnlyUnusedChangeBlock
<1>1. TypeOK /\ LocalsOK(p)  BY DEF IInv, LocalsDefined
<1>2. current = p /\ proc[p].pc = "rel" /\ proc[p].b \in Bufs
  BY <1>1 DEF Release, At, LocalsOK
<1> PICK i \in Bufs : i = proc[p].b
  BY <1>2
<1>3. buf[i] \in BufType  BY <1>1, <1>2 DEF TypeOK
<1>4. held[p][i] \in Nat /\ CarriesRef(p, i) /\ Refs(p, i) > 0
  BY <1>1, <1>2 DEF TypeOK, Refs, CarriesRef
<1>5. CASE SleepOn(p)
  BY <1>2, <1>5, SleepUse DEF SleepPCs
<1>6. CASE OnlyProc /\ Goto(p, "halt") /\ buf[i].count = 0
  BY <1>1, <1>2, <1>4, <1>6, UncountedIsUnused DEF UInv
<1>7. CASE /\ buf[i].count > 0 /\ Leave(p) /\ held' = held
           /\ buf' = [buf EXCEPT ![i].count = @ - 1]
  <2> DEFINE r == [buf[i] EXCEPT !.count = buf[i].count - 1]
  <2>1. Moves(p) /\ proc'[p].pc = "idle"
    BY <1>1, <1>7, LeaveMoves
  <2>2. /\ r.count = buf[i].count - 1 /\ r.blk = buf[i].blk /\ r.dirty = buf[i].dirty
        /\ r.mod = buf[i].mod
    BY <1>3 DEF BufType
  <2>3. buf' = [buf EXCEPT ![i] = r]  BY <1>7
  <2> HIDE DEF r
  <2>4. buf'[i] = r /\ \A j \in Bufs : j # i => buf'[j] = buf[j]
    BY <1>1, <1>2, <2>3 DEF TypeOK
  <2>5. KeepsDirty /\ OnlyUnusedChangeBlock
    BY <2>2, <2>4 DEF KeepsDirty, OnlyUnusedChangeBlock, UInv, ModifiedIsDirty
  <2>6. UseOK(p)'  BY <2>1 DEF UseOK, GetBufferPCs, Queueing
  <2>7. UsesOK'  BY <1>2, <2>1, <2>5, <2>6, OthersUse
  <2>8. \A j \in Bufs : ~CarriesRef(p, j)' /\ (CarriesRef(p, j) <=> j = i)
    BY <1>2, <2>1 DEF CarriesRef, RwPCs
  <2>9. PICK m \in Nat : m = held[p][i]  BY <1>4
  <2>10. Refs(p, i) = m + 1 /\ OnlyRefOf(p, i, m)
    <3>1. Refs(p, i) = m + 1 /\ Refs(p, i)' = m
      <4>1. CarriesRef(p, i) /\ ~CarriesRef(p, i)'  BY <1>2, <1>4, <2>8
      <4>2. Refs(p, i) = m + 1  BY <2>9, <4>1 DEF Refs
      <4>3. Refs(p, i)' = m  BY <1>7, <2>9, <4>1 DEF Refs
      <4> QED BY <4>2, <4>3
    <3>2. \A j \in Bufs : j # i => Refs(p, j)' = Refs(p, j) /\ buf'[j].count = buf[j].count
      BY <1>7, <2>4, <2>8 DEF Refs
    <3>3. ASSUME NEW q \in Procs, NEW j \in Bufs, q # p PROVE Refs(q, j)' = Refs(q, j)
      BY <1>7, <2>1, <3>3, OthersRefs
    <3> QED BY <3>1, <3>2, <3>3 DEF OnlyRefOf
  <2>11. Counted'
    <3>1. buf'[i].count = buf[i].count - Refs(p, i) + m
      BY <1>3, <2>2, <2>4, <2>10 DEF BufType
    <3> QED BY <1>1, <2>10, <3>1, CountFollows DEF UInv
  <2> QED BY <2>5, <2>7, <2>11 DEF UInv, KeepsDirty, ModifiedIsDirty
<1> QED BY <1>5, <1>6, <1>7 DEF Release

LEMMA ScanUse ==
  ASSUME IInv, UInv, NEW p \in Procs, Sync(p) \/ Invalidate(p)
  PROVE UInv' /\ OnlyUnusedChangeBlock
<1>1. TypeOK /\ LocalsOK(p)  BY DEF IInv, LocalsDefined
<1>2. current = p /\ proc[p].pc \in {"sync", "inval"} /\ proc[p].b \in Bufs
      /\ proc[p].op \in {"sync", "inval"}
  BY <1>1 DEF Sync, Invalidate, At, LocalsOK
<1> PICK i \in Bufs : i = proc[p].b
  BY <1>2
<1>3. CASE SleepOn(p)
  BY <1>2, <1>3, SleepUse DEF SleepPCs
<1>4. CASE ~SleepOn(p)
  <2>1. /\ held' = held
        /\ \/ NextInScan(p) /\ buf' = buf
           \/ CallRw(p, WRITE) /\ buf' = buf
           \/ /\ NextInScan(p) /\ ~buf[i].locked
              /\ buf' = [buf EXCEPT ![i] = [@ EXCEPT !.dirty = FALSE, !.mod = FALSE,
                                                     !.uptodate = FALSE]]
    BY <1>4 DEF Sync, Invalidate, OnlyProc
  <2>2. /\ Moves(p) /\ proc'[p].pc \in {"idle", "sync", "inval", "lock"}
        /\ proc'[p].pc = "lock" => proc'[p].cmd = WRITE
    BY <1>1, <1>2, <2>1, ScanMoves, CallRwFields
  <2>3. KeepsRefs(p)
    BY <1>2, <2>1, <2>2 DEF KeepsRefs, Refs, CarriesRef, RwPCs, READ, WRITE
  <2>4. UseOK(p)'  BY <2>2 DEF UseOK, GetBufferPCs, Queueing
  <2>5. KeepsDirty /\ KeepsCounts
    <3>1. CASE buf' = buf
      BY <3>1 DEF KeepsDirty, KeepsCounts, UInv, ModifiedIsDirty
    <3>2. CASE buf' # buf
      <4> DEFINE r == [buf[i] EXCEPT !.dirty = FALSE, !.mod = FALSE, !.uptodate = FALSE]
      <4>1. buf' = [buf EXCEPT ![i] = r] /\ ~buf[i].locked
        BY <2>1, <3>2
      <4>2. buf[i] \in BufType  BY <1>1 DEF TypeOK
      <4>3. r.blk = buf[i].blk /\ r.count = buf[i].count /\ ~r.mod
        BY <4>2 DEF BufType
      <4> HIDE DEF r
      <4>4. buf'[i] = r /\ \A j \in Bufs : j # i => buf'[j] = buf[j]
        BY <1>1, <4>1 DEF TypeOK
      <4> QED BY <4>1, <4>3, <4>4 DEF KeepsDirty, KeepsCounts, UInv, ModifiedIsDirty
    <3> QED BY <3>1, <3>2
  <2> QED BY <1>2, <2>1, <2>2, <2>3, <2>4, <2>5, SteadyUse
<1> QED BY <1>3, <1>4

(* rw_blk on its way: what it carries it goes on carrying. *)
LEMMA RwRefs ==
  ASSUME NEW p \in Procs, proc[p].pc \in RwPCs, proc'[p].pc \in RwPCs,
         proc'[p].b = proc[p].b, proc'[p].op = proc[p].op, proc'[p].cmd = proc[p].cmd,
         held' = held
  PROVE KeepsRefs(p)
<1>1. proc[p].pc \notin {"got", "waitR", "rel"} /\ proc'[p].pc \notin {"got", "waitR", "rel"}
  BY DEF RwPCs
<1> QED BY <1>1 DEF KeepsRefs, Refs, CarriesRef

(* And so do the callers of rw_blk when it returns. *)
LEMMA AfterRwRefs ==
  ASSUME TypeOK, NEW p \in Procs, proc[p].pc \in RwPCs, proc[p].b \in Bufs,
         AfterRw(p), held' = held
  PROVE KeepsRefs(p)
<1>1. /\ proc[p].op = "bread"
            => /\ proc'[p].pc = (IF proc[p].cmd = READ THEN "waitR" ELSE "dirty")
               /\ proc'[p].b = proc[p].b
      /\ proc[p].op # "bread" => proc'[p].pc \in {"idle", "sync", "inval"}
  BY AfterRwFields
<1>2. \A i \in Bufs : CarriesRef(p, i)' <=> CarriesRef(p, i)
  BY <1>1 DEF CarriesRef, RwPCs
<1> QED BY <1>2 DEF KeepsRefs, Refs

LEMMA LocksUse ==
  ASSUME IInv, UInv, NEW p \in Procs, NEW i \in Bufs, NEW f \in BOOLEAN,
         buf' = [buf EXCEPT ![i] = [@ EXCEPT !.locked = f]]
  PROVE /\ KeepsDirty /\ KeepsCounts
        /\ buf'[i].locked = f /\ buf'[i].dirty = buf[i].dirty
<1> DEFINE r == [buf[i] EXCEPT !.locked = f]
<1>1. TypeOK /\ buf[i] \in BufType  BY DEF IInv, TypeOK
<1>2. /\ r.locked = f /\ r.blk = buf[i].blk /\ r.count = buf[i].count
      /\ r.dirty = buf[i].dirty /\ r.mod = buf[i].mod
  BY <1>1 DEF BufType
<1>3. buf' = [buf EXCEPT ![i] = r]  OBVIOUS
<1> HIDE DEF r
<1>4. buf'[i] = r /\ \A j \in Bufs : j # i => buf'[j] = buf[j]
  BY <1>1, <1>3 DEF TypeOK
<1> QED BY <1>2, <1>4 DEF KeepsDirty, KeepsCounts, UInv, ModifiedIsDirty

LEMMA LockUse ==
  ASSUME IInv, UInv, NEW p \in Procs, Lock(p)
  PROVE UInv' /\ OnlyUnusedChangeBlock
<1>1. TypeOK /\ LocalsOK(p)  BY DEF IInv, LocalsDefined
<1>2. current = p /\ proc[p].pc = "lock" /\ proc[p].b \in Bufs
  BY <1>1 DEF Lock, At, LocalsOK
<1>3. CASE SleepOn(p)
  BY <1>2, <1>3, SleepUse DEF SleepPCs
<1>4. CASE ~SleepOn(p)
  <2>1. /\ Moves(p) /\ proc'[p].pc = "test" /\ proc'[p].b = proc[p].b
        /\ proc'[p].op = proc[p].op /\ proc'[p].cmd = proc[p].cmd /\ held' = held
    BY <1>1, <1>4, GotoMoves DEF Lock, PCs
  <2>2. KeepsDirty /\ KeepsCounts  BY <1>2, <1>4, LocksUse DEF Lock
  <2>3. KeepsRefs(p)  BY <1>2, <2>1, RwRefs DEF RwPCs
  <2>4. UseOK(p)'  BY <2>1 DEF UseOK, GetBufferPCs, Queueing
  <2> QED BY <1>2, <2>1, <2>2, <2>3, <2>4, SteadyUse
<1> QED BY <1>3, <1>4

LEMMA TestUse ==
  ASSUME IInv, UInv, NEW p \in Procs, Test(p)
  PROVE UInv' /\ OnlyUnusedChangeBlock
<1>1. TypeOK /\ LocalsOK(p) /\ proc[p] \in ProcType
  BY DEF IInv, LocalsDefined, TypeOK
<1>2. current = p /\ proc[p].pc = "test" /\ proc[p].b \in Bufs /\ held' = held
  BY <1>1 DEF Test, At, LocalsOK, OnlyProc
<1> PICK i \in Bufs : i = proc[p].b
  BY <1>2
<1>3. CASE OnlyProc /\ Goto(p, "slot") /\ (proc[p].cmd = WRITE => buf[i].dirty)
  <2>1. /\ Moves(p) /\ proc'[p].pc = "slot" /\ proc'[p].b = i
        /\ proc'[p].op = proc[p].op /\ proc'[p].cmd = proc[p].cmd
    BY <1>1, <1>3, GotoMoves DEF PCs
  <2>2. KeepsRefs(p)  BY <1>2, <2>1, RwRefs DEF RwPCs
  <2>3. UseOK(p)'  BY <1>3, <2>1 DEF UseOK, GetBufferPCs, Queueing, OnlyProc
  <2> QED BY <1>2, <1>3, <2>1, <2>2, <2>3, QuietUse DEF OnlyProc
<1>4. CASE AfterRw(p) /\ buf' = [buf EXCEPT ![i] = [@ EXCEPT !.locked = FALSE]]
  <2>1. KeepsDirty /\ KeepsCounts /\ ~buf'[i].locked  BY <1>4, LocksUse
  <2>2. /\ Moves(p)
        /\ proc'[p].pc \in {"waitR", "dirty", "idle", "sync", "inval"}
        /\ proc'[p].pc \in {"waitR", "dirty"} => proc'[p].b = i /\ proc'[p].op = "bread"
    BY <1>1, <1>2, <1>4, AfterRwFields
  <2>3. KeepsRefs(p)  BY <1>1, <1>2, <1>4, AfterRwRefs DEF RwPCs
  <2>4. UseOK(p)'  BY <2>1, <2>2 DEF UseOK, GetBufferPCs, Queueing
  <2> QED BY <1>2, <2>1, <2>2, <2>3, <2>4, SteadyUse
<1>5. Test(p) => \/ OnlyProc /\ Goto(p, "slot") /\ (proc[p].cmd = WRITE => buf[i].dirty)
                 \/ AfterRw(p) /\ buf' = [buf EXCEPT ![i] = [@ EXCEPT !.locked = FALSE]]
  BY DEF Test, READ, WRITE
<1> QED BY <1>3, <1>4, <1>5

LEMMA SlotFillUse ==
  ASSUME IInv, UInv, NEW p \in Procs, Slot(p) \/ Fill(p)
  PROVE UInv' /\ OnlyUnusedChangeBlock
<1>1. TypeOK /\ LocalsOK(p) /\ UseOK(p) /\ proc[p] \in ProcType
  BY DEF IInv, LocalsDefined, TypeOK, UInv, UsesOK
<1>2. current = p /\ proc[p].pc \in {"slot", "fill"} /\ proc[p].b \in Bufs
  BY <1>1 DEF Slot, Fill, At, LocalsOK
<1>3. CASE SleepOn(p) /\ proc[p].pc = "slot"
  BY <1>2, <1>3, SleepUse DEF SleepPCs
<1>4. CASE ~(SleepOn(p) /\ proc[p].pc = "slot")
  <2>1. /\ Moves(p) /\ proc'[p].pc \in {"fill", "add"} /\ proc'[p].b = proc[p].b
        /\ proc'[p].op = proc[p].op /\ proc'[p].cmd = proc[p].cmd
        /\ UNCHANGED <<current, held, buf>>
    <3>1. CASE Slot(p)
      <4>1. PICK s \in Slots :
              OnlyProc /\ proc' = [proc EXCEPT ![p] = [@ EXCEPT !.pc = "fill", !.slot = s]]
        BY <1>4, <3>1 DEF Slot, At
      <4> DEFINE r == [proc[p] EXCEPT !.pc = "fill", !.slot = s]
      <4>2. /\ r \in ProcType /\ r.pc = "fill" /\ r.b = proc[p].b
            /\ r.op = proc[p].op /\ r.cmd = proc[p].cmd
        BY <1>1 DEF ProcType, PCs
      <4>3. proc' = [proc EXCEPT ![p] = r]  BY <4>1
      <4> HIDE DEF r
      <4> QED BY <1>1, <4>1, <4>2, <4>3, UpdateMoves DEF OnlyProc
    <3>2. CASE Fill(p)
      BY <1>1, <3>2, GotoMoves DEF Fill, PCs
    <3> QED BY <3>1, <3>2
  <2>2. KeepsRefs(p)  BY <1>2, <2>1, RwRefs DEF RwPCs
  <2>3. UseOK(p)'  BY <1>1, <1>2, <2>1 DEF UseOK, GetBufferPCs, Queueing
  <2> QED BY <1>2, <2>1, <2>2, <2>3, QuietUse
<1> QED BY <1>3, <1>4

LEMMA QueueingUse ==
  ASSUME IInv, UInv, NEW p \in Procs, Add(p) \/ ReadHead(p) \/ Walk(p) \/ Link(p)
  PROVE UInv' /\ OnlyUnusedChangeBlock
<1>1. TypeOK /\ LocalsOK(p) /\ UseOK(p) /\ proc[p] \in ProcType
  BY DEF IInv, LocalsDefined, TypeOK, UInv, UsesOK
<1>2. /\ current = p /\ proc[p].pc \in Queueing /\ proc[p].b \in Bufs
      /\ UNCHANGED <<current, held, buf>>
  BY <1>1 DEF Add, ReadHead, Walk, Link, At, LocalsOK, Queueing, OnlyProc
<1>3. CASE AfterRw(p)
  <2>1. /\ Moves(p)
        /\ proc'[p].pc \in {"waitR", "dirty", "idle", "sync", "inval"}
        /\ proc'[p].pc \in {"waitR", "dirty"} => proc'[p].op = "bread"
        /\ proc'[p].pc = "dirty" => proc'[p].b = proc[p].b /\ proc[p].cmd = WRITE
    BY <1>1, <1>2, <1>3, AfterRwFields DEF ProcType
  <2>2. KeepsRefs(p)  BY <1>1, <1>2, <1>3, AfterRwRefs DEF RwPCs, Queueing
  <2>3. UseOK(p)'  BY <1>1, <1>2, <2>1 DEF UseOK, GetBufferPCs, Queueing
  <2> QED BY <1>2, <2>1, <2>2, <2>3, QuietUse
<1>4. CASE ~AfterRw(p)
  <2>1. PICK l \in {"read", "walk", "link"}, t \in Slots \union {NoReq} :
          proc' = [proc EXCEPT ![p] = [@ EXCEPT !.pc = l, !.tmp = t]]
    <3>0. CASE Add(p)
      <4>1. [proc[p] EXCEPT !.pc = "read"] = [proc[p] EXCEPT !.pc = "read", !.tmp = proc[p].tmp]
        BY <1>1 DEF ProcType
      <4> QED BY <1>1, <1>4, <3>0, <4>1 DEF Add, Goto, ProcType
    <3>1. CASE ReadHead(p)
      BY <1>1, <1>4, <3>1 DEF ReadHead, TypeOK
    <3>2. CASE Walk(p) /\ Goto(p, "link")
      <4>1. [proc[p] EXCEPT !.pc = "link"] = [proc[p] EXCEPT !.pc = "link", !.tmp = proc[p].tmp]
        BY <1>1 DEF ProcType
      <4> QED BY <1>1, <3>2, <4>1 DEF Goto, ProcType
    <3>3. CASE Walk(p) /\ ~Goto(p, "link")
      <4> DEFINE t == req[proc[p].tmp].next
      <4>1. t \in Slots \union {NoReq}
        BY <1>1, <3>3 DEF Walk, At, LocalsOK, TypeOK, ReqType
      <4>2. proc[p].pc = "walk" /\ proc' = [proc EXCEPT ![p] = [@ EXCEPT !.tmp = t]]
        BY <3>3 DEF Walk, At
      <4>3. [proc[p] EXCEPT !.tmp = t] = [proc[p] EXCEPT !.pc = "walk", !.tmp = t]
        BY <1>1, <4>2 DEF ProcType
      <4> QED BY <4>1, <4>2, <4>3
    <3> QED BY <1>4, <3>0, <3>1, <3>2, <3>3 DEF Link
  <2> DEFINE r == [proc[p] EXCEPT !.pc = l, !.tmp = t]
  <2>2. /\ r \in ProcType /\ r.pc = l /\ r.b = proc[p].b
        /\ r.op = proc[p].op /\ r.cmd = proc[p].cmd
    BY <1>1 DEF ProcType, PCs
  <2>3. proc' = [proc EXCEPT ![p] = r]  BY <2>1
  <2> HIDE DEF r
  <2>4. /\ Moves(p) /\ proc'[p].pc = l /\ proc'[p].b = proc[p].b
        /\ proc'[p].op = proc[p].op /\ proc'[p].cmd = proc[p].cmd
    BY <1>1, <2>2, <2>3, UpdateMoves
  <2>5. KeepsRefs(p)  BY <1>2, <2>4, RwRefs DEF RwPCs, Queueing
  <2>6. UseOK(p)'  BY <1>1, <1>2, <2>4 DEF UseOK, GetBufferPCs, Queueing
  <2> QED BY <1>2, <2>4, <2>5, <2>6, QuietUse
<1> QED BY <1>3, <1>4

LEMMA EndRequestUse ==
  ASSUME IInv, UInv, EndRequest
  PROVE UInv' /\ OnlyUnusedChangeBlock
<1>1. TypeOK  BY DEF IInv
<1>2. cur \in Slots /\ req[cur].b \in Bufs /\ UNCHANGED <<current, proc, held>>
  <2>1. PICK Q \in SUBSET Slots : IsQueue(Q)  BY DEF IInv, QueueOK
  <2> QED BY <2>1 DEF EndRequest, IsQueue, IInv, BusyHasBuffer
<1> PICK i \in Bufs : i = req[cur].b
  BY <1>2
<1>3. PICK ok \in Outcomes :
        buf' = [buf EXCEPT ![i] = [@ EXCEPT !.uptodate = ok, !.locked = FALSE,
                                            !.mod = buf[i].mod /\ ~ok]]
  BY DEF EndRequest
<1> DEFINE m == buf[i].mod /\ ~ok
           r == [buf[i] EXCEPT !.uptodate = ok, !.locked = FALSE, !.mod = m]
<1>4. buf[i] \in BufType  BY <1>1 DEF TypeOK
<1>5. m => buf[i].mod  OBVIOUS
<1>6. buf' = [buf EXCEPT ![i] = r]  BY <1>3
<1> HIDE DEF m
<1>7. /\ r.blk = buf[i].blk /\ r.count = buf[i].count /\ r.dirty = buf[i].dirty
      /\ r.locked = FALSE /\ r.mod = m
  BY <1>4 DEF BufType
<1> HIDE DEF r
<1>8. buf'[i] = r /\ \A j \in Bufs : j # i => buf'[j] = buf[j]
  BY <1>1, <1>6 DEF TypeOK
<1>9. \A j \in Bufs : /\ buf'[j].blk = buf[j].blk /\ buf'[j].count = buf[j].count
                      /\ buf'[j].dirty = buf[j].dirty
                      /\ buf'[j].locked => buf[j].locked
                      /\ buf'[j].mod => buf[j].mod
  BY <1>5, <1>7, <1>8
<1>10. UsesOK'
  <2>1. SUFFICES ASSUME NEW p \in Procs PROVE UseOK(p)'
    BY DEF UsesOK
  <2>2. UseOK(p) /\ LocalsOK(p)  BY DEF UInv, UsesOK, IInv, LocalsDefined
  <2>3. proc[p].pc \in {"dirty", "wait2", "claim", "slot", "fill"} \union Queueing
          => proc[p].b \in Bufs
    BY <2>2 DEF LocalsOK, Queueing
  <2> QED BY <1>2, <1>9, <2>2, <2>3 DEF UseOK
<1>11. ModifiedIsDirty'  BY <1>9 DEF UInv, ModifiedIsDirty
<1>12. Counted' /\ OnlyUnusedChangeBlock
  <2>1. KeepsCounts /\ \A p \in Procs : KeepsRefs(p)
    BY <1>2, <1>9 DEF KeepsCounts, KeepsRefs, Refs, CarriesRef
  <2> QED BY <2>1, SameReferences DEF UInv
<1> QED BY <1>10, <1>11, <1>12 DEF UInv

-----------------------------------------------------------------------------
LEMMA InitUse == Init => UInv
<1> SUFFICES ASSUME Init PROVE UInv
  OBVIOUS
<1>1. UsesOK /\ ModifiedIsDirty
  BY DEF Init, Outside, UsesOK, UseOK, GetBufferPCs, Queueing, ModifiedIsDirty
<1>2. TypeOK
  BY InitKeeps DEF IInv
<1>3. ASSUME NEW i \in Bufs PROVE IsFiniteSet(Units(RefsOf(i))) /\ Total(RefsOf(i)) = 0
  <2>1. \A p \in Procs : Refs(p, i) = 0
    BY DEF Init, Outside, Refs, CarriesRef, RwPCs
  <2>2. RefsOf(i) \in [Procs -> Nat] /\ \A p \in Procs : RefsOf(i)[p] = 0
    BY <1>2, <2>1, RefsTyped
  <2> QED BY <2>2, TotalOfNothing
<1>4. Counted
  BY <1>3 DEF Init, Counted
<1> QED BY <1>1, <1>4 DEF UInv

LEMMA StepUse ==
  ASSUME IInv, UInv, CountHasRoom, [Next]_vars
  PROVE UInv' /\ OnlyUnusedChangeBlock
<1>1. CASE EndRequest
  BY <1>1, EndRequestUse
<1>2. ASSUME NEW p \in Procs, ProcStep(p) PROVE UInv' /\ OnlyUnusedChangeBlock
  <2>1. CASE SleepElsewhere(p)
    BY <2>1, SleepUse DEF SleepElsewhere, At, SleepPCs
  <2> QED
    BY <1>2, <2>1, StartUse, ModifyUse, StartReleaseUse, FindPickUse, FoundUse, WaitUse,
       WriteBackUse, ClaimUse, BreadUse, ReleaseUse, ScanUse, LockUse, TestUse,
       SlotFillUse, QueueingUse DEF ProcStep
<1>3. CASE UNCHANGED vars
  <2> USE <1>3 DEF vars
  <2>1. UsesOK'  BY DEF UInv, UsesOK, UseOK
  <2>2. ModifiedIsDirty'  BY DEF UInv, ModifiedIsDirty
  <2>3. KeepsCounts /\ \A p \in Procs : KeepsRefs(p)
    BY DEF KeepsCounts, KeepsRefs, Refs, CarriesRef
  <2>4. Counted' /\ OnlyUnusedChangeBlock  BY <2>3, SameReferences DEF UInv
  <2> QED BY <2>1, <2>2, <2>4 DEF UInv
<1> QED BY <1>1, <1>2, <1>3 DEF Next
=============================================================================
