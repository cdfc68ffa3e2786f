----------------------------- MODULE SchedProofs -----------------------------
(***************************************************************************)
(* The types of Sched, for any number of processes and queues and any      *)
(* width of `ticks'.  That the CPU stays with a process that exists needs  *)
(* one more fact: no fork() is making its own parent, so that a fork that  *)
(* fails clears another slot than the one on the CPU.                      *)
(***************************************************************************)
EXTENDS Sched, TLAPS

NotItself == \A p \in Slots : making[p] # p

IInv == TypeOK /\ NotItself

(* schedule() hands the CPU to a populated slot. *)
LEMMA HitIsPopulated ==
  ASSUME NEW st, NEW tk, NEW i \in Hit(st, tk)
  PROVE  i \in process
BY DEF Hit

LEMMA SlotsTyped == \A p \in Slots : p # NoProc /\ p \in Int
BY SchedAssumption DEF Slots, NoProc

LEMMA InitKeeps == Init => IInv
<1> SUFFICES ASSUME Init PROVE IInv
  OBVIOUS
<1>1. 0 \in Slots /\ Slice \in 0 .. Wrap - 1
  BY SchedAssumption DEF Slots
<1>2. TypeOK
  BY <1>1 DEF Init, TypeOK, Frames, NoFrame, NoProc, RUNNING
<1>3. NotItself
  BY SlotsTyped DEF Init, NotItself
<1> QED
  BY <1>2, <1>3 DEF IInv

LEMMA SleepOnKeeps ==
  ASSUME IInv, NEW p \in process, NEW q \in Queues, SleepOn(p, q)
  PROVE  IInv'
<1>1. current' \in process
  BY HitIsPopulated DEF SleepOn, Schedule
<1>2. TypeOK'
  BY <1>1 DEF IInv, TypeOK, SleepOn, Frames
<1> QED
  BY <1>2 DEF IInv, NotItself, SleepOn

LEMMA InterruptibleSleepOnKeeps ==
  ASSUME IInv, NEW p \in process, NEW q \in Queues, InterruptibleSleepOn(p, q)
  PROVE  IInv'
<1>1. current' \in process
  BY HitIsPopulated DEF InterruptibleSleepOn, Schedule
<1>2. TypeOK'
  BY <1>1 DEF IInv, TypeOK, InterruptibleSleepOn, Frames
<1> QED
  BY <1>2 DEF IInv, NotItself, InterruptibleSleepOn

LEMMA SleepAgainKeeps ==
  ASSUME IInv, NEW p \in process, SleepAgain(p)
  PROVE  IInv'
<1>1. current' \in process
  BY HitIsPopulated DEF SleepAgain, Schedule
<1>2. state' \in [Slots -> {RUNNING, WAIT_INTERRUPTIBLE, WAIT_UNINTERRUPTIBLE}]
  BY DEF SleepAgain, IInv, TypeOK
<1>3. TypeOK'
  BY <1>1, <1>2 DEF IInv, TypeOK, SleepAgain
<1> QED
  BY <1>3 DEF IInv, NotItself, SleepAgain

(* The end of both sleeps. *)
LEMMA LeaveKeeps ==
  ASSUME IInv, NEW p \in process, Leave(p), frame[p] # NoFrame
  PROVE  IInv'
<1>1. frame[p] \in Frames /\ frame[p] # NoFrame
  BY DEF IInv, TypeOK
<1>2. NoFrame \in Frames
  BY DEF Frames, NoFrame, NoProc
<1>3. frame[p].tmp \in Slots \union {NoProc}
  BY <1>1 DEF Frames
<1>4. TypeOK'
  BY <1>2, <1>3 DEF IInv, TypeOK, Leave
<1> QED
  BY <1>4 DEF IInv, NotItself, Leave

LEMMA AwakeKeeps ==
  ASSUME IInv, NEW p \in process, Awake(p) \/ AwakeAsHead(p)
  PROVE  IInv'
<1>1. Leave(p) /\ frame[p] # NoFrame
  BY DEF Awake, AwakeAsHead, NoFrame
<1> QED
  BY <1>1, LeaveKeeps

LEMMA WakeUpKeeps ==
  ASSUME IInv, NEW q \in Queues, WakeUp(q)
  PROVE  IInv'
<1>1. TypeOK'
  BY DEF IInv, TypeOK, WakeUp
<1> QED
  BY <1>1 DEF IInv, NotItself, WakeUp

LEMMA PauseKeeps ==
  ASSUME IInv, NEW p \in process, Pause(p)
  PROVE  IInv'
<1>1. current' \in process
  BY HitIsPopulated DEF Pause, Schedule
<1>2. TypeOK'
  BY <1>1 DEF IInv, TypeOK, Pause
<1> QED
  BY <1>2 DEF IInv, NotItself, Pause

LEMMA ForkKeeps ==
  ASSUME IInv, NEW p \in process, Fork(p)
  PROVE  IInv'
<1> PICK c \in Slots \ process :
      /\ process' = process \union {c}
      /\ ticks' = [ticks EXCEPT ![c] = ticks[p]]
      /\ state' = [state EXCEPT ![c] = WAIT_UNINTERRUPTIBLE]
      /\ making' = [making EXCEPT ![p] = c]
  BY DEF Fork
<1>1. p \in Slots /\ p # c
  BY DEF IInv, TypeOK
<1>2. TypeOK'
  BY <1>1 DEF IInv, TypeOK, Fork
<1>3. NotItself'
  BY <1>1 DEF IInv, TypeOK, NotItself
<1> QED
  BY <1>2, <1>3 DEF IInv

LEMMA FinishForkKeeps ==
  ASSUME IInv, NEW p \in process, FinishFork(p)
  PROVE  IInv'
<1>1. p \in Slots /\ making[p] \in Slots
  BY DEF IInv, TypeOK, FinishFork
<1>2. TypeOK'
  BY <1>1 DEF IInv, TypeOK, FinishFork
<1>3. NotItself'
  BY <1>1, SlotsTyped DEF IInv, TypeOK, NotItself, FinishFork
<1> QED
  BY <1>2, <1>3 DEF IInv

LEMMA FailForkKeeps ==
  ASSUME IInv, NEW p \in process, FailFork(p)
  PROVE  IInv'
<1>1. p \in Slots /\ making[p] \in Slots /\ making[p] # p /\ current = p
  BY DEF IInv, TypeOK, FailFork, NotItself
<1>2. NoFrame \in Frames
  BY DEF Frames, NoFrame, NoProc
<1>3. current' \in process' /\ process' \subseteq Slots
  BY <1>1 DEF IInv, TypeOK, FailFork
<1>4. /\ frame' \in [Slots -> Frames]
      /\ making' \in [Slots -> Slots \union {NoProc}]
  BY <1>1, <1>2 DEF IInv, TypeOK, FailFork
<1>5. TypeOK'
  BY <1>3, <1>4 DEF IInv, TypeOK, FailFork
<1>6. NotItself'
  BY <1>1, SlotsTyped DEF IInv, TypeOK, NotItself, FailFork
<1> QED
  BY <1>5, <1>6 DEF IInv

LEMMA TimerKeeps ==
  ASSUME IInv, NEW p \in process, Timer(p)
  PROVE  IInv'
<1> DEFINE left == IF ticks[p] = 0 THEN Wrap - 1 ELSE ticks[p] - 1
<1>1. left \in 0 .. Wrap - 1
  BY SchedAssumption DEF IInv, TypeOK
<1>2. ticks' = [ticks EXCEPT ![p] = left]
  BY DEF Timer
<1>3. current' \in process
  BY HitIsPopulated DEF IInv, TypeOK, Timer, Schedule
<1>4. TypeOK'
  BY <1>1, <1>2, <1>3 DEF IInv, TypeOK, Timer
<1> QED
  BY <1>4 DEF IInv, NotItself, Timer

LEMMA StutterKeeps == IInv /\ UNCHANGED vars => IInv'
BY DEF IInv, vars, TypeOK, NotItself

-----------------------------------------------------------------------------
(* The strengthened invariant holds in every reachable state.              *)
THEOREM SchedInvariance == Spec => []IInv
<1>1. IInv /\ [Next]_vars => IInv'
  <2> SUFFICES ASSUME IInv, [Next]_vars PROVE IInv'
    OBVIOUS
  <2>1. CASE \E p \in process :
               \/ Awake(p) \/ AwakeAsHead(p) \/ SleepAgain(p)
               \/ Pause(p) \/ Fork(p) \/ FinishFork(p) \/ FailFork(p) \/ Timer(p)
    BY <2>1, AwakeKeeps, SleepAgainKeeps, PauseKeeps, ForkKeeps,
       FinishForkKeeps, FailForkKeeps, TimerKeeps
  <2>2. CASE \E p \in process, q \in Queues :
               SleepOn(p, q) \/ InterruptibleSleepOn(p, q)
    BY <2>2, SleepOnKeeps, InterruptibleSleepOnKeeps
  <2>3. CASE \E q \in Queues : WakeUp(q)
    BY <2>3, WakeUpKeeps
  <2>4. CASE UNCHANGED vars
    BY <2>4, StutterKeeps
  <2> QED
    BY <2>1, <2>2, <2>3, <2>4 DEF Next
<1> QED
  BY <1>1, InitKeeps, PTL DEF Spec

(* process.h: the fields of every process, the wait chains and the CPU     *)
(* keep their types whatever sleep_on, wake_up, fork and the timer do, and *)
(* a fork that fails never takes away the process on the CPU.              *)
THEOREM SchedTypeCorrect == Spec => []TypeOK
BY SchedInvariance, PTL DEF IInv
=============================================================================
