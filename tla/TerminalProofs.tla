---------------------------- MODULE TerminalProofs ----------------------------
(***************************************************************************)
(* Theorems about Terminal, for every size of the ring, the queues and the *)
(* console and any number of processes.                                    *)
(*                                                                         *)
(* Ring: KeyboardRing is inductive with what Control adds, that no         *)
(* interrupt comes between the task's load and store of the count.         *)
(* Console: every operation keeps the cursor behind the end of the text,   *)
(* whatever operations the processes interleave.                           *)
(***************************************************************************)
EXTENDS Terminal, TLAPS

TaskPlaces == {"poll", "byte", "taken", "key"} \union ConsolePlaces
UserPlaces == {"idle", "read", "write"} \union ConsolePlaces
Busy       == {"key", "read", "write", "insert"}

Control ==
  /\ pc[Task] \in TaskPlaces
  /\ \A u \in Users : pc[u] \in UserPlaces
  /\ \A p \in Procs : pc[p] \in Busy => left[p] >= 1
  /\ pc[Task] = "taken" => ~int /\ ring.count >= 1 /\ tmp = ring.count

Consoles == [cursor : Int, current : Int, top : Int]

Behind(c) == c.cursor <= c.current

IInv == TypeOK /\ Control /\ KeyboardRing /\ CursorBehindText

LEMMA TaskNotUser == Task \notin Users /\ Task \in Procs
  BY TerminalAssumption DEF Task, Procs

-----------------------------------------------------------------------------
(* The operations of the console. *)

LEMMA InsertCharBehind ==
  ASSUME NEW c \in Consoles, Behind(c)
  PROVE  InsertChar(c) \in Consoles /\ Behind(InsertChar(c))
<1>1. ASSUME NEW d \in Consoles, Behind(d)
      PROVE  Advance(d) \in Consoles /\ Behind(Advance(d))
  BY <1>1 DEF Advance, Consoles, Behind
<1>2. VideoMemMoveUp(c) \in Consoles /\ Behind(VideoMemMoveUp(c))
  BY TerminalAssumption DEF VideoMemMoveUp, Consoles, Behind
<1> QED
  BY <1>1, <1>2 DEF InsertChar

LEMMA DeleteCharBehind ==
  ASSUME NEW c \in Consoles, Behind(c)
  PROVE  DeleteChar(c) \in Consoles /\ Behind(DeleteChar(c))
  BY TerminalAssumption DEF DeleteChar, Consoles, Behind

LEMMA CrBehind ==
  ASSUME NEW c \in Consoles, Behind(c)
  PROVE  Cr(c) \in Consoles /\ Behind(Cr(c))
<1> DEFINE r == c.cursor % RowSize
           back == 2 * (r \div 2)
<1>1. c.cursor \in Int /\ RowSize \in Nat \ {0}
  BY TerminalAssumption DEF Consoles
<1>2. r \in Nat
  BY <1>1
<1>3. back \in Nat
  BY <1>2
<1>4. Cr(c) = [cursor |-> c.cursor - back, current |-> c.current,
               top |-> c.top]
  BY DEF Cr
<1> QED
  BY <1>1, <1>3, <1>4 DEF Consoles, Behind

LEMMA LfBehind ==
  ASSUME NEW c \in Consoles, Behind(c)
  PROVE  Lf(c) \in Consoles /\ Behind(Lf(c))
  BY TerminalAssumption DEF Lf, ScrollUp, Consoles, Behind

-----------------------------------------------------------------------------
(* One lemma per action. *)

LEMMA InitIInv == Init => IInv
<1> SUFFICES ASSUME Init PROVE IInv
  OBVIOUS
<1> USE DEF Init, InitKeyboard, InitTty, InitConsole, GetEmptyTty
<1>1. \A u \in Users : u # Task
  BY TaskNotUser
<1>2. TypeOK
  <2>1. /\ ring \in [head : 0 .. KSize - 1, tail : 0 .. KSize - 1,
                     count : 0 .. KSize]
        /\ rd \in 0 .. TSize /\ wr \in 0 .. TSize /\ tmp \in 0 .. KSize
        /\ con \in [cursor : Int, current : Int, top : Int]
    BY TerminalAssumption
  <2>2. int \in BOOLEAN /\ running \in Procs
    BY TaskNotUser
  <2> QED
    BY <2>1, <2>2 DEF TypeOK
<1>3. Control
  BY TaskNotUser, <1>1
     DEF Control, Procs, TaskPlaces, UserPlaces, Busy
<1>4. KeyboardRing
  BY TerminalAssumption, TaskNotUser DEF KeyboardRing
<1>5. CursorBehindText
  BY TerminalAssumption DEF CursorBehindText
<1> QED
  BY <1>2, <1>3, <1>4, <1>5 DEF IInv

LEMMA Next1Typed ==
  ASSUME NEW k \in 0 .. KSize - 1
  PROVE  /\ Next1(k) \in 0 .. KSize - 1
         /\ Next1(k) = k + 1 \/ Next1(k) = k + 1 - KSize
  BY TerminalAssumption DEF Next1

LEMMA IrqInv ==
  ASSUME IInv, Irq
  PROVE  IInv'
<1>1. /\ ring.head \in 0 .. KSize - 1 /\ ring.tail \in 0 .. KSize - 1
      /\ ring.count \in 0 .. KSize /\ pc[Task] # "taken"
      /\ UNCHANGED <<int, running, pc, left, tmp, rd, wr, con>>
  BY DEF IInv, TypeOK, Control, Irq
<1>2. CASE ring.count < KSize
  <2>1. ring' = [head |-> Next1(ring.head), tail |-> ring.tail,
                 count |-> ring.count + 1]
    BY <1>2 DEF Irq, IInv, TypeOK
  <2>2. ring' \in [head : 0 .. KSize - 1, tail : 0 .. KSize - 1,
                   count : 0 .. KSize]
    <3>1. Next1(ring.head) \in 0 .. KSize - 1
      BY <1>1, Next1Typed
    <3>2. ring.count + 1 \in 0 .. KSize
      BY <1>1, <1>2, TerminalAssumption
    <3> QED
      BY <1>1, <2>1, <3>1, <3>2
  <2>3. TypeOK'
    BY <1>1, <2>2 DEF IInv, TypeOK
  <2>4. Control' /\ CursorBehindText'
    BY <1>1 DEF IInv, Control, CursorBehindText
  <2>5. pc'[Task] # "taken" /\ ring'.count = ring.count + 1
        /\ ring'.tail = ring.tail /\ ring'.head = Next1(ring.head)
    BY <1>1, <2>1
  <2>6. KeyboardRing'
    <3>1. /\ \/ ring.head = ring.tail + ring.count
             \/ ring.head + KSize = ring.tail + ring.count
          /\ \/ Next1(ring.head) = ring.head + 1
             \/ Next1(ring.head) = ring.head + 1 - KSize
          /\ Next1(ring.head) \in 0 .. KSize - 1
      BY <1>1, Next1Typed DEF IInv, KeyboardRing
    <3>2. /\ ring.count + 1 \in 0 .. KSize
          /\ \/ Next1(ring.head) = ring.tail + (ring.count + 1)
             \/ Next1(ring.head) + KSize = ring.tail + (ring.count + 1)
      BY <1>1, <1>2, <3>1, TerminalAssumption
    <3> QED
      BY <2>5, <3>2, TerminalAssumption DEF KeyboardRing
  <2> QED
    BY <2>3, <2>4, <2>6 DEF IInv
<1>3. CASE ~(ring.count < KSize)
  BY <1>3 DEF IInv, TypeOK, Control, KeyboardRing, CursorBehindText, Irq
<1> QED
  BY <1>2, <1>3

LEMMA TakeByteInv ==
  ASSUME IInv, TakeByte
  PROVE  IInv'
<1>1. /\ ring.head \in 0 .. KSize - 1 /\ ring.tail \in 0 .. KSize - 1
      /\ ring.count \in 1 .. KSize /\ pc[Task] = "byte"
  BY DEF IInv, TypeOK, TakeByte, On
<1>2. ring' = [head |-> ring.head, tail |-> Next1(ring.tail),
               count |-> ring.count]
  BY DEF IInv, TypeOK, TakeByte
<1>3. tmp' = ring.count /\ int' = FALSE
      /\ UNCHANGED <<running, left, rd, wr, con>>
  BY DEF TakeByte, DisableInt
<1>4. pc' = [pc EXCEPT ![Task] = "taken"] /\ pc'[Task] = "taken"
      /\ \A u \in Users : pc'[u] = pc[u]
  BY TaskNotUser DEF TakeByte, Goto, IInv, TypeOK, Procs
<1>5. TypeOK'
  <2>1. ring' \in [head : 0 .. KSize - 1, tail : 0 .. KSize - 1,
                   count : 0 .. KSize]
    BY <1>1, <1>2, Next1Typed
  <2>2. tmp' \in 0 .. KSize
    BY <1>1, <1>3
  <2>3. pc' \in [Procs -> {"poll", "byte", "taken", "key", "idle", "read",
                           "write"} \union ConsolePlaces]
    BY <1>4 DEF IInv, TypeOK
  <2> QED
    BY <1>3, <2>1, <2>2, <2>3 DEF IInv, TypeOK
<1>6. Control'
  <2>1. \A p \in Procs : pc'[p] \in Busy => pc[p] = pc'[p]
    BY <1>4, TaskNotUser DEF Procs, Busy
  <2>2. \A p \in Procs : pc'[p] \in Busy => left'[p] >= 1
    BY <1>3, <2>1 DEF IInv, Control
  <2> QED
    BY <1>1, <1>2, <1>3, <1>4, <2>2 DEF IInv, Control, TaskPlaces
<1>7. KeyboardRing'
  <2>1. /\ ring'.head = ring.head /\ ring'.count = ring.count
        /\ ring'.tail = Next1(ring.tail)
    BY <1>2
  <2>2. /\ \/ ring.head = ring.tail + ring.count
           \/ ring.head + KSize = ring.tail + ring.count
        /\ \/ Next1(ring.tail) = ring.tail + 1
           \/ Next1(ring.tail) = ring.tail + 1 - KSize
        /\ Next1(ring.tail) \in 0 .. KSize - 1
    BY <1>1, Next1Typed DEF IInv, KeyboardRing
  <2>3. /\ ring.count - 1 \in 0 .. KSize
        /\ \/ ring.head = Next1(ring.tail) + (ring.count - 1)
           \/ ring.head + KSize = Next1(ring.tail) + (ring.count - 1)
    BY <1>1, <2>2, TerminalAssumption
  <2> QED
    BY <1>4, <2>1, <2>3 DEF KeyboardRing
<1>8. CursorBehindText'
  BY <1>3 DEF IInv, CursorBehindText
<1> QED
  BY <1>5, <1>6, <1>7, <1>8 DEF IInv

LEMMA StoreCountInv ==
  ASSUME IInv, StoreCount
  PROVE  IInv'
<1>1. /\ ring.head \in 0 .. KSize - 1 /\ ring.tail \in 0 .. KSize - 1
      /\ ring.count \in 1 .. KSize /\ pc[Task] = "taken"
      /\ tmp = ring.count
  BY DEF IInv, TypeOK, Control, StoreCount, On
<1>2. ring' = [head |-> ring.head, tail |-> ring.tail,
               count |-> ring.count - 1]
  BY <1>1 DEF StoreCount, IInv, TypeOK
<1>3. int' = TRUE /\ tmp' = 0 /\ UNCHANGED <<running, rd, wr, con>>
  BY DEF StoreCount
<1>4. PICK at \in {"byte", "key", "console"}, n \in Nat :
        /\ Goto(Task, at) /\ left' = [left EXCEPT ![Task] = n]
        /\ at = "key" => n = 2
  <2>1. left[Task] \in Nat /\ left = [left EXCEPT ![Task] = left[Task]]
    BY TaskNotUser DEF IInv, TypeOK
  <2>2. CASE Goto(Task, "byte") /\ UNCHANGED left
    BY <2>1, <2>2
  <2>3. CASE Goto(Task, "key") /\ left' = [left EXCEPT ![Task] = 2]
    BY <2>3
  <2>4. CASE Goto(Task, "console") /\ UNCHANGED left
    BY <2>1, <2>4
  <2> QED
    BY <2>2, <2>3, <2>4 DEF StoreCount, KeyboardRead, MoreBytes, Finish
<1>5. /\ pc' = [pc EXCEPT ![Task] = at] /\ pc'[Task] = at /\ left'[Task] = n
      /\ \A u \in Users : pc'[u] = pc[u] /\ left'[u] = left[u]
  BY <1>4, TaskNotUser DEF Goto, IInv, TypeOK, Procs
<1>6. TypeOK'
  <2>1. ring.count - 1 \in 0 .. KSize
    BY <1>1, TerminalAssumption
  <2>2. ring' \in [head : 0 .. KSize - 1, tail : 0 .. KSize - 1,
                   count : 0 .. KSize]
    BY <1>1, <1>2, <2>1
  <2>3. /\ pc' \in [Procs -> {"poll", "byte", "taken", "key", "idle", "read",
                              "write"} \union ConsolePlaces]
        /\ left' \in [Procs -> Nat]
    <3>1. at \in {"poll", "byte", "taken", "key", "idle", "read", "write"}
                  \union ConsolePlaces
      BY DEF ConsolePlaces
    <3> QED
      BY <1>4, <1>5, <3>1 DEF IInv, TypeOK
  <2>4. tmp' \in 0 .. KSize
    BY <1>3, TerminalAssumption
  <2> QED
    BY <1>3, <2>2, <2>3, <2>4 DEF IInv, TypeOK
<1>7. Control'
  <2>1. \A u \in Users : pc'[u] \in Busy => left'[u] >= 1
    BY <1>5 DEF IInv, Control, Procs
  <2>2. pc'[Task] \in Busy => left'[Task] >= 1
    BY <1>4, <1>5 DEF Busy
  <2>3. \A p \in Procs : pc'[p] \in Busy => left'[p] >= 1
    BY <2>1, <2>2 DEF Procs
  <2> QED
    BY <1>4, <1>5, <2>3 DEF IInv, Control, TaskPlaces, ConsolePlaces
<1>8. KeyboardRing'
  BY <1>1, <1>2, <1>4, <1>5 DEF IInv, KeyboardRing
<1>9. CursorBehindText'
  BY <1>3 DEF IInv, CursorBehindText
<1> QED
  BY <1>6, <1>7, <1>8, <1>9 DEF IInv

(* The steps that leave the ring alone: process p moves from one place to *)
(* another, with what is left of its call.                                 *)
LEMMA MoveInv ==
  ASSUME IInv, NEW p \in Procs, NEW at, NEW n \in Nat,
         UNCHANGED <<ring, int, running, tmp>>,
         pc' = [pc EXCEPT ![p] = at], left' = [left EXCEPT ![p] = n],
         rd' \in 0 .. TSize, wr' \in 0 .. TSize,
         con' \in Consoles, Behind(con'), pc[p] # "taken", at # "taken",
         p = Task => at \in TaskPlaces,
         p # Task => at \in UserPlaces,
         at \in Busy => n >= 1
  PROVE  IInv'
<1>1. /\ pc \in [Procs -> {"poll", "byte", "taken", "key", "idle", "read",
                            "write"} \union ConsolePlaces]
      /\ left \in [Procs -> Nat]
  BY DEF IInv, TypeOK
<1>2. /\ pc'[p] = at /\ left'[p] = n
      /\ \A q \in Procs \ {p} : pc'[q] = pc[q] /\ left'[q] = left[q]
  BY <1>1
<1>3. TypeOK'
  BY <1>1 DEF IInv, TypeOK, Consoles, TaskPlaces, UserPlaces
<1>4. Control'
  BY <1>2, TaskNotUser DEF IInv, Control, Procs
<1>5. pc'[Task] = "taken" <=> pc[Task] = "taken"
  BY <1>2, TaskNotUser
<1>6. KeyboardRing'
  BY <1>5 DEF IInv, KeyboardRing
<1>7. CursorBehindText'
  BY DEF CursorBehindText, Behind
<1> QED
  BY <1>3, <1>4, <1>6, <1>7 DEF IInv

(* What every step knows of the process that takes it. *)
LEMMA At ==
  ASSUME IInv, NEW p \in Procs
  PROVE  /\ left[p] \in Nat /\ con \in Consoles /\ Behind(con)
         /\ rd \in 0 .. TSize /\ wr \in 0 .. TSize /\ running \in Procs
         /\ left = [left EXCEPT ![p] = left[p]]
         /\ pc = [pc EXCEPT ![p] = pc[p]]
         /\ pc[p] \in Busy => left[p] >= 1 /\ left[p] - 1 \in Nat
         /\ p = Task => pc[p] \in TaskPlaces
         /\ p # Task => pc[p] \in UserPlaces
<1>1. left[p] \in Nat /\ con \in Consoles /\ Behind(con)
  BY DEF IInv, TypeOK, Consoles, Behind, CursorBehindText
<1>2. pc[p] \in Busy => left[p] >= 1
  BY DEF IInv, Control
<1>3. /\ p = Task => pc[p] \in TaskPlaces
      /\ p # Task => pc[p] \in UserPlaces
  BY DEF IInv, Control, Procs
<1> QED
  BY <1>1, <1>2, <1>3 DEF IInv, TypeOK

LEMMA CallInv ==
  ASSUME IInv, NEW p \in Procs, ChrRead(p) \/ ChrWrite(p)
  PROVE  IInv'
<1>1. PICK at \in {"read", "write"} : Call(p, at)
  BY DEF ChrRead, ChrWrite
<1>2. PICK n \in 1 .. MaxCall : left' = [left EXCEPT ![p] = n]
  BY <1>1 DEF Call
<1>3. n \in Nat /\ n >= 1 /\ p # Task /\ pc[p] # "taken"
  BY <1>1, TaskNotUser, TerminalAssumption DEF Call, On
<1> QED
  BY <1>1, <1>2, <1>3, At, MoveInv DEF Call, Goto, UserPlaces

LEMMA TtyReadInv ==
  ASSUME IInv, NEW p \in Procs, TtyRead(p)
  PROVE  IInv'
<1>1. PICK n \in {left[p], left[p] - 1} :
        /\ left' = [left EXCEPT ![p] = n]
        /\ Goto(p, IF n = 0 THEN "idle" ELSE "read")
  BY DEF TtyRead, GetKeyFromTtyRead
<1>2. pc[p] = "read" /\ p # Task
  BY At DEF TtyRead, GetKeyFromTtyRead, On, TaskPlaces, ConsolePlaces
<1>3. rd' \in 0 .. TSize
  BY At, TerminalAssumption DEF TtyRead, GetKeyFromTtyRead
<1>4. n \in Nat
  BY <1>1, <1>2, At DEF Busy
<1>5. n # 0 => n >= 1
  BY <1>4
<1>6. UNCHANGED <<ring, int, running, tmp, wr, con>>
  BY DEF TtyRead, GetKeyFromTtyRead
<1>7. CASE n = 0
  BY <1>1, <1>2, <1>3, <1>4, <1>6, <1>7, At, MoveInv DEF Goto, UserPlaces, Busy
<1>8. CASE n # 0
  BY <1>1, <1>2, <1>3, <1>4, <1>5, <1>6, <1>8, At, MoveInv DEF Goto, UserPlaces
<1> QED
  BY <1>7, <1>8

LEMMA TtyWriteInv ==
  ASSUME IInv, NEW p \in Procs, TtyWrite(p)
  PROVE  IInv'
<1>1. pc[p] = "write" /\ p # Task
  BY At DEF TtyWrite, PutKeyToTtyWrite, On, TaskPlaces, ConsolePlaces
<1>2. wr' \in 0 .. TSize
  BY At, TerminalAssumption DEF TtyWrite, PutKeyToTtyWrite
<1>3. left' = [left EXCEPT ![p] = left[p] - 1] /\ left[p] - 1 \in Nat
  BY <1>1, At DEF TtyWrite, PutKeyToTtyWrite, Busy
<1>4. left[p] # 1 => left[p] - 1 >= 1
  BY <1>1, At DEF Busy
<1> QED
  BY <1>1, <1>2, <1>3, <1>4, At, MoveInv
     DEF TtyWrite, PutKeyToTtyWrite, Goto, UserPlaces, ConsolePlaces, Busy

LEMMA PollInv ==
  ASSUME IInv, Poll
  PROVE  IInv'
<1>1. pc[Task] = "poll" /\ Task \in Procs
  BY TaskNotUser DEF Poll, On
<1> QED
  BY <1>1, At, MoveInv
     DEF Poll, Goto, TaskPlaces, ConsolePlaces, Busy

LEMMA PutKeyInv ==
  ASSUME IInv, PutKey
  PROVE  IInv'
<1>1. pc[Task] = "key" /\ Task \in Procs
  BY TaskNotUser DEF PutKey, SysKeyProcess, PutKeyToTtyRead, On
<1>2. rd' \in 0 .. TSize
  BY At, <1>1, TerminalAssumption DEF PutKey, SysKeyProcess, PutKeyToTtyRead
<1>3. left' = [left EXCEPT ![Task] = left[Task] - 1] /\ left[Task] - 1 \in Nat
  BY <1>1, At DEF PutKey, SysKeyProcess, PutKeyToTtyRead, Busy
<1>4. left[Task] # 1 => left[Task] - 1 >= 1
  BY <1>1, At DEF Busy
<1> QED
  BY <1>1, <1>2, <1>3, <1>4, At, MoveInv
     DEF PutKey, SysKeyProcess, PutKeyToTtyRead, Goto, TaskPlaces,
         ConsolePlaces, Busy

LEMMA TakeCharInv ==
  ASSUME IInv, NEW p \in Procs, TakeChar(p)
  PROVE  IInv'
<1>1. pc[p] = "console" /\ UNCHANGED <<ring, int, running, tmp, rd, con>>
  BY DEF TakeChar, On
<1>2. wr' \in 0 .. TSize
  BY At, TerminalAssumption DEF TakeChar, GetCharFromWrite
<1>3. CASE EndWrite(p) /\ UNCHANGED left
  BY <1>1, <1>2, <1>3, At, MoveInv
     DEF EndWrite, Goto, TaskPlaces, UserPlaces, Busy
<1>4. CASE UNCHANGED <<pc, left>>
  BY <1>1, <1>2, <1>4, At, MoveInv
     DEF TaskPlaces, UserPlaces, ConsolePlaces, Busy
<1>5. CASE Goto(p, "insert") /\ \E n \in {1, 8} : left' = [left EXCEPT ![p] = n]
  <2>1. PICK n \in {1, 8} : left' = [left EXCEPT ![p] = n]
    BY <1>5
  <2>2. n \in Nat /\ n >= 1
    OBVIOUS
  <2> QED
    BY <1>1, <1>2, <1>5, <2>1, <2>2, At, MoveInv
       DEF Goto, TaskPlaces, UserPlaces, ConsolePlaces
<1>6. CASE UNCHANGED left /\ \E at \in {"delete", "cr"} : Goto(p, at)
  BY <1>1, <1>2, <1>6, At, MoveInv
     DEF Goto, TaskPlaces, UserPlaces, ConsolePlaces, Busy
<1> QED
  BY <1>3, <1>4, <1>5, <1>6 DEF TakeChar

LEMMA ShowCharInv ==
  ASSUME IInv, NEW p \in Procs, ShowChar(p)
  PROVE  IInv'
<1>1. pc[p] = "insert" /\ UNCHANGED <<ring, int, running, tmp, rd, wr>>
  BY DEF ShowChar, On
<1>2. con' \in Consoles /\ Behind(con')
  BY At, InsertCharBehind DEF ShowChar
<1>3. left' = [left EXCEPT ![p] = left[p] - 1] /\ left[p] - 1 \in Nat
  BY <1>1, At DEF ShowChar, Busy
<1>4. left[p] # 1 => left[p] - 1 >= 1
  BY <1>1, At DEF Busy
<1> QED
  BY <1>1, <1>2, <1>3, <1>4, At, MoveInv
     DEF ShowChar, Goto, TaskPlaces, UserPlaces, ConsolePlaces, Busy

LEMMA ShowInv ==
  ASSUME IInv, NEW p \in Procs, ShowBackspace(p) \/ ShowReturn(p) \/ ShowLine(p)
  PROVE  IInv'
<1>1. PICK at \in {"console", "lf"} : Goto(p, at)
  BY DEF ShowBackspace, ShowReturn, ShowLine
<1>2. con' \in Consoles /\ Behind(con')
  BY At, DeleteCharBehind, CrBehind, LfBehind
     DEF ShowBackspace, ShowReturn, ShowLine
<1>3. pc[p] # "taken" /\ UNCHANGED <<ring, int, running, left, tmp, rd, wr>>
  BY DEF ShowBackspace, ShowReturn, ShowLine, On
<1> QED
  BY <1>1, <1>2, <1>3, At, MoveInv
     DEF Goto, TaskPlaces, UserPlaces, ConsolePlaces, Busy

LEMMA NextIInv == IInv /\ [Next]_vars => IInv'
<1> SUFFICES ASSUME IInv, [Next]_vars PROVE IInv'
  OBVIOUS
<1>1. CASE Irq
  BY <1>1, IrqInv
<1>2. CASE Poll \/ TakeByte \/ StoreCount \/ PutKey
  BY <1>2, PollInv, TakeByteInv, StoreCountInv, PutKeyInv
<1>3. ASSUME NEW p \in Procs, Step(p) PROVE IInv'
  BY <1>3, CallInv, TtyReadInv, TtyWriteInv, TakeCharInv, ShowCharInv, ShowInv
     DEF Step, ConsoleWrite
<1>4. ASSUME NEW p \in Procs, Preempt(p) PROVE IInv'
  <2>1. UNCHANGED <<ring, int, pc, left, tmp, rd, wr, con>> /\ running' \in Procs
    BY <1>4 DEF Preempt
  <2> QED
    BY <2>1 DEF IInv, TypeOK, Control, KeyboardRing, CursorBehindText
<1>5. CASE UNCHANGED vars
  BY <1>5 DEF IInv, TypeOK, Control, KeyboardRing, CursorBehindText, vars
<1> QED
  BY <1>1, <1>2, <1>3, <1>4, <1>5 DEF Next, Cpu

(* The inductive invariant. *)
THEOREM Invariant == Spec => []IInv
<1> QED
  BY InitIInv, NextIInv, PTL DEF Spec

(* Every field keeps its range: the counts of the three rings never pass   *)
(* their size nor go below 0 (keyboard.c:46, tty.c:23, 47, 70, 89).        *)
THEOREM Typing == Spec => []TypeOK
<1>1. IInv => TypeOK
  BY DEF IInv
<1> QED
  BY <1>1, Invariant, PTL

(* Interrupt and task never disagree on what the ring holds.               *)
THEOREM RingNeverLost == Spec => []KeyboardRing
<1>1. IInv => KeyboardRing
  BY DEF IInv
<1> QED
  BY <1>1, Invariant, PTL

(* No operation of the console takes the cursor past the text.             *)
THEOREM LengthNeverNegative == Spec => []CursorBehindText
<1>1. IInv => CursorBehindText
  BY DEF IInv
<1> QED
  BY <1>1, Invariant, PTL
=============================================================================
