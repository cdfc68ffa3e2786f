---------------------------- MODULE BlockDevProofs ----------------------------
(***************************************************************************)
(* That the turns of block_read and block_write, which divide a call into  *)
(* the blocks it touches, do what ByteFile says of bytes, for any block    *)
(* size, device, number of processes and sharing of files.                 *)
(***************************************************************************)
EXTENDS BlockDev, TotalsProofs

(* A place on the device is a block and an offset in it, in one way only.  *)
LEMMA Division ==
  ASSUME NEW S \in Nat \ {0}, NEW x \in Nat
  PROVE  /\ x \div S \in Nat /\ x % S \in 0 .. S - 1
         /\ (x \div S) * S + (x % S) = x
BY Z3

LEMMA Monotone ==
  ASSUME NEW S \in Nat \ {0}, NEW a \in Nat, NEW b \in Nat, a < b
  PROVE  a * S + S <= b * S
BY Z3

LEMMA DivisionUnique ==
  ASSUME NEW S \in Nat \ {0}, NEW b \in Nat, NEW o \in 0 .. S - 1
  PROVE  (b * S + o) \div S = b /\ (b * S + o) % S = o
<1> DEFINE x == b * S + o
           q == x \div S
           r == x % S
<1>1. b * S \in Nat /\ x \in Nat
  BY Z3
<1>2. q \in Nat /\ r \in 0 .. S - 1 /\ q * S + r = x
  BY <1>1, Division
<1> HIDE DEF q, r
<1>3. q * S \in Nat
  BY <1>2, Z3
<1>4. ~(q < b) /\ ~(b < q)
  BY <1>1, <1>2, <1>3, Monotone
<1>5. q = b
  BY <1>2, <1>4
<1>6. r = o
  BY <1>1, <1>2, <1>3, <1>5
<1> QED
  BY <1>5, <1>6 DEF q, r

-----------------------------------------------------------------------------
(* A slot with no call in it is blank altogether. *)
NoneIsIdle == \A p \in Procs : call[p].op = "none" => call[p] = Idle

IInv == TypeOK /\ NoneIsIdle

LEMMA MaxCountTyped == MaxCount \in Nat \ {0} /\ \A n \in Counts : n <= MaxCount
BY BlockDevAssumption DEF MaxCount

LEMMA IdleTyped == Idle \in Calls
BY BlockDevAssumption, MaxCountTyped DEF Idle, Calls, Offsets

(* The piece a turn moves is not empty, ends with the block at the latest, *)
(* and is no longer than what is left.                                     *)
LEMMA CharsTyped ==
  ASSUME NEW c \in Calls, c.count > 0
  PROVE  /\ Chars(c) \in 1 .. c.count
         /\ c.offset + Chars(c) <= BlockSize
BY BlockDevAssumption, MaxCountTyped DEF Chars, Calls, Offsets

LEMMA AfterPieceTyped ==
  ASSUME NEW c \in Calls, c.count > 0, c.done + c.count <= MaxCount
  PROVE  /\ AfterPiece(c) \in Calls
         /\ AfterPiece(c).done + AfterPiece(c).count <= MaxCount
         /\ AfterPiece(c).op = c.op
BY BlockDevAssumption, MaxCountTyped, CharsTyped DEF AfterPiece, Calls, Offsets

LEMMA InitKeeps == Init => IInv
<1> SUFFICES ASSUME Init PROVE IInv
  OBVIOUS
<1>1. Blank \in Bytes
  BY DEF Bytes
<1>2. TypeOK
  BY <1>1, IdleTyped, MaxCountTyped DEF Init, TypeOK, Idle
<1> QED
  BY <1>2 DEF IInv, Init, NoneIsIdle

LEMMA BeginKeeps ==
  ASSUME IInv, NEW p \in Procs, Begin(p)
  PROVE  IInv'
<1> PICK op \in {"read", "write"}, n \in Counts :
      call' = [call EXCEPT ![p] = Entry(p, op, n)]
  BY DEF Begin
<1> DEFINE c == Entry(p, op, n)
<1>1. pos[file[p]] \in Nat
  BY DEF IInv, TypeOK
<1>2. n \in 1 .. MaxCount
  BY MaxCountTyped, BlockDevAssumption
<1>3. c.block \in Nat /\ c.offset \in Offsets
  BY <1>1, Division, BlockDevAssumption DEF Offsets, Entry
<1>4. c \in Calls /\ c.done + c.count <= MaxCount
  BY <1>2, <1>3, MaxCountTyped DEF Calls, Entry
<1>5. UNCHANGED <<file, pos, data, user, returned>> /\ call' = [call EXCEPT ![p] = c]
  BY DEF Begin
<1> HIDE DEF c
<1>6. TypeOK'
  BY <1>4, <1>5 DEF IInv, TypeOK
<1>7. c.op # "none"
  BY DEF c, Entry
<1>8. NoneIsIdle'
  BY <1>5, <1>7 DEF IInv, TypeOK, NoneIsIdle
<1> QED
  BY <1>6, <1>8 DEF IInv

(* What the two kinds of turn have in common. *)
LEMMA TurnKeeps ==
  ASSUME IInv, NEW p \in Procs, Turn(p), call[p].op # "none",
         data' \in [Blocks -> [Offsets -> Bytes]],
         user' \in [Procs -> [Indices -> Bytes]]
  PROVE  IInv'
<1>1. call[p] \in Calls /\ call[p].count > 0 /\ call[p].done + call[p].count <= MaxCount
  BY DEF IInv, TypeOK, Turn
<1>2. /\ call' = [call EXCEPT ![p] = AfterPiece(call[p])]
      /\ pos' = [pos EXCEPT ![file[p]] = pos[file[p]] + Chars(call[p])]
      /\ UNCHANGED <<file, returned>>
  BY DEF Turn
<1>3. Chars(call[p]) \in Nat
  BY <1>1, CharsTyped DEF Calls
<1>4. AfterPiece(call[p]) \in Calls
  BY <1>1, AfterPieceTyped
<1>5. call' \in [Procs -> Calls]
  BY <1>2, <1>4 DEF IInv, TypeOK
<1>6. \A r \in Procs : call'[r].done + call'[r].count <= MaxCount
  BY <1>1, <1>2, AfterPieceTyped DEF IInv, TypeOK
<1>7. pos' \in [Files -> Nat]
  BY <1>2, <1>3 DEF IInv, TypeOK
<1>8. TypeOK'
  BY <1>2, <1>5, <1>6, <1>7 DEF IInv, TypeOK
<1>9. NoneIsIdle'
  BY <1>1, <1>2, AfterPieceTyped DEF IInv, TypeOK, NoneIsIdle
<1> QED
  BY <1>8, <1>9 DEF IInv

LEMMA WriteTurnKeeps ==
  ASSUME IInv, NEW p \in Procs, WriteTurn(p)
  PROVE  IInv'
<1> DEFINE c == call[p]
<1>1. c \in Calls /\ c.count > 0 /\ c.done + c.count <= MaxCount
  BY DEF IInv, TypeOK, WriteTurn, Turn
<1>2. Chars(c) \in 1 .. c.count /\ c.offset + Chars(c) <= BlockSize
  BY <1>1, CharsTyped
<1>3. ASSUME NEW o \in Offsets, c.offset <= o, o < c.offset + Chars(c)
      PROVE  Byte(p, c.done + (o - c.offset)) \in Bytes
  <2>1. c.done + (o - c.offset) \in Indices
    BY <1>1, <1>2, <1>3, MaxCountTyped, BlockDevAssumption DEF Calls, Offsets, Indices
  <2> QED
    BY <2>1 DEF Bytes
<1> DEFINE d == [o \in Offsets |->
                   IF c.offset <= o /\ o < c.offset + Chars(c)
                   THEN Byte(p, c.done + (o - c.offset))
                   ELSE data[c.block][o]]
<1>4. c.block \in Blocks
  BY DEF WriteTurn, Turn
<1>5. d \in [Offsets -> Bytes]
  BY <1>3, <1>4 DEF IInv, TypeOK
<1>6. data' = [data EXCEPT ![c.block] = d]
  BY DEF WriteTurn
<1> HIDE DEF d
<1>7. data' \in [Blocks -> [Offsets -> Bytes]]
  BY <1>4, <1>5, <1>6 DEF IInv, TypeOK
<1>8. user' \in [Procs -> [Indices -> Bytes]] /\ Turn(p) /\ call[p].op # "none"
  BY DEF WriteTurn, IInv, TypeOK
<1> QED
  BY <1>7, <1>8, TurnKeeps

LEMMA ReadTurnKeeps ==
  ASSUME IInv, NEW p \in Procs, ReadTurn(p)
  PROVE  IInv'
<1> DEFINE c == call[p]
<1>1. c \in Calls /\ c.count > 0 /\ c.block \in Blocks
  BY DEF IInv, TypeOK, ReadTurn, Turn
<1>2. Chars(c) \in 1 .. c.count /\ c.offset + Chars(c) <= BlockSize
  BY <1>1, CharsTyped
<1>3. ASSUME NEW i \in Indices, c.done <= i, i < c.done + Chars(c)
      PROVE  data[c.block][c.offset + (i - c.done)] \in Bytes
  <2>1. c.offset + (i - c.done) \in Offsets
    BY <1>1, <1>2, <1>3, MaxCountTyped, BlockDevAssumption DEF Calls, Offsets, Indices
  <2> QED
    BY <1>1, <2>1 DEF IInv, TypeOK
<1> DEFINE u == [i \in Indices |->
                   IF c.done <= i /\ i < c.done + Chars(c)
                   THEN data[c.block][c.offset + (i - c.done)]
                   ELSE user[p][i]]
<1>4. u \in [Indices -> Bytes]
  BY <1>3 DEF IInv, TypeOK
<1>5. user' = [user EXCEPT ![p] = u]
  BY DEF ReadTurn
<1> HIDE DEF u
<1>6. user' \in [Procs -> [Indices -> Bytes]]
  BY <1>4, <1>5 DEF IInv, TypeOK
<1>7. data' \in [Blocks -> [Offsets -> Bytes]] /\ Turn(p) /\ call[p].op # "none"
  BY DEF ReadTurn, IInv, TypeOK
<1> QED
  BY <1>6, <1>7, TurnKeeps

LEMMA ReturnKeeps ==
  ASSUME IInv, NEW p \in Procs, Return(p)
  PROVE  IInv'
<1>1. Blank \in Bytes /\ call[p].done \in Nat /\ Idle.done + Idle.count <= MaxCount
  BY MaxCountTyped DEF Bytes, IInv, TypeOK, Calls, Idle
<1>2. TypeOK'
  BY <1>1, IdleTyped DEF IInv, TypeOK, Return
<1>3. NoneIsIdle'
  BY DEF IInv, TypeOK, NoneIsIdle, Return
<1> QED
  BY <1>2, <1>3 DEF IInv

(* The calls on regular files. *)
LEMMA RegularMovesNothing ==
  \A p \in Procs : FileRead(p) \/ FileWrite(p) => UNCHANGED vars
BY DEF FileRead, FileWrite

LEMMA StepKeeps == IInv /\ [Next]_vars => IInv'
<1> SUFFICES ASSUME IInv, [Next]_vars PROVE IInv'
  OBVIOUS
<1>1. CASE \E p \in Procs : Begin(p) \/ ReadTurn(p) \/ WriteTurn(p) \/ Return(p)
  BY <1>1, BeginKeeps, ReadTurnKeeps, WriteTurnKeeps, ReturnKeeps
<1>2. CASE UNCHANGED vars
  BY <1>2 DEF vars, IInv, TypeOK, NoneIsIdle
<1> QED
  BY <1>1, <1>2, RegularMovesNothing DEF Next

-----------------------------------------------------------------------------
(* Places: what the turns do, in bytes.                                    *)

LEMMA PlaceTyped ==
  ASSUME IInv, NEW p \in Procs
  PROVE  Place(p) \in Nat
<1>1. call[p] \in Calls
  BY DEF IInv, TypeOK
<1>2. call[p].block * BlockSize \in Nat
  BY <1>1, BlockDevAssumption, Z3 DEF Calls
<1> QED
  BY <1>1, <1>2, BlockDevAssumption DEF Place, Calls, Offsets

(* A call begins where the offset of the file is. *)
LEMMA BeginAtOffset ==
  ASSUME IInv, NEW p \in Procs, Begin(p)
  PROVE  /\ call'[p].op \in {"read", "write"}
         /\ call'[p].count \in 1 .. MaxCount /\ call'[p].done = 0
         /\ Place(p)' = pos[file[p]]
         /\ \A q \in Procs \ {p} : call'[q] = call[q]
         /\ UNCHANGED <<file, pos, data, user>>
<1> PICK op \in {"read", "write"}, n \in Counts :
      call' = [call EXCEPT ![p] = Entry(p, op, n)]
  BY DEF Begin
<1>1. pos[file[p]] \in Nat
  BY DEF IInv, TypeOK
<1>2. n \in 1 .. MaxCount
  BY MaxCountTyped, BlockDevAssumption
<1>3. /\ call'[p] = Entry(p, op, n)
      /\ \A q \in Procs \ {p} : call'[q] = call[q]
  BY DEF IInv, TypeOK
<1>4. Place(p)' = (pos[file[p]] \div BlockSize) * BlockSize + (pos[file[p]] % BlockSize)
  BY <1>3 DEF Place, Entry
<1>5. Place(p)' = pos[file[p]]
  BY <1>1, <1>4, Division, BlockDevAssumption
<1> QED
  BY <1>2, <1>3, <1>5 DEF Begin, Entry

(* A turn goes forward by its piece, and stays on the device. *)
LEMMA TurnGoesOn ==
  ASSUME IInv, NEW p \in Procs, Turn(p), NEW k, k = Chars(call[p])
  PROVE  /\ k \in 1 .. call[p].count /\ k <= MaxCount
         /\ Place(p) + k <= NBlocks * BlockSize
         /\ call'[p].op = call[p].op
         /\ call'[p].count = call[p].count - k
         /\ call'[p].done = call[p].done + k
         /\ call'[p].count > 0 => Place(p)' = Place(p) + k
         /\ \A q \in Procs \ {p} : call'[q] = call[q]
         /\ pos' = [pos EXCEPT ![file[p]] = pos[file[p]] + k]
         /\ UNCHANGED file
<1> DEFINE c == call[p]
<1>1. c \in Calls /\ c.count > 0 /\ c.block \in Blocks
  BY DEF IInv, TypeOK, Turn
<1>2. k \in 1 .. c.count /\ c.offset + k <= BlockSize
  BY <1>1, CharsTyped
<1>3. /\ call'[p] = AfterPiece(c)
      /\ \A q \in Procs \ {p} : call'[q] = call[q]
      /\ pos' = [pos EXCEPT ![file[p]] = pos[file[p]] + k]
      /\ UNCHANGED file
  BY DEF Turn, IInv, TypeOK
<1>4. /\ c.count \in 1 .. MaxCount /\ c.offset \in Nat /\ c.block \in Nat
      /\ c.block < NBlocks
      /\ BlockSize \in Nat \ {0} /\ NBlocks \in Nat /\ MaxCount \in Nat
  BY <1>1, BlockDevAssumption, MaxCountTyped DEF Calls, Blocks, Offsets
<1>5. c.block * BlockSize + BlockSize <= NBlocks * BlockSize
  BY <1>4, Monotone
<1>6. c.block * BlockSize \in Nat /\ NBlocks * BlockSize \in Nat
  BY <1>4, Z3
<1>7. Place(p) + k <= NBlocks * BlockSize
  BY <1>2, <1>4, <1>5, <1>6 DEF Place
<1>8. /\ call'[p].op = c.op /\ call'[p].count = c.count - k
      /\ call'[p].done = c.done + k
      /\ call'[p].block = c.block + 1 /\ call'[p].offset = 0
  BY <1>3 DEF AfterPiece
<1>9. ASSUME c.count - k > 0
      PROVE  Place(p)' = Place(p) + k
  <2>1. k = BlockSize - c.offset
    BY <1>2, <1>4, <1>9 DEF Chars
  <2>2. (c.block + 1) * BlockSize = c.block * BlockSize + BlockSize
    BY <1>4, Z3
  <2>3. Place(p)' = (c.block + 1) * BlockSize + 0
    BY <1>8 DEF Place
  <2> QED
    BY <1>4, <1>6, <2>1, <2>2, <2>3 DEF Place
<1> QED
  BY <1>2, <1>3, <1>4, <1>7, <1>8, <1>9

(* The invariant that a process alone with its file is where the file is.  *)
LEMMA OwnOffsetKept ==
  ASSUME IInv, OwnOffsetIsPlace, [Next]_vars
  PROVE  OwnOffsetIsPlace'
<1> SUFFICES ASSUME NEW r \in Procs, call'[r].count > 0,
                    ~SharesFile(r)'
             PROVE  pos'[file'[r]] = Place(r)'
  BY DEF OwnOffsetIsPlace, Moving
<1>0. file' = file
  BY RegularMovesNothing DEF Next, Begin, ReadTurn, WriteTurn, Turn, Return, vars
<1>1. \A q \in Procs : q # r => file[q] # file[r]
  BY <1>0 DEF SharesFile
<1>2. call[r].count > 0 => pos[file[r]] = Place(r)
  BY <1>1 DEF OwnOffsetIsPlace, Moving, SharesFile
<1>3. CASE UNCHANGED vars
  BY <1>2, <1>3 DEF vars, Place
<1>4. ASSUME NEW p \in Procs, Begin(p)
      PROVE  pos'[file'[r]] = Place(r)'
  BY <1>2, <1>4, BeginAtOffset DEF Place
<1>5. ASSUME NEW p \in Procs, Turn(p)
      PROVE  pos'[file'[r]] = Place(r)'
  <2> PICK k : k = Chars(call[p])
    OBVIOUS
  <2>1. pos' = [pos EXCEPT ![file[p]] = pos[file[p]] + k] /\ file[p] \in Files
    BY <1>5, TurnGoesOn DEF IInv, TypeOK
  <2>2. CASE p = r
    <3>1. k \in 1 .. call[r].count /\ call[r].count \in Nat
      BY <1>5, <2>2, TurnGoesOn, MaxCountTyped DEF IInv, TypeOK, Calls
    <3>2. Place(r)' = Place(r) + k
      BY <1>5, <2>2, TurnGoesOn
    <3>3. pos[file[r]] = Place(r)
      BY <1>2, <3>1
    <3>4. pos'[file[r]] = pos[file[r]] + k
      BY <2>1, <2>2 DEF IInv, TypeOK
    <3> QED
      BY <1>0, <3>2, <3>3, <3>4
  <2>3. CASE p # r
    <3>1. call'[r] = call[r]
      BY <1>5, <2>3, TurnGoesOn
    <3>2. pos'[file[r]] = pos[file[r]]
      BY <1>1, <2>1, <2>3 DEF IInv, TypeOK
    <3> QED
      BY <1>0, <1>2, <3>1, <3>2 DEF Place
  <2> QED
    BY <2>2, <2>3
<1>6. ASSUME NEW p \in Procs, Return(p)
      PROVE  pos'[file'[r]] = Place(r)'
  <2>1. r # p
    BY <1>6 DEF Return, IInv, TypeOK, Idle
  <2>2. call'[r] = call[r] /\ pos' = pos
    BY <1>6, <2>1 DEF Return, IInv, TypeOK
  <2> QED
    BY <1>0, <1>2, <2>2 DEF Place
<1> QED
  BY <1>3, <1>4, <1>5, <1>6, RegularMovesNothing DEF Next, ReadTurn, WriteTurn

-----------------------------------------------------------------------------
(* The local variables of block_read and block_write keep their types, and *)
(* no call moves more bytes than it was asked for.                         *)
THEOREM BlockDevTypeCorrect == Spec => []TypeOK
BY InitKeeps, StepKeeps, PTL DEF Spec, IInv

(* block_read and block_write work at file->offset throughout, for every   *)
(* process that shares its struct_file with nobody.                        *)
THEOREM OwnOffset == Spec => []OwnOffsetIsPlace
<1>1. Init => OwnOffsetIsPlace
  BY DEF Init, OwnOffsetIsPlace, Moving, Idle
<1> QED
  BY <1>1, InitKeeps, StepKeeps, OwnOffsetKept, PTL DEF Spec

-----------------------------------------------------------------------------
(* What the calls on a file have moved so far.                             *)

DoneOn(f) == [p \in Procs |-> IF file[p] = f THEN call[p].done ELSE 0]

Counted ==
  \A f \in Files : /\ IsFiniteSet(Units(DoneOn(f)))
                   /\ pos[f] = returned[f] + Total(DoneOn(f))

LEMMA DoneTyped ==
  ASSUME IInv, NEW f \in Files
  PROVE  DoneOn(f) \in [Procs -> Nat]
BY MaxCountTyped DEF IInv, TypeOK, Calls, DoneOn

(* p's call moves bytes, or returns their number, and no other does.       *)
LEMMA CountFollows ==
  ASSUME IInv, IInv', Counted, NEW p \in Procs, UNCHANGED file,
         \A q \in Procs : q # p => call'[q] = call[q],
         \A f \in Files : f # file[p] => pos'[f] = pos[f] /\ returned'[f] = returned[f],
         pos'[file[p]] - returned'[file[p]] - call'[p].done
           = pos[file[p]] - returned[file[p]] - call[p].done
  PROVE  Counted'
<1>1. SUFFICES ASSUME NEW f \in Files
               PROVE  /\ IsFiniteSet(Units(DoneOn(f)'))
                      /\ pos'[f] = returned'[f] + Total(DoneOn(f)')
  BY DEF Counted
<1>2. IsFiniteSet(Units(DoneOn(f))) /\ pos[f] = returned[f] + Total(DoneOn(f))
  BY DEF Counted
<1>3. CASE f # file[p]
  <2>1. DoneOn(f)' = DoneOn(f)  BY <1>3 DEF DoneOn
  <2> QED BY <1>2, <1>3, <2>1
<1>4. CASE f = file[p]
  <2>1. PICK R \in [Procs -> Nat] : R = DoneOn(f)  BY DoneTyped
  <2>2. PICK S \in [Procs -> Nat] : S = DoneOn(f)'
    <3>1. DoneOn(f)' \in [Procs -> Nat]
      BY MaxCountTyped DEF IInv, TypeOK, Calls, DoneOn
    <3> QED BY <3>1
  <2>3. R[p] = call[p].done /\ S[p] = call'[p].done /\ AllBut(p, R, S)
    BY <1>4, <2>1, <2>2 DEF DoneOn, AllBut
  <2>4. IsFiniteSet(Units(S)) /\ Total(S) = Total(R) - R[p] + S[p]
    BY <1>2, <2>1, <2>3, TotalChanges
  <2>5. /\ pos[f] \in Nat /\ returned[f] \in Nat /\ pos'[f] \in Nat /\ returned'[f] \in Nat
        /\ Total(R) \in Nat
    BY <1>2, <2>1, FS_CardinalityType DEF IInv, TypeOK, Total
  <2> QED BY <1>2, <1>4, <2>1, <2>2, <2>3, <2>4, <2>5
<1> QED BY <1>3, <1>4

LEMMA InitCounted == Init => Counted
<1> SUFFICES ASSUME Init, NEW f \in Files
             PROVE  IsFiniteSet(Units(DoneOn(f))) /\ pos[f] = returned[f] + Total(DoneOn(f))
  BY DEF Counted
<1>1. \A p \in Procs : DoneOn(f)[p] = 0
  BY DEF Init, Idle, DoneOn
<1>2. DoneOn(f) \in [Procs -> Nat]
  BY InitKeeps, DoneTyped
<1>3. IsFiniteSet(Units(DoneOn(f))) /\ Total(DoneOn(f)) = 0
  BY <1>1, <1>2, TotalOfNothing
<1> QED BY <1>3 DEF Init

LEMMA StepCounted == IInv /\ Counted /\ [Next]_vars => Counted'
<1> SUFFICES ASSUME IInv, Counted, [Next]_vars PROVE Counted'
  OBVIOUS
<1>0. IInv'  BY StepKeeps
<1>1. ASSUME NEW p \in Procs, Begin(p) PROVE Counted'
  <2>1. call[p].done = 0 /\ call'[p].done = 0
    BY <1>1 DEF Begin, Idle, Entry, IInv, TypeOK
  <2>2. \A q \in Procs : q # p => call'[q] = call[q]
    BY <1>1 DEF Begin, IInv, TypeOK
  <2> QED BY <1>0, <1>1, <2>1, <2>2, CountFollows DEF Begin
<1>2. ASSUME NEW p \in Procs, Turn(p) PROVE Counted'
  <2>1. call[p] \in Calls /\ Chars(call[p]) \in Nat
    <3>1. call[p] \in Calls /\ call[p].count > 0  BY <1>2 DEF IInv, TypeOK, Turn
    <3> QED BY <3>1, CharsTyped DEF Calls
  <2>2. call'[p] = AfterPiece(call[p]) /\ \A q \in Procs : q # p => call'[q] = call[q]
    BY <1>2 DEF Turn, IInv, TypeOK
  <2>3. call'[p].done = call[p].done + Chars(call[p])
    BY <2>2 DEF AfterPiece
  <2>4. /\ file[p] \in Files /\ pos'[file[p]] = pos[file[p]] + Chars(call[p])
        /\ \A f \in Files : f # file[p] => pos'[f] = pos[f]
        /\ UNCHANGED <<file, returned>>
    BY <1>2 DEF Turn, IInv, TypeOK
  <2>5. /\ call[p].done \in Nat /\ pos[file[p]] \in Nat /\ returned[file[p]] \in Nat
    BY <2>1, <2>4, MaxCountTyped DEF Calls, IInv, TypeOK
  <2> HIDE DEF AfterPiece
  <2>6. pos'[file[p]] - returned'[file[p]] - call'[p].done
          = pos[file[p]] - returned[file[p]] - call[p].done
    BY <2>1, <2>3, <2>4, <2>5
  <2> QED BY <1>0, <2>2, <2>4, <2>6, CountFollows
<1>3. ASSUME NEW p \in Procs, Return(p) PROVE Counted'
  <2>1. /\ file[p] \in Files /\ returned'[file[p]] = returned[file[p]] + call[p].done
        /\ \A f \in Files : f # file[p] => returned'[f] = returned[f]
        /\ UNCHANGED <<file, pos>>
    BY <1>3 DEF Return, IInv, TypeOK
  <2>2. call'[p].done = 0 /\ \A q \in Procs : q # p => call'[q] = call[q]
    BY <1>3 DEF Return, Idle, IInv, TypeOK
  <2>3. call[p].done \in Nat /\ pos[file[p]] \in Nat /\ returned[file[p]] \in Nat
    BY <2>1, MaxCountTyped DEF Calls, IInv, TypeOK
  <2>4. pos'[file[p]] - returned'[file[p]] - call'[p].done
          = pos[file[p]] - returned[file[p]] - call[p].done
    BY <2>1, <2>2, <2>3
  <2> QED BY <1>0, <2>1, <2>2, <2>4, CountFollows
<1>4. CASE UNCHANGED vars
  BY <1>4 DEF vars, Counted, DoneOn
<1> QED
  BY <1>1, <1>2, <1>3, <1>4, RegularMovesNothing DEF Next, ReadTurn, WriteTurn

(* sys_read and sys_write return what the offset of the file moves by, for *)
(* any processes that share the file, with their calls still under way.    *)
THEOREM OffsetCounts == Spec => []OffsetCountsReturned
<1>1. Counted => OffsetCountsReturned
  BY DEF Counted, OffsetCountsReturned, DoneOn
<1> QED
  BY <1>1, InitKeeps, StepKeeps, InitCounted, StepCounted, PTL DEF Spec

-----------------------------------------------------------------------------
(* Refinement.                                                             *)

ByteCalls == [q \in Procs |-> ByteCall(q)]

LEMMA ByteCallIdle ==
  ASSUME NEW p \in Procs, call[p] = Idle
  PROVE  ByteCall(p) = AsBytes!Idle
BY DEF ByteCall, Idle, AsBytes!Idle, Moving

(* What a write of k bytes makes of a block, and of the row of all bytes:  *)
(* bytes d, d + 1, ... of p from offset o on, or from place x0 on.         *)
BlockAfter(b, o, k, p, d) ==
  [i \in Offsets |-> IF o <= i /\ i < o + k THEN Byte(p, d + (i - o))
                     ELSE data[b][i]]

ByteDevAfter(x0, k, p, d) ==
  [x \in 0 .. NBlocks * BlockSize - 1 |->
     IF x0 <= x /\ x < x0 + k THEN Byte(p, d + (x - x0)) ELSE ByteDev[x]]

LEMMA DevUpdate ==
  ASSUME NEW b \in Blocks, NEW o \in Offsets, NEW k \in Nat,
         o + k <= BlockSize, NEW p, NEW d \in Nat, data \in [Blocks -> [Offsets -> Bytes]],
         data' = [data EXCEPT ![b] = BlockAfter(b, o, k, p, d)]
  PROVE  ByteDev' = ByteDevAfter(b * BlockSize + o, k, p, d)
<1> DEFINE S == BlockSize
           N == NBlocks * BlockSize
<1>1. S \in Nat \ {0} /\ NBlocks \in Nat /\ N \in Nat
  BY BlockDevAssumption, Z3
<1>2. b \in Nat /\ b < NBlocks /\ o \in 0 .. S - 1 /\ b * S \in Nat
  BY <1>1, Z3 DEF Blocks, Offsets
<1> SUFFICES ASSUME NEW x \in 0 .. N - 1
             PROVE  data'[x \div S][x % S] =
                      IF b * S + o <= x /\ x < b * S + o + k
                      THEN Byte(p, d + (x - (b * S + o))) ELSE data[x \div S][x % S]
  BY DEF ByteDev, ByteDevAfter
<1> DEFINE q == x \div S
           r == x % S
<1> HIDE DEF N
<1>a. x \in Nat
  BY <1>1
<1>3. q \in Nat /\ r \in 0 .. S - 1 /\ q * S + r = x
  BY <1>1, <1>a, Division
<1> HIDE DEF q, r
<1>4. q * S \in Nat
  BY <1>1, <1>3, Z3
<1>5. CASE q = b
  <2>1. x - (b * S + o) = r - o
    BY <1>1, <1>2, <1>3, <1>5
  <2>2. (b * S + o <= x /\ x < b * S + o + k) <=> (o <= r /\ r < o + k)
    BY <1>1, <1>2, <1>3, <1>5
  <2>3. data'[b][r] = IF o <= r /\ r < o + k THEN Byte(p, d + (r - o)) ELSE data[b][r]
    BY <1>3 DEF Offsets, BlockAfter
  <2> QED
    BY <1>5, <2>1, <2>2, <2>3 DEF q, r
<1>6. CASE q # b
  <2>1. q * S + S <= b * S \/ b * S + S <= q * S
    BY <1>1, <1>2, <1>3, <1>6, Monotone
  <2>2. ~(b * S + o <= x /\ x < b * S + o + k)
    BY <1>1, <1>2, <1>3, <1>4, <2>1
  <2>3. data'[q] = data[q]
    BY <1>6
  <2> QED
    BY <2>2, <2>3 DEF q, r
<1> QED
  BY <1>5, <1>6

(* A byte of the device, where its block has it. *)
LEMMA DevRead ==
  ASSUME NEW b \in Blocks, NEW o \in Offsets
  PROVE  ByteDev[b * BlockSize + o] = data[b][o]
<1>1. /\ BlockSize \in Nat \ {0} /\ NBlocks \in Nat
      /\ b \in Nat /\ b < NBlocks /\ o \in 0 .. BlockSize - 1
  BY BlockDevAssumption DEF Blocks, Offsets
<1>2. b * BlockSize + BlockSize <= NBlocks * BlockSize
  BY <1>1, Monotone
<1>3. b * BlockSize \in Nat /\ NBlocks * BlockSize \in Nat
  BY <1>1, Z3
<1>4. b * BlockSize + o \in 0 .. NBlocks * BlockSize - 1
  BY <1>1, <1>2, <1>3
<1> QED
  BY <1>1, <1>4, DivisionUnique DEF ByteDev

LEMMA InitRefines == Init => AsBytes!Init
<1> SUFFICES ASSUME Init PROVE AsBytes!Init
  OBVIOUS
<1>1. ByteCalls = [p \in Procs |-> AsBytes!Idle]
  BY ByteCallIdle DEF Init, ByteCalls
<1>2. ByteDev = [x \in 0 .. NBlocks * BlockSize - 1 |-> Blank]
  <2> SUFFICES ASSUME NEW x \in 0 .. NBlocks * BlockSize - 1
               PROVE  data[x \div BlockSize][x % BlockSize] = Blank
    BY DEF ByteDev
  <2>1. /\ BlockSize \in Nat \ {0} /\ NBlocks \in Nat
        /\ NBlocks * BlockSize \in Nat
    BY BlockDevAssumption, Z3
  <2> DEFINE q == x \div BlockSize
             r == x % BlockSize
  <2>a. x \in Nat /\ x < NBlocks * BlockSize
    BY <2>1
  <2>2. q \in Nat /\ r \in 0 .. BlockSize - 1 /\ q * BlockSize + r = x
    BY <2>1, <2>a, Division
  <2> HIDE DEF q, r
  <2>3. q * BlockSize \in Nat
    BY <2>1, <2>2, Z3
  <2>4. ~(NBlocks < q) /\ q # NBlocks
    BY <2>1, <2>2, <2>3, <2>a, Monotone
  <2>5. q \in Blocks /\ r \in Offsets
    BY <2>1, <2>2, <2>4 DEF Blocks, Offsets
  <2>6. data[q][r] = Blank
    BY <2>5 DEF Init
  <2> QED
    BY <2>6 DEF q, r
<1> QED
  BY <1>1, <1>2
     DEF Init, AsBytes!Init, ByteCalls, AsBytes!Places, AsBytes!Indices, Indices

LEMMA BeginRefines ==
  ASSUME IInv, NEW p \in Procs, Begin(p)
  PROVE  AsBytes!Begin(p)
<1>1. call[p] = Idle
  BY DEF Begin
<1> PICK op \in {"read", "write"}, n \in 1 .. MaxCount :
      call'[p].op = op /\ call'[p].count = n
  BY BeginAtOffset
<1>2. /\ call'[p].done = 0 /\ Place(p)' = pos[file[p]]
      /\ \A q \in Procs \ {p} : call'[q] = call[q]
      /\ UNCHANGED <<file, pos, data, user>>
  BY BeginAtOffset
<1>3. ByteCall(p)' = [op |-> op, place |-> pos[file[p]], left |-> n, done |-> 0]
  BY <1>2 DEF ByteCall, Moving
<1>4. \A q \in Procs \ {p} : ByteCall(q)' = ByteCall(q)
  BY <1>2 DEF ByteCall, Moving, Place
<1>5. ByteCalls' = [ByteCalls EXCEPT ![p] =
                     [op |-> op, place |-> pos[file[p]], left |-> n, done |-> 0]]
  BY <1>3, <1>4 DEF ByteCalls
<1>6. ByteCalls[p] = AsBytes!Idle
  BY <1>1, ByteCallIdle DEF ByteCalls
<1>7. UNCHANGED <<file, pos, ByteDev, user>>
  BY <1>2 DEF ByteDev
<1> QED
  BY <1>5, <1>6, <1>7 DEF AsBytes!Begin, ByteCalls

LEMMA TurnRefines ==
  ASSUME IInv, NEW p \in Procs, Turn(p), NEW k, k = Chars(call[p])
  PROVE  AsBytes!Advance(p, k)
<1>1. /\ k \in 1 .. call[p].count /\ call'[p].op = call[p].op
      /\ call'[p].count = call[p].count - k
      /\ call'[p].done = call[p].done + k
      /\ call'[p].count > 0 => Place(p)' = Place(p) + k
      /\ \A q \in Procs \ {p} : call'[q] = call[q]
      /\ pos' = [pos EXCEPT ![file[p]] = pos[file[p]] + k]
  BY TurnGoesOn
<1>2. call[p].count \in Nat /\ call[p].count > 0
  BY DEF Turn, IInv, TypeOK, Calls
<1>3. ByteCall(p)' = [op |-> ByteCall(p).op,
                      place |-> IF k = ByteCall(p).left THEN 0
                                ELSE ByteCall(p).place + k,
                      left |-> ByteCall(p).left - k,
                      done |-> ByteCall(p).done + k]
  <2>1. call'[p].count > 0 <=> k # call[p].count
    BY <1>1, <1>2
  <2> QED
    BY <1>1, <1>2, <2>1 DEF ByteCall, Moving
<1>4. \A q \in Procs \ {p} : ByteCall(q)' = ByteCall(q)
  BY <1>1 DEF ByteCall, Moving, Place
<1>5. ByteCalls' = [ByteCalls EXCEPT ![p] =
                     [op |-> ByteCalls[p].op,
                      place |-> IF k = ByteCalls[p].left THEN 0
                                ELSE ByteCalls[p].place + k,
                      left |-> ByteCalls[p].left - k,
                      done |-> ByteCalls[p].done + k]]
  BY <1>3, <1>4 DEF ByteCalls
<1> QED
  BY <1>1, <1>5 DEF AsBytes!Advance, ByteCalls

LEMMA WriteTurnRefines ==
  ASSUME IInv, NEW p \in Procs, WriteTurn(p), NEW k, k = Chars(call[p])
  PROVE  k \in 1 .. MaxCount /\ AsBytes!Write(p, k)
<1> DEFINE c == call[p]
           at == Place(p)
<1>1. /\ Turn(p) /\ c.op = "write" /\ UNCHANGED user
      /\ c \in Calls /\ c.count > 0 /\ c.block \in Blocks
      /\ data \in [Blocks -> [Offsets -> Bytes]]
  BY DEF WriteTurn, Turn, IInv, TypeOK
<1>2. /\ k \in 1 .. c.count /\ k <= MaxCount
      /\ at + k <= NBlocks * BlockSize /\ UNCHANGED file
  BY <1>1, TurnGoesOn
<1>3. k \in 1 .. MaxCount /\ k \in Nat /\ k <= c.count
  BY <1>1, <1>2, MaxCountTyped DEF Calls
<1>4. c.offset + k <= BlockSize /\ c.offset \in Offsets /\ c.done \in Nat
  BY <1>1, CharsTyped, MaxCountTyped DEF Calls
<1>5. data' = [data EXCEPT ![c.block] =
                [i \in Offsets |-> IF c.offset <= i /\ i < c.offset + k
                                   THEN Byte(p, c.done + (i - c.offset))
                                   ELSE data[c.block][i]]]
  BY DEF WriteTurn
<1>6. ByteDev' = ByteDevAfter(at, k, p, c.done)
  <2>0. PICK b, o, d : b = c.block /\ o = c.offset /\ d = c.done
    OBVIOUS
  <2>1. b \in Blocks /\ o \in Offsets /\ d \in Nat /\ k \in Nat /\ o + k <= BlockSize
    BY <1>1, <1>3, <1>4, <2>0
  <2>2. data' = [data EXCEPT ![b] = BlockAfter(b, o, k, p, d)]
    BY <1>5, <2>0 DEF BlockAfter
  <2>3. ByteDev' = ByteDevAfter(b * BlockSize + o, k, p, d)
    BY <1>1, <2>1, <2>2, DevUpdate
  <2>4. at = b * BlockSize + o
    BY <2>0 DEF Place
  <2> QED
    BY <2>0, <2>3, <2>4
<1>7. ByteDev' = [x \in AsBytes!Places |->
                   IF at <= x /\ x < at + k
                   THEN AsBytes!Byte(p, c.done + (x - at)) ELSE ByteDev[x]]
  BY <1>6 DEF ByteDevAfter, AsBytes!Places, AsBytes!Byte, Byte
<1>8. /\ ByteCalls[p].op = "write" /\ ByteCalls[p].left = c.count
      /\ ByteCalls[p].place = at /\ ByteCalls[p].done = c.done
  BY <1>1 DEF ByteCalls, ByteCall, Moving
<1>9. AsBytes!Advance(p, k)
  BY <1>1, TurnRefines
<1> HIDE DEF at
<1> QED
  BY <1>1, <1>2, <1>3, <1>7, <1>8, <1>9 DEF AsBytes!Write, ByteCalls

LEMMA ReadTurnRefines ==
  ASSUME IInv, NEW p \in Procs, ReadTurn(p), NEW k, k = Chars(call[p])
  PROVE  k \in 1 .. MaxCount /\ AsBytes!Read(p, k)
<1> DEFINE c == call[p]
           at == Place(p)
<1>1. /\ Turn(p) /\ c.op = "read" /\ UNCHANGED data
      /\ c \in Calls /\ c.count > 0 /\ c.block \in Blocks
  BY DEF ReadTurn, Turn, IInv, TypeOK
<1>2. /\ k \in 1 .. c.count /\ k <= MaxCount
      /\ at + k <= NBlocks * BlockSize /\ UNCHANGED file
  BY <1>1, TurnGoesOn
<1>3. k \in 1 .. MaxCount /\ k \in Nat /\ k <= c.count
  BY <1>1, <1>2, MaxCountTyped DEF Calls
<1>4. c.offset + k <= BlockSize /\ c.offset \in 0 .. BlockSize - 1 /\ c.done \in Nat
  BY <1>1, CharsTyped, MaxCountTyped DEF Calls, Offsets
<1>5. ASSUME NEW i \in Indices, c.done <= i, i < c.done + k
      PROVE  data[c.block][c.offset + (i - c.done)] = ByteDev[at + (i - c.done)]
  <2>1. /\ i \in Nat /\ c.offset + (i - c.done) \in 0 .. BlockSize - 1
        /\ BlockSize \in Nat /\ c.block \in Nat
    BY <1>3, <1>4, <1>5, MaxCountTyped, BlockDevAssumption, <1>1 DEF Indices, Calls
  <2>2. c.block * BlockSize \in Nat
    BY <2>1, Z3
  <2>3. ByteDev[c.block * BlockSize + (c.offset + (i - c.done))]
          = data[c.block][c.offset + (i - c.done)]
    BY <1>1, <2>1, DevRead DEF Offsets
  <2>4. c.block * BlockSize + (c.offset + (i - c.done)) = at + (i - c.done)
    BY <1>4, <2>1, <2>2 DEF Place
  <2> QED
    BY <2>3, <2>4
<1>6. user' = [user EXCEPT ![p] =
                [i \in Indices |-> IF c.done <= i /\ i < c.done + k
                                   THEN data[c.block][c.offset + (i - c.done)]
                                   ELSE user[p][i]]]
  BY DEF ReadTurn
<1>7. user' = [user EXCEPT ![p] =
                [i \in AsBytes!Indices |-> IF c.done <= i /\ i < c.done + k
                                           THEN ByteDev[at + (i - c.done)]
                                           ELSE user[p][i]]]
  <2>1. [i \in Indices |-> IF c.done <= i /\ i < c.done + k
                           THEN data[c.block][c.offset + (i - c.done)]
                           ELSE user[p][i]]
        = [i \in Indices |-> IF c.done <= i /\ i < c.done + k
                             THEN ByteDev[at + (i - c.done)] ELSE user[p][i]]
    BY <1>5
  <2> QED
    BY <1>6, <2>1 DEF Indices, AsBytes!Indices
<1>8. /\ ByteCalls[p].op = "read" /\ ByteCalls[p].left = c.count
      /\ ByteCalls[p].place = at /\ ByteCalls[p].done = c.done
  BY <1>1 DEF ByteCalls, ByteCall, Moving
<1>9. AsBytes!Advance(p, k) /\ UNCHANGED ByteDev
  BY <1>1, TurnRefines DEF ByteDev
<1> HIDE DEF at
<1> QED
  BY <1>1, <1>2, <1>3, <1>7, <1>8, <1>9 DEF AsBytes!Read, ByteCalls

LEMMA ReturnRefines ==
  ASSUME IInv, NEW p \in Procs, Return(p)
  PROVE  AsBytes!End(p)
<1>1. /\ call[p] # Idle /\ call'[p] = Idle
      /\ \A q \in Procs \ {p} : call'[q] = call[q]
      /\ UNCHANGED <<file, pos, data>>
  BY DEF Return, IInv, TypeOK
<1>2. call[p].op # "none"
  BY <1>1 DEF IInv, NoneIsIdle
<1>3. ByteCall(p) # AsBytes!Idle
  BY <1>2 DEF ByteCall, AsBytes!Idle
<1>4. ByteCall(p)' = AsBytes!Idle
  BY <1>1 DEF ByteCall, Idle, AsBytes!Idle, Moving
<1>5. \A q \in Procs \ {p} : ByteCall(q)' = ByteCall(q)
  BY <1>1 DEF ByteCall, Moving, Place
<1> DEFINE none == AsBytes!Idle
<1>a. ByteCalls[p] # none
  BY <1>3 DEF ByteCalls
<1>b. ByteCall(p)' = none
  BY <1>4
<1> HIDE DEF none
<1>c. ByteCalls' = [ByteCalls EXCEPT ![p] = none]
  BY <1>5, <1>b DEF ByteCalls
<1>6. ByteCalls' = [ByteCalls EXCEPT ![p] = AsBytes!Idle] /\ ByteCalls[p] # AsBytes!Idle
  BY <1>a, <1>c DEF none
<1>7. user' = [user EXCEPT ![p] = [i \in AsBytes!Indices |-> Blank]]
  BY DEF Return, Indices, AsBytes!Indices
<1> QED
  BY <1>1, <1>6, <1>7 DEF AsBytes!End, ByteCalls, ByteDev

LEMMA StepRefines == IInv /\ [Next]_vars => [AsBytes!Next]_(AsBytes!vars)
<1> SUFFICES ASSUME IInv, [Next]_vars PROVE [AsBytes!Next]_(AsBytes!vars)
  OBVIOUS
<1>1. ASSUME NEW p \in Procs, Begin(p) PROVE AsBytes!Next
  BY <1>1, BeginRefines DEF AsBytes!Next
<1>2. ASSUME NEW p \in Procs, WriteTurn(p) PROVE AsBytes!Next
  BY <1>2, WriteTurnRefines DEF AsBytes!Next
<1>3. ASSUME NEW p \in Procs, ReadTurn(p) PROVE AsBytes!Next
  BY <1>3, ReadTurnRefines DEF AsBytes!Next
<1>4. ASSUME NEW p \in Procs, Return(p) PROVE AsBytes!Next
  BY <1>4, ReturnRefines DEF AsBytes!Next
<1>5. CASE UNCHANGED vars
  BY <1>5 DEF vars, AsBytes!vars, ByteDev, ByteCall, Moving, Place
<1> QED
  BY <1>1, <1>2, <1>3, <1>4, <1>5, RegularMovesNothing DEF Next

(* block_read and block_write implement ByteFile: whatever the block size, *)
(* the lengths of the calls, and the turns of other processes in between,  *)
(* bytes go to and come from consecutive places in the order of the        *)
(* buffer, and the offset of the file goes forward with them.              *)
THEOREM Refinement == Spec => MovesBytes
<1>1. Spec => []IInv
  BY InitKeeps, StepKeeps, PTL DEF Spec
<1>2. []IInv /\ [][Next]_vars => [][AsBytes!Next]_(AsBytes!vars)
  BY StepRefines, PTL
<1> QED
  BY <1>1, <1>2, InitRefines, PTL DEF Spec, MovesBytes, AsBytes!Spec
=============================================================================
