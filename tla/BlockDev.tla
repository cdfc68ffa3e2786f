------------------------------- MODULE BlockDev -------------------------------
(***************************************************************************)
(* sys_read and sys_write on a block device: fs/rw.c and the loops of      *)
(* block_read and block_write in fs/block_dev.c.  Each turn of a loop asks *)
(* bread for one block, which may sleep, and then copies the part of the   *)
(* block that belongs to the call.  Everything a turn does follows its     *)
(* bread without another sleep, so that a turn is one step.                *)
(*                                                                         *)
(* bread is what module BufferCache promises: the buffer of the block, or  *)
(* NULL when the transfer failed; always NULL past the end of the device.  *)
(* fork copies the pointers to the open files: processes share their       *)
(* struct_file and its offset.  The file of a process may also be a        *)
(* regular one (fs/file_dev.c).                                            *)
(***************************************************************************)
EXTENDS Integers, Totals

CONSTANTS
  Procs,      \* the processes that make calls
  Files,      \* struct_file of one device: who forked whom is in `file'
  Regular,    \* those of regular files and directories
  BlockSize,  \* BLOCK_SIZE, 1024
  NBlocks,    \* blocks of the device (bound)
  Counts,     \* the lengths of calls (bound)
  Blank       \* what an unwritten byte holds

ASSUME BlockDevAssumption ==
  /\ BlockSize \in Nat \ {0}
  /\ NBlocks \in Nat
  /\ Counts \subseteq Nat \ {0}
  /\ \E n \in Counts : \A m \in Counts : m <= n
  /\ Regular \subseteq Files

VARIABLES
  file,      \* current->files[fhandle] of each process
  pos,       \* file->offset, which *pos points to
  data,      \* the data of each block, as its buffer has them
  user,      \* the caller's buffer: what block_read has put there so far
  call,      \* the call of each process: block, offset, count, read / write
  returned   \* history: bytes the finished calls on each file returned

vars == <<file, pos, data, user, call, returned>>

Blocks  == 0 .. NBlocks - 1
Offsets == 0 .. BlockSize - 1
MaxCount == CHOOSE n \in Counts : \A m \in Counts : m <= n
Indices == 0 .. MaxCount - 1

Idle == [op |-> "none", block |-> 0, offset |-> 0, count |-> 0, done |-> 0]

(* The byte at index i of what p writes. *)
Byte(p, i) == <<p, i>>

Init ==
  /\ file \in [Procs -> Files]
  /\ pos = [f \in Files |-> 0]
  /\ data = [b \in Blocks |-> [o \in Offsets |-> Blank]]
  /\ user = [p \in Procs |-> [i \in Indices |-> Blank]]
  /\ call = [p \in Procs |-> Idle]
  /\ returned = [f \in Files |-> 0]

(* block and offset are worked out once, from the offset the file has now. *)
Entry(p, op, n) ==
  [op |-> op, block |-> pos[file[p]] \div BlockSize,
   offset |-> pos[file[p]] % BlockSize, count |-> n, done |-> 0]

(* A call with a legal handle and count > 0, on a block device. *)
Begin(p) ==
  /\ call[p] = Idle /\ file[p] \notin Regular
  /\ \E op \in {"read", "write"}, n \in Counts :
       call' = [call EXCEPT ![p] = Entry(p, op, n)]
  /\ UNCHANGED <<file, pos, data, user, returned>>

(* file_write, file_read: their loops run while count < 0, and sys_write   *)
(* and sys_read let positive counts through only.  Not a byte moves; the   *)
(* offset gets back the value it had, or keeps it when the file is open    *)
(* for appending; the call returns 0.  The times of the inode are left out. *)
FileWrite(p) ==
  /\ call[p] = Idle /\ file[p] \in Regular
  /\ UNCHANGED vars

FileRead(p) ==
  /\ call[p] = Idle /\ file[p] \in Regular
  /\ UNCHANGED vars

(* Mutant: the last piece is not cut to what is left of the call. *)
CharsUncut(c) == BlockSize - c.offset

Chars(c) ==
  LET chars == BlockSize - c.offset IN IF chars > c.count THEN c.count ELSE chars

(* Mutant: offset keeps its first value. *)
AfterPieceKeepsOffset(c) ==
  [op |-> c.op, block |-> c.block + 1, offset |-> c.offset,
   count |-> c.count - Chars(c), done |-> c.done + Chars(c)]

AfterPiece(c) ==
  [op |-> c.op, block |-> c.block + 1, offset |-> 0,
   count |-> c.count - Chars(c), done |-> c.done + Chars(c)]

(* What a turn does once bread has returned the buffer of the block. *)
Turn(p) ==
  /\ call[p].count > 0 /\ call[p].block \in Blocks
  /\ pos' = [pos EXCEPT ![file[p]] = @ + Chars(call[p])]
  /\ call' = [call EXCEPT ![p] = AfterPiece(call[p])]
  /\ UNCHANGED <<file, returned>>

WriteTurn(p) ==
  LET c == call[p]
  IN /\ c.op = "write" /\ Turn(p)
     /\ data' = [data EXCEPT ![c.block] =
                   [o \in Offsets |->
                      IF c.offset <= o /\ o < c.offset + Chars(c)
                      THEN Byte(p, c.done + (o - c.offset))
                      ELSE data[c.block][o]]]
     /\ UNCHANGED user

ReadTurn(p) ==
  LET c == call[p]
  IN /\ c.op = "read" /\ Turn(p)
     /\ user' = [user EXCEPT ![p] =
                   [i \in Indices |->
                      IF c.done <= i /\ i < c.done + Chars(c)
                      THEN data[c.block][c.offset + (i - c.done)]
                      ELSE user[p][i]]]
     /\ UNCHANGED data

(* Mutant: a failed bread makes the call return 0. *)
ReturnNothing(p) ==
  /\ call[p] # Idle
  /\ returned' = [returned EXCEPT ![file[p]] =
                    @ + (IF call[p].count = 0 THEN call[p].done ELSE 0)]
  /\ call' = [call EXCEPT ![p] = Idle]
  /\ user' = [user EXCEPT ![p] = [i \in Indices |-> Blank]]
  /\ UNCHANGED <<file, pos, data>>

(* Nothing is left, or bread returned NULL. *)
Return(p) ==
  /\ call[p] # Idle
  /\ returned' = [returned EXCEPT ![file[p]] = @ + call[p].done]
  /\ call' = [call EXCEPT ![p] = Idle]
  /\ user' = [user EXCEPT ![p] = [i \in Indices |-> Blank]]
  /\ UNCHANGED <<file, pos, data>>

Next ==
  \E p \in Procs :
    \/ Begin(p) \/ ReadTurn(p) \/ WriteTurn(p) \/ Return(p)
    \/ FileRead(p) \/ FileWrite(p)

Spec == Init /\ [][Next]_vars

-----------------------------------------------------------------------------
Bytes == {Blank} \union {Byte(p, i) : p \in Procs, i \in Indices}

Calls == [op : {"none", "read", "write"}, block : Nat, offset : Offsets,
          count : 0 .. MaxCount, done : 0 .. MaxCount]

(* The types of block_read's and block_write's variables, and that a call  *)
(* neither moves more bytes than it was asked for nor counts below zero.   *)
TypeOK ==
  /\ file \in [Procs -> Files]
  /\ pos \in [Files -> Nat]
  /\ data \in [Blocks -> [Offsets -> Bytes]]
  /\ user \in [Procs -> [Indices -> Bytes]]
  /\ call \in [Procs -> Calls]
  /\ \A p \in Procs : call[p].done + call[p].count <= MaxCount
  /\ returned \in [Files -> Nat]

(* Where on the device the next byte of the call of p goes. *)
Place(p) == call[p].block * BlockSize + call[p].offset

Moving(p) == call[p].count > 0

(* The device as a row of bytes, and a call as ByteFile has it.            *)
ByteDev ==
  [x \in 0 .. NBlocks * BlockSize - 1 |-> data[x \div BlockSize][x % BlockSize]]

ByteCall(p) ==
  [op |-> call[p].op, left |-> call[p].count, done |-> call[p].done,
   place |-> IF Moving(p) THEN Place(p) ELSE 0]

AsBytes ==
  INSTANCE ByteFile WITH
    Size <- NBlocks * BlockSize,
    dev  <- ByteDev,
    call <- [p \in Procs |-> ByteCall(p)]

(* block_read and block_write against ByteFile: each turn of a loop moves  *)
(* one piece of consecutive bytes in the order of the buffer, and how a    *)
(* call is divided into blocks does not show.                              *)
MovesBytes == AsBytes!Spec

(* sys_read and sys_write return what the offset of the file moves by,     *)
(* whoever shares the file and wherever a call ends short.                 *)
OffsetCountsReturned ==
  \A f \in Files :
    pos[f] = returned[f]
               + Total([p \in Procs |-> IF file[p] = f THEN call[p].done ELSE 0])

SharesFile(p) == \E q \in Procs \ {p} : file[q] = file[p]

(* A process that shares its file with nobody works where the offset of    *)
(* the file says, at every turn of the loop.                               *)
OwnOffsetIsPlace ==
  \A p \in Procs : Moving(p) /\ ~SharesFile(p) => pos[file[p]] = Place(p)
=============================================================================
