------------------------------- MODULE ByteFile -------------------------------
(***************************************************************************)
(* What block_read and block_write promise, with no blocks in sight: a     *)
(* device is one row of bytes; a call starts at the offset of its file and *)
(* moves its bytes to or from consecutive places, piece by piece, in the   *)
(* order of the caller's buffer.  The offset of the file goes forward by   *)
(* the size of every piece.  A call may end short.                         *)
(***************************************************************************)
EXTENDS Integers

CONSTANTS
  Procs,    \* the callers
  Files,    \* the open files; processes may share one
  Size,     \* bytes of the device: a natural number
  MaxCount, \* bytes asked for in one call: a positive one (bound)
  Blank     \* what an unwritten byte holds

VARIABLES
  file,   \* the file of each process
  pos,    \* the offset of each file
  dev,    \* the bytes of the device
  user,   \* the buffer of each caller, blank between its calls
  call    \* the call each process is in; one with nothing left has no place

vars == <<file, pos, dev, user, call>>

Places  == 0 .. Size - 1
Indices == 0 .. MaxCount - 1

Idle == [op |-> "none", place |-> 0, left |-> 0, done |-> 0]

(* The byte at index i of what p writes. *)
Byte(p, i) == <<p, i>>

Init ==
  /\ file \in [Procs -> Files]
  /\ pos = [f \in Files |-> 0]
  /\ dev = [x \in Places |-> Blank]
  /\ user = [p \in Procs |-> [i \in Indices |-> Blank]]
  /\ call = [p \in Procs |-> Idle]

Begin(p) ==
  /\ call[p] = Idle
  /\ \E op \in {"read", "write"}, n \in 1 .. MaxCount :
       call' = [call EXCEPT ![p] =
                  [op |-> op, place |-> pos[file[p]], left |-> n, done |-> 0]]
  /\ UNCHANGED <<file, pos, dev, user>>

Advance(p, k) ==
  /\ pos' = [pos EXCEPT ![file[p]] = @ + k]
  /\ call' = [call EXCEPT ![p] = [op |-> call[p].op,
                                  place |-> IF k = call[p].left THEN 0
                                            ELSE call[p].place + k,
                                  left |-> call[p].left - k,
                                  done |-> call[p].done + k]]

Write(p, k) ==
  LET at == call[p].place
      done == call[p].done
  IN /\ call[p].op = "write" /\ k <= call[p].left /\ at + k <= Size
     /\ dev' = [x \in Places |->
                  IF at <= x /\ x < at + k THEN Byte(p, done + (x - at)) ELSE dev[x]]
     /\ Advance(p, k)
     /\ UNCHANGED <<file, user>>

Read(p, k) ==
  LET at == call[p].place
      done == call[p].done
  IN /\ call[p].op = "read" /\ k <= call[p].left /\ at + k <= Size
     /\ user' = [user EXCEPT ![p] =
                   [i \in Indices |->
                      IF done <= i /\ i < done + k THEN dev[at + (i - done)]
                      ELSE user[p][i]]]
     /\ Advance(p, k)
     /\ UNCHANGED <<file, dev>>

End(p) ==
  /\ call[p] # Idle
  /\ call' = [call EXCEPT ![p] = Idle]
  /\ user' = [user EXCEPT ![p] = [i \in Indices |-> Blank]]
  /\ UNCHANGED <<file, pos, dev>>

Next ==
  \E p \in Procs :
    \/ Begin(p) \/ End(p)
    \/ \E k \in 1 .. MaxCount : Read(p, k) \/ Write(p, k)

Spec == Init /\ [][Next]_vars
=============================================================================
