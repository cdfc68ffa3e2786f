------------------------------ MODULE HdDriver ------------------------------
(***************************************************************************)
(* The hard disk driver, kernel/blk/hd.c, with add_request and end_request *)
(* above an ATA drive that answers every command with one interrupt: that  *)
(* drive and the 8259 are external.                                        *)
(*                                                                         *)
(* The interrupt handler runs with interrupts disabled, in one step.  The  *)
(* process that adds a request runs with interrupts enabled: between any   *)
(* two of its steps the disk may come in, and do_hd_request, failed_rw and *)
(* end_request are then run in the middle of their own run.  The timer is  *)
(* left out, as in BufferCache: one process at a time is in here.          *)
(*                                                                         *)
(* What is not followed, because the code is already out of order there:   *)
(* "lost": there is no request left, and the code takes the words at       *)
(* address 0 for one.  "crossed": the interrupt has ended the request that *)
(* the process was just ending (RequestIsLocked).                          *)
(***************************************************************************)
EXTENDS Integers, SequencesExt

CONSTANTS
  MAX_ERRORS,  \* 7
  NR_REQUEST   \* elements of blk_request[] (bound: 32 in the code)

ASSUME HdAssumption ==
  /\ MAX_ERRORS \in Nat \ {0}
  /\ NR_REQUEST \in Nat \ {0}

VARIABLES
  queue,   \* current_request and the requests behind it
  flight,  \* the drive has a command it did not answer yet
  mode,    \* "up", "lost", "crossed", or "halted" by the code's own checks
  at,      \* where the process is; "idle": in neither function
  behind,  \* add_request's tmp: how many requests from it to the line's end
  warned,  \* history: unlock_mem_buffer printed its warning
  ended    \* history: the last step ended a request

vars == <<queue, flight, mode, at, behind, warned, ended>>

READ == 0
WRITE == 1

(* first: start_sector is 0.  The minor number is one of a drive there is. *)
(* locked: the buffer of the request is.                                   *)
Request == [cmd : {READ, WRITE}, first : BOOLEAN, nr_errors : 0 .. MAX_ERRORS,
            locked : BOOLEAN]

Places == {"idle", "read", "walk", "check", "command", "data", "end", "free", "write"}

(* What the functions of hd.c change. *)
Driver == [queue |-> queue, flight |-> flight, mode |-> mode, warned |-> warned]

Init ==
  /\ queue = <<>>
  /\ flight = FALSE
  /\ mode = "up"
  /\ at = "idle"
  /\ behind = 0
  /\ warned = FALSE
  /\ ended = FALSE

(* The step of the driver that leads to d. *)
Become(d) ==
  /\ queue' = d.queue
  /\ flight' = d.flight
  /\ mode' = d.mode
  /\ warned' = d.warned
  /\ ended' = (Len(d.queue) < Len(queue))

-----------------------------------------------------------------------------
(* The functions of hd.c, from one state of the driver to the next. *)

(* What the 10000 looks at the state of the drive may find in the end. *)
IsHdReady == BOOLEAN

(* The == of the masks binds closer than the & with the state.             *)
IsHdError == TRUE

(* end_request up to the printfs: unlock_mem_buffer and its warning. *)
Unlock(d) ==
  [d EXCEPT !.queue = [d.queue EXCEPT ![1].locked = FALSE],
            !.warned = d.warned \/ ~d.queue[1].locked]

(* Mutant: the request behind the current one is taken out of the queue. *)
FreeNext(d) ==
  [d EXCEPT !.queue = IF Len(d.queue) > 1 THEN RemoveAt(d.queue, 2) ELSE <<>>]

(* The rest of it: the slot of the request is free, the next is current. *)
Free(d) == [d EXCEPT !.queue = Tail(d.queue)]

EndRequest(d) == Free(Unlock(d))

Counted(d) == [d EXCEPT !.queue = [d.queue EXCEPT ![1].nr_errors = @ + 1]]

TooMany(d) == d.queue[1].nr_errors + 1 >= MAX_ERRORS

(* Mutant: errors are counted, and that is all. *)
FailedRwCounts(d) == Counted(d)

(* Mutant: after the last error the count starts again. *)
FailedRwForgets(d) ==
  IF TooMany(d) THEN [d EXCEPT !.queue = [d.queue EXCEPT ![1].nr_errors = 0]]
  ELSE Counted(d)

FailedRw(d) == IF TooMany(d) THEN EndRequest(d) ELSE Counted(d)

(* The sectors that a request asks for must end by sector nr_sectors, 2:   *)
(* a request that does not start at sector 0 is ended, and the code goes   *)
(* on with the next one, without looking whether that one is legal.        *)
Check(d) ==
  IF d.queue # <<>> /\ Head(d.queue).first THEN d
  ELSE IF Len(d.queue) > 1 THEN EndRequest(d)
  ELSE [d EXCEPT !.queue = <<>>, !.mode = "lost"]

(* hd_cmd_out: ready is what is_hd_ready finds. *)
Command(d, ready) ==
  IF d.mode # "up" THEN d
  ELSE IF ready THEN [d EXCEPT !.flight = TRUE] ELSE [d EXCEPT !.mode = "halted"]

Writing(d) == d.mode = "up" /\ Head(d.queue).cmd = WRITE

(* port_write sends the data of the request that is current by now. *)
Written(d) == IF d.queue = <<>> THEN [d EXCEPT !.mode = "lost"] ELSE d

(* do_hd_request as the handler runs it.  drq: whether the drive asks for  *)
(* the data of a WRITE in time; they are sent in any case.                 *)
Serve(d, ready, drq) ==
  LET sent == Command(Check(d), ready)
  IN IF ~Writing(sent) THEN sent
     ELSE Written(IF drq THEN sent ELSE FailedRw(sent))

-----------------------------------------------------------------------------
(* add_request.  Which place the elevator chooses is in BufferCache: here  *)
(* the walk may stop anywhere, and what the request asks for is chosen at  *)
(* the end of the walk.                                                    *)

At(l)  == mode = "up" /\ at = l
Step   == ended' = FALSE /\ UNCHANGED <<mode, warned>>
New(c, first) == [cmd |-> c, first |-> first, nr_errors |-> 0, locked |-> TRUE]

Requests == {New(c, first) : c \in {READ, WRITE}, first \in BOOLEAN}

(* The first look at current_request.  Nothing is in flight with an empty  *)
(* queue (IdleDrive), so that the test and the assignment are one step.    *)
Test ==
  /\ At("idle")
  /\ Len(queue) < NR_REQUEST
  /\ \/ queue = <<>> /\ at' = "check" /\ \E r \in Requests : queue' = <<r>>
     \/ queue # <<>> /\ at' = "read" /\ UNCHANGED queue
  /\ Step /\ UNCHANGED <<flight, behind>>

(* The second look. *)
Read ==
  /\ At("read")
  /\ behind' = Len(queue)
  /\ at' = "walk"
  /\ Step /\ UNCHANGED <<queue, flight>>

(* A request that has been ended still points to the one behind it. *)
Walk ==
  /\ At("walk")
  /\ behind > 1
  /\ behind' = behind - 1
  /\ Step /\ UNCHANGED <<queue, flight, at>>

(* Mutant: the request is put before the one that tmp stands on. *)
LinkBefore ==
  /\ At("walk")
  /\ at' = "idle"
  /\ behind' = 0
  /\ \E r \in Requests :
       queue' = IF behind > Len(queue) THEN queue
                ELSE InsertAt(queue, Len(queue) - behind + 1, r)
  /\ Step /\ UNCHANGED flight

(* Behind a request that has been ended meanwhile the new one is lost. *)
Link ==
  /\ At("walk")
  /\ at' = "idle"
  /\ behind' = 0
  /\ \/ behind > Len(queue) /\ UNCHANGED queue
     \/ /\ behind <= Len(queue)
        /\ \E r \in Requests :
             queue' = InsertAt(queue, Len(queue) - behind + 2, r)
  /\ Step /\ UNCHANGED flight

-----------------------------------------------------------------------------
(* do_hd_request in the process. *)

Goto(l) == at' = l /\ UNCHANGED behind

(* Nothing is in flight yet (IdleDrive), and no interrupt to wait for. *)
CheckRequest ==
  /\ At("check")
  /\ Become(Check(Driver))
  /\ Goto("command")

SendCommand ==
  /\ At("command")
  /\ \E ready \in IsHdReady :
       LET sent == Command(Driver, ready)
       IN Become(sent) /\ Goto(IF Writing(sent) THEN "data" ELSE "idle")

(* From here on the drive may answer.  failed_rw takes what is current by  *)
(* now and keeps the count it saw: one instruction, for the model.         *)
WaitForData ==
  /\ At("data")
  /\ \/ Become(Driver) /\ Goto("write")
     \/ Become(Counted(Driver)) /\ Goto(IF TooMany(Driver) THEN "end" ELSE "write")

UnlockRequest == At("end") /\ Become(Unlock(Driver)) /\ Goto("free")

FreeRequest == At("free") /\ Become(Free(Driver)) /\ Goto("write")

WriteData == At("write") /\ Become(Written(Driver)) /\ Goto("idle")

-----------------------------------------------------------------------------
(* The interrupt. *)

(* The handler has ended the request that the process is ending. *)
Crossing(d) ==
  IF at \in {"end", "free"} /\ d.mode = "up" THEN [d EXCEPT !.mode = "crossed"] ELSE d

Answered == [Driver EXCEPT !.flight = FALSE]

(* Mutant: the handler counts the error and does not start over. *)
IrqGivesUp ==
  /\ mode = "up" /\ flight
  /\ queue # <<>>
  /\ Become(FailedRw(Answered))
  /\ UNCHANGED <<at, behind>>

(* irq_hd_handler, with int_hd_read or int_hd_write, which do the same.    *)
Irq ==
  /\ mode = "up" /\ flight
  /\ IsHdError
  /\ \/ /\ queue = <<>>
        /\ Become([Answered EXCEPT !.mode = "lost"])
     \/ /\ queue # <<>>
        /\ \E ready \in IsHdReady, drq \in BOOLEAN :
             Become(Crossing(Serve(FailedRw(Answered), ready, drq)))
  /\ UNCHANGED <<at, behind>>

Next ==
  \/ Test \/ Read \/ Walk \/ Link
  \/ CheckRequest \/ SendCommand \/ WaitForData
  \/ UnlockRequest \/ FreeRequest \/ WriteData
  \/ Irq

Spec == Init /\ [][Next]_vars

-----------------------------------------------------------------------------
(* Properties. *)

(* Every variable has values of its type. *)
TypeOK ==
  /\ queue \in Seq(Request)
  /\ flight \in BOOLEAN
  /\ mode \in {"up", "lost", "crossed", "halted"}
  /\ at \in Places
  /\ behind \in Nat
  /\ warned \in BOOLEAN
  /\ ended \in BOOLEAN

Ending == mode = "up" /\ at \in {"end", "free"}

(* Errors are charged to the current request only, also by a process that  *)
(* the interrupt overtakes between its command and its failed_rw; the last *)
(* error is there only while the process ends the request; and what is put *)
(* into the queue meanwhile never goes before the one that is charged      *)
(* (failed_rw, end_request, add_request).                                  *)
ErrorsAtHead ==
  \A i \in 1 .. Len(queue) :
    /\ queue[i].nr_errors < MAX_ERRORS \/ Ending
    /\ i > 1 => queue[i].nr_errors = 0

(* With nothing to do the driver is idle: no command is in the drive when  *)
(* a process finds the queue empty, so that the process that starts a      *)
(* request is not overtaken before its command is sent (rw_blk.c:46).      *)
IdleDrive ==
  /\ mode = "up" /\ at = "idle" /\ queue = <<>> => ~flight
  /\ mode = "up" /\ at \in {"check", "command"} => ~flight

(* A request in the line is being worked on: the drive has a command, or   *)
(* the process is about to send one.  Otherwise nobody would ever start    *)
(* it, because add_request leaves it to whoever works on the current one,  *)
(* also when that one is ended between the look at the queue and the link. *)
SomebodyServes ==
  mode = "up" /\ queue # <<>> => flight \/ at \in {"check", "command"}

(* The disk interrupt cannot come for ever without a request being ended   *)
(* (MAX_ERRORS, failed_rw): nothing is supposed about when it comes.       *)
RetriesEnd == []<><<Irq>>_vars => []<>ended

(* What a request asks for, its errors left aside. *)
Kind(r)    == [cmd |-> r.cmd, first |-> r.first]
Line(q)    == [i \in 1 .. Len(q) |-> Kind(q[i])]
Promised   == INSTANCE RequestQueue
                WITH Kinds <- [cmd : {READ, WRITE}, first : BOOLEAN],
                     line  <- Line(queue)

(* do_hd_request, run by the process and by the interrupt in the middle of *)
(* it, implements the line of requests that the buffer cache relies on: a  *)
(* request leaves it only from the head, after all that went before it,    *)
(* and comes in behind it or, linked to an ended one, not at all.          *)
ServesInOrder == Promised!Spec

(* The warning of unlock_mem_buffer is for debugging (buffer.c:35): no     *)
(* request is ended whose buffer is not locked (end_request).              *)
RequestIsLocked == ~warned

=============================================================================
