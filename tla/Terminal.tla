------------------------------- MODULE Terminal -------------------------------
(***************************************************************************)
(* One terminal: the ring of scan codes the keyboard interrupt fills       *)
(* (kernel/chr/keyboard.c), the task that parses them, the read and write  *)
(* queues of tty.c, and the console of console.c that shows the write      *)
(* queue.  The kernel has one CPU: the timer may give it to another        *)
(* process, and the keyboard may interrupt it, between any two steps with  *)
(* the interrupt flag set.  A step is one key or character put into or     *)
(* taken from a queue, or one operation of the console.                    *)
(*                                                                         *)
(* The scan code is compared with the slot of the ring, not stored, and    *)
(* the p_tail of the queues has no value: what is read from them is        *)
(* arbitrary.  So the parser of keyboard_read is left with its outcomes:   *)
(* it wants another byte, or ends, having sent two keys or none.  The      *)
(* addresses of the console are numbers that do not wrap.                  *)
(***************************************************************************)
EXTENDS Integers, Sequences

CONSTANTS
  Users,     \* processes that read and write the terminal
  KSize,     \* KEYBOARD_BUFFER_SIZE: 32
  TSize,     \* TTY_BUFFER_SIZE: 1024
  RowSize,   \* video_row_size: 160 bytes
  Rows,      \* video_rows_per_page: 25
  Start,     \* start_mem_addr of the console
  MemSize,   \* its mem_size
  Word,      \* 2^32, the range of unsigned int (bound: smaller in the run)
  MaxCall,   \* bound: characters of one tty_read or tty_write
  Low,       \* bound: lowest cursor at which a character is shown
  High,      \* bound: highest end of the text at which one is
  MaxTop,    \* bound: lines scrolled up when one is
  MaxDown    \* bound: lines top is below line 0 when one is

ASSUME TerminalAssumption ==
  /\ KSize \in Nat \ {0} /\ TSize \in Nat \ {0} /\ MaxCall \in Nat \ {0}
  /\ RowSize \in Nat \ {0} /\ Rows \in Nat /\ Word \in Nat \ {0}
  /\ Start \in Nat /\ MemSize \in Nat
  /\ Low \in Int /\ High \in Int /\ MaxTop \in Int /\ MaxDown \in Int
  /\ "task" \notin Users

Task  == "task"
Procs == Users \union {Task}

VARIABLES
  ring,     \* kbuffer: p_head and p_tail as indices, and count
  int,      \* the interrupt flag
  running,  \* the process on the CPU
  pc,       \* where each process is
  left,     \* keys, characters or insertions it still has to do
  tmp,      \* the count read_byte_from_keyboard has loaded
  rd,       \* read_buffer.count
  wr,       \* write_buffer.count
  con       \* the console: cursor_pos, current_mem_addr, top (signed)

vars == <<ring, int, running, pc, left, tmp, rd, wr, con>>

InitConsole == con = [cursor |-> Start, current |-> Start, top |-> 0]

(* With set_leds, whose acknowledgement is waited for before the interrupt *)
(* of the keyboard is enabled.                                             *)
InitKeyboard == ring = [head |-> 0, tail |-> 0, count |-> 0] /\ tmp = 0

InitTty == InitKeyboard /\ InitConsole

GetEmptyTty == rd = 0 /\ wr = 0

Init ==
  /\ InitTty /\ GetEmptyTty
  /\ int = TRUE /\ running = Task
  /\ pc = [p \in Procs |-> IF p = Task THEN "poll" ELSE "idle"]
  /\ left = [p \in Procs |-> 0]

-----------------------------------------------------------------------------
(* The keyboard interrupt and the task that parses its scan codes.         *)

Next1(k) == IF k + 1 = KSize THEN 0 ELSE k + 1

Irq ==
  /\ int
  /\ ring' = IF ring.count < KSize
             THEN [ring EXCEPT !.head = Next1(@), !.count = @ + 1] ELSE ring
  /\ UNCHANGED <<int, running, pc, left, tmp, rd, wr, con>>

On(p, at) == running = p /\ pc[p] = at
Goto(p, at) == pc' = [pc EXCEPT ![p] = at]

Poll ==
  /\ On(Task, "poll")
  /\ Goto(Task, IF ring.count > 0 THEN "byte" ELSE "console")
  /\ UNCHANGED <<ring, int, running, left, tmp, rd, wr, con>>

(* Mutant: disable_int is forgotten. *)
DisableIntSkipped == int' = int

DisableInt == int' = FALSE

(* read_byte_from_keyboard waits for a byte; count-- is a load and a store. *)
TakeByte ==
  /\ On(Task, "byte") /\ ring.count > 0
  /\ DisableInt
  /\ ring' = [ring EXCEPT !.tail = Next1(@)]
  /\ tmp' = ring.count
  /\ Goto(Task, "taken")
  /\ UNCHANGED <<running, left, rd, wr, con>>

(* The loops of Pause and PrintScreen want another byte, as often as they  *)
(* like (in the code no more than six times in one call).                  *)
MoreBytes == Goto(Task, "byte") /\ UNCHANGED left

(* The release of a key that is reported sends two keys; keyboard_read     *)
(* returns after any other byte, so that lines 304 to 372 are never        *)
(* reached.                                                                *)
Finish ==
  \/ Goto(Task, "key") /\ left' = [left EXCEPT ![Task] = 2]
  \/ Goto(Task, "console") /\ UNCHANGED left

KeyboardRead == MoreBytes \/ Finish

StoreCount ==
  /\ On(Task, "taken")
  /\ ring' = [ring EXCEPT !.count = tmp - 1]
  /\ int' = TRUE /\ tmp' = 0
  /\ KeyboardRead
  /\ UNCHANGED <<running, rd, wr, con>>

(* Mutant: a full read queue takes one more key. *)
PutKeyUnchecked ==
  /\ On(Task, "key")
  /\ rd' = rd + 1
  /\ left' = [left EXCEPT ![Task] = @ - 1]
  /\ Goto(Task, IF left[Task] = 1 THEN "console" ELSE "key")
  /\ UNCHANGED <<ring, int, running, tmp, wr, con>>

(* A full queue drops the key; those that get here have KEY_EXT and are    *)
(* not echoed.                                                             *)
PutKeyToTtyRead == rd' = IF rd < TSize THEN rd + 1 ELSE rd

(* No key that gets here switches the console or scrolls it: F1 to F4 are  *)
(* not reported, and == binds closer than &.                               *)
SysKeyProcess == PutKeyToTtyRead

PutKey ==
  /\ On(Task, "key")
  /\ SysKeyProcess
  /\ left' = [left EXCEPT ![Task] = @ - 1]
  /\ Goto(Task, IF left[Task] = 1 THEN "console" ELSE "key")
  /\ UNCHANGED <<ring, int, running, tmp, wr, con>>

-----------------------------------------------------------------------------
(* tty_read and tty_write, as chr_read, chr_write and printfs call them.   *)

Call(p, at) ==
  /\ On(p, "idle") /\ p \in Users
  /\ \E n \in 1 .. MaxCall : left' = [left EXCEPT ![p] = n]
  /\ Goto(p, at)
  /\ UNCHANGED <<ring, int, running, tmp, rd, wr, con>>

ChrRead(p)  == Call(p, "read")
ChrWrite(p) == Call(p, "write")

(* From an empty queue it takes nothing, and tty_read calls it again. *)
GetKeyFromTtyRead == rd > 0 /\ rd' = rd - 1

(* A key that reads as 0 is taken and waited for again. *)
TtyRead(p) ==
  /\ On(p, "read")
  /\ GetKeyFromTtyRead
  /\ \E n \in {left[p], left[p] - 1} :
       /\ left' = [left EXCEPT ![p] = n]
       /\ Goto(p, IF n = 0 THEN "idle" ELSE "read")
  /\ UNCHANGED <<ring, int, running, tmp, wr, con>>

PutKeyToTtyWrite == wr' = IF wr < TSize THEN wr + 1 ELSE wr

TtyWrite(p) ==
  /\ On(p, "write")
  /\ PutKeyToTtyWrite
  /\ left' = [left EXCEPT ![p] = @ - 1]
  /\ Goto(p, IF left[p] = 1 THEN "console" ELSE "write")
  /\ UNCHANGED <<ring, int, running, tmp, rd, con>>

-----------------------------------------------------------------------------
(* The console.  An operation maps a console to what it leaves.            *)

VideoMemMoveUp(c) ==
  [cursor |-> c.cursor - RowSize, current |-> c.current - RowSize,
   top |-> c.top - 1]

Advance(c) ==
  [cursor |-> c.cursor + 2, current |-> c.current + 2, top |-> c.top]

InsertChar(c) ==
  Advance(IF c.current + 2 >= Start + MemSize THEN VideoMemMoveUp(c) ELSE c)

(* Mutant: the cursor stays. *)
DeleteCharCursorKept(c) ==
  IF c.cursor >= Start + 2 THEN [c EXCEPT !.current = @ - 2] ELSE c

DeleteChar(c) ==
  IF c.cursor >= Start + 2
  THEN [cursor |-> c.cursor - 2, current |-> c.current - 2, top |-> c.top]
  ELSE c

(* getx takes the column from the address, not from the console's start. *)
Cr(c) ==
  [cursor |-> c.cursor - 2 * ((c.cursor % RowSize) \div 2),
   current |-> c.current, top |-> c.top]

ScrollUp(c) ==
  [cursor |-> c.cursor, current |-> c.current, top |-> c.top + 1]

(* gety(cursor_pos, 1): base and cursor are swapped, so that the row is    *)
(* that of 1 - cursor_pos, as an unsigned int.                             *)
Lf(c) ==
  IF ((1 - c.cursor) % Word) \div RowSize < (c.top + Rows) % Word
  THEN LET down == c.cursor + RowSize
       IN [cursor |-> down, top |-> c.top,
           current |-> IF down > c.current THEN down ELSE c.current]
  ELSE ScrollUp(c)

(* Bound: a character that reaches the console is taken only here. *)
InBounds ==
  /\ Low <= con.cursor /\ con.current <= High
  /\ -MaxDown <= con.top /\ con.top <= MaxTop

EndWrite(p) == Goto(p, IF p = Task THEN "poll" ELSE "idle")

(* Mutant: the count of the write queue is not lowered. *)
CharKept == wr' = wr

GetCharFromWrite == wr' = wr - 1

(* The head of console_write's loop, which ends at an empty queue or a     *)
(* character 0.  Others are printable, a tab (eight spaces), a backspace,  *)
(* the letter n (for '\n'), or ignored.                                    *)
TakeChar(p) ==
  /\ On(p, "console")
  /\ \/ wr = 0 /\ EndWrite(p) /\ UNCHANGED <<left, wr>>
     \/ /\ wr > 0 /\ GetCharFromWrite
        /\ \/ EndWrite(p) /\ UNCHANGED left
           \/ UNCHANGED <<pc, left>>
           \/ /\ InBounds /\ Goto(p, "insert")
              /\ \E n \in {1, 8} : left' = [left EXCEPT ![p] = n]
           \/ /\ InBounds /\ UNCHANGED left
              /\ \E at \in {"delete", "cr"} : Goto(p, at)
  /\ UNCHANGED <<ring, int, running, tmp, rd, con>>

ShowChar(p) ==
  /\ On(p, "insert")
  /\ con' = InsertChar(con)
  /\ left' = [left EXCEPT ![p] = @ - 1]
  /\ Goto(p, IF left[p] = 1 THEN "console" ELSE "insert")
  /\ UNCHANGED <<ring, int, running, tmp, rd, wr>>

ShowBackspace(p) ==
  /\ On(p, "delete")
  /\ con' = DeleteChar(con)
  /\ Goto(p, "console")
  /\ UNCHANGED <<ring, int, running, left, tmp, rd, wr>>

(* 'n' is cr, then lf. *)
ShowReturn(p) ==
  /\ On(p, "cr")
  /\ con' = Cr(con)
  /\ Goto(p, "lf")
  /\ UNCHANGED <<ring, int, running, left, tmp, rd, wr>>

ShowLine(p) ==
  /\ On(p, "lf")
  /\ con' = Lf(con)
  /\ Goto(p, "console")
  /\ UNCHANGED <<ring, int, running, left, tmp, rd, wr>>

ConsoleWrite(p) ==
  TakeChar(p) \/ ShowChar(p) \/ ShowBackspace(p) \/ ShowReturn(p) \/ ShowLine(p)

Preempt(p) ==
  /\ int /\ p # running /\ running' = p
  /\ UNCHANGED <<ring, int, pc, left, tmp, rd, wr, con>>

Step(p) == ChrRead(p) \/ ChrWrite(p) \/ TtyRead(p) \/ TtyWrite(p) \/ ConsoleWrite(p)

Cpu == Poll \/ TakeByte \/ StoreCount \/ PutKey \/ \E p \in Procs : Step(p)

Next == Irq \/ Cpu \/ \E p \in Procs : Preempt(p)

(* The CPU runs: nothing in this code stops it with the flag clear.        *)
Spec == Init /\ [][Next]_vars /\ WF_vars(Cpu)

-----------------------------------------------------------------------------
ConsolePlaces == {"console", "insert", "delete", "cr", "lf"}

TypeOK ==
  /\ ring \in [head : 0 .. KSize - 1, tail : 0 .. KSize - 1, count : 0 .. KSize]
  /\ int \in BOOLEAN /\ running \in Procs
  /\ pc \in [Procs -> {"poll", "byte", "taken", "key", "idle", "read", "write"}
                      \union ConsolePlaces]
  /\ left \in [Procs -> Nat]
  /\ tmp \in 0 .. KSize
  /\ rd \in 0 .. TSize /\ wr \in 0 .. TSize
  /\ con \in [cursor : Int, current : Int, top : Int]

(* The interrupt and the task share the ring without losing a scan code or *)
(* reading one twice: what is unread lies between p_tail and p_head, also  *)
(* while the task has moved p_tail and not yet stored the count            *)
(* (keyboard.c:131-141).                                                   *)
KeyboardRing ==
  LET unread == ring.count - (IF pc[Task] = "taken" THEN 1 ELSE 0)
  IN /\ unread \in 0 .. KSize
     /\ ring.head = ring.tail + unread \/ ring.head + KSize = ring.tail + unread

(* The cursor never passes the end of the text, whose difference is the    *)
(* unsigned length insert_char and delete_char give memcpy                 *)
(* (console.c:265, 312).                                                   *)
CursorBehindText == con.cursor <= con.current

(* A process that has the CPU gets out of the loop of console_write,       *)
(* whatever the keyboard does, unless the CPU is taken from it             *)
(* (console.c:331).                                                        *)
ConsoleReturns ==
  \A p \in Procs :
    (pc[p] \in ConsolePlaces /\ running = p) ~>
      (pc[p] \notin ConsolePlaces \/ running # p)
=============================================================================
