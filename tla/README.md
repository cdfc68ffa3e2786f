# A formal model of LycheeOS

LycheeOS (`../src`) is a small x86 kernel in the style of Linux 0.11: one
processor, kernel code that gives up the CPU in `sleep_on`, interrupt gates for
the timer, the keyboard and the disk, a block buffer cache with a request queue
under it, and a Minix-like file system on top. This directory holds TLA+ models
of its core, the TLC configurations that check them, and TLAPS proofs.
`PROJECT.json` lists every definition with the source lines it stands for, the
runs, the mutants of the code that show each property to have teeth, the
findings, the hazards and the theorems.

To check: `tlc -config BufferCache_queue.cfg MCBufferCache.tla`, and likewise for
the runs below; `tlapm BufferCacheProofs.tla`, and likewise for the other seven
proof modules.

## 1. The system

| Component | State | Operations | Interacts with |
|---|---|---|---|
| Buffer cache, `kernel/buffer.c` | `mem_buffers[]`: block, `uptodate`, `dirty`, `count`, `locked` | `get_buffer`, `find_buffer`, `bread`, `brelease`, `sync_dev`, `invalid_dev_buffers`, `lock_/unlock_mem_buffer` | calls `rw_blk`, `sleep_on`; called by all of `fs/` |
| Request queue, `kernel/blk/rw_blk.c`, `blk.c` | `blk_request[]`, `current_request` | `rw_blk`, `add_request`, `end_request` | shares the buffer lock with the cache; `end_request` runs in the disk interrupt and in processes |
| Scheduler, `kernel/sched.c` | `process[]`, `current`, `state`, `ticks`, the `proc_wait` pointers | `schedule`, `sleep_on`, `interruptible_sleep_on`, `wake_up`, `sys_pause`, `irq_timer_handler` | everything that sleeps |
| fork, `kernel/fork.c` | slots of `process[]`, page tables, shared open files | `get_free_process`, `copy_process`, `copy_memory` | scheduler, memory, open files |
| Block device files, `fs/rw.c`, `fs/block_dev.c` | `struct_file.offset`, locals of the loops | `sys_read`, `sys_write`, `block_read`, `block_write` | `bread`, `brelease`; files shared through fork |
| Disk driver, `kernel/blk/hd.c` | `do_hd`, the current request, controller registers | `do_hd_request`, `int_hd_read`, `int_hd_write`, `int_reset`, `failed_rw`, `hd_init` | queue, disk interrupt |
| Memory, `mm/memory.c`, `pf.asm` | `mem_map[]`, page tables | `get_phy_page`, `free_phy_page`, `copy_page_tables`, `free_page_tables`, `map_page`, `do_wp_page` | fork, page faults |
| Inodes, `fs/inode.c` | `inode_table[]`: `count`, `locked`, `dirty` | `get_inode`, `put_inode`, `get_empty_inode`, `read_/write_inode` | cache, super blocks, bitmaps |
| Super blocks, `fs/super.c` | `super_block[]`, its lock, bitmap buffers | `get_super`, `read_super` | cache |
| Bitmaps, files, truncate, `fs/bitmap.c`, `file_dev.c`, `truncate.c` | bits in cached blocks, block maps of inodes | `new_block`, `free_block`, `new_inode`, `free_inode`, `file_read/write`, `truncate` | cache, inodes |
| Path names, `fs/namei.c` | none of its own | `find_entry`, `add_entry`, `namei` and the calls on it | cache, inodes |
| Keyboard, terminals, console, `kernel/chr/` | rings of scan codes and of keys, cursor | interrupt handler, `task_tty`, `tty_write`, `put_/get_key` | interrupt, tasks |
| Interrupts, system call entry, kernel utilities, time, boot | tables, ports | set-up and dispatch | |

What is hard here: a process may sleep in the middle of almost every operation
on a buffer, an inode or a super block, and must look again at what it tested;
the disk interrupt frees buffers and requests behind the back of the code that
queues them; the timer preempts kernel code; files, buffers and inodes are shared
by reference counts that several paths must keep right; transfers fail; and
unsigned fields wrap. What makes each part correct:

- cache: the reference count tells the users; a used, locked or modified buffer
  is not given to another block; a block is cached once;
- queue: one owner of each lock; a request keeps its block; what is queued is
  served once;
- scheduler: sleepers sleep until they are woken; slices are shared out; the CPU
  is with a process that exists;
- device files: consecutive bytes go to consecutive places; the offset is where
  the call works and what it returns; a call that ends short says so;
- disk driver: errors are charged to the request that had them; retries end;
  requests end in the order of the queue; a request that waits is worked on;
- memory: a page that is in use is not given out again, and belongs to as many
  page tables as its count says;
- inodes, super blocks: what the cache promises, one level up;
- rings: nothing is lost or read twice up to the capacity;
- console: cursor and text stay in the console's memory, lengths are not negative.

The program does not link as it stands (`switch_to`, `ll_rw`, `blk_read`, `iput`,
`free_super`, `free_page` have no definition). Where a modelled path uses one of them
it is taken for what its use says: `ll_rw` (sync_dev) for `rw_blk`, `blk_read`
(sys_read) for `block_read`, `switch_to(n)` as the switch to slot n, `free_page` for
`free_phy_page`, `out` (keyboard.c) for `out_byte`, and the several spellings of
`read_byte_from_keyboard` and `init_console` for one function each.

## 2. The modules

| Module | What it is |
|---|---|
| `BufferCache` | `buffer.c` + `rw_blk.c` + `end_request`, processes and the end of requests, and the mapping to `BufferPool` |
| `MCBufferCache` | its TLC instance (symmetric processes) |
| `PreemptiveCache` | `BufferCache` with the timer preempting kernel code |
| `BufferCacheProofs` | theorems about `BufferCache`: locks, requests and the queue |
| `BufferCacheUseProofs` | the second inductive invariant of `BufferCache`: the users of its buffers |
| `BufferPool` | abstract: callers share buffers that keep their blocks while they are used |
| `BufferPoolProofs` | `BufferCache` implements `BufferPool`, and what its users rely on |
| `Sched` | `schedule`, `sleep_on`, `interruptible_sleep_on`, `wake_up`, `sys_pause`, the timer, fork's slots |
| `SchedProofs` | theorems about `Sched` |
| `ByteFile` | abstract: a device is a row of bytes, calls move consecutive ones |
| `BlockDev` | `fs/rw.c` + `fs/block_dev.c`, and its refinement mapping to `ByteFile` |
| `MCBlockDev` | its TLC instance (symmetric processes and files) |
| `BlockDevProofs` | theorems about `BlockDev`, and that it implements `ByteFile` |
| `RequestQueue` | abstract: requests wait in a line and leave it from its head |
| `HdDriver` | `hd.c` with `add_request` and `end_request`: a process, the disk interrupt in the middle of it, and the mapping to `RequestQueue` |
| `HdDriverProofs` | theorems about `HdDriver`, and that it implements `RequestQueue` |
| `Terminal` | `keyboard.c`, `tty.c` and `console.c` for one terminal |
| `TerminalProofs` | theorems about `Terminal` |
| `Memory` | `memory.c` and `pf.asm`, with the parts of `fork.c` that use them |
| `Totals` | the sum of a function into the natural numbers, used by `BufferCache` and `BlockDev` |
| `TotalsProofs` | how such a sum follows the change of one value |

### BufferCache

The cache and the queue are one module because they share one lock:
`lock_mem_buffer` takes it in a process, the request carries it, and
`end_request` frees it in the disk interrupt.

A step is one test with the branch it takes, or a group of assignments between
two tests: `proc[p].pc` says where in `buffer.c` or `rw_blk.c` process `p` is, and
`b`, `want`, `cmd`, `slot`, `tmp` are the locals that live there. `get_buffer` is
`Find`, `Found`, `Pick`, `Wait1`, `WriteBack`, `Wait2`, `Claim`; `bread` continues
with `Got` and `WaitRead`; `brelease` is `Release`; `rw_blk` is `Lock`, `Test`,
`Slot`, `Fill`; `add_request` is `Add` (the test for an empty queue), `ReadHead`
(the second look at `current_request`), `Walk`, `Link`; `end_request` is
`EndRequest`. A process that is not in the cache starts a `bread`, gives a
reference back, writes into a buffer it holds, starts a scan, or sleeps
elsewhere. `held` (references a process got from `bread`) and `buf[].mod` (the
data differ from the device's) are history.

- *Sleeping.* `sleep_on` is a switch to any process, the sleeper included. This
  is what the code does, not a simplification of wake-ups: `schedule()` passes a value
  it never assigned to `switch_to` (module `Sched`), so that any populated slot may
  run next, woken or not. Every caller tests its condition again.
- *The end of a request.* `EndRequest` may come between any two steps unless the
  process on the CPU has the interrupt flag clear, which is so while it is in
  `lock_mem_buffer`, asleep or not (`IntEnabled`). The flag belongs to the process
  that runs: a process switched to brings its own. Here `end_request` is one step,
  as it is in the interrupt handler. The driver also calls it in a process, with
  interrupts enabled (`hd.c:332`, `363`): what the interrupt does in the middle of
  that call is the subject of `HdDriver`, where `RequestIsLocked` fails. What the
  cache promises here it promises on a driver that ends each request once.
- *The driver.* `EndRequest` ends the current request with either outcome
  (`Outcomes`). Today's `is_hd_error` (`hd.c:142`, `==` binds tighter than `&`)
  makes every transfer fail in the end; the models keep both outcomes.
- *dirty.* No successful write clears it. `WriteBack` and `AfterRw` keep the
  loop `while(dirty) rw_blk(WRITE, ...)` as it is, and it ends only through
  `invalid_dev_buffers`.
- *count* is an `unsigned char`, `CountSize` = 256: `Found` adds one modulo
  `CountSize`. A process takes no second reference of a buffer before it has given
  back the first (`MaxHold` = 1): that is what the callers in reach, `block_read`
  and `block_write`, do, not a check that the code makes. With `NR_PROCESS` = 16
  processes the counts stay far below 256, which the theorems assume in the form
  `Cardinality(Procs) * MaxHold < CountSize`; a caller that held 16 references
  would break the assumption, and `CountIsUsers`. The runs take the smallest
  `CountSize` that satisfies it, so that one reference too many would wrap.

`BufferPool` is what `bread` and `brelease` promise their callers: a process that
asks for a block gets a buffer that has it, shared (`Share`) or made free for it
(`Reuse`, only when nobody uses it and it is not modified), or is refused, and
nobody takes the buffer from it before it has given it back. It has no locks, requests,
sleeps or choice of buffer. `KeepsPool` is `BufferPool!Spec` under the mapping in
`BufferCache`: `block` and `modified` are fields of the buffers and `CallOf` turns
the place of a process into its call. `BufferPool` does not promise that a
block has one buffer, since the cache does not keep that (`CachedBlockIsReturned`).

`Queued` is the least set that has `current_request` and is closed under
`next`: defined so, and not by following the list, it needs no recursion and can be
proved about.

`PreemptiveCache` adds one action: wherever interrupts are enabled the timer may
give the CPU to any process, `MaxPreempt` times for each process. That number is a
bound; one is enough for the race it shows.

### Sched

`max = -1` is compared with the unsigned `ticks`, so that the test at `sched.c:57`
is `ticks > 2^32 - 1`: no process is ever chosen, `hit` keeps what the stack held,
and the loop ends at once since `max` is not 0 (the refill at lines 75-82 is never
reached). `Hit` states the general rule (the first of the processes with the most
ticks, if some process passes the test) and gives all populated slots when none
does. A garbage value that is no populated slot crashes the machine and is left out.
`head[q]` and `frame[p].tmp` are the wait chain that `sleep_on` builds out of its
callers' stacks. `wake_up(&proc_wait)`, as the kernel calls it, clears the pointer:
its argument has one `&` too many. `ticks` is unsigned: at 0 it wraps to the top of
its range, and the process keeps the CPU until it has come down again (`Timer`).
That is not what process.h:60 (0 to 15) and the refill mean, and no property asks
for it; `TypeOK` says only that the CPU is with a process that exists.

fork is two steps: `Fork` populates a slot in WAIT_UNINTERRUPTIBLE, and the timer
may take the CPU before `FinishFork` makes the child runnable or `FailFork` empties
the slot again (`making`). The child may be switched to meanwhile, as any populated
slot may. Each populated slot is taken to have a `struct_process` of its own
(`get_phy_page` does not guarantee that: module `Memory`).
`interruptible_sleep_on` has no caller; it is modelled beside `sleep_on` because
they share the chains (`AwakeAsHead`, `SleepAgain`). Once `wake_up` has cleared the
head, such a sleeper writes to address 0 and sleeps again, for ever.

### BlockDev and ByteFile

A turn of the loop in `block_read` or `block_write` is one step: it may sleep in
`bread`, and what follows `bread` in the turn, but for `brelease`, which changes
nothing the module has, goes without a sleep. The step stands at the moment
`bread` returns; `Return` is the end of the loop or a `bread` that returned NULL,
which it does past the end of the device and may do anywhere. `bread` is taken as
`BufferCache` models it when it succeeds; a block cached twice (section 4) is not
carried over, and the copy is not preempted. `file` says who shares whose
`struct_file`: fork copies the pointers, so every assignment is possible, and Init
takes them all. `ByteFile` knows no blocks: a call has a place, and each step
moves any number of consecutive bytes from there. `MovesBytes` is
`ByteFile!Spec` under the mapping in `BlockDev` (`ByteDev`, `ByteCall`).
A byte written is `<<process, index in its buffer>>`, so that a swapped,
repeated or skipped byte shows. Calls that return 0 at once (bad handle, count
not positive) change nothing and are left out; offsets are natural numbers, the
overflow of `int` at 2 GB is not reached.

A regular file (`Regular`) may be open too. `file_read` and `file_write` have loops
that run while `count < 0`, and `sys_read` and `sys_write` pass positive counts on:
they move nothing and return 0, so `FileRead` and `FileWrite` leave every variable
as it is. Opening and linking such files is not modelled (section 6).

### HdDriver and RequestQueue

`BufferCache` takes the driver for something that ends the current request;
`HdDriver` is that something. The interrupt handler runs with interrupts disabled and
is one step (`Irq`). A process in `add_request` and `do_hd_request` runs with
interrupts enabled, and the disk may come in between any two of its steps:

- `add_request`: `Test` (is the queue empty), `Read` (the second look), `Walk`
  (one `next` pointer), `Link`. `behind` is the local `tmp`, as its distance from the
  end of the line: a request that was ended still points to the one behind it. A
  request linked to an ended one is not in the line. Which place the elevator
  chooses is in `BufferCache`; here the walk may stop anywhere.
- `do_hd_request`: `CheckRequest` and `SendCommand`, before which the drive has no
  command, so that no interrupt comes (`IdleDrive`, proved); then `WaitForData`,
  where a write that times out charges an error to whatever is current by then; when
  it was the last one, `end_request` in two steps, `UnlockRequest` (`blk.c:22`) and
  `FreeRequest` (`blk.c:33-34`), the `printfs` between them; and `WriteData`.
- `Irq` runs `failed_rw` and `do_hd_request` in the middle of any of that. Its
  functions are operators from one state of the driver to the next (`FailedRw`,
  `Check`, `Command`, `Written`, `Serve`).

One process at a time is in here: the timer is left out, as in `BufferCache`, and
with it the lost update at `blk.c:34` when another process links a request between
its load and its store (hazard list). `failed_rw` counts an error in one step: its
load and store of `nr_errors` are next to each other. `warned` and `ended` are
history. Some outcomes are not followed, because the code is out of order by then:
`lost` (no request is left, and the code reads the words at address 0), `crossed`
(the interrupt has ended the request that the process was just ending; the process
would unlock the buffer of the next request, or drop that request from the queue)
and `halted` (the code's own checks). The theorems say what holds up to there.

- `is_hd_error` returns 1 whatever the drive says: `==` binds tighter than `&`
  (`hd.c:142`). The success paths at lines 267-279 and 290-301 are never reached,
  and the read and write handlers then do the same thing, so `do_hd` is not kept.
- A request is legal only if it starts at sector 0 (`first`): the code compares
  `start_sector + 2` with the `nr_sectors` of the request, which is 2 (`hd.c:330`). An
  illegal one is ended, and the code goes on with the next without a check, or with no
  request at all.
- `is_hd_ready` fails after 10000 looks and halts.
- The 8259 and the drive are external: a command is answered with one interrupt.
  `init_8259A` passes the arguments of `out_byte` the wrong way round
  (`i8259.c:43`), so that this kernel gets no interrupts to rely on; the models are
  of the handlers, for a controller that delivers. The `printfs` in the handler ends
  in `enable_int` (`console.c:70`), which the models leave out: the handler is what its
  gate makes it.

`RequestQueue` is what the cache may rely on: a request comes in anywhere but before
the head (or, linked to an ended one, not at all), and requests leave from the head
only. `ServesInOrder` is `RequestQueue!Spec` with the errors left aside (`Line`,
`Kind`). One step of the driver may end several requests.

### Terminal

A scan code goes from the interrupt (`Irq`) through the ring `kbuffer` to the
terminal task: `Poll`, `TakeByte`, `StoreCount` are `task_tty` and
`read_byte_form_keyboard`, with `count--` as a load and a store. The parser compares
the scan code with the slot of the ring rather than storing it, so what it reads
back is arbitrary, and it is kept as its outcomes (`KeyboardRead`): it wants another
byte, or it ends, with two keys to send or none. In the code the patterns of Pause
and PrintScreen end after six bytes; here they may go on, which allows more. The
keys sent are those of released keys (`PutKey`); pressed keys return at line 303,
and the code after it is never reached. Processes take keys (`TtyRead`) and put
characters (`TtyWrite`).

The console is three addresses: the cursor, the end of the text, and the line at the
top. `console_write` takes one character a step (`TakeChar`) and does one operation
of the console a step (`ShowChar`, `ShowBackspace`, `ShowReturn`, `ShowLine`), so
that another process may show a character in the middle of a tab or between `cr` and
`lf`; inside one operation the timer does not come (hazard list), nor inside one put
or get of a queue. `gety` and `getx` are modelled with their arguments as the
callers swap them; the comparison of `lf` is unsigned (`Word`). The backslash of
`'\n'` is missing in `console_write`, so that the letter n starts a new line.
Addresses are integers that do not wrap. `InBounds` bounds the run: a character that
is shown is taken only while cursor, text and `top` are within it; what is shown then
may leave it by one operation of each process.

The text does not stay in its console: `cr` takes the column from the address and
not from the console's start, and each `video_mem_move_up` sinks the cursor a row.
No doc says where it must stay, so no property asks for it. Nobody starts `task_tty` at
this commit; the module takes it for the process its comment says must run.

### Memory

`mem_map`, what each page holds as a page table, the two directories, and the
slots of `process[]`. `copy_page_tables` and `free_page_tables` take different
bases for the directory: the words at address 0 and `sys_pgdir` (`low`, `dir`). A
fork is three steps (`Fork`, `CopyMemory`, `ForkFails` or `ForkReturns`), because
the timer may take the CPU in between and others fault meanwhile. `copy_memory`
takes the TRUE of `copy_page_tables` for a failure. `memcpy` in `oslib/string.asm`
copies from its first argument to its second, so a copy on write clears
the old page. One fork at a time is modelled (bound).

## 3. The runs

| Run | Bounds | Distinct states | Checks |
|---|---|---|---|
| `bc_pool` | 2 processes, 2 buffers, 1 slot, 3 blocks, bread + sync + invalidate, blocks 0 and 1 are modified, transfers fail too, 1 reference each, counts below 3 | 1,117,715 | `TypeOK`, `CountIsUsers`, `UsedBufferKeepsBlock`, `NoModifiedBufferReused`, `KeepsPool` |
| `bc_queue` | 3 processes, 3 buffers, 3 slots, 3 blocks, bread only, block 1 is modified, transfers succeed, 1 reference each | 891,321 | `LockHasOneOwner`, `RequestKeepsBlock`, `QueuedUntilEnded`, `LostOnlyToEndRequest` |
| `sched` | 3 slots, 1 wait queue, slice 2, unsigned range 3 | 1,956,888 | `TypeOK` |
| `block_dev` | 2 processes, 2 device files and a regular one, 4 blocks of 2 bytes, calls of 5 bytes | 101,556 | `TypeOK`, `OffsetCountsReturned`, `OwnOffsetIsPlace`, `MovesBytes` |
| `hd_driver` | 4 requests, 7 errors as in the code | 5,343 | `TypeOK`, `ErrorsAtHead`, `SomebodyServes`, `RetriesEnd`, `ServesInOrder` |
| `terminal` | the task and one process, ring and queues of 2, rows of 4 bytes (two characters) on a console of two, a screen of one | 985,092 | `TypeOK`, `KeyboardRing`, `CursorBehindText`, `ConsoleReturns` |
| `bc_cached_twice` | 3 processes, 2 buffers, 1 slot, 3 blocks, bread only, 1 reference each | violation | `CachedBlockIsReturned` |
| `bc_lost_request` | 2 processes, 2 buffers, 2 slots, 2 blocks, bread only | violation | `RequestIsQueued` |
| `bc_preempted` | 2 processes, 2 blocks, one preemption each | violation | `CountIsUsers` |
| `sched_sleep` | 2 slots, 2 wait queues, slice 3, unsigned range 6 | violation | `SleepsUntilWoken` |
| `hd_unlock` | 2 requests, 7 errors | violation | `RequestIsLocked` |
| `memory_page_reused` | 3 slots, 2 pages of main memory and 3 of the kernel, tables of 2 entries | violation | `PageHasOneUse` |

Why these bounds. With 3 blocks for 2 buffers (`bc_pool`) buffers are taken from one
another, a process can hold the whole pool while the other sleeps for a free buffer,
and the single slot makes it sleep for a request too; transfers that fail let calls be
refused, and `invalid_dev_buffers` lets the loop of `get_buffer` end. Only some of the
blocks are modified (`Written`), the others are read only: a modified block and a
clean one, and two modified ones, still compete for a buffer, and reads and writes are
queued among one another. A third process would repeat the roles of the second there;
the theorems do not depend on it. The queue is different: three requests (`bc_queue`)
let one be linked between two others, and one process walk while another links and the
interrupt ends the head. The interrupt also empties the queue between the two looks of
`add_request` there. What a transfer ends with does not matter to the queue and the
locks (`EndRequest` uses the outcome for `uptodate` and `mod` only), so there it
always succeeds. In `bc_cached_twice` two processes hold the two buffers while the
third sleeps for one; they give them back, and one of them reads in the block that the
sleeper looks for. In `sched`, 3 slots let a process be switched to while another
makes a child and a third sleeps, and give a chain of sleepers two links; 3 timer
interrupts take `ticks` round its whole range, and the runs go round it without end.
In `block_dev`, 5 bytes starting at an even or odd offset cover a cut first piece,
whole blocks and a cut last piece, and the second call runs over the end of the
device. In `hd_driver`, 4 requests let one step end two of them with two behind, and 7
errors are the code's own number. In `terminal`, a ring of 2 is empty, full and wraps;
the console is so small that one tab moves the text up several times, cursor and text
may leave it on either side, and `top` goes below 0 and above it, where the unsigned
comparison of `lf` turns. TLC checks deadlock in every passing run but `hd_driver`,
where a halted, lost or crossed kernel stops.

Fairness. `Terminal` assumes `WF(Cpu)`: the CPU executes instructions, whatever
process it has; interrupts and preemptions remain free to come at any time. No other
run assumes any. `RetriesEnd` needs none: it says that the interrupt cannot come for
ever without a request being ended, whenever it comes. That interrupts come is not
taken for granted: a process that sleeps in `lock_mem_buffer` keeps the flag clear.
`schedule()` ignores the states and the slices of the processes and `wake_up` wakes
nobody, so that "a sleeper goes on" is not a property of this code.

## 4. What the violations show

- `CachedBlockIsReturned`: `get_buffer` promises the cached copy (`buffer.c:109`)
  but looks for it once, before it sleeps for a free buffer. A block read in during
  the sleep is cached twice, and the copies diverge.
- `RequestIsQueued`: `add_request` works on the list with interrupts enabled. The
  interrupt ends the request it stands on; the new one is linked behind it, is
  never served, and its buffer stays locked. There is a second way: the interrupt
  empties the queue between the test at `rw_blk.c:46` and the second look at line 54,
  `tmp` is NULL, and the new request is linked through address 0.
  `LostOnlyToEndRequest`, checked and proved, says that there is no third.
- `CountIsUsers` under preemption: a process has found the count of a buffer 0 at
  `buffer.c:154`; before it takes the buffer at line 164 the timer gives the CPU to
  another one, which takes it for another block. The first takes it all the same.
- `SleepsUntilWoken`: `schedule()` may resume a process that is waiting. For the
  same reason (`sched.c:57`) the refill at lines 75-82 is never reached, and `ticks`
  leaves the 0-15 of `process.h:60`.
- `RequestIsLocked`: a write times out in the process that started it and was its last
  error; the process ends it (`hd.c:363`) and has unlocked the buffer (`blk.c:22`)
  when the disk answers after all. The handler counts one error more on the same
  request, ends it too, and `unlock_mem_buffer` prints its warning.
- `PageHasOneUse`: `get_phy_page` returns the first free page and marks nothing
  (`memory.c:74`). The page of a new process structure is returned again, and
  cleared, when its page table is made.

## 5. What is proved

All theorems hold for every value of the constants, under the named assumptions of
the modules (`BufferCacheAssumption`, `SchedAssumption`, `BlockDevAssumption`,
`HdAssumption`, `TerminalAssumption`): there is a process and there are finitely many
(`process[]` is an array), numbers of buffers, slots, processes, errors
and elements are positive, blocks are natural numbers, all references of one buffer
fit into `count`, the slice is below the unsigned range, there is a longest call, the
places and sizes of the console are natural numbers.

- `BufferCacheProofs`: `TypeCorrect`, `LockOwnership` (`LockHasOneOwner`) and
  `RequestBlock` (`RequestKeepsBlock`), from `Invariance`. Neither property is
  inductive. `IInv` adds that only processes at a sleeping place are off the CPU
  (`OnlySleepersOffCPU`), so that one process at most is between testing and taking
  something; that locals have values where they are used (`LocalsDefined`); that busy
  requests have a buffer (`BusyHasBuffer`); and that what `current_request` leads to
  is contained in a set of busy requests, each with one predecessor, that no process
  is still linking (`QueueOK`). The last one is what makes `end_request` free a lock
  that a request owns: it must hold even though a lost request is possible, hence "is
  contained in some set" and not "is the list". In the proof a step is either quiet
  (it leaves locks, requests and the queue alone: lemma `QuietKeeps`), a switch
  (`SleepKeeps`), or one of `Found`, `Claim`, `Lock`, `Test`, `Fill`, `Add`, `Link`,
  `EndRequest` and the like, with a lemma each.
- The queue, in the same module: `QueuedStays` (`QueuedUntilEnded`) and
  `LossNeedsARace` (`LostOnlyToEndRequest`). The set of `QueueOK` is now shown to be
  `Queued` itself (`QueuedIsQueue`): any set closed under `next` contains `Queued`,
  and a set that the step leaves closed shows what stays in it. `EndRequest` takes
  away its head and nothing else (`EndRequestQueued`), `Add` and `Link` put one in
  (`AddQueued`, `LinkQueued`). That the request it links behind is a queued one unless
  the race has happened needs `WalkOK`: what the walk stands on, and all that follows
  from there, is queued or has been ended.
- `BufferCacheUseProofs`: `UInv`, which adds that what a process last tested of its
  buffer still holds where it relies on it, because only the process on the CPU takes
  a buffer and only the owner of the lock frees it (`UsesOK`); that data which differ
  from the device's are marked dirty (`ModifiedIsDirty`); and that `count` is the
  total of the users' references (`Counted`), of which finitely many are not zero
  however many processes there are. `brelease` therefore never finds a zero count. It
  is inductive while no count wraps (`CountHasRoom`), which is shown with the pool.
- `TotalsProofs`: a sum is the cardinality of a set of units, so that no induction
  over the processes is needed: when one value changes, the sum follows
  (`TotalChanges`). A sum is at most the number of terms times the largest
  (`TotalBounded`). `BufferCacheUseProofs`, `BufferPoolProofs` and `BlockDevProofs`
  rest on it.
- `BufferPoolProofs`: `CountCorrect` (`CountIsUsers`), `UsedBufferStays`
  (`UsedBufferKeepsBlock`) and `NoModifiedReused` (`NoModifiedBufferReused`), from
  `IInv` and `UInv`; and `PoolImplemented` (`Spec => KeepsPool`). The refinement needs,
  beside `IInv` and `UInv`, that a process
  that has found or claimed a buffer finds the block it wants in it until `bread`
  returns, and that nobody is in the halt of `brelease` (`PoolOK`). Each action is
  either silent for the pool (`SilentStep`) or one of its steps: `Found` is `Share`,
  `Claim` is `Reuse`, the return of `bread` is `Return` or `Refuse`, and so on. That
  `Reuse` takes a buffer from nobody is `Counted` with `NothingInTotal`; that it drops no
  modified data is `UsesOK` with `ModifiedIsDirty`. In the pool a process has at most
  `MaxHold` references of a buffer (`HoldsOK`, proved of the pool's steps alone:
  `PoolStepHolds`); with `TotalBounded` and the assumption on `CountSize` no count
  wraps (`NoCountWraps`).
- `SchedProofs`: `SchedTypeCorrect`, from `SchedInvariance`, which adds that no
  process makes itself (`NotItself`): a fork that fails would otherwise take the slot
  of the process that runs.
- `BlockDevProofs`: `BlockDevTypeCorrect`, `OwnOffset` (`OwnOffsetIsPlace`),
  `OffsetCounts` (`OffsetCountsReturned`) and `Refinement` (`Spec => MovesBytes`). The
  refinement rests on three facts about division: a place is one block and one offset,
  in one way; a piece stays inside its block; so the pieces of a call follow one
  another.

- `HdDriverProofs`: `Typing`, `ErrorsCharged` (`ErrorsAtHead`), `AlwaysServed`
  (`SomebodyServes`) and `Refinement` (`Spec => ServesInOrder`). The conjunction of
  those invariants with `IdleDrive` and `PlacesHold` is inductive (`Invariant`).
  `IdleDrive` (nothing is in the drive when a process finds the queue empty) is what
  keeps the interrupt out of `Test`, `CheckRequest` and `SendCommand`; `PlacesHold`
  says what the process may still rely on where the interrupt may have come in: that
  there is a request at its place, and that the command it sent, or the one the
  handler sent after it, is in the drive. They are carried through `do_hd_request`
  function by function: each keeps a sound driver sound, and `Command` leaves the
  drive with a command or the kernel stopped. For the refinement each function is
  shown to drop some requests from the head of the queue and nothing else (`Drops`,
  which is transitive: `DropsTwice`).
- `TerminalProofs`: `Typing`, `RingNeverLost` (`KeyboardRing`) and
  `LengthNeverNegative` (`CursorBehindText`), from `Invariant`, which adds that while
  the task is between load and store the interrupt flag is clear and its copy is the
  count (`Control`).

Every safety property of a passing run is proved. Only model-checked are the
liveness properties `ConsoleReturns` and `RetriesEnd`: liveness under fairness and
`ENABLED` are out of the prover's reach, as is what a recursive definition computes
for every input, which no theorem here needs. The counterexamples of section 4
are TLC's too.

## 6. Not modelled

- *Inodes, super blocks, bitmaps, path names, truncate.* At this commit none of
  it can be reached in a state where it works. `read_super` is private and nothing calls
  it (`super.c:130`), so `get_super` finds nothing. `get_empty_inode`
  (`inode.c:338`) looks for a free inode that is *locked*, which none is, and halts;
  `get_inode` (`inode.c:450`) fills an inode only when `get_empty_inode` returned NULL.
  `new_block`, `free_block`, `new_inode`, `free_inode` halt for one reason or the other.
  No system call leads there. A model would have one behaviour, the halt; the races
  that reading finds in these files bite only after those lines are mended.
- *Parts of modelled components:* `reset_hd`, `int_reset`, `write_verify`, `gotoxy`,
  `del`, `insert_line`, `delete_line`, `rlf`, `scroll_down` are reached by no modelled
  path. `hd_init` calls `bread` before `do_request_fn` is set (`hd.c:118`) and
  cannot finish; the models start behind it. The values of keys, the contents of
  video memory, registers and descriptors of a new process, process times and
  `sys_ticks` are abstracted away: nothing that is checked reads them.
- *Boot, descriptor tables, the 8259, port I/O, formatting, the time conversion, the
  system call table:* no state that several actors share. What the models need of the
  interrupt gates, that they clear the interrupt flag, is in their guards.

## 7. Plan

Done: the block layer (cache, queue, driver), the scheduler, device files,
terminals, and memory as far as fork uses it. What is left, in order:

1. `Memory`: the counts of `mem_map` against the page tables, once
   `get_phy_page` marks what it returns; nothing true can be said of them before.
2. `Terminal` with the puts and gets of the queues, and the operations of the
   console, split where the timer may come in.
3. `HdDriver` with several processes and the timer between them (`blk.c:34`).
4. Super blocks and inodes over the cache's promise (`BufferPool`), when the code
  reaches them.
