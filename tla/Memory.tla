------------------------------- MODULE Memory -------------------------------
(***************************************************************************)
(* The physical pages and page tables of mm/memory.c, their two users in   *)
(* the kernel, fork (kernel/fork.c) and the page fault (mm/pf.asm), in the *)
(* order the code has them: a fork and the page faults of other processes  *)
(* interleave, because the timer interrupt takes the CPU inside a system   *)
(* call as well.                                                           *)
(*                                                                         *)
(* A page is a number, the kernel's and the buffers' below main memory's.  *)
(* Any page can be read as a page table, and a directory word is the page  *)
(* of its table; page 0, the interrupt vectors, is never one, so 0 stands  *)
(* for NULL, for failure and for an absent entry, as it does in the code.  *)
(* copy_page_tables takes the directory for the words at address 0; the    *)
(* other functions add sys_pgdir.  What low memory holds there is any      *)
(* table of the kernel or none.                                            *)
(***************************************************************************)
EXTENDS Integers, FiniteSets, FiniteSetsExt, SequencesExt

CONSTANTS
  Kernel,      \* pages below main_memory_start, page 0 included
  Main,        \* main_memory_pages
  NR_PROCESS,  \* slots of process[]
  PerProc,     \* directory words of PROCESS_MEM_SPACE: 16
  Size,        \* tables of 4MB that the data segment of a process takes
  Entries,     \* entries of a page table: 1024
  LowEntries,  \* entries copied of the table of address 0: 160
  MaxRef       \* mem_map is an unsigned char: 256

VARIABLES
  mem_map,  \* the references of each page of main memory
  pt,       \* what each page holds, read as a page table
  low,      \* the directory words at address 0
  dir,      \* the directory words at sys_pgdir
  process,  \* process[1..]: the page of the structure, or 0
  base,     \* the directory word where the segments of a process start
  refs,     \* the count of each file and inode process 0 had open
  call      \* the fork that is on its way

vars == <<mem_map, pt, low, dir, process, base, refs, call>>

MainPages == Kernel .. Kernel + Main - 1
Pages     == 0 .. Kernel + Main - 1
Words     == 0 .. PerProc * NR_PROCESS - 1
Slots     == 0 .. NR_PROCESS - 1
Index     == 0 .. Entries - 1
Absent    == [page |-> 0, rw |-> FALSE]
Zeroed    == [i \in Index |-> Absent]
PTE       == [page : Pages, rw : BOOLEAN]
NoFork    == [pc |-> "none", p |-> 0, nr |-> 0, proc |-> 0]

(* mem_init, with some table at the last page of the kernel.  A table      *)
(* entry is absent or maps a page that is not free.                        *)
Init ==
  /\ mem_map = [g \in MainPages |-> 0]
  /\ \E t \in [Index -> {e \in PTE : e.page < Kernel /\ (e.page = 0 => ~e.rw)}] :
       pt = [g \in Pages |-> IF g = Kernel - 1 THEN t ELSE Zeroed]
  /\ low \in [Words -> {0, Kernel - 1}]
  /\ dir \in [Words -> {0, Kernel - 1}]
  /\ process = [n \in Slots \ {0} |-> 0]
  /\ base = [n \in Slots |-> 0]
  /\ refs = 1
  /\ call = NoFork

-----------------------------------------------------------------------------
(* get_phy_page: the page it returns, 0 if there is none; the caller gets  *)
(* it cleared.  Nothing marks it.                                          *)
FreePage ==
  LET free == {g \in MainPages : mem_map[g] = 0}
  IN IF free = {} THEN 0 ELSE Min(free)

FreePhyPage(map, g) ==
  IF g \notin MainPages \/ map[Kernel] = 0 THEN map
  ELSE [map EXCEPT ![g] = (@ - 1) % MaxRef]

(* One turn of free_page_tables, for a word that is present; free_page,    *)
(* which is not defined anywhere, is taken for free_phy_page.              *)
FreeTable(m, w) ==
  LET mapped == [i \in 1 .. Entries |-> m.pt[m.dir[w]][i - 1].page]
  IN [map |-> FreePhyPage(FoldLeft(FreePhyPage, m.map, mapped), m.dir[w]),
      pt  |-> [m.pt EXCEPT ![m.dir[w]] = Zeroed],
      dir |-> [m.dir EXCEPT ![w] = 0]]

(* The loop counts bytes, of which there are more than words: it goes on   *)
(* with the words of other processes up to the first that is absent, where *)
(* it stays.                                                               *)
FreePageTables(from) ==
  LET run == {w \in Words : w >= from /\ \A v \in from .. w : dir[v] # 0}
  IN FoldLeft(FreeTable, [map |-> mem_map, pt |-> pt, dir |-> dir],
              [k \in 1 .. Cardinality(run) |-> from + k - 1])

(* The entries copied: neither pointer moves past an absent entry. *)
Copied(t, n) == {i \in Index : i < n /\ \A j \in 0 .. i : t[j].page # 0}

Return(w) == call' = [call EXCEPT !.pc = w]

(* copy_page_tables.  Neither directory pointer moves: an absent source    *)
(* word is looked at Size times, and the second turn finds the word that   *)
(* the first one wrote, and halts.                                         *)
CopyPageTables(from, to) ==
  LET new == FreePage
      clear == [pt EXCEPT ![new] = Zeroed]
      src == clear[low[from]]
      read_only == [i \in Index |-> [page |-> src[i].page, rw |-> FALSE]]
      done == Copied(src, IF from = 0 THEN LowEntries ELSE Entries)
      main == {i \in done : src[i].page \in MainPages}
  IN \/ /\ low[to] # 0
        /\ Return("halt")
        /\ UNCHANGED <<mem_map, pt, low>>
     \/ /\ low[to] = 0 /\ low[from] = 0
        /\ Return("copied")
        /\ UNCHANGED <<mem_map, pt, low>>
     \/ /\ low[to] = 0 /\ low[from] # 0 /\ new = 0
        /\ Return("not copied")
        /\ UNCHANGED <<mem_map, pt, low>>
     \/ /\ low[to] = 0 /\ low[from] # 0 /\ new # 0
        /\ low' = [low EXCEPT ![to] = new]
        /\ pt' = [clear EXCEPT
                    ![low[from]] = [i \in Index |->
                       IF i \in main THEN read_only[i] ELSE src[i]],
                    ![new] = [i \in Index |->
                       IF i \in done THEN read_only[i] ELSE Absent]]
        /\ mem_map' = [g \in MainPages |->
             (mem_map[g] + Cardinality({i \in main : src[i].page = g})) % MaxRef]
        /\ Return(IF Size > 1 THEN "halt" ELSE "copied")

-----------------------------------------------------------------------------
(* sys_fork: get_free_process, then copy_process up to the page tables.    *)
(* One fork at a time is enough here (bound).                              *)
Fork(p) ==
  LET nr == Min({n \in Slots \ {0} : process[n] = 0})
  IN /\ call.pc = "none"
     /\ \E n \in Slots \ {0} : process[n] = 0
     /\ FreePage # 0
     /\ p # 0 => process[p] # 0
     /\ process' = [process EXCEPT ![nr] = FreePage]
     /\ pt' = [pt EXCEPT ![FreePage] = Zeroed]
     /\ base' = [base EXCEPT ![nr] = base[p]]
     /\ call' = [pc |-> "copy", p |-> p, nr |-> nr, proc |-> FreePage]
     /\ UNCHANGED <<mem_map, low, dir, refs>>

(* copy_memory up to the result of copy_page_tables.  It is the parent     *)
(* whose segments get the new base.                                        *)
CopyMemory ==
  LET to == call.nr * PerProc
  IN /\ call.pc = "copy"
     /\ base' = [base EXCEPT ![call.p] = to]
     /\ CopyPageTables(base[call.p], to)
     /\ UNCHANGED <<dir, process, refs>>

(* copy_memory takes TRUE for a failure, and so does copy_process then. *)
ForkFails ==
  LET m == FreePageTables(call.nr * PerProc)
  IN /\ call.pc = "copied"
     /\ mem_map' = FreePhyPage(m.map, call.proc)
     /\ pt' = m.pt
     /\ dir' = m.dir
     /\ process' = [process EXCEPT ![call.nr] = 0]
     /\ call' = NoFork
     /\ UNCHANGED <<low, base, refs>>

ForkReturns ==
  /\ call.pc = "not copied"
  /\ refs' = refs + 1
  /\ call' = NoFork
  /\ UNCHANGED <<mem_map, pt, low, dir, process, base>>

-----------------------------------------------------------------------------
(* map_page maps a page that has one reference only; its test of the range *)
(* holds of no number.                                                     *)
Mappable(g) == mem_map[g] = 1

(* get_empty_page, which nothing calls yet: the page it gets is not marked *)
(* and so not mappable, and is freed without having been counted.          *)
GetEmptyPage ==
  /\ call.pc # "halt"
  /\ FreePage # 0 /\ ~Mappable(FreePage)
  /\ pt' = [pt EXCEPT ![FreePage] = Zeroed]
  /\ mem_map' = FreePhyPage(mem_map, FreePage)
  /\ UNCHANGED <<low, dir, process, base, refs, call>>

-----------------------------------------------------------------------------
(* page_fault with the P bit set: a write to entry i of the table of word  *)
(* w, which is read-only.                                                  *)
Fault(w, i) ==
  /\ call.pc # "halt"
  /\ dir[w] # 0
  /\ pt[dir[w]][i].page # 0 /\ ~pt[dir[w]][i].rw

Alone(g) == g \in MainPages /\ mem_map[g] = 1

MakeWritable(w, i) ==
  /\ Fault(w, i)
  /\ Alone(pt[dir[w]][i].page)
  /\ pt' = [pt EXCEPT ![dir[w]][i].rw = TRUE]
  /\ UNCHANGED <<mem_map, low, dir, process, base, refs, call>>

(* The memcpy of oslib/string.asm copies from dst to src, so that the old  *)
(* page gets what the new one holds: zeros, but for the entry just set     *)
(* when the new page is that table itself.                                 *)
CopyOnWrite(w, i) ==
  LET old == pt[dir[w]][i].page
      new == FreePage
      clear == [pt EXCEPT ![new] = Zeroed]
      set == [clear EXCEPT ![dir[w]][i] = [page |-> new, rw |-> TRUE]]
  IN /\ Fault(w, i)
     /\ ~Alone(old)
     /\ new # 0
     /\ mem_map' = IF old \in MainPages
                   THEN [mem_map EXCEPT ![old] = (@ - 1) % MaxRef] ELSE mem_map
     /\ pt' = [set EXCEPT ![old] = set[new]]
     /\ UNCHANGED <<low, dir, process, base, refs, call>>

(* page_fault with the P bit clear: do_no_page returns, and so does        *)
(* do_wp_page when it is out of memory.  The access faults again.          *)
FaultAgain ==
  /\ \E w \in Words, i \in Index :
       \/ dir[w] = 0 \/ pt[dir[w]][i].page = 0
       \/ Fault(w, i) /\ ~Alone(pt[dir[w]][i].page) /\ FreePage = 0
  /\ UNCHANGED vars

Next ==
  \/ \E p \in Slots : Fork(p)
  \/ CopyMemory \/ ForkFails \/ ForkReturns
  \/ \E w \in Words, i \in Index : MakeWritable(w, i) \/ CopyOnWrite(w, i)
  \/ GetEmptyPage
  \/ FaultAgain

Spec == Init /\ [][Next]_vars

-----------------------------------------------------------------------------
(* "Takes the first free page and marks it used" (mm/memory.c:45): a page  *)
(* that get_phy_page gave to a process structure or to a page table, and   *)
(* that was not given back, is not given to another.                       *)
PageHasOneUse ==
  \A n \in Slots \ {0} :
    process[n] # 0 =>
      /\ \A m \in Slots \ {0} : process[m] = process[n] => m = n
      /\ \A w \in Words : low[w] # process[n]

=============================================================================
