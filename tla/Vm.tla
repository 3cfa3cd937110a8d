--------------------------------- MODULE Vm ---------------------------------
(***************************************************************************)
(* Virtual memory: page tables of three levels, the areas of an address    *)
(* space, page faults, fork, exec and exit (kern/mm/pmm.c, kern/mm/vmm.c,  *)
(* kern/process/proc.c) and the page replacement of kern/mm/swap.c and     *)
(* swap_fifo.c.                                                            *)
(*                                                                         *)
(* At start-up check_swap runs one address space on a few frames, with     *)
(* page replacement; then check_mm_struct is NULL for ever and user        *)
(* programs run without it.  There is no schedule() in an operation, so    *)
(* that it is one step.  Which of the free frames an allocation gets is    *)
(* left to DefaultPmm; here it is the lowest.                              *)
(***************************************************************************)
EXTENDS Integers, Sequences, FiniteSets, Functions

CONSTANTS
  Mm,           \* address spaces
  boot_mm,      \* the one of check_swap, on boot_pgdir
  NULL,
  Data,         \* what a page may hold
  NFrame,       \* frames of physical memory
  NEntry,       \* entries of a table, 512 in the code
  CheckFrames,  \* CHECK_VALID_PHY_PAGE_NUM, 4 in the code
  CheckPages,   \* the pages check_swap touches, 1..5 in the code
  Programs,     \* programs: their segments, and what the pages of them hold
  Stack,        \* the area of the stack
  StackPages    \* those of its pages load_icode allocates

Area == {a \in [start : Nat, end : Nat, write : BOOLEAN] : a.start < a.end}

ASSUME VmAssumption ==
  /\ boot_mm \in Mm /\ NULL \notin Mm
  /\ NEntry \in Nat \ {0}
  /\ CheckFrames \in Nat \ {0} /\ NFrame \in Nat /\ NFrame > CheckFrames + 2
  /\ \E a, b \in 0..NEntry - 1 : a <= b /\ CheckPages = a..b
  /\ Stack \in Area /\ StackPages \subseteq Stack.start..Stack.end - 1
  /\ \A p \in Programs : p.data \in Data /\ p.segs \in Seq(Area)

(* Frame 0 is boot_pgdir.                                                  *)
Frames == 1..NFrame

VARIABLES
  use,              \* the frames behind the entries of the page tables
  free,             \* the free list
  ref,              \* page->ref
  mem,              \* what the frames of pages hold
  pra_list,         \* the FIFO of swappable pages
  pra_vaddr,        \* the address a page in it has
  disk,             \* the pages with a swap entry, and what the disk holds
  mmap_list,        \* the areas of every address space, by address
  check_mm_struct,
  panicked,
  spread            \* history: a program that is not Compact has run

swap == <<pra_list, pra_vaddr, disk>>
vars == <<use, free, ref, mem, swap, mmap_list, check_mm_struct, panicked, spread>>

-----------------------------------------------------------------------------
(* A function with one argument, and two functions as one.                 *)
Single(x, y) == [z \in {x} |-> y]

Merge(g, h) ==
  [x \in DOMAIN g \cup DOMAIN h |-> IF x \in DOMAIN g THEN g[x] ELSE h[x]]

(* An entry is named by the way to it: <<m>> is the directory of m,        *)
(* <<m, i>> a table behind its entry i, <<m, i, j>> a page table behind    *)
(* that, <<m, i, j, k>> a page.  use has the entries with PTE_V set.       *)
PDX1(v) == (v \div NEntry) \div NEntry
PDX0(v) == (v \div NEntry) % NEntry
PTX(v)  == v % NEntry

pte(m, v) == <<m, PDX1(v), PDX0(v), PTX(v)>>

(* What get_pte with create needs, on the way to page v, and the page.     *)
get_pte(m, v) == {<<m>>, <<m, PDX1(v)>>, <<m, PDX1(v), PDX0(v)>>, pte(m, v)}

(* The order of the entries of an address space: by the first page behind  *)
(* them, a directory before its tables and those before their pages.       *)
FirstPage(x) ==
  LET index(n) == IF n <= Len(x) THEN x[n] ELSE 0
  IN  (index(2) * NEntry + index(3)) * NEntry + index(4)

Before(x, y) ==
  FirstPage(x) < FirstPage(y) \/ (FirstPage(x) = FirstPage(y) /\ Len(x) < Len(y))

(* A frame out of F for each of the entries N: in their order, the lowest  *)
(* that is left.                                                           *)
alloc_pages(F, N) ==
  [x \in N |-> CHOOSE f \in F :
     Cardinality({h \in F : h < f}) = Cardinality({y \in N : Before(y, x)})]

OutOfMemory(F, N) == Cardinality(F) < Cardinality(N)

(* The pages of areas.                                                     *)
Pages(areas) == UNION {areas[i].start..areas[i].end - 1 : i \in DOMAIN areas}

(* The pages of m that are in memory.                                      *)
Resident(u, m, areas) == {v \in Pages(areas) : pte(m, v) \in DOMAIN u}

-----------------------------------------------------------------------------
(* unmap_range: the entries of the pages in an area.                       *)
unmap_range(u, m, a) == {pte(m, v) : v \in Resident(u, m, <<a>>)}

(* exit_range, on the entries of tables in T: in every directory of the    *)
(* area the page tables of the area that have no valid entry in u are      *)
(* freed, and then the directory, unless an entry that was looked at had   *)
(* been invalid before.                                                    *)
exit_range(u, T, m, a) ==
  LET pages    == a.start..a.end - 1
      Seen(d)  == {<<m, d, PDX0(v)>> : v \in {v \in pages : PDX1(v) = d}}
      Empty(x) == \A k \in 0..NEntry - 1 : <<m, x[2], x[3], k>> \notin DOMAIN u
      Dirs     == {d \in {PDX1(v) : v \in pages} : <<m, d>> \in T}
  IN  UNION {{x \in Seen(d) \cap T : Empty(x)}
               \cup (IF Seen(d) \subseteq T THEN {<<m, d>>} ELSE {}) : d \in Dirs}

(* Below a directory that has been freed nothing can be found any more.    *)
Found(T) == {x \in T : Len(x) = 3 => <<x[1], x[2]>> \in T}

(* The directories and tables that exit_range frees, area by area.         *)
TablesOf(u, m) == {x \in DOMAIN u : x[1] = m /\ Len(x) \in 2..3}

exit_tables(u, m, areas) ==
  LET gone[k \in 0..Len(areas)] ==
        IF k = 0 THEN {}
        ELSE gone[k - 1] \cup exit_range(u, Found(TablesOf(u, m) \ gone[k - 1]), m, areas[k])
  IN  gone[Len(areas)]

(* The entries of the pages of all areas.                                  *)
unmap_all(u, m, areas) == UNION {unmap_range(u, m, areas[i]) : i \in DOMAIN areas}

Unmapped(u, X) == Restrict(u, DOMAIN u \ X)

(* Mutant: the directory itself is forgotten.                              *)
exit_mmap_keep(u, m, areas) ==
  LET P == unmap_all(u, m, areas)
  IN  P \cup exit_tables(Unmapped(u, P), m, areas)

(* exit_mmap and put_pgdir: the entries whose frames are freed.  First all *)
(* pages go, then, area by area, the tables.                               *)
exit_mmap(u, m, areas) ==
  LET P == unmap_all(u, m, areas)
  IN  P \cup exit_tables(Unmapped(u, P), m, areas) \cup {<<m>>}

(* What is left of u when m is gone.                                       *)
Without(u, m) == Restrict(u, {x \in DOMAIN u : x[1] # m})

-----------------------------------------------------------------------------
(* find_vma.                                                               *)
find_vma(areas, v) == {i \in DOMAIN areas : areas[i].start <= v /\ v < areas[i].end}

(* mm_map refuses an area that starts inside another one; one that starts  *)
(* below another and reaches into it fails check_vma_overlap.              *)
Refused(areas, a) == find_vma(areas, a.start) # {}

check_vma_overlap(areas, a) ==
  \E i \in DOMAIN areas : a.start < areas[i].start /\ areas[i].start < a.end

(* The list is in the order of the addresses.                              *)
insert_vma_struct(areas, a) ==
  LET n == Cardinality({i \in DOMAIN areas : areas[i].start <= a.start})
  IN  [i \in 1..Len(areas) + 1 |->
         CASE i <= n -> areas[i] [] i = n + 1 -> a [] OTHER -> areas[i - 1]]

(* The calls of mm_map in load_icode, up to the first that fails.          *)
mm_map(x, a) ==
  IF x.failed \/ Refused(x.areas, a) THEN [x EXCEPT !.failed = TRUE]
  ELSE [areas  |-> insert_vma_struct(x.areas, a),
        failed |-> FALSE,
        panic  |-> x.panic \/ check_vma_overlap(x.areas, a)]

MapAll(segs) ==
  LET mapped[k \in 0..Len(segs)] ==
        IF k = 0 THEN [areas |-> <<>>, failed |-> FALSE, panic |-> FALSE]
        ELSE mm_map(mapped[k - 1], segs[k])
  IN  mapped[Len(segs)]

-----------------------------------------------------------------------------
(* check_swap has set up one address space with tables for its pages       *)
(* (frames 1 and 2), left it CheckFrames frames and put the others aside.  *)
Lowest(S)  == CHOOSE n \in S : \A k \in S : n <= k
Highest(S) == CHOOSE n \in S : \A k \in S : k <= n

Init ==
  /\ use = [x \in {<<boot_mm>>, <<boot_mm, 0>>, <<boot_mm, 0, 0>>} |-> Len(x) - 1]
  /\ free = 3..CheckFrames + 2
  /\ ref = [f \in Frames |-> IF f \in {1, 2} THEN 1 ELSE 0]
  /\ mem = [f \in Frames |-> NULL]
  /\ pra_list = <<>>
  /\ pra_vaddr = [f \in Frames |-> NULL]
  /\ disk = <<>>
  /\ mmap_list = [m \in Mm |-> IF m # boot_mm THEN <<>> ELSE
                    <<[start |-> Lowest(CheckPages), end |-> Highest(CheckPages) + 1, write |-> TRUE]>>]
  /\ check_mm_struct = boot_mm
  /\ panicked = FALSE
  /\ spread = FALSE

(* page_remove_pte for the pages among the entries X: what is left of the  *)
(* counts, and the frames that are freed, tables without a look at them.   *)
RefLeft(X) ==
  [f \in Frames |-> ref[f] - Cardinality({x \in X : Len(x) = 4 /\ use[x] = f})]

Freed(X) == {use[x] : x \in {x \in X : Len(x) = 4 => RefLeft(X)[use[x]] = 0}}

(* The frames of the entries X go, those of g come and pages of them hold  *)
(* what c says; use becomes u.  page_insert counts a page, get_pte a       *)
(* table, nobody a directory.  What a free frame holds is of no interest.  *)
Remap(X, g, c, u) ==
  /\ use' = u
  /\ free' = (free \cup Freed(X)) \ Range(g)
  /\ ref' = [f \in Frames |-> (IF f \in Freed(X) THEN 0 ELSE RefLeft(X)[f])
                                + Cardinality({x \in DOMAIN g : Len(x) > 1 /\ g[x] = f})]
  /\ mem' = [f \in Frames |-> IF \E x \in DOMAIN c : g[x] = f
                              THEN c[CHOOSE x \in DOMAIN c : g[x] = f]
                              ELSE IF f \in free' \cup Range(g) THEN NULL ELSE mem[f]]

(* alloc_pages has no frame left outside check_swap: swap_out follows the  *)
(* null pointer check_mm_struct.  Or an assertion fails.                   *)
panic ==
  /\ panicked' = TRUE
  /\ UNCHANGED <<use, free, ref, mem, swap, mmap_list, check_mm_struct, spread>>

(* A store to a page that is in memory and may be written.                 *)
Store(m, v, d) ==
  /\ pte(m, v) \in DOMAIN use
  /\ \E i \in find_vma(mmap_list[m], v) : mmap_list[m][i].write
  /\ mem' = [mem EXCEPT ![use[pte(m, v)]] = d]
  /\ UNCHANGED <<use, free, ref, swap, mmap_list, check_mm_struct, panicked, spread>>

(* do_pgfault with a free frame: the page gets its first frame, which      *)
(* holds anything (d), or comes back from the disk.  While check_swap runs *)
(* it becomes swappable.                                                   *)
do_pgfault(m, v, d) ==
  LET N == get_pte(m, v) \ DOMAIN use
      g == alloc_pages(free, N)
      x == pte(m, v)
  IN  /\ x \in N
      /\ ~OutOfMemory(free, N)
      /\ Remap({}, g,
               Single(x, IF m = check_mm_struct /\ v \in DOMAIN disk THEN disk[v] ELSE d),
               Merge(g, use))
      /\ IF check_mm_struct = NULL THEN UNCHANGED swap
         ELSE /\ pra_list' = Append(pra_list, g[x])
              /\ pra_vaddr' = [pra_vaddr EXCEPT ![g[x]] = v]
              /\ disk' = Restrict(disk, DOMAIN disk \ {v})
      /\ UNCHANGED <<mmap_list, check_mm_struct, panicked, spread>>

(* The list from which the victim is the first: when the write of one      *)
(* fails it goes to the end, and alloc_pages comes back for the next.      *)
swap_out_victim(fails) ==
  IF fails THEN Append(Tail(pra_list), Head(pra_list)) ELSE pra_list

(* Mutant: the victim stays in the list.                                   *)
swap_out_linked(m, v, d, fails) ==
  LET q == swap_out_victim(fails)
      f == Head(q)
      w == pra_vaddr[f]
      x == pte(m, v)
  IN  /\ m = check_mm_struct
      /\ free = {}
      /\ x \notin DOMAIN use
      /\ Remap({pte(m, w)}, Single(x, f),
               Single(x, IF v \in DOMAIN disk THEN disk[v] ELSE d),
               Merge(Single(x, f), Unmapped(use, {pte(m, w)})))
      /\ disk' = Merge(Single(w, mem[f]), Restrict(disk, DOMAIN disk \ {v}))
      /\ pra_list' = Append(q, f)
      /\ pra_vaddr' = [pra_vaddr EXCEPT ![f] = v]
      /\ UNCHANGED <<mmap_list, check_mm_struct, panicked, spread>>

(* do_pgfault without one, while check_swap runs: swap_out writes the      *)
(* victim to the disk, and its frame is the one that is found.             *)
swap_out(m, v, d, fails) ==
  LET q == swap_out_victim(fails)
      f == Head(q)
      w == pra_vaddr[f]
      x == pte(m, v)
  IN  /\ m = check_mm_struct
      /\ free = {}
      /\ x \notin DOMAIN use
      /\ Remap({pte(m, w)}, Single(x, f),
               Single(x, IF v \in DOMAIN disk THEN disk[v] ELSE d),
               Merge(Single(x, f), Unmapped(use, {pte(m, w)})))
      /\ disk' = Merge(Single(w, mem[f]), Restrict(disk, DOMAIN disk \ {v}))
      /\ pra_list' = Append(Tail(q), f)
      /\ pra_vaddr' = [pra_vaddr EXCEPT ![f] = v]
      /\ UNCHANGED <<mmap_list, check_mm_struct, panicked, spread>>

(* The end of check_swap, once all of its frames are in use: its frames    *)
(* and tables are freed, and those put aside are free again.               *)
end_check_swap ==
  /\ check_mm_struct # NULL
  /\ free = {}
  /\ use' = <<>>
  /\ free' = Frames
  /\ ref' = [f \in Frames |-> 0]
  /\ mem' = [f \in Frames |-> NULL]
  /\ pra_list' = <<>>
  /\ pra_vaddr' = [f \in Frames |-> NULL]
  /\ disk' = <<>>
  /\ mmap_list' = [mmap_list EXCEPT ![boot_mm] = <<>>]
  /\ check_mm_struct' = NULL
  /\ UNCHANGED <<panicked, spread>>

-----------------------------------------------------------------------------
Live == {m \in Mm : <<m>> \in DOMAIN use}

CopyNeeds(m, n) ==
  {<<n>>} \cup UNION {get_pte(n, v) : v \in Resident(use, m, mmap_list[m])}

(* Mutant: the pages are mapped but not copied.                            *)
copy_mm_empty(m, n) ==
  LET g == alloc_pages(free, CopyNeeds(m, n))
  IN  /\ m \in Live /\ n \notin Live
      /\ ~OutOfMemory(free, CopyNeeds(m, n))
      /\ Remap({}, g, <<>>, Merge(g, use))
      /\ mmap_list' = [mmap_list EXCEPT ![n] = mmap_list[m]]
      /\ UNCHANGED <<swap, check_mm_struct, panicked, spread>>

(* copy_mm of do_fork, with the copy_range of every area.                  *)
copy_mm(m, n) ==
  LET V == Resident(use, m, mmap_list[m])
      g == alloc_pages(free, CopyNeeds(m, n))
  IN  /\ m \in Live /\ n \notin Live
      /\ ~OutOfMemory(free, CopyNeeds(m, n))
      /\ Remap({}, g, [x \in {pte(n, v) : v \in V} |-> mem[use[<<m, x[2], x[3], x[4]>>]]],
               Merge(g, use))
      /\ mmap_list' = [mmap_list EXCEPT ![n] = mmap_list[m]]
      /\ UNCHANGED <<swap, check_mm_struct, panicked, spread>>

(* The pages of a program that lie in one directory lie in one table of it. *)
Compact(segs) ==
  \A v, w \in Pages(segs) : PDX1(v) = PDX1(w) => PDX0(v) = PDX0(w)

(* The areas of a program, and what load_icode allocates for it: all pages *)
(* of its segments, and some of the stack.                                 *)
LoadAreas(prog) == MapAll(Append(prog.segs, Stack))

load_icode(m, prog) ==
  LET y == LoadAreas(prog)
  IN  {<<m>>} \cup UNION {get_pte(m, v) :
         v \in (Pages(y.areas) \ Pages(<<Stack>>)) \cup (IF y.failed THEN {} ELSE StackPages)}

(* The entries of the address space that a new program replaces.           *)
Replaced(m) == IF m \in Live THEN exit_mmap(use, m, mmap_list[m]) ELSE {}

(* do_execve from the point of no return: the old address space goes, if   *)
(* there is one (a kernel thread has none), and load_icode loads the       *)
(* program.  When it fails it takes down again what it has set up (Left is *)
(* what stays), and the process exits.                                     *)
do_execve(m, prog) ==
  LET y    == LoadAreas(prog)
      F    == free \cup Freed(Replaced(m))
      g    == alloc_pages(F, load_icode(m, prog))
      Left == IF y.failed THEN DOMAIN g \ exit_mmap(g, m, y.areas) ELSE DOMAIN g
  IN  /\ ~OutOfMemory(F, load_icode(m, prog))
      /\ ~y.panic
      /\ Remap(Replaced(m), Restrict(g, Left),
               [x \in {x \in Left : Len(x) = 4} |-> prog.data],
               IF y.failed THEN Without(use, m) ELSE Merge(g, Without(use, m)))
      /\ mmap_list' = [mmap_list EXCEPT ![m] = IF y.failed THEN <<>> ELSE y.areas]
      /\ spread' = (spread \/ ~Compact(Append(prog.segs, Stack)))
      /\ UNCHANGED <<swap, check_mm_struct, panicked>>

(* The memory of do_exit.                                                  *)
do_exit(m) ==
  /\ m \in Live
  /\ Remap(exit_mmap(use, m, mmap_list[m]), <<>>, <<>>, Without(use, m))
  /\ mmap_list' = [mmap_list EXCEPT ![m] = <<>>]
  /\ UNCHANGED <<swap, check_mm_struct, panicked, spread>>

(* A fault, a fork or an exec finds no memory, or mm_map an overlap.       *)
Panics ==
  /\ \/ \E m \in Live : \E v \in Pages(mmap_list[m]) :
          OutOfMemory(free, get_pte(m, v) \ DOMAIN use)
     \/ \E m \in Live, n \in Mm \ Live : OutOfMemory(free, CopyNeeds(m, n))
     \/ \E m \in Mm, p \in Programs :
          \/ OutOfMemory(free \cup Freed(Replaced(m)), load_icode(m, p))
          \/ LoadAreas(p).panic
  /\ panic

UserStep ==
  /\ check_mm_struct = NULL
  /\ \/ \E m, n \in Mm : copy_mm(m, n)
     \/ \E m \in Mm, p \in Programs : do_execve(m, p)
     \/ \E m \in Mm : do_exit(m)
     \/ Panics

Access ==
  \E m \in Live, d \in Data : \E v \in Pages(mmap_list[m]) :
    \/ Store(m, v, d)
    \/ do_pgfault(m, v, d)
    \/ \E fails \in BOOLEAN : swap_out(m, v, d, fails)

Next == ~panicked /\ (Access \/ UserStep \/ end_check_swap)

Spec == Init /\ [][Next]_vars

-----------------------------------------------------------------------------
(* Who holds a frame; check_swap has put the last ones aside.              *)
Aside == IF check_mm_struct = NULL THEN {} ELSE CheckFrames + 3..NFrame

Lost == Frames \ (free \cup Aside \cup Range(use))

(* No frame is in two places: none that is free is still mapped or a table *)
(* in use, none is mapped twice, and the counts agree, through faults,     *)
(* page replacement, fork, exec, a failed exec and exit.  None is lost, as *)
(* long as the areas in a directory lie in one table.  In the other        *)
(* programs exit_range frees a directory with tables in it, and those      *)
(* tables are all that is lost.                                            *)
FramesExact ==
  /\ free \cap (Aside \cup Range(use)) = {}
  /\ \A x, y \in DOMAIN use : use[x] = use[y] => x = y
  /\ \A x \in DOMAIN use : Len(x) > 1 => ref[use[x]] = 1
  /\ \A f \in Lost : spread /\ mem[f] = NULL

(* While check_swap runs, the list of swappable pages is the pages in      *)
(* memory, each once and under its own address: swap_out never takes a     *)
(* victim whose entry is not valid and never runs out of victims.          *)
SwapListExact ==
  check_mm_struct # NULL =>
    /\ Cardinality(Range(pra_list)) = Len(pra_list)
    /\ Range(pra_list) = {use[x] : x \in {x \in DOMAIN use : Len(x) = 4}}
    /\ \A f \in Range(pra_list) : use[pte(check_mm_struct, pra_vaddr[f])] = f
    /\ free = {} => pra_list # <<>>

(* What a program finds in its pages.                                      *)
Memory ==
  [m \in Mm |->
     [v \in {v \in Pages(mmap_list[m]) :
               pte(m, v) \in DOMAIN use \/ (m = check_mm_struct /\ v \in DOMAIN disk)} |->
        IF pte(m, v) \in DOMAIN use THEN mem[use[pte(m, v)]] ELSE disk[v]]]

(* Two states in which no frame is in two places, and which differ only in *)
(* which frames are used for what, are alike: any free frame is as good as *)
(* another.                                                                *)
Shape ==
  <<DOMAIN use, Memory, Cardinality(free), Cardinality(Lost),
    [i \in DOMAIN pra_list |-> pra_vaddr[pra_list[i]]], disk,
    mmap_list, check_mm_struct, panicked, spread, FramesExact, SwapListExact>>

(* The pages a process may ever have, and what a new program finds.        *)
Va == CheckPages \cup Pages(<<Stack>>) \cup UNION {Pages(p.segs) : p \in Programs}

Image == {[v \in Pages(p.segs) \cup StackPages |-> p.data] : p \in Programs}

Spaces == INSTANCE AddressSpaces WITH space <- Memory

(* Every process has a memory of its own: a page keeps what was last       *)
(* stored in it, whether it goes to the disk and back or not, a store      *)
(* changes one page of one process, and fork copies every page.            *)
IsAddressSpaces == Spaces!Spec
=============================================================================
