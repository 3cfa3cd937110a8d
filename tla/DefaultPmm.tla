----------------------------- MODULE DefaultPmm -----------------------------
(***************************************************************************)
(* The first-fit page allocator kern/mm/default_pmm.c on its doubly linked *)
(* free list.  Every operation runs with interrupts off (alloc_pages and   *)
(* free_pages of pmm.c), so it is one step.  The list is modelled pointer  *)
(* by pointer: the code follows prev pointers as well as next pointers.    *)
(***************************************************************************)
EXTENDS Integers, FiniteSets, DList

CONSTANTS
  NPage,    \* pages of the one region that page_init hands to init_memmap
  KeepTop   \* TRUE: clients never use up the pages at the top of memory

ASSUME PmmAssumption == NPage \in Nat \ {0} /\ KeepTop \in BOOLEAN

Page == 0..NPage - 1
free_list == -1  \* the head of the list
Entry == Page \cup {free_list}

VARIABLES
  links,        \* page_link of every page, and the head
  property,     \* page->property
  PageProperty, \* the pages with PG_property set
  nr_free,
  holders       \* how many clients have been given a page and not freed it

vars == <<links, property, PageProperty, nr_free, holders>>

(* default_init and default_init_memmap of one region.                     *)
Init ==
  /\ links = list_add_after(list_init(Entry), free_list, 0)
  /\ property = [p \in Page |-> IF p = 0 THEN NPage ELSE 0]
  /\ PageProperty = {0}
  /\ nr_free = NPage
  /\ holders = [p \in Page |-> 0]

Nodes == Walk(links, free_list, NPage + 1)

Fits(p, n) == property[p] >= n

(* The loop of default_alloc_pages stops at entry number k: the first      *)
(* block that is large enough.  A walk that neither finds one nor comes    *)
(* back to the head never ends, and then there is no such k.               *)
FirstFit(k, n) ==
  /\ k \in 1..NPage + 1
  /\ \A j \in 1..k - 1 : Nodes[j] # free_list /\ ~Fits(Nodes[j], n)
  /\ Nodes[k] # free_list /\ Fits(Nodes[k], n)

(* The list after default_alloc_pages has taken n pages of block page: the *)
(* entry behind the one its prev pointer names is the rest of the block.   *)
Unlinked(page, n) ==
  LET L == list_del(links, page)
  IN  IF property[page] > n THEN list_add_after(L, links.prev[page], page + n) ELSE L

(* Mutant: PG_property of the page that is given out stays set.            *)
AllocFlags_keep(page, n) ==
  PageProperty \cup (IF property[page] > n THEN {page + n} ELSE {})

AllocFlags(page, n) ==
  (PageProperty \cup (IF property[page] > n THEN {page + n} ELSE {})) \ {page}

default_alloc_pages(n) ==
  /\ n <= nr_free
  /\ \E k \in 1..NPage + 1 :
       LET page == Nodes[k]
       IN  /\ FirstFit(k, n)
           /\ KeepTop => page + n < NPage
           /\ links' = Unlinked(page, n)
           /\ property' = IF property[page] > n
                          THEN [property EXCEPT ![page + n] = property[page] - n]
                          ELSE property
           /\ PageProperty' = AllocFlags(page, n)
           /\ nr_free' = nr_free - n
           /\ holders' = [p \in Page |-> IF p \in page..page + n - 1 THEN holders[p] + 1
                                         ELSE holders[p]]

(* The last round of the search loop: base goes behind the last entry, and *)
(* because the loop is not left it meets base itself and adds it again.    *)
InsertAtTail(le, base) ==
  list_add_after(list_add_after(links, le, base), base, base)

(* The search loop, which stops at entry number k.                         *)
Inserted(base, k) ==
  IF k = 1 /\ Nodes[1] = free_list THEN list_add_after(links, free_list, base)
  ELSE IF Nodes[k] = free_list THEN InsertAtTail(Nodes[k - 1], base)
  ELSE list_add_before(links, Nodes[k], base)

InsertPlace(base, k) ==
  /\ k \in 1..NPage + 1
  /\ \A j \in 1..k - 1 : Nodes[j] # free_list /\ ~(base < Nodes[j])
  /\ Nodes[k] = free_list \/ base < Nodes[k]

(* Mutant: a block is not merged with the one in front of it.              *)
MergePrev_not(L, size, flags, base) ==
  [links |-> L, size |-> size, flags |-> flags, base |-> base]

(* The block in front of base takes it in when they touch.                 *)
MergePrev(L, size, flags, base) ==
  LET p == L.prev[base]
  IN  IF p # free_list /\ p + size[p] = base
      THEN [links |-> list_del(L, base), size |-> [size EXCEPT ![p] = @ + size[base]],
            flags |-> flags \ {base}, base |-> p]
      ELSE [links |-> L, size |-> size, flags |-> flags, base |-> base]

(* Mutant: the block that is taken in stays in the list.                   *)
MergeNext_kept(L, size, flags, base) ==
  LET p == L.next[base]
  IN  IF p # free_list /\ base + size[base] = p
      THEN [links |-> L, size |-> [size EXCEPT ![base] = @ + size[p]],
            flags |-> flags, base |-> base]
      ELSE [links |-> L, size |-> size, flags |-> flags, base |-> base]

(* base takes in the block behind it when they touch.                      *)
MergeNext(L, size, flags, base) ==
  LET p == L.next[base]
  IN  IF p # free_list /\ base + size[base] = p
      THEN [links |-> list_del(L, p), size |-> [size EXCEPT ![base] = @ + size[p]],
            flags |-> flags \ {p}, base |-> base]
      ELSE [links |-> L, size |-> size, flags |-> flags, base |-> base]

(* A client gives back n pages it holds; the code asserts that none of     *)
(* them is marked as the head of a free block.                             *)
default_free_pages(base, n) ==
  /\ base + n <= NPage
  /\ \A p \in base..base + n - 1 : holders[p] = 1
  /\ \E k \in 1..NPage + 1 :
       /\ InsertPlace(base, k)
       /\ LET a == MergePrev(Inserted(base, k), [property EXCEPT ![base] = n],
                             PageProperty \cup {base}, base)
              b == MergeNext(a.links, a.size, a.flags, a.base)
          IN  /\ links' = b.links
              /\ property' = b.size
              /\ PageProperty' = b.flags
  /\ nr_free' = nr_free + n
  /\ holders' = [p \in Page |-> IF p \in base..base + n - 1 THEN 0 ELSE holders[p]]

Next == \E n \in 1..NPage :
  \/ default_alloc_pages(n)
  \/ \E base \in Page : default_free_pages(base, n)

Spec == Init /\ [][Next]_vars

-----------------------------------------------------------------------------
InList == {Nodes[k] : k \in 1..NPage + 1} \ {free_list}

(* What the code can still read: the fields of a page outside the list are *)
(* written before they are next read.                                      *)
Readable ==
  LET On == InList \cup {free_list}
  IN  <<[e \in On |-> links.next[e]], [e \in On |-> links.prev[e]],
        [p \in InList |-> property[p]], PageProperty, nr_free, holders>>

Block(p) == p..p + property[p] - 1

(* No page is given to two clients.                                        *)
NeverTwice == \A p \in Page : holders[p] <= 1

(* The free list is a sound list in address order, and PG_property marks   *)
(* its entries and nothing else, so the assertion of default_free_pages    *)
(* on the pages of a client holds.                                         *)
FreeListSound ==
  /\ WellLinked(links, free_list, NPage + 1)
  /\ PageProperty = InList
  /\ \A p \in InList : links.next[p] = free_list \/ links.next[p] > p

(* No page is lost: the blocks of the list are disjoint and hold exactly   *)
(* the pages that no client has, and nr_free counts them.                  *)
NoPageLost ==
  /\ UNION {Block(p) : p \in InList} = {p \in Page : holders[p] = 0}
  /\ \A p, q \in InList : p # q => Block(p) \cap Block(q) = {}
  /\ nr_free = Cardinality({p \in Page : holders[p] = 0})

(* A request fails only when there is no run of free pages that long: free *)
(* blocks that touch have been merged.                                     *)
FindsRoom ==
  \A n \in 1..NPage :
    (\E base \in Page : base + n <= NPage /\ \A p \in base..base + n - 1 : holders[p] = 0)
      => \E k \in 1..NPage + 1 : FirstFit(k, n)
=============================================================================
