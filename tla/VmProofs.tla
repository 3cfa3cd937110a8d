------------------------------ MODULE VmProofs ------------------------------
(***************************************************************************)
(* Proofs about Vm: that no frame is ever in two places or lost, that the  *)
(* FIFO of check_swap is exact, and that Vm implements AddressSpaces.      *)
(***************************************************************************)
EXTENDS Vm, FiniteSetTheorems, SequenceTheorems, WellFoundedInduction, TLAPS

-----------------------------------------------------------------------------
(* The inductive invariant.                                                *)

(* The entries of m, and those that the pages V of m need.                 *)
OfM(u, m) == {x \in DOMAIN u : x[1] = m}

Needs(m, V) == {<<m>>} \cup UNION {get_pte(m, v) : v \in V}

CheckTables == {<<boot_mm>>, <<boot_mm, 0>>, <<boot_mm, 0, 0>>}

Types ==
  /\ use \in [DOMAIN use -> 0..NFrame]
  /\ free \in SUBSET Frames
  /\ ref \in [Frames -> Nat]
  /\ mem \in [Frames -> Data \cup {NULL}]
  /\ pra_list \in Seq(Frames)
  /\ pra_vaddr \in [Frames -> CheckPages \cup {NULL}]
  /\ disk \in [DOMAIN disk -> Data \cup {NULL}]
  /\ DOMAIN disk \subseteq CheckPages
  /\ mmap_list \in [Mm -> Seq(Area)]
  /\ check_mm_struct \in {boot_mm, NULL}
  /\ panicked \in BOOLEAN
  /\ spread \in BOOLEAN

(* No frame is in two places; the counts; tables hold no page.             *)
Owned(u, fr, r, c) ==
  /\ \A x, y \in DOMAIN u : u[x] = u[y] => x = y
  /\ \A x \in DOMAIN u : u[x] \notin fr
  /\ \A x \in DOMAIN u : Len(x) > 1 => u[x] \in Frames /\ r[u[x]] = 1
  /\ \A f \in fr : r[f] = 0
  /\ \A x \in DOMAIN u : Len(x) < 4 /\ u[x] \in Frames => c[u[x]] = NULL

(* While user programs run: the entries of an address space are what its   *)
(* pages in memory need.                                                   *)
Tree(u, m, areas) ==
  IF <<m>> \in DOMAIN u THEN OfM(u, m) = Needs(m, Resident(u, m, areas))
                        ELSE OfM(u, m) = {} /\ areas = <<>>

UserTrees(u, areas) ==
  /\ \A x \in DOMAIN u : x[1] \in Mm
  /\ \A m \in Mm : Tree(u, m, areas[m])

UserPart ==
  check_mm_struct = NULL => UserTrees(use, mmap_list) /\ Range(use) \subseteq Frames

(* While check_swap runs.                                                  *)
NoDuplicates(q) == \A i, j \in 1..Len(q) : q[i] = q[j] => i = j

PageFrames(u) == {u[x] : x \in {x \in DOMAIN u : Len(x) = 4}}

SwapList(q, p, u) ==
  /\ NoDuplicates(q)
  /\ Range(q) = PageFrames(u)
  /\ \A f \in Range(q) : /\ p[f] \in CheckPages /\ pte(boot_mm, p[f]) \in DOMAIN u
                         /\ u[pte(boot_mm, p[f])] = f

SwapPart == check_mm_struct # NULL => SwapList(pra_list, pra_vaddr, use)

CheckPart ==
  check_mm_struct # NULL =>
    /\ CheckTables \subseteq DOMAIN use
    /\ DOMAIN use \subseteq CheckTables \cup {pte(boot_mm, v) : v \in CheckPages}
    /\ \A x \in CheckTables : use[x] = Len(x) - 1
    /\ \A x \in DOMAIN use : Len(x) = 4 => use[x] \in 3..CheckFrames + 2
    /\ free \subseteq 3..CheckFrames + 2
    /\ \A m \in Mm \ {boot_mm} : mmap_list[m] = <<>>
    /\ Pages(mmap_list[boot_mm]) = CheckPages
    /\ ~spread

Lists ==
  /\ \A m \in Mm : Pages(mmap_list[m]) \subseteq Va
  /\ ~spread => \A m \in Mm : Compact(mmap_list[m])

NoneLost == \A f \in Lost : spread /\ mem[f] = NULL

IInv ==
  /\ Types
  /\ Owned(use, free, ref, mem)
  /\ UserPart
  /\ CheckPart
  /\ Lists
  /\ NoneLost
  /\ SwapPart

-----------------------------------------------------------------------------
(* Pages and their entries.                                                *)
Index == 0..NEntry - 1

(* Induction over the natural numbers, for a set of them.                  *)
LEMMA LeastNat ==
  ASSUME NEW T, T \subseteq Nat, T # {}
  PROVE  \E x \in T : \A y \in T : x <= y
<1> DEFINE R == OpToRel(<, Nat)
<1>1. IsWellFoundedOn(R, Nat)
  BY NatLessThanWellFounded
<1>2. \E x \in T : \A y \in T : ~(<<y, x>> \in R)
  <2> HIDE DEF R
  <2> QED
    BY <1>1, WFMin
<1>3. \A x, y \in Nat : ~(<<y, x>> \in R) => x <= y
  BY DEF OpToRel
<1> HIDE DEF R
<1>4. \A x \in T : x \in Nat
  OBVIOUS
<1> QED
  BY <1>2, <1>3, <1>4, Zenon

LEMMA SetInduction ==
  ASSUME NEW S, 0 \in S, \A n \in Nat : n \in S => n + 1 \in S
  PROVE  Nat \subseteq S
<1> SUFFICES ASSUME Nat \ S # {} PROVE FALSE
  OBVIOUS
<1>1. PICK x \in Nat \ S : \A y \in Nat \ S : x <= y
  BY LeastNat
<1>2. x # 0 /\ x - 1 \in Nat /\ x - 1 \notin Nat \ S
  BY <1>1
<1> QED
  BY <1>1, <1>2

LEMMA Constants ==
  /\ boot_mm \in Mm /\ NULL \notin Mm
  /\ NEntry \in Nat \ {0} /\ NEntry \in Int /\ NEntry > 0
  /\ CheckFrames \in Nat \ {0} /\ NFrame \in Nat /\ NFrame > CheckFrames + 2
  /\ CheckPages \subseteq Index /\ CheckPages # {}
  /\ Stack \in Area /\ StackPages \subseteq Stack.start..Stack.end - 1
  /\ \A p \in Programs : p.data \in Data /\ p.segs \in Seq(Area)
BY VmAssumption DEF Index

LEMMA MultipleIsFar ==
  ASSUME NEW B \in Nat \ {0}, NEW d \in Int, B * d < B, B * d > 0 - B
  PROVE  d = 0
<1>1. d > 0 => B * d >= B
  OBVIOUS
<1>2. d < 0 => B * d <= 0 - B
  OBVIOUS
<1> QED
  BY <1>1, <1>2

LEMMA Division ==
  ASSUME NEW a \in Nat
  PROVE  /\ a \div NEntry \in Nat /\ a % NEntry \in Index
         /\ a = NEntry * (a \div NEntry) + (a % NEntry)
<1>1. NEntry \in Int /\ NEntry > 0
  BY Constants
<1>2. /\ a \div NEntry \in Int
      /\ a = NEntry * (a \div NEntry) + (a % NEntry)
  BY <1>1
<1>3. a % NEntry \in 0..NEntry - 1
  BY <1>1
<1>4. a \div NEntry >= 0
  <2> DEFINE q == a \div NEntry
             r == a % NEntry
  <2>1. q \in Int /\ r \in 0..NEntry - 1 /\ a = NEntry * q + r
    BY <1>2, <1>3
  <2> HIDE DEF q, r
  <2>2. q <= -1 => NEntry * q <= 0 - NEntry
    BY <1>1, <2>1
  <2>3. q >= 0
    BY <1>1, <2>1, <2>2
  <2> QED
    BY <2>3 DEF q
<1> QED
  BY <1>2, <1>3, <1>4 DEF Index

LEMMA SameQuotient ==
  ASSUME NEW q \in Int, NEW c \in Index, NEW e \in Int, NEW r \in Index,
         q * NEntry + c = e * NEntry + r
  PROVE  q = e /\ c = r
<1>1. /\ NEntry \in Nat \ {0} /\ NEntry * q \in Int /\ NEntry * e \in Int
      /\ q * NEntry = NEntry * q /\ e * NEntry = NEntry * e
  BY Constants
<1>2. r \in 0..NEntry - 1 /\ c \in 0..NEntry - 1
  BY DEF Index
<1>3. NEntry * (e - q) = NEntry * e - NEntry * q
  BY <1>1
<1>4. NEntry * (e - q) = c - r
  BY <1>1, <1>2, <1>3
<1>5. e - q = 0
  <2>1. c - r < NEntry /\ c - r > 0 - NEntry
    BY <1>1, <1>2
  <2> QED
    BY <1>1, <1>4, <2>1, MultipleIsFar
<1>6. e = q
  BY <1>5
<1> QED
  BY <1>1, <1>2, <1>6

(* The parts of a page number, and the page of parts.                      *)
LEMMA PageParts ==
  ASSUME NEW v \in Nat
  PROVE  /\ PDX1(v) \in Nat /\ PDX0(v) \in Index /\ PTX(v) \in Index
         /\ v = (PDX1(v) * NEntry + PDX0(v)) * NEntry + PTX(v)
<1> DEFINE w == v \div NEntry
<1>1. w \in Nat /\ v % NEntry \in Index /\ v = NEntry * w + (v % NEntry)
  BY Division
<1>2. /\ w \div NEntry \in Nat /\ w % NEntry \in Index
      /\ w = NEntry * (w \div NEntry) + (w % NEntry)
  <2> HIDE DEF w
  <2> QED
    BY <1>1, Division
<1>3. PDX1(v) = w \div NEntry /\ PDX0(v) = w % NEntry /\ PTX(v) = v % NEntry
  BY DEF PDX1, PDX0, PTX
<1> DEFINE c == PTX(v)
           a == PDX1(v)
           b == PDX0(v)
<1>4. /\ w \in Nat /\ a \in Nat /\ b \in Index /\ c \in Index
      /\ v = NEntry * w + c /\ w = NEntry * a + b
  BY <1>1, <1>2, <1>3
<1> HIDE DEF w, a, b, c
<1>5. NEntry * a = a * NEntry /\ NEntry * w = w * NEntry
  BY <1>4, Constants
<1>6. v = (a * NEntry + b) * NEntry + c
  BY <1>4, <1>5
<1> QED
  BY <1>4, <1>6 DEF a, b, c

LEMMA SamePage ==
  ASSUME NEW m, NEW n, NEW v \in Nat, NEW w \in Nat, pte(m, v) = pte(n, w)
  PROVE  m = n /\ v = w
<1>1. m = n /\ PDX1(v) = PDX1(w) /\ PDX0(v) = PDX0(w) /\ PTX(v) = PTX(w)
  BY DEF pte
<1> QED
  BY <1>1, PageParts, Zenon

(* An entry of m.                                                          *)
Entry(m) ==
  {<<m>>} \cup {<<m, i>> : i \in Nat} \cup {<<m, i, j>> : i \in Nat, j \in Index}
    \cup {<<m, i, j, k>> : i \in Nat, j \in Index, k \in Index}

LEMMA EntryForms ==
  ASSUME NEW m, NEW x \in Entry(m)
  PROVE  /\ x[1] = m /\ Len(x) \in 1..4
         /\ Len(x) = 1 => x = <<m>>
         /\ Len(x) = 2 => \E i \in Nat : x = <<m, i>>
         /\ Len(x) = 3 => \E i \in Nat, j \in Index : x = <<m, i, j>>
         /\ Len(x) = 4 => \E i \in Nat, j \in Index, k \in Index : x = <<m, i, j, k>>
<1>1. CASE x = <<m>>
  BY <1>1
<1>2. ASSUME NEW i \in Nat, x = <<m, i>> PROVE Len(x) = 2 /\ x[1] = m
  BY <1>2
<1>3. ASSUME NEW i \in Nat, NEW j \in Index, x = <<m, i, j>> PROVE Len(x) = 3 /\ x[1] = m
  BY <1>3
<1>4. ASSUME NEW i \in Nat, NEW j \in Index, NEW k \in Index, x = <<m, i, j, k>>
      PROVE  Len(x) = 4 /\ x[1] = m
  BY <1>4
<1>5. CASE \E i \in Nat : x = <<m, i>>
  BY <1>2, <1>5
<1>6. CASE \E i \in Nat, j \in Index : x = <<m, i, j>>
  BY <1>3, <1>6
<1>7. CASE \E i \in Nat, j \in Index, k \in Index : x = <<m, i, j, k>>
  BY <1>4, <1>7
<1> QED
  BY <1>1, <1>5, <1>6, <1>7 DEF Entry

LEMMA DirectoryForm ==
  ASSUME NEW m, NEW x \in Entry(m), Len(x) = 1
  PROVE  x = <<m>>
BY EntryForms

LEMMA UpperForm ==
  ASSUME NEW m, NEW x \in Entry(m), Len(x) = 2
  PROVE  \E i \in Nat : x = <<m, i>>
BY EntryForms

LEMMA TableForm ==
  ASSUME NEW m, NEW x \in Entry(m), Len(x) = 3
  PROVE  \E i \in Nat, j \in Index : x = <<m, i, j>>
BY EntryForms

LEMMA PageForm ==
  ASSUME NEW m, NEW x \in Entry(m), Len(x) = 4
  PROVE  \E i \in Nat, j \in Index, k \in Index : x = <<m, i, j, k>>
BY EntryForms

LEMMA NeedsAreEntries ==
  ASSUME NEW m, NEW v \in Nat
  PROVE  get_pte(m, v) \subseteq Entry(m)
BY PageParts DEF get_pte, pte, Entry

-----------------------------------------------------------------------------
(* Ranks: the place of an element of a finite set in the order of its keys.*)
Ranks(S, k) == [x \in S |-> Cardinality({y \in S : k[y] < k[x]})]

LEMMA RankBelow ==
  ASSUME NEW S, IsFiniteSet(S), NEW k \in [S -> Int], NEW x \in S, NEW z \in S, k[x] < k[z]
  PROVE  /\ Ranks(S, k)[x] \in Nat /\ Ranks(S, k)[z] \in Nat
         /\ Ranks(S, k)[x] < Ranks(S, k)[z]
<1> DEFINE A == {y \in S : k[y] < k[x]}
           B == {y \in S : k[y] < k[z]}
<1>1. IsFiniteSet(A) /\ IsFiniteSet(B)
  BY FS_Subset
<1>2. A \subseteq B /\ x \in B /\ x \notin A
  <2>1. \A y \in S : k[y] \in Int
    OBVIOUS
  <2> QED
    BY <2>1
<1>3. Cardinality(A) \in Nat /\ Cardinality(B) \in Nat
  BY <1>1, FS_CardinalityType
<1>4. Cardinality(A) <= Cardinality(B) /\ (Cardinality(B) = Cardinality(A) => B = A)
  <2> HIDE DEF A, B
  <2> QED
    BY <1>1, <1>2, FS_Subset
<1>5. Cardinality(A) < Cardinality(B)
  <2> HIDE DEF A, B
  <2> QED
    BY <1>2, <1>3, <1>4
<1>6. Ranks(S, k)[x] = Cardinality(A) /\ Ranks(S, k)[z] = Cardinality(B)
  BY DEF Ranks
<1> HIDE DEF A, B
<1> QED
  BY <1>3, <1>5, <1>6

Distinct(S, k) == \A x, y \in S : k[x] = k[y] => x = y

LEMMA RanksDiffer ==
  ASSUME NEW S, IsFiniteSet(S), NEW k \in [S -> Int], Distinct(S, k)
  PROVE  /\ Ranks(S, k) \in [S -> 0..Cardinality(S) - 1]
         /\ Distinct(S, Ranks(S, k))
<1> DEFINE r == Ranks(S, k)
           n == Cardinality(S)
<1>1. ASSUME NEW x \in S PROVE r[x] \in 0..n - 1
  <2> DEFINE A == {y \in S : k[y] < k[x]}
  <2>1. A \subseteq S /\ x \notin A
    OBVIOUS
  <2>2. IsFiniteSet(A) /\ Cardinality(A) <= n /\ (n = Cardinality(A) => S = A)
    <3> HIDE DEF A
    <3> QED
      BY <2>1, FS_Subset
  <2>3. Cardinality(A) \in Nat /\ n \in Nat /\ Cardinality(A) # n
    BY <2>1, <2>2, FS_CardinalityType
  <2>4. r[x] = Cardinality(A)
    BY DEF Ranks
  <2> HIDE DEF A, r, n
  <2> QED
    BY <2>2, <2>3, <2>4
<1>2. ASSUME NEW x \in S, NEW y \in S, r[x] = r[y] PROVE x = y
  <2>1. k[x] \in Int /\ k[y] \in Int
    OBVIOUS
  <2>2. ~(k[x] < k[y]) /\ ~(k[y] < k[x])
    <3>1. ASSUME k[x] < k[y] PROVE FALSE
      <4> HIDE DEF r
      <4>1. r[x] \in Nat /\ r[y] \in Nat /\ r[x] < r[y]
        BY <3>1, RankBelow DEF r
      <4> QED
        BY <1>2, <4>1
    <3>2. ASSUME k[y] < k[x] PROVE FALSE
      <4> HIDE DEF r
      <4>1. r[x] \in Nat /\ r[y] \in Nat /\ r[y] < r[x]
        BY <3>2, RankBelow DEF r
      <4> QED
        BY <1>2, <4>1
    <3> QED
      BY <3>1, <3>2
  <2>3. k[x] = k[y]
    BY <2>1, <2>2
  <2> QED
    BY <2>3 DEF Distinct
<1>3. r = [x \in S |-> r[x]]
  BY DEF Ranks
<1>4. r \in [S -> 0..n - 1]
  <2> HIDE DEF r, n
  <2> QED
    BY <1>1, <1>3
<1> QED
  BY <1>2, <1>4 DEF Distinct

(* Every place is taken.                                                   *)
LEMMA RanksCover ==
  ASSUME NEW S, IsFiniteSet(S), NEW k \in [S -> Int], Distinct(S, k),
         NEW i \in 0..Cardinality(S) - 1
  PROVE  \E x \in S : Ranks(S, k)[x] = i
<1> DEFINE r == Ranks(S, k)
           n == Cardinality(S)
           T == 0..n - 1
<1>1. r \in [S -> T] /\ Distinct(S, r)
  BY RanksDiffer
<1>2. n \in Nat
  BY FS_CardinalityType
<1>3. IsFiniteSet(T) /\ Cardinality(T) = n
  <2> HIDE DEF n
  <2> QED
    BY <1>2, FS_Interval
<1> HIDE DEF r, n, T
<1>4. r \in Injection(S, T)
  BY <1>1 DEF Injection, IsInjective, Distinct
<1>5. r \in Surjection(S, T)
  BY <1>3, <1>4, FS_Injection DEF n
<1>6. i \in T
  BY DEF T, n
<1> QED
  BY <1>5, <1>6 DEF Surjection, r

(* The keys of the entries of m.                                           *)
Key(x) == 5 * FirstPage(x) + Len(x)

LEMMA FirstPages ==
  ASSUME NEW m
  PROVE  /\ FirstPage(<<m>>) = 0
         /\ \A i \in Nat : FirstPage(<<m, i>>) = i * NEntry * NEntry
         /\ \A i \in Nat, j \in Index : FirstPage(<<m, i, j>>) = (i * NEntry + j) * NEntry
         /\ \A i \in Nat, j \in Index, k \in Index :
              FirstPage(<<m, i, j, k>>) = (i * NEntry + j) * NEntry + k
<1>1. FirstPage(<<m>>) = (0 * NEntry + 0) * NEntry + 0
  BY DEF FirstPage
<1>2. ASSUME NEW i \in Nat PROVE FirstPage(<<m, i>>) = (i * NEntry + 0) * NEntry + 0
  BY DEF FirstPage
<1>3. ASSUME NEW i \in Nat, NEW j \in Index
      PROVE  FirstPage(<<m, i, j>>) = (i * NEntry + j) * NEntry + 0
  BY DEF FirstPage
<1>4. ASSUME NEW i \in Nat, NEW j \in Index, NEW k \in Index
      PROVE  FirstPage(<<m, i, j, k>>) = (i * NEntry + j) * NEntry + k
  BY DEF FirstPage
<1>5. (0 * NEntry + 0) * NEntry + 0 = 0
  BY Constants
<1>6. ASSUME NEW i \in Nat PROVE (i * NEntry + 0) * NEntry + 0 = i * NEntry * NEntry
  <2>1. i * NEntry \in Nat
    BY Constants
  <2>2. i * NEntry * NEntry \in Nat
    BY <2>1, Constants
  <2> QED
    BY <2>1, <2>2
<1>7. ASSUME NEW i \in Nat, NEW j \in Index
      PROVE  (i * NEntry + j) * NEntry + 0 = (i * NEntry + j) * NEntry
  <2>1. i * NEntry + j \in Nat
    BY Constants DEF Index
  <2>2. (i * NEntry + j) * NEntry \in Nat
    BY <2>1, Constants
  <2> QED
    BY <2>2
<1> QED
  <2>1. FirstPage(<<m>>) = 0
    BY <1>1, <1>5
  <2>2. ASSUME NEW i \in Nat PROVE FirstPage(<<m, i>>) = i * NEntry * NEntry
    BY <1>2, <1>6, Zenon
  <2>3. ASSUME NEW i \in Nat, NEW j \in Index
        PROVE  FirstPage(<<m, i, j>>) = (i * NEntry + j) * NEntry
    BY <1>3, <1>7, Zenon
  <2> QED
    BY <2>1, <2>2, <2>3, <1>4, Zenon

LEMMA FirstPageType ==
  ASSUME NEW i \in Nat, NEW j \in Index, NEW k \in Index
  PROVE  /\ i * NEntry * NEntry \in Nat
         /\ (i * NEntry + j) * NEntry \in Nat
         /\ (i * NEntry + j) * NEntry + k \in Nat
<1>1. i * NEntry \in Nat /\ i * NEntry + j \in Nat /\ j \in Nat /\ k \in Nat
  BY Constants DEF Index
<1>2. i * NEntry * NEntry \in Nat /\ (i * NEntry + j) * NEntry \in Nat
  BY <1>1, Constants
<1> QED
  BY <1>1, <1>2

LEMMA TableFirst ==
  ASSUME NEW m, NEW i \in Nat, NEW j \in Index
  PROVE  FirstPage(<<m, i, j>>) = (i * NEntry + j) * NEntry
<1> DEFINE p == (i * NEntry + j) * NEntry
<1>1. FirstPage(<<m, i, j>>) = p
  BY FirstPages
<1> QED
  BY <1>1

LEMMA PageFirst ==
  ASSUME NEW m, NEW i \in Nat, NEW j \in Index, NEW k \in Index
  PROVE  FirstPage(<<m, i, j, k>>) = (i * NEntry + j) * NEntry + k
<1> DEFINE p == (i * NEntry + j) * NEntry + k
<1>1. FirstPage(<<m, i, j, k>>) = p
  BY FirstPages
<1> QED
  BY <1>1

LEMMA FirstPagesDiffer ==
  ASSUME NEW m, NEW x \in Entry(m), NEW y \in Entry(m),
         FirstPage(x) = FirstPage(y), Len(x) = Len(y)
  PROVE  x = y
<1>1. CASE Len(x) = 1
  <2>1. Len(y) = 1
    BY <1>1
  <2>2. x = <<m>>
    BY <1>1, DirectoryForm
  <2>3. y = <<m>>
    BY <2>1, DirectoryForm
  <2> QED
    BY <2>2, <2>3
<1> DEFINE N == NEntry
<1>2. CASE Len(x) = 2
  <2>0. Len(y) = 2
    BY <1>2
  <2>1. PICK i \in Nat : x = <<m, i>>
    BY <1>2, UpperForm
  <2>b. PICK a \in Nat : y = <<m, a>>
    BY <2>0, UpperForm
  <2>2. i * N * N = a * N * N
    BY <2>1, <2>b, FirstPages, Zenon
  <2>3. i * N \in Int /\ a * N \in Int /\ 0 \in Index
    BY Constants DEF Index
  <2>4. i * N * N + 0 = a * N * N + 0
    BY <2>2
  <2>5. i * N = a * N
    <3> HIDE DEF N
    <3> DEFINE p == i * N
               q == a * N
    <3> HIDE DEF p, q
    <3> QED
      BY <2>3, <2>4, SameQuotient DEF p, q, N
  <2>6. i * N + 0 = a * N + 0
    BY <2>5
  <2>7. i = a
    BY <2>3, <2>6, SameQuotient
  <2> QED
    BY <2>1, <2>b, <2>7
<1>3. CASE Len(x) = 3
  <2>0. Len(y) = 3
    BY <1>3
  <2>1. PICK i \in Nat, j \in Index : x = <<m, i, j>>
    BY <1>3, TableForm
  <2>b. PICK a \in Nat, b \in Index : y = <<m, a, b>>
    BY <2>0, TableForm
  <2> DEFINE p == i * N + j
             q == a * N + b
  <2>2. p * N = q * N
    BY <2>1, <2>b, TableFirst
  <2>3. p \in Int /\ q \in Int /\ 0 \in Index
    BY Constants DEF Index
  <2>4. p = q
    <3> HIDE DEF p, q
    <3>1. p * N + 0 = q * N + 0
      BY <2>2
    <3> QED
      BY <2>3, <3>1, SameQuotient
  <2>5. i = a /\ j = b
    BY <2>4, SameQuotient
  <2> QED
    BY <2>1, <2>b, <2>5
<1>4. CASE Len(x) = 4
  <2>0. Len(y) = 4
    BY <1>4
  <2>1. PICK i \in Nat, j \in Index, k \in Index : x = <<m, i, j, k>>
    BY <1>4, PageForm
  <2>2. PICK a \in Nat, b \in Index, c \in Index : y = <<m, a, b, c>>
    BY <2>0, PageForm
  <2> DEFINE p == i * N + j
             q == a * N + b
  <2>3. p * N + k = q * N + c
    BY <2>1, <2>2, PageFirst
  <2>4. p \in Int /\ q \in Int
    BY Constants DEF Index
  <2>5. p = q /\ k = c
    <3> HIDE DEF p, q
    <3> QED
      BY <2>3, <2>4, SameQuotient
  <2>6. i = a /\ j = b
    BY <2>5, SameQuotient
  <2> QED
    BY <2>1, <2>2, <2>5, <2>6
<1>5. Len(x) \in 1..4
  BY EntryForms
<1>6. Len(x) = 1 \/ Len(x) = 2 \/ Len(x) = 3 \/ Len(x) = 4
  BY <1>5
<1> QED
  BY <1>1, <1>2, <1>3, <1>4, <1>6

LEMMA Keys ==
  ASSUME NEW m, NEW x \in Entry(m)
  PROVE  FirstPage(x) \in Nat /\ Len(x) \in 1..4 /\ Key(x) \in Nat
<1>1. FirstPage(x) \in Nat
  <2>1. CASE Len(x) = 1
    BY <2>1, EntryForms, FirstPages
  <2>2. CASE Len(x) = 2
    <3>1. PICK i \in Nat : x = <<m, i>>
      BY <2>2, UpperForm
    <3>2. 0 \in Index
      BY Constants DEF Index
    <3> QED
      BY <3>1, <3>2, FirstPages, FirstPageType, Zenon
  <2>3. CASE Len(x) = 3
    <3>1. PICK i \in Nat, j \in Index : x = <<m, i, j>>
      BY <2>3, TableForm
    <3>2. 0 \in Index
      BY Constants DEF Index
    <3> DEFINE p == (i * NEntry + j) * NEntry
    <3>3. p \in Nat
      BY <3>2, FirstPageType
    <3>4. FirstPage(<<m, i, j>>) = p
      BY TableFirst
    <3> QED
      BY <3>1, <3>3, <3>4, Zenon
  <2>4. CASE Len(x) = 4
    <3>1. PICK i \in Nat, j \in Index, k \in Index : x = <<m, i, j, k>>
      BY <2>4, PageForm
    <3> DEFINE p == (i * NEntry + j) * NEntry + k
    <3>2. p \in Nat
      BY FirstPageType
    <3>3. FirstPage(<<m, i, j, k>>) = p
      BY PageFirst
    <3> QED
      BY <3>1, <3>2, <3>3, Zenon
  <2> QED
    BY <2>1, <2>2, <2>3, <2>4, EntryForms
<1>2. Len(x) \in 1..4
  BY EntryForms
<1> QED
  BY <1>1, <1>2 DEF Key

LEMMA KeysOrder ==
  ASSUME NEW m, NEW x \in Entry(m), NEW y \in Entry(m)
  PROVE  /\ Before(x, y) <=> Key(x) < Key(y)
         /\ Key(x) = Key(y) => x = y
<1>1. /\ FirstPage(x) \in Nat /\ Len(x) \in 1..4
      /\ FirstPage(y) \in Nat /\ Len(y) \in 1..4
  BY Keys
<1> DEFINE p == FirstPage(x)
           q == FirstPage(y)
           a == Len(x)
           b == Len(y)
<1>2. /\ p \in Nat /\ q \in Nat /\ a \in 1..4 /\ b \in 1..4
      /\ Before(x, y) <=> (p < q \/ (p = q /\ a < b))
      /\ Key(x) = 5 * p + a /\ Key(y) = 5 * q + b
  BY <1>1 DEF Before, Key
<1>3. (p = q /\ a = b) => x = y
  BY FirstPagesDiffer
<1> HIDE DEF p, q, a, b
<1> QED
  BY <1>2, <1>3

(* alloc_pages gives every entry a frame of its own.                       *)
LEMMA Allocated ==
  ASSUME NEW F, IsFiniteSet(F), F \subseteq Nat, NEW m, NEW N, N \subseteq Entry(m),
         IsFiniteSet(N), ~OutOfMemory(F, N),
         NEW g, g = alloc_pages(F, N)
  PROVE  g \in [N -> F] /\ Distinct(N, g)
<1> DEFINE k == [x \in N |-> Key(x)]
           h == [f \in F |-> f]
           r == Ranks(N, k)
           s == Ranks(F, h)
<1>1. k \in [N -> Int] /\ Distinct(N, k)
  <2>1. \A x \in N : x \in Entry(m) /\ Key(x) \in Int
    BY Keys
  <2> QED
    BY <2>1, KeysOrder DEF Distinct
<1>2. h \in [F -> Int] /\ Distinct(F, h)
  BY DEF Distinct
<1>3. r \in [N -> 0..Cardinality(N) - 1] /\ Distinct(N, r)
  <2> HIDE DEF k
  <2> QED
    BY <1>1, RanksDiffer
<1>4. Cardinality(N) \in Nat /\ Cardinality(F) \in Nat /\ Cardinality(N) <= Cardinality(F)
  BY FS_CardinalityType DEF OutOfMemory
<1>5. ASSUME NEW x \in N
      PROVE  /\ Cardinality({y \in N : Before(y, x)}) = r[x]
             /\ \E f \in F : s[f] = r[x]
  <2>1. {y \in N : Before(y, x)} = {y \in N : k[y] < k[x]}
    BY KeysOrder
  <2>2. r[x] = Cardinality({y \in N : k[y] < k[x]})
    BY DEF Ranks
  <2>3. r[x] \in 0..Cardinality(F) - 1
    <3> HIDE DEF r
    <3>1. r[x] \in 0..Cardinality(N) - 1
      BY <1>3
    <3> QED
      BY <1>4, <3>1
  <2>4. \E f \in F : s[f] = r[x]
    <3> HIDE DEF r, h
    <3> QED
      BY <1>2, <2>3, RanksCover
  <2> QED
    BY <2>1, <2>2, <2>4, Zenon
<1>6. ASSUME NEW f \in F PROVE Cardinality({e \in F : e < f}) = s[f]
  <2>1. {e \in F : e < f} = {e \in F : h[e] < h[f]}
    OBVIOUS
  <2>2. s[f] = Cardinality({e \in F : h[e] < h[f]})
    BY DEF Ranks
  <2> QED
    BY <2>1, <2>2, Zenon
<1> HIDE DEF r, s, k, h
<1>7. ASSUME NEW x \in N PROVE g[x] \in F /\ s[g[x]] = r[x]
  <2>1. g[x] = CHOOSE f \in F :
           Cardinality({e \in F : e < f}) = Cardinality({y \in N : Before(y, x)})
    BY DEF alloc_pages
  <2> DEFINE P(f) == Cardinality({e \in F : e < f}) = Cardinality({y \in N : Before(y, x)})
  <2>2. \A f \in F : P(f) <=> s[f] = r[x]
    BY <1>5, <1>6
  <2>3. g[x] = CHOOSE f \in F : P(f)
    BY <2>1
  <2> HIDE DEF P
  <2>4. \E f \in F : P(f)
    BY <1>5, <2>2
  <2>5. g[x] \in F /\ P(g[x])
    BY <2>3, <2>4
  <2> QED
    BY <2>2, <2>5
<1>8. g = [x \in N |-> g[x]]
  <2> DEFINE e(x) == CHOOSE f \in F :
               Cardinality({z \in F : z < f}) = Cardinality({y \in N : Before(y, x)})
  <2>1. g = [x \in N |-> e(x)]
    BY DEF alloc_pages
  <2> HIDE DEF e
  <2> QED
    BY <2>1
<1>9. g \in [N -> F]
  BY <1>7, <1>8
<1>10. Distinct(N, g)
  BY <1>3, <1>7 DEF Distinct
<1> QED
  BY <1>9, <1>10

-----------------------------------------------------------------------------
(* The pages of areas.                                                     *)
LEMMA AreaOf ==
  ASSUME NEW a \in Area
  PROVE  a.start \in Nat /\ a.end \in Nat /\ a.write \in BOOLEAN /\ a.start < a.end
BY DEF Area

LEMMA PagesAre ==
  ASSUME NEW areas \in Seq(Area)
  PROVE  /\ Pages(areas) \subseteq Nat
         /\ IsFiniteSet(Pages(areas))
<1>1. ASSUME NEW i \in DOMAIN areas
      PROVE  /\ areas[i].start..areas[i].end - 1 \subseteq Nat
             /\ IsFiniteSet(areas[i].start..areas[i].end - 1)
  <2> DEFINE a == areas[i]
  <2>1. a \in Area
    OBVIOUS
  <2> HIDE DEF a
  <2>2. a.start \in Nat /\ a.end \in Nat
    BY <2>1, AreaOf
  <2>3. a.start..a.end - 1 \subseteq Nat /\ IsFiniteSet(a.start..a.end - 1)
    <3> DEFINE b == a.start
               e == a.end - 1
    <3>1. b \in Nat /\ b \in Int /\ e \in Int
      BY <2>2
    <3> HIDE DEF b, e
    <3>2. b..e \subseteq Nat /\ IsFiniteSet(b..e)
      BY <3>1, FS_Interval
    <3> QED
      BY <3>2 DEF b, e
  <2> QED
    BY <2>3 DEF a
<1>2. Pages(areas) \subseteq Nat
  BY <1>1 DEF Pages
<1> DEFINE D == 1..Len(areas)
           f == [i \in D |-> areas[i].start..areas[i].end - 1]
           S == {areas[i].start..areas[i].end - 1 : i \in D}
<1>3. DOMAIN areas = D /\ IsFiniteSet(D)
  BY FS_Interval
<1>4. f \in Surjection(D, S)
  BY DEF Surjection
<1>5. IsFiniteSet(S) /\ \A x \in S : IsFiniteSet(x)
  <2>1. \A x \in S : IsFiniteSet(x)
    BY <1>1, <1>3
  <2> HIDE DEF S, f, D
  <2> QED
    BY <1>3, <1>4, <2>1, FS_Surjection
<1>6. Pages(areas) = UNION S
  BY <1>3 DEF Pages
<1>7. IsFiniteSet(UNION S)
  <2> HIDE DEF S
  <2> QED
    BY <1>5, FS_UNION
<1> QED
  BY <1>2, <1>6, <1>7

LEMMA OneArea ==
  ASSUME NEW a
  PROVE  Pages(<<a>>) = a.start..a.end - 1
<1>1. DOMAIN <<a>> = {1} /\ <<a>>[1] = a
  OBVIOUS
<1>2. Pages(<<a>>) = UNION {<<a>>[i].start..<<a>>[i].end - 1 : i \in {1}}
  BY <1>1 DEF Pages
<1> QED
  BY <1>1, <1>2

LEMMA NoArea == Pages(<<>>) = {}
BY DEF Pages

-----------------------------------------------------------------------------
(* What pages need.                                                        *)
LEMMA NeedsFinite ==
  ASSUME NEW m, NEW V, V \subseteq Nat, IsFiniteSet(V)
  PROVE  IsFiniteSet(Needs(m, V)) /\ Needs(m, V) \subseteq Entry(m)
<1> DEFINE f == [v \in V |-> get_pte(m, v)]
           S == {get_pte(m, v) : v \in V}
<1>1. f \in Surjection(V, S)
  BY DEF Surjection
<1>2. ASSUME NEW v \in V PROVE IsFiniteSet(get_pte(m, v))
  <2> DEFINE a == <<m>>
             b == <<m, PDX1(v)>>
             c == <<m, PDX1(v), PDX0(v)>>
             d == pte(m, v)
  <2>1. get_pte(m, v) = (({a} \cup {b}) \cup {c}) \cup {d}
    BY DEF get_pte
  <2> HIDE DEF a, b, c, d
  <2> QED
    <3>1. IsFiniteSet({a})
      BY FS_Singleton
    <3>2. IsFiniteSet({a} \cup {b})
      BY <3>1, FS_AddElement
    <3>3. IsFiniteSet(({a} \cup {b}) \cup {c})
      BY <3>2, FS_AddElement
    <3>4. IsFiniteSet((({a} \cup {b}) \cup {c}) \cup {d})
      BY <3>3, FS_AddElement
    <3> QED
      BY <2>1, <3>4
<1>3. IsFiniteSet(S) /\ \A x \in S : IsFiniteSet(x)
  <2>1. \A x \in S : IsFiniteSet(x)
    BY <1>2
  <2> HIDE DEF S, f
  <2> QED
    BY <1>1, <2>1, FS_Surjection
<1>4. IsFiniteSet(UNION S)
  <2> HIDE DEF S
  <2> QED
    BY <1>3, FS_UNION
<1>5. IsFiniteSet({<<m>>} \cup UNION S)
  <2> HIDE DEF S
  <2> QED
    BY <1>4, FS_Union, FS_Singleton
<1>6. Needs(m, V) \subseteq Entry(m)
  <2>1. ASSUME NEW v \in V PROVE get_pte(m, v) \subseteq Entry(m)
    BY NeedsAreEntries
  <2> QED
    BY <2>1 DEF Needs, Entry
<1> QED
  BY <1>5, <1>6 DEF Needs

(* The ways to a table and to a page.                                      *)
Upper(m, v) == <<m, PDX1(v)>>
Table(m, v) == <<m, PDX1(v), PDX0(v)>>

LEMMA Lengths ==
  ASSUME NEW m, NEW v
  PROVE  /\ Len(<<m>>) = 1 /\ Len(Upper(m, v)) = 2 /\ Len(Table(m, v)) = 3 /\ Len(pte(m, v)) = 4
         /\ <<m>>[1] = m /\ Upper(m, v)[1] = m /\ Table(m, v)[1] = m /\ pte(m, v)[1] = m
         /\ get_pte(m, v) = {<<m>>, Upper(m, v), Table(m, v), pte(m, v)}
BY DEF Upper, Table, pte, get_pte

LEMMA PageLength ==
  ASSUME NEW m, NEW v
  PROVE  Len(pte(m, v)) = 4 /\ pte(m, v)[1] = m
BY DEF pte

LEMMA NeedsMembers ==
  ASSUME NEW m, NEW V, NEW x \in Needs(m, V)
  PROVE  /\ x[1] = m /\ Len(x) \in 1..4
         /\ Len(x) = 1 => x = <<m>>
         /\ Len(x) = 2 => \E v \in V : x = Upper(m, v)
         /\ Len(x) = 3 => \E v \in V : x = Table(m, v)
         /\ Len(x) = 4 => \E v \in V : x = pte(m, v)
<1>1. CASE x = <<m>>
  BY <1>1, Lengths
<1>2. ASSUME NEW v \in V, x \in get_pte(m, v)
      PROVE  /\ x[1] = m /\ Len(x) \in 1..4
             /\ Len(x) = 1 => x = <<m>>
             /\ Len(x) = 2 => x = Upper(m, v)
             /\ Len(x) = 3 => x = Table(m, v)
             /\ Len(x) = 4 => x = pte(m, v)
  <2> DEFINE l == Len(x)
  <2>1. \/ x = <<m>> /\ l = 1
        \/ x = Upper(m, v) /\ l = 2
        \/ x = Table(m, v) /\ l = 3
        \/ x = pte(m, v) /\ l = 4
    BY <1>2, Lengths
  <2>2. x[1] = m
    BY <2>1, Lengths
  <2> HIDE DEF l
  <2>3. /\ l \in 1..4 /\ (l = 1 => x = <<m>>) /\ (l = 2 => x = Upper(m, v))
        /\ (l = 3 => x = Table(m, v)) /\ (l = 4 => x = pte(m, v))
    BY <2>1
  <2> QED
    BY <2>2, <2>3 DEF l
<1>3. CASE \E v \in V : x \in get_pte(m, v)
  BY <1>2, <1>3
<1> QED
  BY <1>1, <1>3 DEF Needs

LEMMA NeedsUpper ==
  ASSUME NEW m, NEW V, NEW x \in Needs(m, V), Len(x) = 2
  PROVE  \E v \in V : x = Upper(m, v)
BY NeedsMembers

LEMMA NeedsTable ==
  ASSUME NEW m, NEW V, NEW x \in Needs(m, V), Len(x) = 3
  PROVE  \E v \in V : x = Table(m, v)
BY NeedsMembers

LEMMA NeedsPage ==
  ASSUME NEW m, NEW V, NEW x \in Needs(m, V), Len(x) = 4
  PROVE  \E v \in V : x = pte(m, v)
BY NeedsMembers

LEMMA NeedsHold ==
  ASSUME NEW m, NEW V, V \subseteq Nat
  PROVE  /\ <<m>> \in Needs(m, V)
         /\ \A v \in V : /\ Upper(m, v) \in Needs(m, V) /\ Table(m, v) \in Needs(m, V)
                         /\ pte(m, v) \in Needs(m, V)
         /\ \A v \in Nat : pte(m, v) \in Needs(m, V) => v \in V
<1>1. ASSUME NEW v \in Nat, pte(m, v) \in Needs(m, V) PROVE v \in V
  <2> DEFINE x == pte(m, v)
  <2>a. x \in Needs(m, V) /\ Len(x) = 4
    BY <1>1, Lengths
  <2>1. PICK w \in V : pte(m, v) = pte(m, w)
    <3> HIDE DEF x
    <3>1. \E w \in V : x = pte(m, w)
      BY <2>a, NeedsPage
    <3> QED
      BY <3>1 DEF x
  <2>2. w \in Nat
    OBVIOUS
  <2> QED
    BY <2>1, <2>2, SamePage
<1>2. ASSUME NEW v \in V PROVE get_pte(m, v) \subseteq Needs(m, V)
  BY DEF Needs
<1>3. <<m>> \in Needs(m, V)
  BY DEF Needs
<1> QED
  BY <1>1, <1>2, <1>3, Lengths

LEMMA NeedsHas ==
  ASSUME NEW m, NEW V, NEW v \in V
  PROVE  /\ <<m>> \in Needs(m, V) /\ Upper(m, v) \in Needs(m, V)
         /\ Table(m, v) \in Needs(m, V) /\ pte(m, v) \in Needs(m, V)
<1>1. get_pte(m, v) \subseteq Needs(m, V)
  BY DEF Needs
<1> QED
  BY <1>1, Lengths

(* The resident pages are those the entries are needed for.                *)
LEMMA ResidentAre ==
  ASSUME NEW u, NEW m, NEW areas, Pages(areas) \subseteq Nat, NEW V, V \subseteq Pages(areas),
         OfM(u, m) = Needs(m, V)
  PROVE  Resident(u, m, areas) = V
<1>1. V \subseteq Nat
  OBVIOUS
<1>2. ASSUME NEW v \in Pages(areas) PROVE pte(m, v) \in DOMAIN u <=> v \in V
  <2>1. pte(m, v) \in DOMAIN u <=> pte(m, v) \in OfM(u, m)
    BY Lengths DEF OfM
  <2>2. v \in Nat
    OBVIOUS
  <2>3. pte(m, v) \in Needs(m, V) => v \in V
    BY <1>1, <2>2, NeedsHold
  <2>4. v \in V => pte(m, v) \in Needs(m, V)
    BY <1>1, NeedsHold
  <2> QED
    BY <2>1, <2>3, <2>4
<1> QED
  BY <1>2 DEF Resident

-----------------------------------------------------------------------------
(* exit_range frees entries of tables only.                                *)
Span(a) == a.start..a.end - 1

LEMMA RangeExited ==
  ASSUME NEW u, NEW T, NEW m, NEW a, NEW x
  PROVE  x \in exit_range(u, T, m, a) <=>
           \E w \in Span(a) :
             /\ Upper(m, w) \in T
             /\ \/ /\ \E v \in Span(a) : PDX1(v) = PDX1(w) /\ x = Table(m, v)
                   /\ x \in T
                   /\ \A k \in Index : <<m, x[2], x[3], k>> \notin DOMAIN u
                \/ /\ x = Upper(m, w)
                   /\ \A v \in Span(a) : PDX1(v) = PDX1(w) => Table(m, v) \in T
<1> DEFINE pages    == a.start..a.end - 1
           Seen(d)  == {<<m, d, PDX0(v)>> : v \in {v \in pages : PDX1(v) = d}}
           Empty(y) == \A k \in 0..NEntry - 1 : <<m, y[2], y[3], k>> \notin DOMAIN u
           Dirs     == {d \in {PDX1(v) : v \in pages} : <<m, d>> \in T}
           Gone(d)  == {y \in Seen(d) \cap T : Empty(y)}
                         \cup (IF Seen(d) \subseteq T THEN {<<m, d>>} ELSE {})
<1>1. exit_range(u, T, m, a) = UNION {Gone(d) : d \in Dirs}
  BY DEF exit_range
<1>2. ASSUME NEW w \in Span(a)
      PROVE  /\ Seen(PDX1(w)) \subseteq T <=>
                  \A v \in Span(a) : PDX1(v) = PDX1(w) => Table(m, v) \in T
             /\ x \in Seen(PDX1(w)) <=> \E v \in Span(a) : PDX1(v) = PDX1(w) /\ x = Table(m, v)
             /\ PDX1(w) \in Dirs <=> Upper(m, w) \in T
  BY <1>2 DEF Span, Table, Upper
<1>3. Empty(x) <=> \A k \in Index : <<m, x[2], x[3], k>> \notin DOMAIN u
  BY DEF Index
<1>4. ASSUME NEW w \in Span(a)
      PROVE  x \in Gone(PDX1(w)) <=>
               \/ x \in Seen(PDX1(w)) /\ x \in T /\ Empty(x)
               \/ x = Upper(m, w) /\ Seen(PDX1(w)) \subseteq T
  <2> HIDE DEF Seen, Empty
  <2> QED
    BY DEF Upper
<1>5. x \in exit_range(u, T, m, a) <=> \E w \in Span(a) : PDX1(w) \in Dirs /\ x \in Gone(PDX1(w))
  <2>1. \A d \in Dirs : \E w \in Span(a) : d = PDX1(w)
    BY DEF Span
  <2> HIDE DEF Gone, Dirs
  <2> QED
    BY <1>1, <2>1
<1> HIDE DEF Gone, Dirs, Seen, Empty
<1> QED
  BY <1>2, <1>3, <1>4, <1>5

LEMMA RangeWithin ==
  ASSUME NEW u, NEW T, NEW m, NEW a
  PROVE  exit_range(u, T, m, a) \subseteq T
<1> SUFFICES ASSUME NEW x \in exit_range(u, T, m, a) PROVE x \in T
  OBVIOUS
<1> QED
  BY RangeExited

-----------------------------------------------------------------------------
(* The areas one by one.                                                   *)
After(u, m, areas, G, k) ==
  G \cup exit_range(u, Found(TablesOf(u, m) \ G), m, areas[k])

IsGone(w, u, m, areas, n) ==
  w = [k \in 0..n |-> IF k = 0 THEN {} ELSE After(u, m, areas, w[k - 1], k)]

LEMMA GoneExists ==
  ASSUME NEW u, NEW m, NEW areas, NEW n \in Nat
  PROVE  \E w : IsGone(w, u, m, areas, n)
<1> DEFINE S == {i \in Nat : \E w : IsGone(w, u, m, areas, i)}
<1>1. 0 \in S
  <2> DEFINE w == [k \in 0..0 |-> {}]
  <2>1. IsGone(w, u, m, areas, 0)
    BY DEF IsGone
  <2> QED
    BY <2>1
<1>2. ASSUME NEW i \in Nat, i \in S PROVE i + 1 \in S
  <2>1. PICK w : IsGone(w, u, m, areas, i)
    BY <1>2
  <2> DEFINE e == After(u, m, areas, w[i], i + 1)
             g == [j \in 0..i + 1 |-> IF j = i + 1 THEN e ELSE w[j]]
             h == [j \in 0..i + 1 |-> IF j = 0 THEN {} ELSE After(u, m, areas, g[j - 1], j)]
  <2>2. \A j \in 0..i : w[j] = IF j = 0 THEN {} ELSE After(u, m, areas, w[j - 1], j)
    BY <2>1 DEF IsGone
  <2>3. ASSUME NEW j \in 0..i + 1 PROVE g[j] = h[j]
    <3>1. CASE j = 0
      BY <2>2, <3>1
    <3>2. CASE j \in 1..i
      <4>1. j \in 0..i /\ j # i + 1 /\ j - 1 \in 0..i + 1 /\ j - 1 # i + 1 /\ j # 0
        BY <3>2
      <4>2. g[j] = w[j] /\ g[j - 1] = w[j - 1]
        BY <4>1
      <4> QED
        BY <2>2, <4>1, <4>2
    <3>3. CASE j = i + 1
      <4>1. g[j] = e /\ j - 1 = i /\ g[i] = w[i] /\ j # 0
        BY <3>3
      <4> QED
        BY <3>3, <4>1
    <3> QED
      BY <3>1, <3>2, <3>3
  <2>4. g = h
    BY <2>3
  <2>5. IsGone(g, u, m, areas, i + 1)
    BY <2>4 DEF IsGone
  <2> QED
    BY <2>5
<1>3. Nat \subseteq S
  <2> HIDE DEF S
  <2> QED
    BY <1>1, <1>2, SetInduction
<1> QED
  BY <1>3

LEMMA TablesGone ==
  ASSUME NEW u, NEW m, NEW areas, NEW n \in Nat, n = Len(areas)
  PROVE  \E w : IsGone(w, u, m, areas, n) /\ exit_tables(u, m, areas) = w[n]
<1> DEFINE w == CHOOSE v : IsGone(v, u, m, areas, n)
<1>1. IsGone(w, u, m, areas, n)
  BY GoneExists
<1>2. exit_tables(u, m, areas) = w[n]
  BY DEF exit_tables, IsGone, After
<1> QED
  BY <1>1, <1>2

(* Only directories and tables of m are freed.                             *)
LEMMA TablesWithin ==
  ASSUME NEW u, NEW m, NEW areas, Len(areas) \in Nat
  PROVE  exit_tables(u, m, areas) \subseteq TablesOf(u, m)
<1> DEFINE n == Len(areas)
<1>1. PICK w : IsGone(w, u, m, areas, n) /\ exit_tables(u, m, areas) = w[n]
  BY TablesGone
<1> DEFINE S == {k \in Nat : k \in 0..n => w[k] \subseteq TablesOf(u, m)}
<1>2. n \in Nat
  OBVIOUS
<1> HIDE DEF n
<1>3. \A k \in 0..n : w[k] = IF k = 0 THEN {} ELSE After(u, m, areas, w[k - 1], k)
  BY <1>1 DEF IsGone
<1>4. 0 \in S
  BY <1>2, <1>3
<1>5. ASSUME NEW k \in Nat, k \in S PROVE k + 1 \in S
  <2> SUFFICES ASSUME k + 1 \in 0..n PROVE w[k + 1] \subseteq TablesOf(u, m)
    BY <1>5
  <2>1. k \in 0..n /\ w[k] \subseteq TablesOf(u, m) /\ (k + 1) - 1 = k /\ k + 1 # 0
    BY <1>2, <1>5
  <2>2. w[k + 1] = After(u, m, areas, w[k], k + 1)
    BY <1>3, <2>1
  <2>3. exit_range(u, Found(TablesOf(u, m) \ w[k]), m, areas[k + 1]) \subseteq TablesOf(u, m)
    BY RangeWithin DEF Found
  <2> QED
    BY <2>1, <2>2, <2>3 DEF After
<1>6. Nat \subseteq S
  <2> HIDE DEF S
  <2> QED
    BY <1>4, <1>5, SetInduction
<1> QED
  BY <1>1, <1>2, <1>6

-----------------------------------------------------------------------------
(* What is left of a directory: it is freed with its tables or not at all, *)
(* when all pages in it lie in one table.                                  *)
OneTable(V) == \A v, w \in V : PDX1(v) = PDX1(w) => PDX0(v) = PDX0(w)

TablesFor(m, W) == {Upper(m, v) : v \in W} \cup {Table(m, v) : v \in W}

NoPages(u, m, W) == \A w \in W, k \in Index : <<m, PDX1(w), PDX0(w), k>> \notin DOMAIN u

Whole(m, W, G) ==
  /\ G \subseteq TablesFor(m, W)
  /\ \A w \in W : Upper(m, w) \in G <=> Table(m, w) \in G

LEMMA TableParts ==
  ASSUME NEW m, NEW v, NEW w
  PROVE  /\ Upper(m, v) = Upper(m, w) <=> PDX1(v) = PDX1(w)
         /\ Table(m, v) = Table(m, w) <=> PDX1(v) = PDX1(w) /\ PDX0(v) = PDX0(w)
         /\ Upper(m, v) # Table(m, w)
         /\ Table(m, v)[1] = m /\ Table(m, v)[2] = PDX1(v) /\ Table(m, v)[3] = PDX0(v)
<1>1. Upper(m, v) # Table(m, w)
  BY Lengths
<1> QED
  BY <1>1 DEF Upper, Table

Reached(m, W, a, G) == \A w \in W : w \in Span(a) => Upper(m, w) \in G

LEMMA AreaExited ==
  ASSUME NEW u, NEW m, NEW W, NEW V, W \subseteq V, OneTable(V), NEW a, Span(a) \subseteq V,
         NoPages(u, m, W), NEW G, Whole(m, W, G),
         NEW H, H = G \cup exit_range(u, Found(TablesFor(m, W) \ G), m, a)
  PROVE  Whole(m, W, H) /\ Reached(m, W, a, H)
<1> DEFINE T == Found(TablesFor(m, W) \ G)
<1>0. H = G \cup exit_range(u, T, m, a) /\ T = Found(TablesFor(m, W) \ G)
  OBVIOUS
<1> HIDE DEF T
<1>1. ASSUME NEW w \in W
      PROVE  /\ Upper(m, w) \in T <=> Upper(m, w) \notin G
             /\ Table(m, w) \in T <=> Table(m, w) \notin G
  <2>1. Upper(m, w) \in TablesFor(m, W) /\ Table(m, w) \in TablesFor(m, W)
    BY DEF TablesFor
  <2>2. Upper(m, w) \in T <=> Upper(m, w) \in TablesFor(m, W) \ G
    BY <1>0, Lengths DEF Found
  <2>3. <<Table(m, w)[1], Table(m, w)[2]>> = Upper(m, w)
    BY TableParts DEF Upper
  <2>4. Table(m, w) \in T <=> Table(m, w) \in TablesFor(m, W) \ G /\ Upper(m, w) \in TablesFor(m, W) \ G
    BY <1>0, <2>3, Lengths DEF Found
  <2> QED
    BY <2>1, <2>2, <2>4 DEF Whole
<1>2. T \subseteq TablesFor(m, W)
  BY <1>0 DEF Found
<1>3. ASSUME NEW w \in W, NEW v \in Span(a), PDX1(v) = PDX1(w)
      PROVE  Table(m, v) = Table(m, w)
  <2>1. PDX0(v) = PDX0(w)
    BY <1>3 DEF OneTable
  <2> QED
    BY <1>3, <2>1, TableParts
<1>4. ASSUME NEW w \in W, NEW v \in Span(a), PDX1(v) = PDX1(w), Upper(m, w) \notin G
      PROVE  Upper(m, w) \in H /\ Table(m, w) \in H
  <2>1. Upper(m, v) = Upper(m, w) /\ Table(m, v) = Table(m, w)
    BY <1>3, <1>4, TableParts
  <2>2. Upper(m, v) \in T /\ Table(m, v) \in T
    BY <1>1, <1>4, <2>1 DEF Whole
  <2>3. \A z \in Span(a) : PDX1(z) = PDX1(v) => Table(m, z) \in T
    <3>1. ASSUME NEW z \in Span(a), PDX1(z) = PDX1(v) PROVE Table(m, z) = Table(m, w)
      BY <1>3, <1>4, <3>1
    <3> QED
      BY <2>1, <2>2, <3>1
  <2>4. Upper(m, v) \in exit_range(u, T, m, a)
    BY <2>2, <2>3, RangeExited
  <2>5. \A k \in Index : <<m, Table(m, v)[2], Table(m, v)[3], k>> \notin DOMAIN u
    <3>1. Table(m, v)[2] = PDX1(w) /\ Table(m, v)[3] = PDX0(w)
      BY <2>1, TableParts
    <3> QED
      BY <3>1 DEF NoPages
  <2>6. Table(m, v) \in exit_range(u, T, m, a)
    BY <2>2, <2>5, RangeExited
  <2> QED
    BY <1>0, <2>1, <2>4, <2>6
<1>5. H \subseteq TablesFor(m, W)
  BY <1>0, <1>2, RangeWithin DEF Whole
<1>6. ASSUME NEW w \in W, Upper(m, w) \in H \/ Table(m, w) \in H, Upper(m, w) \notin G
      PROVE  \E v \in Span(a) : PDX1(v) = PDX1(w)
  <2>1. Table(m, w) \notin G
    BY <1>6 DEF Whole
  <2>2. CASE Upper(m, w) \in exit_range(u, T, m, a)
    <3>1. PICK v \in Span(a) :
             \/ \E z \in Span(a) : PDX1(z) = PDX1(v) /\ Upper(m, w) = Table(m, z)
             \/ Upper(m, w) = Upper(m, v)
      BY <2>2, RangeExited
    <3> QED
      BY <3>1, TableParts
  <2>3. CASE Table(m, w) \in exit_range(u, T, m, a)
    <3>1. PICK v \in Span(a) :
             \/ \E z \in Span(a) : PDX1(z) = PDX1(v) /\ Table(m, w) = Table(m, z)
             \/ Table(m, w) = Upper(m, v)
      BY <2>3, RangeExited
    <3> QED
      BY <3>1, TableParts
  <2> QED
    BY <1>0, <1>6, <2>1, <2>2, <2>3
<1>7. ASSUME NEW w \in W PROVE Upper(m, w) \in H <=> Table(m, w) \in H
  <2>1. CASE Upper(m, w) \in G
    BY <1>0, <2>1 DEF Whole
  <2>2. CASE Upper(m, w) \notin G
    BY <1>4, <1>6, <2>2
  <2> QED
    BY <2>1, <2>2
<1>8. ASSUME NEW w \in W, w \in Span(a) PROVE Upper(m, w) \in H
  BY <1>4, <1>8
<1> QED
  BY <1>5, <1>7, <1>8 DEF Whole, Reached

LEMMA AllTablesGone ==
  ASSUME NEW u, NEW m, NEW areas \in Seq(Area), NEW W, W \subseteq Pages(areas),
         OneTable(Pages(areas)), NoPages(u, m, W), TablesOf(u, m) = TablesFor(m, W)
  PROVE  exit_tables(u, m, areas) = TablesFor(m, W)
<1> DEFINE n == Len(areas)
<1>1. n \in Nat
  OBVIOUS
<1>2. PICK w : IsGone(w, u, m, areas, n) /\ exit_tables(u, m, areas) = w[n]
  BY <1>1, TablesGone
<1>3. \A k \in 0..n : w[k] = IF k = 0 THEN {} ELSE After(u, m, areas, w[k - 1], k)
  BY <1>2 DEF IsGone
<1> DEFINE Done(k) == /\ Whole(m, W, w[k])
                      /\ \A i \in 1..k : \A v \in W : v \in Span(areas[i]) => Upper(m, v) \in w[k]
           S == {k \in Nat : k \in 0..n => Done(k)}
<1>4. 0 \in S
  <2>1. w[0] = {}
    BY <1>1, <1>3
  <2> QED
    BY <2>1 DEF Whole
<1>5. ASSUME NEW k \in Nat, k \in S PROVE k + 1 \in S
  <2> SUFFICES ASSUME k + 1 \in 0..n PROVE Done(k + 1)
    BY <1>5
  <2> DEFINE G == w[k]
             T == Found(TablesFor(m, W) \ G)
             a == areas[k + 1]
             H == G \cup exit_range(u, T, m, a)
  <2>1. k \in 0..n /\ (k + 1) - 1 = k /\ k + 1 # 0 /\ k + 1 \in 1..n
    BY <1>1
  <2>2. Done(k)
    BY <1>5, <2>1
  <2>3. w[k + 1] = H
    BY <1>3, <2>1 DEF After
  <2>4. Span(a) \subseteq Pages(areas)
    BY <2>1 DEF Span, Pages
  <2>5. Whole(m, W, G)
    BY <2>2
  <2>6. Whole(m, W, H) /\ Reached(m, W, a, H)
    <3>1. H = G \cup exit_range(u, Found(TablesFor(m, W) \ G), m, a)
      OBVIOUS
    <3> HIDE DEF G, a, T, H
    <3> QED
      BY <2>4, <2>5, <3>1, AreaExited
  <2>7. ASSUME NEW i \in 1..k + 1, NEW v \in W, v \in Span(areas[i]) PROVE Upper(m, v) \in H
    <3>1. CASE i = k + 1
      BY <2>6, <2>7, <3>1 DEF Reached
    <3>2. CASE i # k + 1
      <4>1. i \in 1..k
        BY <3>2
      <4>2. Upper(m, v) \in G
        BY <2>2, <2>7, <4>1
      <4> QED
        BY <4>2
    <3> QED
      BY <3>1, <3>2
  <2> QED
    BY <2>3, <2>6, <2>7
<1>6. Nat \subseteq S
  <2> HIDE DEF S
  <2> QED
    BY <1>4, <1>5, SetInduction
<1>7. Done(n)
  BY <1>1, <1>6
<1>8. ASSUME NEW v \in W PROVE Upper(m, v) \in w[n] /\ Table(m, v) \in w[n]
  <2>1. PICK i \in DOMAIN areas : v \in Span(areas[i])
    BY DEF Pages, Span
  <2>2. i \in 1..n
    OBVIOUS
  <2> QED
    BY <1>7, <2>1, <2>2 DEF Whole
<1>9. w[n] \subseteq TablesFor(m, W)
  BY <1>7 DEF Whole
<1>10. TablesFor(m, W) \subseteq w[n]
  BY <1>8 DEF TablesFor
<1> QED
  BY <1>2, <1>9, <1>10

LEMMA UnmapsAll ==
  ASSUME NEW u, NEW m, NEW areas
  PROVE  unmap_all(u, m, areas) = {pte(m, v) : v \in Resident(u, m, areas)}
<1>1. ASSUME NEW i \in DOMAIN areas
      PROVE  /\ Span(areas[i]) \subseteq Pages(areas)
             /\ unmap_range(u, m, areas[i]) =
                  {pte(m, v) : v \in {v \in Span(areas[i]) : pte(m, v) \in DOMAIN u}}
  BY OneArea DEF Span, Pages, unmap_range, Resident
<1>2. ASSUME NEW v \in Pages(areas) PROVE \E i \in DOMAIN areas : v \in Span(areas[i])
  BY DEF Pages, Span
<1>3. ASSUME NEW x \in unmap_all(u, m, areas)
      PROVE  x \in {pte(m, v) : v \in Resident(u, m, areas)}
  <2>1. PICK i \in DOMAIN areas : x \in unmap_range(u, m, areas[i])
    BY DEF unmap_all
  <2>2. PICK v \in Span(areas[i]) : pte(m, v) \in DOMAIN u /\ x = pte(m, v)
    BY <1>1, <2>1
  <2>3. v \in Pages(areas)
    BY <1>1
  <2> QED
    BY <2>2, <2>3 DEF Resident
<1>4. ASSUME NEW v \in Resident(u, m, areas) PROVE pte(m, v) \in unmap_all(u, m, areas)
  <2>1. v \in Pages(areas) /\ pte(m, v) \in DOMAIN u
    BY DEF Resident
  <2>2. PICK i \in DOMAIN areas : v \in Span(areas[i])
    BY <1>2, <2>1
  <2>3. pte(m, v) \in unmap_range(u, m, areas[i])
    BY <1>1, <2>1, <2>2
  <2> QED
    BY <2>3 DEF unmap_all
<1> QED
  BY <1>3, <1>4

LEMMA CompactIs ==
  ASSUME NEW areas
  PROVE  Compact(areas) <=> OneTable(Pages(areas))
BY DEF Compact, OneTable

(* exit_mmap frees the directory, all pages and, when the areas in every   *)
(* directory lie in one table, everything else.                            *)
Grown(u, m, areas) == OfM(u, m) = Needs(m, Resident(u, m, areas))

LEMMA SpaceFreed ==
  ASSUME NEW u, NEW m, NEW areas \in Seq(Area), Grown(u, m, areas),
         NEW X, X = exit_mmap(u, m, areas)
  PROVE  /\ X \subseteq OfM(u, m)
         /\ \A x \in OfM(u, m) : Len(x) = 4 => x \in X
         /\ Compact(areas) => X = OfM(u, m)
<1> DEFINE W  == Resident(u, m, areas)
           P  == unmap_all(u, m, areas)
           u2 == Unmapped(u, P)
           t  == exit_tables(u2, m, areas)
<1>1. X = P \cup t \cup {<<m>>} /\ P = {pte(m, v) : v \in W}
  BY UnmapsAll DEF exit_mmap
<1>2. OfM(u, m) = Needs(m, W) /\ W \subseteq Pages(areas) /\ W \subseteq Nat
  BY PagesAre DEF Grown, Resident
<1>3. DOMAIN u2 = DOMAIN u \ P
  BY DEF Unmapped, Restrict
<1> HIDE DEF W, P
<1>4. TablesOf(u2, m) = {x \in OfM(u, m) \ P : Len(x) \in 2..3}
  BY <1>3 DEF TablesOf, OfM
<1>5. {x \in OfM(u, m) \ P : Len(x) \in 2..3} = TablesFor(m, W)
  <2>1. ASSUME NEW v \in W
        PROVE  /\ Upper(m, v) \in OfM(u, m) \ P /\ Table(m, v) \in OfM(u, m) \ P
               /\ Len(Upper(m, v)) \in 2..3 /\ Len(Table(m, v)) \in 2..3
    <3>1. Upper(m, v) \in OfM(u, m) /\ Table(m, v) \in OfM(u, m)
      BY <1>2, NeedsHas
    <3>2. Len(Upper(m, v)) = 2 /\ Len(Table(m, v)) = 3
      BY Lengths
    <3>3. ASSUME NEW x \in P PROVE Len(x) = 4
      <4>1. PICK w \in W : x = pte(m, w)
        BY <1>1
      <4> QED
        BY <4>1, PageLength
    <3>4. Upper(m, v) \notin P /\ Table(m, v) \notin P
      <4>1. 2 # 4 /\ 3 # 4
        OBVIOUS
      <4> QED
        BY <3>2, <3>3, <4>1, Zenon
    <3>5. Len(Upper(m, v)) \in 2..3 /\ Len(Table(m, v)) \in 2..3
      BY <3>2
    <3> QED
      BY <3>1, <3>4, <3>5
  <2>2. ASSUME NEW x \in OfM(u, m), Len(x) \in 2..3
        PROVE  \E v \in W : x = Upper(m, v) \/ x = Table(m, v)
    <3>1. x \in Needs(m, W) /\ (Len(x) = 2 \/ Len(x) = 3)
      BY <1>2, <2>2
    <3> QED
      BY <3>1, NeedsUpper, NeedsTable
  <2> QED
    BY <2>1, <2>2 DEF TablesFor
<1>6. t \subseteq TablesFor(m, W)
  <2>1. Len(areas) \in Nat
    OBVIOUS
  <2> QED
    BY <1>4, <1>5, <2>1, TablesWithin
<1>7. X \subseteq OfM(u, m)
  <2>1. <<m>> \in OfM(u, m) /\ P \subseteq OfM(u, m)
    <3>1. \A v \in W : pte(m, v) \in OfM(u, m)
      BY <1>2, NeedsHas
    <3>2. <<m>> \in OfM(u, m)
      BY <1>2 DEF Needs
    <3> QED
      BY <1>1, <3>1, <3>2
  <2>2. TablesFor(m, W) \subseteq OfM(u, m)
    BY <1>5
  <2> QED
    BY <1>1, <1>6, <2>1, <2>2
<1>8. ASSUME NEW x \in OfM(u, m), Len(x) = 4 PROVE x \in X
  <2>1. \E v \in W : x = pte(m, v)
    <3>1. x \in Needs(m, W)
      BY <1>2
    <3> QED
      BY <1>8, <3>1, NeedsPage
  <2> QED
    BY <1>1, <2>1
<1>9. ASSUME Compact(areas) PROVE X = OfM(u, m)
  <2>1. NoPages(u2, m, W)
    <3> SUFFICES ASSUME NEW w \in W, NEW k \in Index,
                        <<m, PDX1(w), PDX0(w), k>> \in DOMAIN u2
                 PROVE  FALSE
      BY DEF NoPages
    <3> DEFINE x == <<m, PDX1(w), PDX0(w), k>>
    <3>1. x \in OfM(u, m) /\ x \notin P /\ Len(x) = 4
      BY <1>3 DEF OfM
    <3> HIDE DEF x
    <3>2. \E v \in W : x = pte(m, v)
      <4>1. x \in Needs(m, W)
        BY <1>2, <3>1
      <4> QED
        BY <3>1, <4>1, NeedsPage
    <3> QED
      BY <1>1, <3>1, <3>2
  <2>2. t = TablesFor(m, W)
    <3> HIDE DEF u2
    <3> QED
      BY <1>2, <1>4, <1>5, <1>9, <2>1, AllTablesGone, CompactIs DEF t
  <2>3. ASSUME NEW x \in OfM(u, m) PROVE x \in X
    <3>1. Len(x) \in 1..4 /\ (Len(x) = 1 => x = <<m>>)
      BY <1>2, NeedsMembers
    <3>2. Len(x) \in 2..3 => x \in t
      <4>1. ASSUME NEW y \in P PROVE Len(y) = 4
        <5>1. PICK w \in W : y = pte(m, w)
          BY <1>1
        <5> QED
          BY <5>1, PageLength
      <4>2. 4 \notin 2..3
        OBVIOUS
      <4>3. Len(x) \in 2..3 => x \notin P
        BY <4>1, <4>2, Zenon
      <4> QED
        BY <1>5, <2>2, <4>3
    <3>3. Len(x) = 1 \/ Len(x) \in 2..3 \/ Len(x) = 4
      BY <3>1
    <3> QED
      BY <1>1, <1>8, <3>1, <3>2, <3>3
  <2> QED
    BY <1>7, <2>3
<1> QED
  BY <1>7, <1>8, <1>9

-----------------------------------------------------------------------------
(* The areas of a program.                                                 *)
LEMMA Inserted ==
  ASSUME NEW areas \in Seq(Area), NEW a \in Area, NEW b, b = insert_vma_struct(areas, a)
  PROVE  b \in Seq(Area) /\ Pages(b) = Pages(areas) \cup Span(a)
<1> DEFINE I == {i \in DOMAIN areas : areas[i].start <= a.start}
           n == Cardinality(I)
           l == Len(areas)
<1>1. l \in Nat /\ DOMAIN areas = 1..l /\ IsFiniteSet(1..l) /\ Cardinality(1..l) = l
  <2>1. l \in Nat /\ DOMAIN areas = 1..l
    OBVIOUS
  <2> HIDE DEF l
  <2>2. 1 \in Int /\ l \in Int
    BY <2>1
  <2>3. IsFiniteSet(1..l) /\ Cardinality(1..l) = IF 1 > l THEN 0 ELSE l - 1 + 1
    BY <2>2, FS_Interval
  <2>4. Cardinality(1..l) = l
    BY <2>1, <2>3
  <2> QED
    BY <2>1, <2>3, <2>4
<1>2. n \in 0..l
  <2>1. I \subseteq 1..l
    BY <1>1
  <2> HIDE DEF I, l
  <2>2. IsFiniteSet(I) /\ Cardinality(I) <= l
    <3> DEFINE D == 1..l
    <3>1. IsFiniteSet(D) /\ Cardinality(D) = l /\ I \in SUBSET D
      BY <1>1, <2>1
    <3> HIDE DEF D
    <3>2. IsFiniteSet(I) /\ Cardinality(I) <= Cardinality(D)
      BY <3>1, FS_Subset
    <3> QED
      BY <3>1, <3>2
  <2>3. Cardinality(I) \in Nat
    BY <2>2, FS_CardinalityType
  <2> QED
    BY <1>1, <2>2, <2>3
<1>3. b = [i \in 1..l + 1 |->
             CASE i <= n -> areas[i] [] i = n + 1 -> a [] OTHER -> areas[i - 1]]
  BY DEF insert_vma_struct
<1> HIDE DEF n, I, l
<1>4. ASSUME NEW i \in 1..l + 1
      PROVE  /\ i <= n => b[i] = areas[i] /\ i \in 1..l
             /\ i = n + 1 => b[i] = a
             /\ i > n + 1 => b[i] = areas[i - 1] /\ i - 1 \in 1..l
  BY <1>1, <1>2, <1>3
<1>5. \A i \in 1..l : areas[i] \in Area
  BY <1>1
<1>6. ASSUME NEW i \in 1..l + 1 PROVE b[i] \in Area
  <2>1. i <= n \/ i = n + 1 \/ i > n + 1
    BY <1>1, <1>2
  <2> QED
    BY <1>4, <1>5, <2>1
<1>7. b \in [1..l + 1 -> Area]
  <2>1. b = [i \in 1..l + 1 |-> b[i]]
    BY <1>3
  <2> QED
    BY <1>6, <2>1
<1>8. b \in Seq(Area)
  <2>1. l + 1 \in Nat
    BY <1>1
  <2> QED
    BY <1>7, <2>1
<1>9. ASSUME NEW v \in Pages(b) PROVE v \in Pages(areas) \cup Span(a)
  <2>1. PICK i \in 1..l + 1 : v \in Span(b[i])
    BY <1>7 DEF Pages, Span
  <2>2. i <= n \/ i = n + 1 \/ i > n + 1
    BY <1>1, <1>2
  <2>3. b[i] = a \/ \E j \in 1..l : b[i] = areas[j]
    BY <1>4, <2>2
  <2> QED
    BY <1>1, <2>1, <2>3 DEF Pages, Span
<1>10. ASSUME NEW v \in Span(a) PROVE v \in Pages(b)
  <2>1. n + 1 \in 1..l + 1 /\ b[n + 1] = a
    BY <1>1, <1>2, <1>4
  <2> QED
    BY <1>7, <2>1 DEF Pages, Span
<1>11. ASSUME NEW v \in Pages(areas) PROVE v \in Pages(b)
  <2>1. PICK j \in 1..l : v \in Span(areas[j])
    BY <1>1 DEF Pages, Span
  <2>2. \E i \in 1..l + 1 : b[i] = areas[j]
    <3>1. CASE j <= n
      <4>1. j \in 1..l + 1
        BY <1>1
      <4> QED
        BY <1>4, <3>1, <4>1
    <3>2. CASE j > n
      <4>1. j + 1 \in 1..l + 1 /\ j + 1 > n + 1 /\ (j + 1) - 1 = j
        BY <1>1, <1>2, <3>2
      <4> QED
        BY <1>4, <4>1
    <3> QED
      BY <1>1, <1>2, <3>1, <3>2
  <2> QED
    BY <1>7, <2>1, <2>2 DEF Pages, Span
<1> QED
  BY <1>8, <1>9, <1>10, <1>11

Load == [areas : Seq(Area), failed : BOOLEAN, panic : BOOLEAN]

LEMMA Apart ==
  ASSUME NEW s \in Nat, NEW e \in Nat, NEW t \in Nat, NEW f \in Nat,
         ~(t < s /\ s < f), ~(s <= t /\ t < e), NEW v \in s..e - 1
  PROVE  v \notin t..f - 1
OBVIOUS

LEMMA MapsOne ==
  ASSUME NEW x \in Load, NEW a \in Area, NEW y, y = mm_map(x, a)
  PROVE  /\ y \in Load
         /\ Pages(y.areas) \subseteq Pages(x.areas) \cup Span(a)
         /\ ~y.failed => ~x.failed /\ Pages(y.areas) = Pages(x.areas) \cup Span(a)
         /\ ~y.failed /\ ~y.panic => Pages(x.areas) \cap Span(a) = {}
<1>1. x.areas \in Seq(Area) /\ x.failed \in BOOLEAN /\ x.panic \in BOOLEAN
  BY DEF Load
<1>2. CASE x.failed \/ Refused(x.areas, a)
  <2>1. y = [x EXCEPT !.failed = TRUE]
    BY <1>2 DEF mm_map
  <2>2. y.areas = x.areas /\ y.failed = TRUE /\ y \in Load
    BY <2>1 DEF Load
  <2> QED
    BY <2>2
<1>3. CASE ~(x.failed \/ Refused(x.areas, a))
  <2> DEFINE b == insert_vma_struct(x.areas, a)
             o == check_vma_overlap(x.areas, a)
  <2>1. y = [areas |-> b, failed |-> FALSE, panic |-> x.panic \/ o]
    BY <1>3 DEF mm_map
  <2>2. b \in Seq(Area) /\ Pages(b) = Pages(x.areas) \cup Span(a)
    BY <1>1, Inserted
  <2>3. ~o => Pages(x.areas) \cap Span(a) = {}
    <3> SUFFICES ASSUME ~o, NEW v \in Pages(x.areas), v \in Span(a) PROVE FALSE
      OBVIOUS
    <3>1. PICK i \in DOMAIN x.areas : v \in Span(x.areas[i])
      BY DEF Pages, Span
    <3> DEFINE c == x.areas[i]
    <3>2. c \in Area
      BY <1>1
    <3>3. ~(a.start < c.start /\ c.start < a.end)
      BY DEF check_vma_overlap
    <3>4. ~(c.start <= a.start /\ a.start < c.end)
      BY <1>3 DEF Refused, find_vma
    <3>5. v \in Span(c)
      BY <3>1
    <3> HIDE DEF c
    <3> DEFINE cs == c.start
               ce == c.end
               bs == a.start
               be == a.end
    <3>6. v \in cs..ce - 1 /\ v \in bs..be - 1
      BY <3>5 DEF Span
    <3>7. cs \in Nat /\ ce \in Nat
      BY <3>2, AreaOf
    <3>8. bs \in Nat /\ be \in Nat
      BY AreaOf
    <3>9. ~(bs < cs /\ cs < be) /\ ~(cs <= bs /\ bs < ce)
      BY <3>3, <3>4
    <3> HIDE DEF cs, ce, bs, be
    <3> QED
      BY <3>6, <3>7, <3>8, <3>9, Apart
  <2>4. y.areas = b /\ y.failed = FALSE /\ (~y.panic => ~o)
    <3>1. y.areas = b /\ y.failed = FALSE
      BY <2>1
    <3>2. y.panic = (x.panic \/ o)
      BY <2>1
    <3> QED
      BY <3>1, <3>2, Zenon
  <2>5. y \in Load
    <3>1. (x.panic \/ o) \in BOOLEAN
      BY <1>1 DEF check_vma_overlap
    <3> QED
      BY <2>1, <2>2, <3>1 DEF Load
  <2> HIDE DEF b, o
  <2> QED
    BY <1>3, <2>2, <2>3, <2>4, <2>5
<1> QED
  BY <1>2, <1>3

NothingMapped == [areas |-> <<>>, failed |-> FALSE, panic |-> FALSE]

IsMapped(w, segs, n) ==
  w = [k \in 0..n |-> IF k = 0 THEN NothingMapped ELSE mm_map(w[k - 1], segs[k])]

LEMMA MappedExists ==
  ASSUME NEW segs, NEW n \in Nat
  PROVE  \E w : IsMapped(w, segs, n)
<1> DEFINE S == {i \in Nat : \E w : IsMapped(w, segs, i)}
<1>1. 0 \in S
  <2> DEFINE w == [k \in 0..0 |-> NothingMapped]
  <2>1. IsMapped(w, segs, 0)
    BY DEF IsMapped
  <2> QED
    BY <2>1
<1>2. ASSUME NEW i \in Nat, i \in S PROVE i + 1 \in S
  <2>1. PICK w : IsMapped(w, segs, i)
    BY <1>2
  <2> DEFINE e == mm_map(w[i], segs[i + 1])
             g == [j \in 0..i + 1 |-> IF j = i + 1 THEN e ELSE w[j]]
             h == [j \in 0..i + 1 |-> IF j = 0 THEN NothingMapped ELSE mm_map(g[j - 1], segs[j])]
  <2>2. \A j \in 0..i : w[j] = IF j = 0 THEN NothingMapped ELSE mm_map(w[j - 1], segs[j])
    BY <2>1 DEF IsMapped
  <2>3. ASSUME NEW j \in 0..i + 1 PROVE g[j] = h[j]
    <3>1. CASE j = 0
      BY <2>2, <3>1
    <3>2. CASE j \in 1..i
      <4>1. j \in 0..i /\ j # i + 1 /\ j - 1 \in 0..i + 1 /\ j - 1 # i + 1 /\ j # 0
        BY <3>2
      <4>2. g[j] = w[j] /\ g[j - 1] = w[j - 1]
        BY <4>1
      <4> QED
        BY <2>2, <4>1, <4>2
    <3>3. CASE j = i + 1
      <4>1. g[j] = e /\ j - 1 = i /\ g[i] = w[i] /\ j # 0
        BY <3>3
      <4> QED
        BY <3>3, <4>1
    <3> QED
      BY <3>1, <3>2, <3>3
  <2>4. g = h
    BY <2>3
  <2>5. IsMapped(g, segs, i + 1)
    BY <2>4 DEF IsMapped
  <2> QED
    BY <2>5
<1>3. Nat \subseteq S
  <2> HIDE DEF S
  <2> QED
    BY <1>1, <1>2, SetInduction
<1> QED
  BY <1>3

LEMMA MapAllIs ==
  ASSUME NEW segs, NEW n \in Nat, n = Len(segs)
  PROVE  \E w : IsMapped(w, segs, n) /\ MapAll(segs) = w[n]
<1> DEFINE w == CHOOSE v : IsMapped(v, segs, n)
<1>1. IsMapped(w, segs, n)
  BY MappedExists
<1>2. MapAll(segs) = w[n]
  BY DEF MapAll, IsMapped, NothingMapped
<1> QED
  BY <1>1, <1>2

(* The areas are those of the program and its stack, all of them if no     *)
(* mm_map failed; and the stack is apart if none of them panicked.         *)
LEMMA ProgramLoaded ==
  ASSUME NEW prog \in Programs, NEW y, y = LoadAreas(prog)
  PROVE  /\ y \in Load
         /\ Pages(y.areas) \subseteq Pages(prog.segs) \cup Span(Stack)
         /\ ~y.failed => Pages(y.areas) = Pages(prog.segs) \cup Span(Stack)
         /\ ~y.failed /\ ~y.panic => Pages(prog.segs) \cap Span(Stack) = {}
<1> DEFINE l    == Len(prog.segs)
           segs == Append(prog.segs, Stack)
           n    == l + 1
           Part(k) == UNION {Span(prog.segs[i]) : i \in 1..k}
<1>1. prog.segs \in Seq(Area) /\ Stack \in Area
  BY Constants
<1>2. /\ l \in Nat /\ n \in Nat /\ n = Len(segs) /\ segs[n] = Stack
      /\ \A i \in 1..l : segs[i] = prog.segs[i] /\ prog.segs[i] \in Area
  BY <1>1
<1>3. y = MapAll(segs)
  BY DEF LoadAreas
<1> HIDE DEF n, segs
<1>4. PICK w : IsMapped(w, segs, n) /\ y = w[n]
  BY <1>2, <1>3, MapAllIs
<1>5. \A k \in 0..n : w[k] = IF k = 0 THEN NothingMapped ELSE mm_map(w[k - 1], segs[k])
  BY <1>4 DEF IsMapped
<1> DEFINE Done(k) == /\ w[k] \in Load
                      /\ Pages(w[k].areas) \subseteq Part(k)
                      /\ ~w[k].failed => Pages(w[k].areas) = Part(k)
           S == {k \in Nat : k \in 0..l => Done(k)}
<1>6. 0 \in S
  <2>1. w[0] = NothingMapped
    BY <1>2, <1>5
  <2>2. NothingMapped.areas = <<>> /\ NothingMapped \in Load
    BY DEF NothingMapped, Load
  <2>3. Pages(w[0].areas) = {}
    BY <2>1, <2>2, NoArea
  <2>4. Part(0) = {}
    OBVIOUS
  <2> QED
    BY <2>1, <2>2, <2>3, <2>4
<1>7. ASSUME NEW k \in Nat, k \in S PROVE k + 1 \in S
  <2> SUFFICES ASSUME k + 1 \in 0..l PROVE Done(k + 1)
    BY <1>7
  <2>1. k \in 0..l /\ (k + 1) - 1 = k /\ k + 1 # 0 /\ k + 1 \in 1..l /\ k + 1 \in 0..n
    BY <1>2 DEF n
  <2>2. Done(k)
    BY <1>7, <2>1
  <2> DEFINE a == segs[k + 1]
             z == mm_map(w[k], a)
  <2>3. w[k + 1] = z /\ a \in Area /\ a = prog.segs[k + 1]
    BY <1>2, <1>5, <2>1
  <2>4. Part(k + 1) = Part(k) \cup Span(a)
    <3>1. 1..k + 1 = (1..k) \cup {k + 1}
      OBVIOUS
    <3> QED
      BY <2>3, <3>1
  <2>5. /\ z \in Load
        /\ Pages(z.areas) \subseteq Pages(w[k].areas) \cup Span(a)
        /\ ~z.failed => ~w[k].failed /\ Pages(z.areas) = Pages(w[k].areas) \cup Span(a)
    <3> HIDE DEF a
    <3> QED
      BY <2>2, <2>3, MapsOne
  <2> HIDE DEF z, Part
  <2> QED
    BY <2>2, <2>3, <2>4, <2>5
<1>8. Nat \subseteq S
  <2> HIDE DEF S
  <2> QED
    BY <1>6, <1>7, SetInduction
<1>9. Done(l)
  <2> HIDE DEF Done
  <2>1. l \in S /\ l \in 0..l
    <3> HIDE DEF S
    <3> QED
      BY <1>2, <1>8
  <2> QED
    BY <2>1
<1>10. Part(l) = Pages(prog.segs)
  BY <1>1 DEF Pages, Span
<1>11. y = mm_map(w[l], Stack)
  <2>1. n \in 0..n /\ n # 0 /\ n - 1 = l
    BY <1>2 DEF n
  <2> QED
    BY <1>2, <1>4, <1>5, <2>1
<1> HIDE DEF Part
<1>12. /\ y \in Load
       /\ Pages(y.areas) \subseteq Pages(w[l].areas) \cup Span(Stack)
       /\ ~y.failed => ~w[l].failed /\ Pages(y.areas) = Pages(w[l].areas) \cup Span(Stack)
       /\ ~y.failed /\ ~y.panic => Pages(w[l].areas) \cap Span(Stack) = {}
  BY <1>1, <1>9, <1>11, MapsOne
<1> QED
  BY <1>9, <1>10, <1>12

-----------------------------------------------------------------------------
(* Remap: the entries X go, those of g come.                               *)
FramesOf(X) == {use[x] : x \in X}

Fits(X, N, g, u) ==
  /\ X \subseteq DOMAIN use /\ FramesOf(X) \subseteq Frames
  /\ g \in [N -> free \cup FramesOf(X)] /\ Distinct(N, g)
  /\ u = [x \in DOMAIN u |-> u[x]]
  /\ \A x \in DOMAIN u : \/ x \in N /\ u[x] = g[x]
                         \/ x \in DOMAIN use \ X /\ u[x] = use[x]

Sound == Types /\ Owned(use, free, ref, mem)

LEMMA AtMostOne ==
  ASSUME NEW S, \A x, y \in S : x = y
  PROVE  Cardinality(S) = IF S = {} THEN 0 ELSE 1
<1>1. CASE S = {}
  BY <1>1, FS_EmptySet
<1>2. ASSUME NEW x \in S PROVE Cardinality(S) = 1
  <2>1. S = {x}
    OBVIOUS
  <2> QED
    BY <2>1, FS_Singleton
<1> QED
  BY <1>1, <1>2

LEMMA RefsLeft ==
  ASSUME Sound, NEW X, X \subseteq DOMAIN use, FramesOf(X) \subseteq Frames
  PROVE  /\ \A f \in Frames \ FramesOf(X) : RefLeft(X)[f] = ref[f]
         /\ Freed(X) = FramesOf(X)
<1> DEFINE Q(f) == {x \in X : Len(x) = 4 /\ use[x] = f}
<1>1. ASSUME NEW f \in Frames
      PROVE  /\ RefLeft(X)[f] = ref[f] - Cardinality(Q(f))
             /\ Cardinality(Q(f)) = IF Q(f) = {} THEN 0 ELSE 1
  <2>1. \A x, y \in Q(f) : x = y
    BY DEF Sound, Owned
  <2> QED
    BY <2>1, AtMostOne DEF RefLeft
<1>2. \A f \in Frames : ref[f] \in Nat
  BY DEF Sound, Types
<1>3. ASSUME NEW f \in Frames \ FramesOf(X) PROVE RefLeft(X)[f] = ref[f]
  <2>1. Q(f) = {}
    BY <1>3 DEF FramesOf
  <2> HIDE DEF Q
  <2> QED
    BY <1>1, <1>2, <2>1
<1>4. ASSUME NEW x \in X, Len(x) = 4 PROVE RefLeft(X)[use[x]] = 0
  <2>1. use[x] \in Frames /\ x \in Q(use[x])
    BY <1>4 DEF FramesOf
  <2>2. ref[use[x]] = 1
    BY <1>4 DEF Sound, Owned
  <2> HIDE DEF Q
  <2> QED
    BY <1>1, <2>1, <2>2
<1>5. Freed(X) = FramesOf(X)
  BY <1>4 DEF Freed, FramesOf
<1> QED
  BY <1>3, <1>5

(* The frames after a step.                                                *)
LEMMA RemapFrames ==
  ASSUME Sound, NEW X, NEW N, NEW g, NEW u, Fits(X, N, g, u), NEW c, Remap(X, g, c, u)
  PROVE  /\ use' = u
         /\ free' = (free \cup FramesOf(X)) \ Range(g)
         /\ free' \subseteq Frames /\ Range(g) \subseteq Frames
         /\ \A x \in DOMAIN u : u[x] \notin free'
         /\ \A x, y \in DOMAIN u : u[x] = u[y] => x = y
<1>1. Freed(X) = FramesOf(X)
  BY RefsLeft DEF Fits
<1>2. use' = u /\ free' = (free \cup FramesOf(X)) \ Range(g)
  BY <1>1 DEF Remap
<1>3. \A x, y \in DOMAIN use : use[x] = use[y] => x = y
  BY DEF Sound, Owned
<1>4. \A x \in DOMAIN use : use[x] \notin free
  BY DEF Sound, Owned
<1>5. ASSUME NEW x \in DOMAIN use \ X PROVE use[x] \notin free \cup FramesOf(X)
  BY <1>3, <1>4 DEF FramesOf, Fits
<1>6. \A x \in N : g[x] \in free \cup FramesOf(X) /\ g[x] \in Range(g)
  BY DEF Fits, Range
<1>7. Range(g) \subseteq free \cup FramesOf(X)
  BY DEF Fits, Range
<1>8. free \cup FramesOf(X) \subseteq Frames
  BY DEF Sound, Types, Fits
<1>9. ASSUME NEW x \in DOMAIN u PROVE u[x] \notin free'
  BY <1>2, <1>5, <1>6 DEF Fits
<1>10. ASSUME NEW x \in DOMAIN u, NEW y \in DOMAIN u, u[x] = u[y] PROVE x = y
  <2>1. CASE x \in N /\ u[x] = g[x]
    <3>1. y \in N /\ u[y] = g[y]
      BY <1>5, <1>6, <1>10, <2>1 DEF Fits
    <3> QED
      BY <1>10, <2>1, <3>1 DEF Fits, Distinct
  <2>2. CASE x \in DOMAIN use \ X /\ u[x] = use[x]
    <3>1. y \in DOMAIN use \ X /\ u[y] = use[y]
      BY <1>5, <1>6, <1>10, <2>2 DEF Fits
    <3> QED
      BY <1>3, <1>10, <2>2, <3>1
  <2> QED
    BY <2>1, <2>2 DEF Fits
<1> QED
  BY <1>2, <1>7, <1>8, <1>9, <1>10

(* The counts after it.                                                    *)
LEMMA RemapCounts ==
  ASSUME Sound, NEW X, NEW N, NEW g, NEW u, Fits(X, N, g, u), NEW c, Remap(X, g, c, u)
  PROVE  /\ ref' \in [Frames -> Nat]
         /\ \A x \in DOMAIN u : Len(x) > 1 => u[x] \in Frames /\ ref'[u[x]] = 1
         /\ \A f \in free' : ref'[f] = 0
<1> DEFINE Q(f) == {x \in DOMAIN g : Len(x) > 1 /\ g[x] = f}
           k(f) == Cardinality(Q(f))
           old(f) == IF f \in FramesOf(X) THEN 0 ELSE ref[f]
<1>1. Freed(X) = FramesOf(X) /\ \A f \in Frames \ FramesOf(X) : RefLeft(X)[f] = ref[f]
  BY RefsLeft DEF Fits
<1>2. ref' = [f \in Frames |-> old(f) + k(f)]
  <2>1. ref' = [f \in Frames |-> (IF f \in Freed(X) THEN 0 ELSE RefLeft(X)[f]) + k(f)]
    BY DEF Remap
  <2>2. ASSUME NEW f \in Frames
        PROVE  (IF f \in Freed(X) THEN 0 ELSE RefLeft(X)[f]) = old(f)
    BY <1>1
  <2> HIDE DEF k, old
  <2> QED
    BY <2>1, <2>2
<1>3. DOMAIN g = N /\ Distinct(N, g)
  BY DEF Fits
<1>4. ASSUME NEW f PROVE k(f) = IF Q(f) = {} THEN 0 ELSE 1
  <2>1. \A x, y \in Q(f) : x = y
    BY <1>3 DEF Distinct
  <2> QED
    BY <2>1, AtMostOne
<1>5. ASSUME NEW f \in Frames PROVE old(f) \in Nat /\ ref'[f] = old(f) + k(f)
  <2>1. old(f) \in Nat
    BY DEF Sound, Types
  <2> HIDE DEF old, k
  <2> QED
    BY <1>2, <2>1
<1>6. ASSUME NEW f \in free \cup FramesOf(X) PROVE f \in Frames /\ old(f) = 0
  BY DEF Sound, Types, Owned, Fits
<1>7. ref' \in [Frames -> Nat]
  <2>1. \A f \in Frames : old(f) + k(f) \in Nat
    <3> HIDE DEF old, k, Q
    <3> QED
      BY <1>4, <1>5
  <2> HIDE DEF old, k, Q
  <2> QED
    BY <1>2, <2>1
<1>8. ASSUME NEW x \in DOMAIN u, Len(x) > 1 PROVE u[x] \in Frames /\ ref'[u[x]] = 1
  <2> DEFINE f == u[x]
  <2>1. CASE x \in N /\ f = g[x]
    <3>1. f \in free \cup FramesOf(X)
      BY <2>1 DEF Fits
    <3>2. x \in Q(f)
      BY <1>3, <1>8, <2>1
    <3> HIDE DEF f, Q, k, old
    <3>3. k(f) = 1 /\ old(f) = 0 /\ f \in Frames
      BY <1>4, <1>6, <3>1, <3>2
    <3>4. ref'[f] = 1
      BY <1>5, <3>3
    <3> QED
      BY <3>3, <3>4 DEF f
  <2>2. CASE x \in DOMAIN use \ X /\ f = use[x]
    <3>1. f \in Frames /\ ref[f] = 1
      BY <1>8, <2>2 DEF Sound, Owned
    <3>2. f \notin free \cup FramesOf(X)
      BY <2>2 DEF Sound, Owned, FramesOf, Fits
    <3>3. Q(f) = {}
      BY <1>3, <3>2 DEF Fits
    <3>4. old(f) = 1
      BY <3>1, <3>2
    <3> HIDE DEF f, Q, k, old
    <3>5. k(f) = 0
      BY <1>4, <3>3
    <3>6. ref'[f] = 1
      BY <1>5, <3>1, <3>4, <3>5
    <3> QED
      BY <3>1, <3>6 DEF f
  <2> QED
    BY <2>1, <2>2 DEF Fits
<1>9. ASSUME NEW f \in free' PROVE ref'[f] = 0
  <2>1. f \in free \cup FramesOf(X) /\ f \notin Range(g)
    BY <1>1, <1>9 DEF Remap
  <2>2. Q(f) = {}
    BY <2>1 DEF Range
  <2>3. f \in Frames /\ old(f) = 0
    BY <1>6, <2>1
  <2> HIDE DEF Q, k, old
  <2>4. k(f) = 0
    BY <1>4, <2>2
  <2> QED
    BY <1>5, <2>3, <2>4
<1> QED
  BY <1>7, <1>8, <1>9

(* What the frames hold after it.                                          *)
PageContents(c, N) ==
  /\ DOMAIN c \subseteq {x \in N : Len(x) = 4}
  /\ \A x \in DOMAIN c : c[x] \in Data \cup {NULL}

LEMMA RemapMem ==
  ASSUME Sound, NEW X, NEW N, NEW g, NEW u, Fits(X, N, g, u),
         NEW c, PageContents(c, N), Remap(X, g, c, u)
  PROVE  /\ mem' \in [Frames -> Data \cup {NULL}]
         /\ \A x \in DOMAIN c : mem'[g[x]] = c[x]
         /\ \A x \in N : x \notin DOMAIN c => mem'[g[x]] = NULL
         /\ \A f \in Frames : f \notin free \cup FramesOf(X) => mem'[f] = mem[f]
         /\ \A x \in DOMAIN u : Len(x) < 4 /\ u[x] \in Frames => mem'[u[x]] = NULL
<1> DEFINE P(f) == \E x \in DOMAIN c : g[x] = f
           new(f) == c[CHOOSE x \in DOMAIN c : g[x] = f]
           e(f) == IF P(f) THEN new(f) ELSE IF f \in free' \cup Range(g) THEN NULL ELSE mem[f]
<1>1. mem' = [f \in Frames |-> e(f)]
  BY DEF Remap
<1>2. /\ use' = u
      /\ free' = (free \cup FramesOf(X)) \ Range(g)
      /\ Range(g) \subseteq Frames
  BY RemapFrames
<1>3. DOMAIN c \subseteq N /\ Distinct(N, g) /\ \A x \in N : g[x] \in Range(g)
  BY DEF PageContents, Fits, Range
<1>4. ASSUME NEW x \in DOMAIN c PROVE P(g[x]) /\ new(g[x]) = c[x]
  <2> DEFINE z == CHOOSE y \in DOMAIN c : g[y] = g[x]
  <2>1. z \in DOMAIN c /\ g[z] = g[x]
    OBVIOUS
  <2>2. z = x
    BY <1>3, <2>1 DEF Distinct
  <2> QED
    BY <2>2
<1>5. ASSUME NEW x \in N, x \notin DOMAIN c PROVE ~P(g[x])
  BY <1>3, <1>5 DEF Distinct
<1>6. ASSUME NEW f \in Frames, f \notin free \cup FramesOf(X) PROVE ~P(f) /\ f \notin free' \cup Range(g)
  <2>1. f \notin Range(g)
    BY <1>6 DEF Fits, Range
  <2> QED
    BY <1>2, <1>3, <1>6, <2>1
<1>7. ASSUME NEW f \in Frames PROVE e(f) \in Data \cup {NULL}
  <2>1. mem[f] \in Data \cup {NULL}
    BY DEF Sound, Types
  <2>2. CASE P(f)
    <3>1. PICK x \in DOMAIN c : g[x] = f
      BY <2>2
    <3>2. new(f) = c[x]
      BY <1>4, <3>1
    <3> QED
      BY <2>2, <3>2 DEF PageContents
  <2>3. CASE ~P(f)
    BY <2>1, <2>3
  <2> QED
    BY <2>2, <2>3
<1>8. mem' \in [Frames -> Data \cup {NULL}]
  <2> HIDE DEF e
  <2> QED
    BY <1>1, <1>7
<1>9. \A f \in Frames : mem'[f] = e(f)
  <2> HIDE DEF e
  <2> QED
    BY <1>1
<1>10. ASSUME NEW x \in N PROVE g[x] \in Frames /\ mem'[g[x]] = e(g[x])
  <2>1. g[x] \in Frames
    BY <1>2, <1>3
  <2> HIDE DEF e
  <2> QED
    BY <1>9, <2>1
<1>11. ASSUME NEW x \in DOMAIN c PROVE mem'[g[x]] = c[x]
  <2>1. x \in N /\ P(g[x]) /\ new(g[x]) = c[x]
    BY <1>3, <1>4
  <2>2. e(g[x]) = c[x]
    <3> HIDE DEF P, new
    <3> QED
      BY <2>1
  <2> HIDE DEF e
  <2> QED
    BY <1>10, <2>1, <2>2
<1>12. ASSUME NEW x \in N, x \notin DOMAIN c PROVE mem'[g[x]] = NULL
  <2>1. ~P(g[x]) /\ g[x] \in Range(g)
    BY <1>3, <1>5, <1>12
  <2>2. e(g[x]) = NULL
    <3> HIDE DEF P, new
    <3> QED
      BY <2>1
  <2> HIDE DEF e
  <2> QED
    BY <1>10, <2>2
<1>13. ASSUME NEW f \in Frames, f \notin free \cup FramesOf(X) PROVE mem'[f] = mem[f]
  <2>1. e(f) = mem[f]
    <3>1. ~P(f) /\ f \notin free' \cup Range(g)
      BY <1>6, <1>13
    <3> HIDE DEF P, new
    <3> QED
      BY <3>1
  <2> HIDE DEF e
  <2> QED
    BY <1>9, <2>1
<1> HIDE DEF e, P, new
<1>14. ASSUME NEW x \in DOMAIN u, Len(x) < 4, u[x] \in Frames PROVE mem'[u[x]] = NULL
  <2>1. CASE x \in N /\ u[x] = g[x]
    <3>1. x \notin DOMAIN c
      <4>1. ~(4 < 4)
        OBVIOUS
      <4> QED
        BY <1>14, <4>1, Zenon DEF PageContents
    <3> QED
      BY <1>12, <2>1, <3>1
  <2>2. CASE x \in DOMAIN use \ X /\ u[x] = use[x]
    <3>1. u[x] \notin free \cup FramesOf(X)
      BY <2>2 DEF Sound, Owned, FramesOf, Fits
    <3>2. mem[use[x]] = NULL
      BY <1>14, <2>2 DEF Sound, Owned
    <3> QED
      BY <1>13, <1>14, <2>2, <3>1, <3>2
  <2> QED
    BY <2>1, <2>2 DEF Fits
<1> QED
  BY <1>8, <1>11, <1>12, <1>13, <1>14

(* No frame is in two places after it, and what it loses.                  *)
Dropped(X, u) == {x \in DOMAIN use \ X : x \in DOMAIN u => u[x] # use[x]}

LEMMA RemapOwned ==
  ASSUME Sound, NEW X, NEW N, NEW g, NEW u, Fits(X, N, g, u),
         NEW c, PageContents(c, N), Remap(X, g, c, u)
  PROVE  /\ Owned(use', free', ref', mem')
         /\ free' \in SUBSET Frames
         /\ ref' \in [Frames -> Nat]
         /\ mem' \in [Frames -> Data \cup {NULL}]
BY RemapFrames, RemapCounts, RemapMem DEF Owned

LEMMA RemapLost ==
  ASSUME Sound, NEW X, NEW N, NEW g, NEW u, Fits(X, N, g, u),
         NEW c, PageContents(c, N), Remap(X, g, c, u),
         NEW f \in Frames, f \notin free', f \notin Range(u)
  PROVE  \/ f \notin free /\ f \notin Range(use) /\ mem'[f] = mem[f]
         \/ \E x \in Dropped(X, u) : f = use[x] /\ mem'[f] = mem[f]
         \/ \E x \in N : /\ f = g[x]
                         /\ x \in DOMAIN u => u[x] # g[x]
                         /\ x \notin DOMAIN c => mem'[f] = NULL
<1>1. free' = (free \cup FramesOf(X)) \ Range(g)
  BY RemapFrames
<1>2. \A h \in Frames : h \notin free \cup FramesOf(X) => mem'[h] = mem[h]
  BY RemapMem
<1>3. \A x \in N : x \notin DOMAIN c => mem'[g[x]] = NULL
  BY RemapMem
<1>4. CASE f \in Range(g)
  <2>1. PICK x \in N : f = g[x]
    BY <1>4 DEF Range, Fits
  <2>2. x \in DOMAIN u => u[x] # g[x]
    BY <2>1 DEF Range
  <2> QED
    BY <1>3, <2>1, <2>2
<1>5. CASE f \notin Range(g)
  <2>1. f \notin free \cup FramesOf(X)
    BY <1>1, <1>5
  <2>2. mem'[f] = mem[f]
    BY <1>2, <2>1
  <2>3. CASE f \in Range(use)
    <3>1. PICK x \in DOMAIN use : f = use[x]
      BY <2>3 DEF Range
    <3>2. x \in Dropped(X, u)
      BY <2>1, <3>1 DEF Dropped, FramesOf, Range
    <3> QED
      BY <2>2, <3>1, <3>2
  <2> QED
    BY <2>1, <2>2, <2>3
<1> QED
  BY <1>4, <1>5

-----------------------------------------------------------------------------
(* One step of the frames, for the whole invariant.                        *)
Fair(X, N, g, u, c) ==
  /\ \A x \in Dropped(X, u) : Len(x) < 4 /\ spread'
  /\ \A x \in N : \/ x \in DOMAIN u /\ u[x] = g[x]
                  \/ x \notin DOMAIN c /\ spread'

FramesNext ==
  /\ use' \in [DOMAIN use' -> 0..NFrame]
  /\ Range(use') \subseteq Range(use) \cup Frames
  /\ Owned(use', free', ref', mem')
  /\ free' \in SUBSET Frames
  /\ ref' \in [Frames -> Nat]
  /\ mem' \in [Frames -> Data \cup {NULL}]
  /\ NoneLost'

LEMMA RemapStep ==
  ASSUME Sound, NoneLost, NEW X, NEW N, NEW g, NEW u, Fits(X, N, g, u),
         NEW c, PageContents(c, N), Remap(X, g, c, u), Fair(X, N, g, u, c),
         check_mm_struct' = check_mm_struct, spread => spread'
  PROVE  FramesNext
<1>1. use' = u /\ free' = (free \cup FramesOf(X)) \ Range(g)
  BY RemapFrames
<1>2. Aside' = Aside
  BY DEF Aside
<1>3. ASSUME NEW f \in Lost' PROVE spread' /\ mem'[f] = NULL
  <2>1. f \in Frames /\ f \notin free' /\ f \notin Range(u) /\ f \notin Aside
    BY <1>1, <1>2 DEF Lost, Frames
  <2>2. CASE f \notin free /\ f \notin Range(use) /\ mem'[f] = mem[f]
    <3>1. f \in Lost
      BY <2>1, <2>2 DEF Lost
    <3> QED
      BY <2>2, <3>1 DEF NoneLost
  <2>3. ASSUME NEW x \in Dropped(X, u), f = use[x], mem'[f] = mem[f]
        PROVE  spread' /\ mem'[f] = NULL
    <3>1. x \in DOMAIN use /\ Len(x) < 4 /\ spread'
      BY DEF Fair, Dropped
    <3>2. mem[f] = NULL
      BY <2>1, <2>3, <3>1 DEF Sound, Owned
    <3> QED
      BY <2>3, <3>1, <3>2
  <2>4. ASSUME NEW x \in N, f = g[x], x \in DOMAIN u => u[x] # g[x],
               x \notin DOMAIN c => mem'[f] = NULL
        PROVE  spread' /\ mem'[f] = NULL
    BY <2>4 DEF Fair
  <2> QED
    BY <2>1, <2>2, <2>3, <2>4, RemapLost
<1>4. NoneLost'
  BY <1>3 DEF NoneLost
<1>5. Range(u) \subseteq Range(use) \cup Frames
  <2>1. \A x \in N : g[x] \in Frames
    BY DEF Fits, Sound, Types
  <2> QED
    BY <2>1 DEF Fits, Range
<1>6. u \in [DOMAIN u -> 0..NFrame]
  <2>1. Range(use) \subseteq 0..NFrame /\ Frames \subseteq 0..NFrame
    BY Constants DEF Sound, Types, Range, Frames
  <2>2. \A x \in DOMAIN u : u[x] \in 0..NFrame
    BY <1>5, <2>1 DEF Range
  <2> QED
    BY <2>2 DEF Fits
<1> QED
  BY <1>1, <1>4, <1>5, <1>6, RemapOwned DEF FramesNext

-----------------------------------------------------------------------------
(* What the invariant says of entries.                                     *)
LEMMA InvParts ==
  ASSUME IInv
  PROVE  /\ Sound /\ NoneLost /\ Lists /\ Types /\ UserPart /\ CheckPart /\ SwapPart
BY DEF IInv, Sound

LEMMA AreasOf ==
  ASSUME IInv, NEW m \in Mm
  PROVE  /\ mmap_list[m] \in Seq(Area)
         /\ Pages(mmap_list[m]) \subseteq Nat /\ IsFiniteSet(Pages(mmap_list[m]))
<1>1. mmap_list[m] \in Seq(Area)
  BY DEF IInv, Types
<1> QED
  BY <1>1, PagesAre

LEMMA UserEntries ==
  ASSUME IInv, check_mm_struct = NULL
  PROVE  /\ \A m \in Mm : Tree(use, m, mmap_list[m])
         /\ \A x \in DOMAIN use : x[1] \in Mm /\ use[x] \in Frames
         /\ \A X \in SUBSET DOMAIN use : FramesOf(X) \subseteq Frames
BY DEF IInv, UserPart, UserTrees, FramesOf, Range

(* The trees of the other address spaces.                                  *)
Others(u, m) == \A x : x[1] # m => (x \in DOMAIN u <=> x \in DOMAIN use)

LEMMA OtherTrees ==
  ASSUME IInv, check_mm_struct = NULL, NEW m \in Mm, NEW u, Others(u, m),
         NEW areas, Tree(u, m, areas)
  PROVE  UserTrees(u, [mmap_list EXCEPT ![m] = areas])
<1> DEFINE L == [mmap_list EXCEPT ![m] = areas]
<1>1. /\ mmap_list \in [Mm -> Seq(Area)] /\ \A n \in Mm : Tree(use, n, mmap_list[n])
      /\ \A x \in DOMAIN use : x[1] \in Mm
  BY UserEntries DEF IInv, Types
<1>2. ASSUME NEW x \in DOMAIN u PROVE x[1] \in Mm
  BY <1>1 DEF Others
<1>3. ASSUME NEW n \in Mm PROVE Tree(u, n, L[n])
  <2>1. CASE n = m
    BY <1>1, <2>1
  <2>2. CASE n # m
    <3>1. L[n] = mmap_list[n]
      BY <1>1, <2>2
    <3>2. OfM(u, n) = OfM(use, n)
      BY <2>2 DEF OfM, Others
    <3>3. <<n>> \in DOMAIN u <=> <<n>> \in DOMAIN use
      BY <2>2 DEF Others
    <3>4. Resident(u, n, mmap_list[n]) = Resident(use, n, mmap_list[n])
      <4>1. ASSUME NEW v PROVE pte(n, v) \in DOMAIN u <=> pte(n, v) \in DOMAIN use
        BY <2>2, PageLength DEF Others
      <4> QED
        BY <4>1 DEF Resident
    <3> QED
      BY <1>1, <3>1, <3>2, <3>3, <3>4 DEF Tree
  <2> QED
    BY <2>1, <2>2
<1> QED
  BY <1>2, <1>3 DEF UserTrees

LEMMA GrownTree ==
  ASSUME NEW u, NEW m, NEW areas, Pages(areas) \subseteq Nat, NEW V, V \subseteq Pages(areas),
         OfM(u, m) = Needs(m, V)
  PROVE  Tree(u, m, areas) /\ Resident(u, m, areas) = V
<1>1. Resident(u, m, areas) = V
  BY ResidentAre
<1>2. <<m>> \in DOMAIN u
  BY DEF OfM, Needs
<1> QED
  BY <1>1, <1>2 DEF Tree

LEMMA SingleIs ==
  ASSUME NEW x, NEW y
  PROVE  DOMAIN Single(x, y) = {x} /\ Single(x, y)[x] = y /\ Range(Single(x, y)) = {y}
BY DEF Single, Range

LEMMA FreeFinite ==
  ASSUME IInv
  PROVE  free \subseteq Nat /\ IsFiniteSet(free) /\ IsFiniteSet(Frames) /\ Frames \subseteq Nat
<1>1. NFrame \in Nat
  BY Constants
<1>2. IsFiniteSet(Frames) /\ Frames \subseteq Nat
  BY <1>1, FS_Interval DEF Frames
<1>3. free \subseteq Frames
  BY DEF IInv, Types
<1>4. IsFiniteSet(free)
  BY <1>2, <1>3, FS_Subset
<1> QED
  BY <1>2, <1>3, <1>4

(* Free frames for new entries.                                            *)
Got(N, g, c) ==
  /\ FramesNext
  /\ g \in [N -> free]
  /\ use' = Merge(g, use) /\ DOMAIN use' = N \cup DOMAIN use
  /\ free' = free \ Range(g)
  /\ \A x \in N : use'[x] = g[x]
  /\ \A x \in DOMAIN use : use'[x] = use[x] /\ (use[x] \in Frames => mem'[use[x]] = mem[use[x]])
  /\ \A x \in DOMAIN c : mem'[use'[x]] = c[x]

LEMMA GetFrames ==
  ASSUME IInv, NEW m, NEW N, N \subseteq Entry(m), IsFiniteSet(N), N \cap DOMAIN use = {},
         ~OutOfMemory(free, N), NEW g, g = alloc_pages(free, N),
         NEW c, PageContents(c, N), Remap({}, g, c, Merge(g, use)),
         check_mm_struct' = check_mm_struct, spread' = spread
  PROVE  Got(N, g, c)
<1> DEFINE u == Merge(g, use)
<1>1. g \in [N -> free] /\ Distinct(N, g)
  BY Allocated, FreeFinite
<1>2. /\ DOMAIN u = N \cup DOMAIN use
      /\ \A x \in N : u[x] = g[x]
      /\ \A x \in DOMAIN use : u[x] = use[x]
      /\ u = [x \in DOMAIN u |-> u[x]]
  <2>1. DOMAIN g = N
    BY <1>1
  <2>2. u = Merge(g, use)
    OBVIOUS
  <2> HIDE DEF u
  <2>3. /\ DOMAIN u = DOMAIN g \cup DOMAIN use
        /\ \A x \in DOMAIN g : u[x] = g[x]
        /\ \A x \in DOMAIN use : x \notin DOMAIN g => u[x] = use[x]
        /\ u = [x \in DOMAIN u |-> u[x]]
    BY <2>2 DEF Merge
  <2>4. \A x \in DOMAIN use : x \notin N
    OBVIOUS
  <2>5. \A x \in DOMAIN use : u[x] = use[x]
    BY <2>1, <2>3, <2>4
  <2> QED
    BY <2>1, <2>3, <2>5
<1> HIDE DEF u
<1>3. FramesOf({}) = {}
  BY DEF FramesOf
<1>4. Fits({}, N, g, u)
  BY <1>1, <1>2, <1>3 DEF Fits
<1>5. Fair({}, N, g, u, c)
  <2>1. Dropped({}, u) = {}
    BY <1>2 DEF Dropped
  <2> QED
    BY <1>2, <2>1 DEF Fair
<1>6. Remap({}, g, c, u) /\ Sound /\ NoneLost
  BY InvParts DEF u
<1>7. FramesNext
  BY <1>4, <1>5, <1>6, RemapStep
<1>8. use' = u /\ free' = free \ Range(g)
  BY <1>3, <1>4, <1>6, RemapFrames
<1>9. /\ \A x \in DOMAIN c : mem'[g[x]] = c[x]
      /\ \A f \in Frames : f \notin free => mem'[f] = mem[f]
  BY <1>3, <1>4, <1>6, RemapMem
<1>10. ASSUME NEW x \in DOMAIN use, use[x] \in Frames PROVE mem'[use[x]] = mem[use[x]]
  <2>1. use[x] \notin free
    BY DEF IInv, Owned
  <2> QED
    BY <1>9, <1>10, <2>1
<1>11. ASSUME NEW x \in DOMAIN c PROVE mem'[use'[x]] = c[x]
  BY <1>2, <1>8, <1>9 DEF PageContents
<1> QED
  BY <1>1, <1>2, <1>7, <1>8, <1>10, <1>11 DEF u, Got

(* A step while user programs run keeps the invariant when it keeps the    *)
(* frames and the trees.                                                   *)
LEMMA UserInv ==
  ASSUME IInv, check_mm_struct = NULL, FramesNext,
         UNCHANGED <<swap, check_mm_struct, panicked>>,
         mmap_list' \in [Mm -> Seq(Area)], spread' \in BOOLEAN,
         UserTrees(use', mmap_list'), Lists'
  PROVE  IInv'
<1>1. Range(use) \subseteq Frames
  BY DEF IInv, UserPart
<1>2. UserPart'
  BY <1>1 DEF FramesNext, UserPart, UserTrees, Tree, OfM, Resident, Needs, Range
<1>3. Types'
  BY DEF IInv, Types, FramesNext, swap, Frames
<1>4. CheckPart' /\ SwapPart'
  BY DEF CheckPart, SwapPart
<1>5. Owned(use, free, ref, mem)' /\ NoneLost'
  BY DEF FramesNext, Owned
<1> QED
  BY <1>2, <1>3, <1>4, <1>5 DEF IInv

-----------------------------------------------------------------------------
(* The steps that do not touch the page tables.                            *)
LEMMA PanicStep ==
  ASSUME IInv, panic
  PROVE  IInv'
<1>1. UNCHANGED <<use, free, ref, mem, pra_list, pra_vaddr, disk, mmap_list, check_mm_struct, spread>>
  BY DEF panic, swap
<1>2. Types'
  BY <1>1 DEF IInv, Types, panic, Frames
<1>3. Owned(use, free, ref, mem)' /\ Lists' /\ SwapPart' /\ CheckPart'
  BY <1>1 DEF IInv, Owned, Lists, SwapPart, CheckPart
<1>4. UserPart' /\ NoneLost'
  BY <1>1 DEF IInv, UserPart, NoneLost, Lost, Aside
<1> QED
  BY <1>2, <1>3, <1>4 DEF IInv

(* A page in memory is the only one in its frame.                          *)
LEMMA PageFrame ==
  ASSUME IInv, NEW m, NEW v, pte(m, v) \in DOMAIN use
  PROVE  /\ use[pte(m, v)] \in Frames
         /\ \A x \in DOMAIN use : use[x] = use[pte(m, v)] => x = pte(m, v)
<1>1. Len(pte(m, v)) > 1
  <2>1. 4 > 1
    OBVIOUS
  <2> QED
    BY <2>1, PageLength, Zenon
<1> QED
  BY <1>1 DEF IInv, Owned

LEMMA StoreStep ==
  ASSUME IInv, NEW m \in Live, NEW d \in Data, NEW v \in Pages(mmap_list[m]), Store(m, v, d)
  PROVE  IInv'
<1> DEFINE x == pte(m, v)
           f == use[x]
<1>1. /\ UNCHANGED <<use, free, ref, pra_list, pra_vaddr, disk, mmap_list, check_mm_struct, panicked, spread>>
      /\ x \in DOMAIN use /\ mem' = [mem EXCEPT ![f] = d]
  BY DEF Store, swap
<1>2. f \in Frames /\ \A y \in DOMAIN use : use[y] = f => y = x
  BY <1>1, PageFrame
<1>3. Len(x) = 4
  BY PageLength
<1> HIDE DEF x, f
<1>4. mem \in [Frames -> Data \cup {NULL}]
  BY DEF IInv, Types
<1>5. Types'
  BY <1>1, <1>2, <1>4 DEF IInv, Types, Frames
<1>6. ASSUME NEW y \in DOMAIN use, Len(y) < 4, use[y] \in Frames PROVE mem'[use[y]] = NULL
  <2>1. ~(4 < 4)
    OBVIOUS
  <2>2. y # x
    BY <1>3, <1>6, <2>1, Zenon
  <2>3. use[y] # f
    BY <1>2, <2>2
  <2>4. mem'[use[y]] = mem[use[y]]
    BY <1>1, <1>4, <1>6, <2>3
  <2> QED
    BY <1>6, <2>4 DEF IInv, Owned
<1>7. Owned(use, free, ref, mem)'
  BY <1>1, <1>6 DEF IInv, Owned, Frames
<1>8. Lists' /\ SwapPart' /\ CheckPart' /\ UserPart'
  BY <1>1 DEF IInv, Lists, SwapPart, CheckPart, UserPart, Frames
<1>9. NoneLost'
  <2>1. Lost' = Lost
    BY <1>1 DEF Lost, Aside
  <2>2. f \notin Lost
    <3>1. x \in DOMAIN use /\ f = use[x]
      BY <1>1 DEF f
    <3> QED
      BY <3>1 DEF Lost, Range
  <2>3. \A h \in Lost : mem'[h] = mem[h]
    BY <1>1, <1>4, <2>2 DEF Lost
  <2> QED
    BY <1>1, <2>1, <2>3 DEF IInv, NoneLost
<1> QED
  BY <1>5, <1>7, <1>8, <1>9 DEF IInv

-----------------------------------------------------------------------------
(* Faults.                                                                 *)
LEMMA FaultNeeds ==
  ASSUME NEW m, NEW v \in Nat, NEW N, N = get_pte(m, v) \ DOMAIN use
  PROVE  /\ N \subseteq Entry(m) /\ IsFiniteSet(N) /\ N \cap DOMAIN use = {}
         /\ N \subseteq Needs(m, {v})
<1> DEFINE V == {v}
<1>1. V \subseteq Nat /\ IsFiniteSet(V)
  BY FS_Singleton
<1>2. get_pte(m, v) \subseteq Needs(m, V)
  BY DEF Needs
<1> HIDE DEF V
<1>3. IsFiniteSet(Needs(m, V)) /\ Needs(m, V) \subseteq Entry(m)
  BY <1>1, NeedsFinite
<1>4. N \subseteq Needs(m, V) /\ N \cap DOMAIN use = {}
  BY <1>2
<1>5. IsFiniteSet(N)
  BY <1>3, <1>4, FS_Subset
<1> QED
  BY <1>3, <1>4, <1>5 DEF V

(* What do_pgfault does to the frames.                                     *)
FaultPage(m, v, d) == IF m = check_mm_struct /\ v \in DOMAIN disk THEN disk[v] ELSE d

FaultIs(m, v, d, N) ==
  LET g == alloc_pages(free, N)
  IN  /\ m \in Mm /\ v \in Nat /\ FramesNext
      /\ pte(m, v) \in N /\ g \in [N -> free]
      /\ free' = free \ Range(g)
      /\ DOMAIN use' = N \cup DOMAIN use
      /\ \A x \in N : use'[x] = g[x]
      /\ \A x \in DOMAIN use : use'[x] = use[x] /\ (use[x] \in Frames => mem'[use[x]] = mem[use[x]])
      /\ mem'[use'[pte(m, v)]] = FaultPage(m, v, d)

LEMMA Faulted ==
  ASSUME IInv, NEW m \in Live, NEW d \in Data, NEW v \in Pages(mmap_list[m]), do_pgfault(m, v, d),
         NEW N, N = get_pte(m, v) \ DOMAIN use
  PROVE  FaultIs(m, v, d, N)
<1> DEFINE x == pte(m, v)
           g == alloc_pages(free, N)
           e == FaultPage(m, v, d)
           c == Single(x, e)
<1>1. m \in Mm /\ v \in Nat
  BY AreasOf DEF Live
<1>2. /\ x \in N /\ ~OutOfMemory(free, N) /\ Remap({}, g, c, Merge(g, use))
      /\ check_mm_struct' = check_mm_struct /\ spread' = spread
  BY DEF do_pgfault, FaultPage
<1>3. N \subseteq Entry(m) /\ IsFiniteSet(N) /\ N \cap DOMAIN use = {}
  BY <1>1, FaultNeeds
<1>4. e \in Data \cup {NULL}
  BY DEF FaultPage, IInv, Types
<1>5. DOMAIN c = {x} /\ c[x] = e
  BY SingleIs
<1>6. PageContents(c, N)
  BY <1>2, <1>4, <1>5, PageLength DEF PageContents
<1>a. g = alloc_pages(free, N)
  OBVIOUS
<1> HIDE DEF c, g, e, x
<1>7. Got(N, g, c)
  BY <1>2, <1>3, <1>6, <1>a, GetFrames
<1> QED
  BY <1>1, <1>2, <1>5, <1>7 DEF g, e, x, Got, FaultIs

LEMMA NeedsMore ==
  ASSUME NEW m, NEW W, NEW v
  PROVE  Needs(m, W \cup {v}) = Needs(m, W) \cup get_pte(m, v)
<1> DEFINE V == W \cup {v}
<1>1. ASSUME NEW x \in Needs(m, V) PROVE x \in Needs(m, W) \cup get_pte(m, v)
  BY DEF Needs
<1>2. ASSUME NEW x \in Needs(m, W) \cup get_pte(m, v) PROVE x \in Needs(m, V)
  <2>1. v \in V /\ \A w \in W : w \in V
    OBVIOUS
  <2>2. \/ x = <<m>>
        \/ \E w \in V : x \in get_pte(m, w)
    BY <2>1 DEF Needs
  <2> QED
    BY <2>2 DEF Needs
<1> QED
  BY <1>1, <1>2

LEMMA LiveGrown ==
  ASSUME IInv, check_mm_struct = NULL, NEW m \in Live
  PROVE  /\ m \in Mm
         /\ OfM(use, m) = Needs(m, Resident(use, m, mmap_list[m]))
         /\ Resident(use, m, mmap_list[m]) \subseteq Pages(mmap_list[m])
<1>1. m \in Mm /\ <<m>> \in DOMAIN use
  BY DEF Live
<1>2. Tree(use, m, mmap_list[m])
  BY <1>1, UserEntries
<1> QED
  BY <1>1, <1>2 DEF Tree, Resident

LEMMA FaultUserStep ==
  ASSUME IInv, check_mm_struct = NULL,
         NEW m \in Live, NEW d \in Data, NEW v \in Pages(mmap_list[m]), do_pgfault(m, v, d)
  PROVE  IInv'
<1> DEFINE N == get_pte(m, v) \ DOMAIN use
           W == Resident(use, m, mmap_list[m])
           A == Pages(mmap_list[m])
<1>1. /\ m \in Mm /\ v \in Nat /\ FramesNext /\ DOMAIN use' = N \cup DOMAIN use
  BY Faulted DEF FaultIs
<1>2. UNCHANGED <<swap, mmap_list, check_mm_struct, panicked, spread>>
  BY DEF do_pgfault
<1>3. OfM(use, m) = Needs(m, W) /\ W \subseteq A /\ A \subseteq Nat
  BY LiveGrown, AreasOf
<1>4. ASSUME NEW x \in get_pte(m, v) PROVE x[1] = m
  BY <1>4, Lengths
<1>5. OfM(use', m) = OfM(use, m) \cup get_pte(m, v)
  BY <1>1, <1>4 DEF OfM
<1>6. OfM(use', m) = Needs(m, W \cup {v})
  BY <1>3, <1>5, NeedsMore
<1>7. Tree(use', m, mmap_list[m])
  <2> DEFINE V == W \cup {v}
  <2>1. V \subseteq A /\ OfM(use', m) = Needs(m, V)
    BY <1>3, <1>6
  <2> HIDE DEF V
  <2> QED
    BY <1>3, <2>1, GrownTree
<1>8. Others(use', m)
  BY <1>1, <1>4 DEF Others
<1>9. UserTrees(use', [mmap_list EXCEPT ![m] = mmap_list[m]])
  BY <1>1, <1>7, <1>8, OtherTrees
<1>10. mmap_list \in [Mm -> Seq(Area)] /\ spread \in BOOLEAN /\ Lists
  BY DEF IInv, Types
<1>11. [mmap_list EXCEPT ![m] = mmap_list[m]] = mmap_list
  BY <1>10
<1>12. UserTrees(use', mmap_list') /\ mmap_list' \in [Mm -> Seq(Area)] /\ spread' \in BOOLEAN /\ Lists'
  BY <1>2, <1>9, <1>10, <1>11 DEF Lists
<1> QED
  BY <1>1, <1>2, <1>12, UserInv

-----------------------------------------------------------------------------
(* While check_swap runs.                                                  *)
LEMMA SmallPage ==
  ASSUME NEW v \in Index
  PROVE  PDX1(v) = 0 /\ PDX0(v) = 0
<1> DEFINE w == v \div NEntry
           r == v % NEntry
<1>1. v \in Nat /\ 0 \in Index
  BY Constants DEF Index
<1>2. w \in Nat /\ r \in Index /\ v = NEntry * w + r
  BY <1>1, Division
<1> HIDE DEF w, r
<1>3. w * NEntry + r = 0 * NEntry + v
  BY <1>1, <1>2, Constants
<1>4. w = 0
  BY <1>2, <1>3, SameQuotient
<1> DEFINE a == w \div NEntry
           b == w % NEntry
<1>5. a \in Nat /\ b \in Index /\ w = NEntry * a + b
  BY <1>2, Division
<1> HIDE DEF a, b
<1>6. a * NEntry + b = 0 * NEntry + 0
  BY <1>4, <1>5, Constants
<1>7. a = 0 /\ b = 0
  BY <1>1, <1>5, <1>6, SameQuotient
<1> QED
  BY <1>7 DEF PDX1, PDX0, a, b, w

LEMMA CheckNeeds ==
  ASSUME NEW v \in CheckPages
  PROVE  /\ v \in Nat
         /\ get_pte(boot_mm, v) = CheckTables \cup {pte(boot_mm, v)}
<1>1. v \in Index
  BY Constants
<1>2. v \in Nat
  BY <1>1 DEF Index
<1>3. PDX1(v) = 0 /\ PDX0(v) = 0
  BY <1>1, SmallPage
<1> QED
  BY <1>2, <1>3 DEF get_pte, CheckTables

LEMMA CheckLengths ==
  ASSUME NEW x \in CheckTables
  PROVE  Len(x) \in 1..3 /\ Len(x) # 4
BY DEF CheckTables

LEMMA CheckState ==
  ASSUME IInv, check_mm_struct # NULL
  PROVE  /\ check_mm_struct = boot_mm /\ Live = {boot_mm} /\ Pages(mmap_list[boot_mm]) = CheckPages
         /\ CheckTables \subseteq DOMAIN use
         /\ DOMAIN use \subseteq CheckTables \cup {pte(boot_mm, v) : v \in CheckPages}
         /\ \A x \in DOMAIN use : Len(x) = 4 => \E v \in CheckPages : x = pte(boot_mm, v)
<1>1. CheckPart /\ check_mm_struct = boot_mm /\ boot_mm \in Mm
  BY Constants DEF IInv, Types
<1>2. Live = {boot_mm}
  <2>1. <<boot_mm>> \in DOMAIN use
    BY <1>1 DEF CheckPart, CheckTables
  <2>2. ASSUME NEW m \in Live PROVE m = boot_mm
    <3>1. <<m>> \in CheckTables \cup {pte(boot_mm, v) : v \in CheckPages}
      BY <1>1 DEF CheckPart, Live
    <3>2. <<m>> \notin {pte(boot_mm, v) : v \in CheckPages}
      BY DEF pte
    <3> QED
      BY <3>1, <3>2 DEF CheckTables
  <2> QED
    BY <1>1, <2>1, <2>2 DEF Live
<1>3. \A x \in DOMAIN use : Len(x) = 4 => \E v \in CheckPages : x = pte(boot_mm, v)
  BY <1>1, CheckLengths DEF CheckPart
<1> QED
  BY <1>1, <1>2, <1>3 DEF CheckPart

(* A list without duplicates.                                              *)
LEMMA DistinctList ==
  ASSUME NEW q \in Seq(Frames), NoDuplicates(q)
  PROVE  Cardinality(Range(q)) = Len(q)
<1> DEFINE l == Len(q)
           D == 1..l
           R == Range(q)
<1>1. l \in Nat /\ DOMAIN q = D
  OBVIOUS
<1>2. q \in Surjection(D, R)
  BY <1>1 DEF Surjection, Range
<1>3. q \in Injection(D, R)
  BY <1>1, <1>2 DEF Injection, IsInjective, NoDuplicates, Surjection
<1>4. IsFiniteSet(D) /\ Cardinality(D) = l
  <2> HIDE DEF l
  <2>1. 1 \in Int /\ l \in Int
    BY <1>1
  <2>2. IsFiniteSet(1..l) /\ Cardinality(1..l) = IF 1 > l THEN 0 ELSE l - 1 + 1
    BY <2>1, FS_Interval
  <2> QED
    BY <1>1, <2>2
<1> HIDE DEF l, D, R
<1>5. Cardinality(R) = Cardinality(D)
  BY <1>2, <1>3, <1>4, FS_Surjection
<1> QED
  BY <1>4, <1>5 DEF R, l

LEMMA ListRange ==
  ASSUME NEW q \in Seq(Frames)
  PROVE  Range(q) \subseteq Frames
BY DEF Range

LEMMA AppendList ==
  ASSUME NEW q \in Seq(Frames), NoDuplicates(q), NEW f \in Frames, f \notin Range(q),
         NEW s, s = Append(q, f)
  PROVE  s \in Seq(Frames) /\ NoDuplicates(s) /\ Range(s) = Range(q) \cup {f}
<1> DEFINE l == Len(q)
<1>1. /\ l \in Nat /\ s \in Seq(Frames) /\ Len(s) = l + 1 /\ s[l + 1] = f
      /\ DOMAIN q = 1..l /\ DOMAIN s = 1..l + 1
      /\ \A i \in 1..l : s[i] = q[i]
  OBVIOUS
<1> HIDE DEF l
<1>2. \A i \in 1..l : q[i] # f
  BY <1>1 DEF Range
<1>3. \A i \in 1..l + 1 : i \in 1..l \/ i = l + 1
  BY <1>1
<1>4. NoDuplicates(s)
  BY <1>1, <1>2, <1>3 DEF NoDuplicates, l
<1>5. Range(s) = Range(q) \cup {f}
  <2>1. 1..l + 1 = (1..l) \cup {l + 1}
    BY <1>1
  <2> QED
    BY <1>1, <2>1 DEF Range
<1> QED
  BY <1>1, <1>4, <1>5

LEMMA TailList ==
  ASSUME NEW q \in Seq(Frames), q # <<>>, NoDuplicates(q)
  PROVE  /\ Head(q) \in Frames /\ Head(q) \in Range(q)
         /\ Tail(q) \in Seq(Frames) /\ NoDuplicates(Tail(q)) /\ Range(Tail(q)) = Range(q) \ {Head(q)}
<1> DEFINE l == Len(q)
           t == Tail(q)
<1>1. /\ l \in Nat /\ l >= 1 /\ t \in Seq(Frames) /\ Len(t) = l - 1
      /\ Head(q) = q[1] /\ Head(q) \in Frames
      /\ DOMAIN q = 1..l /\ DOMAIN t = 1..l - 1
      /\ \A i \in 1..l - 1 : t[i] = q[i + 1]
  OBVIOUS
<1> HIDE DEF l, t
<1>2. \A i \in 1..l - 1 : i + 1 \in 1..l /\ i + 1 # 1
  BY <1>1
<1>3. \A i, j \in 1..l : q[i] = q[j] => i = j
  BY DEF NoDuplicates, l
<1>4. NoDuplicates(t)
  <2> SUFFICES ASSUME NEW i \in 1..l - 1, NEW j \in 1..l - 1, t[i] = t[j] PROVE i = j
    BY <1>1 DEF NoDuplicates
  <2>1. i + 1 = j + 1
    BY <1>1, <1>2, <1>3
  <2> QED
    BY <1>1, <2>1
<1>5. ASSUME NEW f \in Range(t) PROVE f \in Range(q) /\ f # Head(q)
  <2>1. PICK i \in 1..l - 1 : f = t[i]
    BY <1>1 DEF Range
  <2>2. f = q[i + 1] /\ 1 \in 1..l
    BY <1>1, <2>1
  <2> QED
    BY <1>1, <1>2, <1>3, <2>2 DEF Range
<1>6. ASSUME NEW f \in Range(q), f # Head(q) PROVE f \in Range(t)
  <2>1. PICK i \in 1..l : f = q[i]
    BY <1>1 DEF Range
  <2>2. i - 1 \in 1..l - 1 /\ (i - 1) + 1 = i
    BY <1>1, <1>6, <2>1
  <2>3. t[i - 1] = f
    BY <1>1, <2>1, <2>2
  <2> QED
    BY <1>1, <2>2, <2>3 DEF Range
<1>7. Head(q) \in Range(q)
  BY <1>1 DEF Range
<1> QED
  BY <1>1, <1>4, <1>5, <1>6, <1>7 DEF t

(* A step of check_swap keeps the invariant when it keeps the frames and   *)
(* the list.                                                               *)
LEMMA CheckInv ==
  ASSUME IInv, check_mm_struct # NULL, FramesNext,
         UNCHANGED <<mmap_list, check_mm_struct, panicked, spread>>,
         pra_list' \in Seq(Frames), pra_vaddr' \in [Frames -> CheckPages \cup {NULL}],
         disk' \in [DOMAIN disk' -> Data \cup {NULL}], DOMAIN disk' \subseteq CheckPages,
         SwapList(pra_list', pra_vaddr', use'),
         DOMAIN use' \subseteq DOMAIN use \cup {pte(boot_mm, v) : v \in CheckPages},
         \A x \in CheckTables : x \in DOMAIN use' /\ use'[x] = use[x],
         \A x \in DOMAIN use' : Len(x) = 4 => use'[x] \in 3..CheckFrames + 2,
         free' \subseteq 3..CheckFrames + 2
  PROVE  IInv'
<1>1. CheckPart
  BY DEF IInv
<1>2. Types'
  BY DEF IInv, Types, FramesNext, Frames
<1>3. UserPart'
  BY DEF UserPart
<1>4. SwapPart'
  BY DEF SwapPart, SwapList
<1>5. CheckPart'
  BY <1>1 DEF CheckPart, CheckTables
<1>6. Lists'
  BY DEF IInv, Lists
<1>7. Owned(use, free, ref, mem)' /\ NoneLost'
  BY DEF FramesNext, Owned
<1> QED
  BY <1>2, <1>3, <1>4, <1>5, <1>6, <1>7 DEF IInv

LEMMA CheckFacts ==
  ASSUME IInv, check_mm_struct # NULL
  PROVE  /\ pra_list \in Seq(Frames) /\ pra_vaddr \in [Frames -> CheckPages \cup {NULL}]
         /\ disk \in [DOMAIN disk -> Data \cup {NULL}] /\ DOMAIN disk \subseteq CheckPages
         /\ SwapList(pra_list, pra_vaddr, use)
         /\ \A x \in CheckTables : x \in DOMAIN use /\ use[x] = Len(x) - 1
         /\ \A x \in DOMAIN use : Len(x) = 4 => use[x] \in 3..CheckFrames + 2
         /\ free \subseteq 3..CheckFrames + 2 /\ free \subseteq Frames
         /\ ~spread
BY DEF IInv, Types, SwapPart, CheckPart

LEMMA FaultCheckStep ==
  ASSUME IInv, check_mm_struct # NULL,
         NEW m \in Live, NEW d \in Data, NEW v \in Pages(mmap_list[m]), do_pgfault(m, v, d)
  PROVE  IInv'
<1> DEFINE x == pte(boot_mm, v)
           N == get_pte(m, v) \ DOMAIN use
           g == alloc_pages(free, N)
           f == g[x]
<1>1. m = boot_mm /\ v \in CheckPages
  BY CheckState
<1>2. /\ x \in N /\ g \in [N -> free] /\ FramesNext /\ DOMAIN use' = N \cup DOMAIN use
      /\ free' = free \ Range(g)
      /\ \A y \in N : use'[y] = g[y]
      /\ \A y \in DOMAIN use : use'[y] = use[y]
  <2>1. FaultIs(m, v, d, N)
    BY Faulted
  <2> QED
    BY <1>1, <2>1 DEF FaultIs
<1>3. N = {x}
  <2>1. get_pte(boot_mm, v) = CheckTables \cup {x}
    BY <1>1, CheckNeeds
  <2>2. CheckTables \subseteq DOMAIN use
    BY CheckState
  <2> QED
    BY <1>1, <1>2, <2>1, <2>2
<1>4. /\ pra_list' = Append(pra_list, f) /\ pra_vaddr' = [pra_vaddr EXCEPT ![f] = v]
      /\ disk' = Restrict(disk, DOMAIN disk \ {v})
      /\ UNCHANGED <<mmap_list, check_mm_struct, panicked, spread>>
  BY <1>1 DEF do_pgfault
<1>5. Len(x) = 4
  BY PageLength
<1> HIDE DEF N, g, f, x
<1>6. f \in free /\ DOMAIN use' = DOMAIN use \cup {x} /\ use'[x] = f
  BY <1>2, <1>3 DEF f
<1>7. f \notin Range(pra_list) /\ f \in Frames
  <2>1. \A y \in DOMAIN use : use[y] # f
    BY <1>6 DEF IInv, Owned
  <2> QED
    BY <1>6, <2>1, CheckFacts DEF SwapList, PageFrames
<1>8. pra_list' \in Seq(Frames) /\ NoDuplicates(pra_list') /\ Range(pra_list') = Range(pra_list) \cup {f}
  BY <1>4, <1>7, CheckFacts, AppendList DEF SwapList
<1>9. PageFrames(use') = PageFrames(use) \cup {f}
  BY <1>2, <1>5, <1>6 DEF PageFrames
<1>10. pra_vaddr' \in [Frames -> CheckPages \cup {NULL}] /\ pra_vaddr'[f] = v
       /\ \A h \in Frames : h # f => pra_vaddr'[h] = pra_vaddr[h]
  BY <1>1, <1>4, <1>7, CheckFacts
<1>11. SwapList(pra_list', pra_vaddr', use')
  <2>1. ASSUME NEW h \in Range(pra_list')
        PROVE  /\ pra_vaddr'[h] \in CheckPages /\ pte(boot_mm, pra_vaddr'[h]) \in DOMAIN use'
               /\ use'[pte(boot_mm, pra_vaddr'[h])] = h
    <3>1. CASE h = f
      BY <1>1, <1>6, <1>10, <3>1 DEF x
    <3>2. CASE h # f
      <4>1. h \in Range(pra_list) /\ h \in Frames
        <5>1. h \in Range(pra_list)
          BY <1>8, <3>2
        <5> QED
          BY <5>1, CheckFacts, ListRange
      <4> DEFINE y == pte(boot_mm, pra_vaddr[h])
      <4>2. pra_vaddr[h] \in CheckPages /\ y \in DOMAIN use /\ use[y] = h
        BY <4>1, CheckFacts DEF SwapList
      <4>3. pra_vaddr'[h] = pra_vaddr[h]
        BY <1>10, <3>2, <4>1
      <4> HIDE DEF y
      <4>4. y \in DOMAIN use' /\ use'[y] = h
        BY <1>2, <4>2
      <4> QED
        BY <4>2, <4>3, <4>4 DEF y
    <3> QED
      BY <3>1, <3>2
  <2>2. Range(pra_list') = PageFrames(use')
    BY <1>8, <1>9, CheckFacts DEF SwapList
  <2> QED
    BY <1>8, <2>1, <2>2 DEF SwapList
<1>12. disk' \in [DOMAIN disk' -> Data \cup {NULL}] /\ DOMAIN disk' \subseteq CheckPages
  BY <1>4, CheckFacts DEF Restrict
<1>13. DOMAIN use' \subseteq DOMAIN use \cup {pte(boot_mm, w) : w \in CheckPages}
  BY <1>1, <1>6 DEF x
<1>14. \A y \in CheckTables : y \in DOMAIN use' /\ use'[y] = use[y]
  BY <1>2, CheckFacts
<1>15. \A y \in DOMAIN use' : Len(y) = 4 => use'[y] \in 3..CheckFrames + 2
  BY <1>2, <1>6, CheckFacts
<1>16. free' \subseteq 3..CheckFrames + 2
  BY <1>2, CheckFacts
<1> QED
  BY <1>2, <1>4, <1>8, <1>10, <1>11, <1>12, <1>13, <1>14, <1>15, <1>16, CheckInv

-----------------------------------------------------------------------------
(* Page replacement.                                                       *)
LEMMA NeverEmpty ==
  ASSUME IInv, check_mm_struct # NULL, free = {}
  PROVE  pra_list # <<>>
<1>1. 3 \in Frames /\ 3 \notin Aside
  BY Constants DEF Frames, Aside
<1>2. 3 \notin Lost
  BY CheckFacts DEF IInv, NoneLost
<1>3. PICK x \in DOMAIN use : use[x] = 3
  BY <1>1, <1>2 DEF Lost, Range
<1>4. x \notin CheckTables
  <2> SUFFICES ASSUME x \in CheckTables PROVE FALSE
    OBVIOUS
  <2> DEFINE l == Len(x)
  <2>1. 3 = l - 1
    BY <1>3, CheckFacts
  <2>2. l \in 1..3
    BY CheckLengths
  <2> HIDE DEF l
  <2> QED
    BY <2>1, <2>2
<1>5. Len(x) = 4
  <2>1. \E v \in CheckPages : x = pte(boot_mm, v)
    BY <1>4, CheckState
  <2> QED
    BY <2>1, PageLength
<1>6. 3 \in Range(pra_list)
  BY <1>3, <1>5, CheckFacts DEF SwapList, PageFrames
<1> QED
  BY <1>6 DEF Range

LEMMA Victim ==
  ASSUME IInv, check_mm_struct # NULL, free = {}, NEW fails \in BOOLEAN,
         NEW q, q = swap_out_victim(fails)
  PROVE  q \in Seq(Frames) /\ q # <<>> /\ NoDuplicates(q) /\ Range(q) = Range(pra_list)
<1>1. pra_list \in Seq(Frames) /\ pra_list # <<>> /\ NoDuplicates(pra_list)
  BY CheckFacts, NeverEmpty DEF SwapList
<1>2. CASE ~fails
  BY <1>1, <1>2 DEF swap_out_victim
<1>3. CASE fails
  <2> DEFINE t == Tail(pra_list)
             f == Head(pra_list)
  <2>1. f \in Frames /\ f \in Range(pra_list)
        /\ t \in Seq(Frames) /\ NoDuplicates(t) /\ Range(t) = Range(pra_list) \ {f}
    BY <1>1, TailList
  <2>2. q = Append(t, f)
    BY <1>3 DEF swap_out_victim
  <2> HIDE DEF t, f
  <2>3. q \in Seq(Frames) /\ NoDuplicates(q) /\ Range(q) = Range(t) \cup {f}
    BY <2>1, <2>2, AppendList
  <2>4. q # <<>>
    BY <2>1, <2>2
  <2> QED
    BY <2>1, <2>3, <2>4
<1> QED
  BY <1>2, <1>3

(* What swap_out does: the victim f leaves the entry of w, and is found    *)
(* for v.                                                                  *)
SwapIs(v, d, f, w) ==
  LET x == pte(boot_mm, v)
      z == pte(boot_mm, w)
  IN  /\ FramesNext /\ free' = {}
      /\ f \in Frames /\ w \in CheckPages /\ z \in DOMAIN use /\ use[z] = f /\ x \notin DOMAIN use
      /\ DOMAIN use' = (DOMAIN use \ {z}) \cup {x} /\ use'[x] = f
      /\ \A y \in DOMAIN use : y # z => use'[y] = use[y] /\ (use[y] \in Frames => mem'[use[y]] = mem[use[y]])
      /\ mem'[f] = FaultPage(boot_mm, v, d)

LEMMA Swapped ==
  ASSUME IInv, check_mm_struct # NULL, NEW v \in CheckPages, NEW d \in Data,
         NEW fails \in BOOLEAN, swap_out(boot_mm, v, d, fails),
         NEW f, f = Head(swap_out_victim(fails)), NEW w, w = pra_vaddr[f]
  PROVE  SwapIs(v, d, f, w) /\ f \in Range(pra_list)
<1> DEFINE x == pte(boot_mm, v)
           z == pte(boot_mm, w)
           q == swap_out_victim(fails)
           X == {z}
           N == {x}
           g == Single(x, f)
           e == FaultPage(boot_mm, v, d)
           c == Single(x, e)
           h == Unmapped(use, X)
           u == Merge(g, h)
<1>1. /\ free = {} /\ x \notin DOMAIN use /\ check_mm_struct = boot_mm
      /\ Remap(X, g, c, u)
      /\ check_mm_struct' = check_mm_struct /\ spread' = spread
  BY DEF swap_out, FaultPage
<1>2. f \in Range(pra_list) /\ f \in Frames
  <2> DEFINE s == q
  <2>1. s \in Seq(Frames) /\ s # <<>> /\ NoDuplicates(s) /\ Range(s) = Range(pra_list) /\ f = Head(s)
    BY <1>1, Victim
  <2> HIDE DEF s
  <2> QED
    BY <2>1, TailList
<1>3. w \in CheckPages /\ z \in DOMAIN use /\ use[z] = f
  BY <1>2, CheckFacts DEF SwapList
<1>4. DOMAIN g = N /\ g[x] = f /\ Range(g) = {f} /\ DOMAIN c = N /\ c[x] = e
  BY SingleIs
<1>5. DOMAIN h = DOMAIN use \ X /\ \A y \in DOMAIN h : h[y] = use[y]
  BY DEF Unmapped, Restrict
<1>6. Len(x) = 4 /\ Len(z) = 4
  BY PageLength
<1>7. e \in Data \cup {NULL}
  BY DEF FaultPage, IInv, Types
<1>8. g \in [N -> {f}]
  BY DEF Single
<1>9. u = Merge(g, h)
  OBVIOUS
<1>a. X = {z} /\ N = {x}
  OBVIOUS
<1> HIDE DEF x, z, q, g, e, c, h, u, X, N
<1>10. /\ DOMAIN u = N \cup (DOMAIN use \ X)
       /\ \A y \in N : u[y] = g[y]
       /\ \A y \in DOMAIN use \ X : u[y] = use[y]
       /\ u = [y \in DOMAIN u |-> u[y]]
  <2>1. /\ DOMAIN u = DOMAIN g \cup DOMAIN h
        /\ \A y \in DOMAIN g : u[y] = g[y]
        /\ \A y \in DOMAIN h : y \notin DOMAIN g => u[y] = h[y]
        /\ u = [y \in DOMAIN u |-> u[y]]
    BY <1>9 DEF Merge
  <2>2. \A y \in DOMAIN use \ X : y \notin N
    BY <1>1, <1>a
  <2> QED
    BY <1>4, <1>5, <2>1, <2>2
<1>11. FramesOf(X) = {f}
  BY <1>3, <1>a DEF FramesOf
<1>12. Fits(X, N, g, u)
  <2>1. X \subseteq DOMAIN use /\ FramesOf(X) \subseteq Frames
    BY <1>2, <1>3, <1>11, <1>a
  <2>2. g \in [N -> free \cup FramesOf(X)]
    BY <1>1, <1>8, <1>11
  <2>3. Distinct(N, g)
    BY <1>a DEF Distinct
  <2> QED
    BY <1>10, <2>1, <2>2, <2>3 DEF Fits
<1>13. PageContents(c, N)
  BY <1>4, <1>6, <1>7, <1>a DEF PageContents
<1>14. Fair(X, N, g, u, c)
  <2>1. Dropped(X, u) = {}
    BY <1>10 DEF Dropped
  <2> QED
    BY <1>10, <2>1 DEF Fair
<1>15. Sound /\ NoneLost
  BY InvParts
<1>16. FramesNext
  BY <1>1, <1>12, <1>13, <1>14, <1>15, RemapStep
<1>17. use' = u /\ free' = {}
  <2>1. use' = u /\ free' = (free \cup FramesOf(X)) \ Range(g)
    BY <1>1, <1>12, <1>15, RemapFrames
  <2> QED
    BY <1>1, <1>4, <1>11, <2>1
<1>18. /\ mem'[f] = e
       /\ \A k \in Frames : k # f => mem'[k] = mem[k]
  <2>1. /\ \A y \in DOMAIN c : mem'[g[y]] = c[y]
        /\ \A k \in Frames : k \notin free \cup FramesOf(X) => mem'[k] = mem[k]
    BY <1>1, <1>12, <1>13, <1>15, RemapMem
  <2> QED
    BY <1>1, <1>4, <1>11, <1>a, <2>1
<1>19. ASSUME NEW y \in DOMAIN use, y # z PROVE use[y] # f
  BY <1>3, <1>19 DEF IInv, Owned
<1>20. ASSUME NEW y \in DOMAIN use, y # z
       PROVE  use'[y] = use[y] /\ (use[y] \in Frames => mem'[use[y]] = mem[use[y]])
  BY <1>10, <1>17, <1>18, <1>19, <1>20, <1>a
<1>21. DOMAIN use' = (DOMAIN use \ {z}) \cup {x} /\ use'[x] = f
  BY <1>4, <1>10, <1>17, <1>a
<1> QED
  BY <1>1, <1>2, <1>3, <1>16, <1>17, <1>18, <1>20, <1>21 DEF SwapIs, x, z, e

LEMMA SwapStep ==
  ASSUME IInv, check_mm_struct # NULL,
         NEW m \in Live, NEW d \in Data, NEW v \in Pages(mmap_list[m]),
         NEW fails \in BOOLEAN, swap_out(m, v, d, fails)
  PROVE  IInv'
<1> DEFINE q == swap_out_victim(fails)
           f == Head(q)
           w == pra_vaddr[f]
           x == pte(boot_mm, v)
           z == pte(boot_mm, w)
           t == Tail(q)
<1>1. m = boot_mm /\ v \in CheckPages
  BY CheckState
<1>2. SwapIs(v, d, f, w) /\ f \in Range(pra_list)
  BY <1>1, Swapped
<1>3. /\ pra_list' = Append(t, f) /\ pra_vaddr' = [pra_vaddr EXCEPT ![f] = v]
      /\ disk' = Merge(Single(w, mem[f]), Restrict(disk, DOMAIN disk \ {v}))
      /\ UNCHANGED <<mmap_list, check_mm_struct, panicked, spread>>
      /\ free = {}
  BY DEF swap_out
<1>4. q \in Seq(Frames) /\ q # <<>> /\ NoDuplicates(q) /\ Range(q) = Range(pra_list) /\ f = Head(q)
  BY <1>3, Victim
<1>5. Len(x) = 4 /\ Len(z) = 4
  BY PageLength
<1>6. /\ FramesNext /\ free' = {}
      /\ f \in Frames /\ w \in CheckPages /\ z \in DOMAIN use /\ use[z] = f /\ x \notin DOMAIN use
      /\ DOMAIN use' = (DOMAIN use \ {z}) \cup {x} /\ use'[x] = f
      /\ \A y \in DOMAIN use : y # z => use'[y] = use[y]
  BY <1>2 DEF SwapIs
<1> HIDE DEF q, f, w, x, z
<1>7. t \in Seq(Frames) /\ NoDuplicates(t) /\ Range(t) = Range(pra_list) \ {f}
  BY <1>4, TailList
<1> HIDE DEF t
<1>8. pra_list' \in Seq(Frames) /\ NoDuplicates(pra_list') /\ Range(pra_list') = Range(t) \cup {f}
  BY <1>3, <1>6, <1>7, AppendList
<1>9. Range(pra_list') = Range(pra_list)
  BY <1>2, <1>7, <1>8
<1>10. PageFrames(use') = PageFrames(use)
  <2>1. ASSUME NEW y \in DOMAIN use, Len(y) = 4 PROVE use[y] \in PageFrames(use')
    <3>1. \E k \in DOMAIN use' : Len(k) = 4 /\ use'[k] = use[y]
      BY <1>5, <1>6, <2>1
    <3> QED
      BY <3>1 DEF PageFrames
  <2>2. ASSUME NEW y \in DOMAIN use', Len(y) = 4 PROVE use'[y] \in PageFrames(use)
    <3>1. \E k \in DOMAIN use : Len(k) = 4 /\ use[k] = use'[y]
      BY <1>5, <1>6, <2>2
    <3> QED
      BY <3>1 DEF PageFrames
  <2> QED
    BY <2>1, <2>2 DEF PageFrames
<1>11. pra_vaddr' \in [Frames -> CheckPages \cup {NULL}] /\ pra_vaddr'[f] = v
       /\ \A h \in Frames : h # f => pra_vaddr'[h] = pra_vaddr[h]
  BY <1>1, <1>3, <1>6, CheckFacts
<1>12. SwapList(pra_list', pra_vaddr', use')
  <2>1. ASSUME NEW h \in Range(pra_list')
        PROVE  /\ pra_vaddr'[h] \in CheckPages /\ pte(boot_mm, pra_vaddr'[h]) \in DOMAIN use'
               /\ use'[pte(boot_mm, pra_vaddr'[h])] = h
    <3>1. CASE h = f
      BY <1>1, <1>6, <1>11, <3>1 DEF x
    <3>2. CASE h # f
      <4>1. h \in Range(pra_list) /\ h \in Frames
        BY <1>9, CheckFacts, ListRange
      <4> DEFINE y == pte(boot_mm, pra_vaddr[h])
      <4>2. pra_vaddr[h] \in CheckPages /\ y \in DOMAIN use /\ use[y] = h
        BY <4>1, CheckFacts DEF SwapList
      <4>3. pra_vaddr'[h] = pra_vaddr[h]
        BY <1>11, <3>2, <4>1
      <4> HIDE DEF y
      <4>4. y \in DOMAIN use' /\ use'[y] = h
        BY <1>6, <3>2, <4>2
      <4> QED
        BY <4>2, <4>3, <4>4 DEF y
    <3> QED
      BY <3>1, <3>2
  <2>2. Range(pra_list') = PageFrames(use')
    BY <1>9, <1>10, CheckFacts DEF SwapList
  <2> QED
    BY <1>8, <2>1, <2>2 DEF SwapList
<1>13. disk' \in [DOMAIN disk' -> Data \cup {NULL}] /\ DOMAIN disk' \subseteq CheckPages
  <2> DEFINE a == Single(w, mem[f])
             b == Restrict(disk, DOMAIN disk \ {v})
             u == Merge(a, b)
  <2>1. DOMAIN a = {w} /\ a[w] = mem[f]
    BY SingleIs
  <2>2. DOMAIN b = DOMAIN disk \ {v} /\ \A y \in DOMAIN b : b[y] = disk[y]
    BY DEF Restrict
  <2>3. u = Merge(a, b) /\ disk' = u
    BY <1>3
  <2> HIDE DEF a, b, u
  <2>4. /\ DOMAIN u = DOMAIN a \cup DOMAIN b
        /\ \A y \in DOMAIN a : u[y] = a[y]
        /\ \A y \in DOMAIN b : y \notin DOMAIN a => u[y] = b[y]
        /\ u = [y \in DOMAIN u |-> u[y]]
    BY <2>3 DEF Merge
  <2>5. mem[f] \in Data \cup {NULL}
    BY <1>6 DEF IInv, Types
  <2>6. \A y \in DOMAIN u : u[y] \in Data \cup {NULL}
    BY <2>1, <2>2, <2>4, <2>5, CheckFacts
  <2>7. DOMAIN u \subseteq CheckPages
    BY <1>6, <2>1, <2>2, <2>4, CheckFacts
  <2> QED
    BY <2>3, <2>4, <2>6, <2>7
<1>14. DOMAIN use' \subseteq DOMAIN use \cup {pte(boot_mm, k) : k \in CheckPages}
  BY <1>1, <1>6 DEF x
<1>15. \A y \in CheckTables : y \in DOMAIN use' /\ use'[y] = use[y]
  <2>1. z \notin CheckTables
    BY <1>5, CheckLengths
  <2> QED
    BY <1>6, <2>1, CheckFacts
<1>16. \A y \in DOMAIN use' : Len(y) = 4 => use'[y] \in 3..CheckFrames + 2
  <2>1. f \in 3..CheckFrames + 2
    BY <1>5, <1>6, CheckFacts
  <2> QED
    BY <1>6, <2>1, CheckFacts
<1>17. free' \subseteq 3..CheckFrames + 2
  BY <1>6
<1> QED
  BY <1>3, <1>6, <1>8, <1>11, <1>12, <1>13, <1>14, <1>15, <1>16, <1>17, CheckInv

-----------------------------------------------------------------------------
(* The end of check_swap.                                                  *)
LEMMA EndStep ==
  ASSUME IInv, end_check_swap
  PROVE  IInv'
<1>1. /\ use' = <<>> /\ free' = Frames /\ ref' = [f \in Frames |-> 0]
      /\ mem' = [f \in Frames |-> NULL] /\ pra_list' = <<>>
      /\ pra_vaddr' = [f \in Frames |-> NULL] /\ disk' = <<>>
      /\ mmap_list' = [mmap_list EXCEPT ![boot_mm] = <<>>]
      /\ check_mm_struct' = NULL /\ panicked' = panicked /\ spread' = spread
      /\ check_mm_struct # NULL
  BY DEF end_check_swap
<1>2. DOMAIN use' = {} /\ DOMAIN disk' = {} /\ Range(use') = {}
  BY <1>1 DEF Range
<1>3. mmap_list \in [Mm -> Seq(Area)] /\ boot_mm \in Mm /\ \A m \in Mm \ {boot_mm} : mmap_list[m] = <<>>
  BY <1>1, Constants DEF IInv, Types, CheckPart
<1>4. mmap_list' \in [Mm -> Seq(Area)] /\ \A m \in Mm : mmap_list'[m] = <<>>
  BY <1>1, <1>3
<1>5. Types'
  <2>1. use' \in [DOMAIN use' -> 0..NFrame] /\ disk' \in [DOMAIN disk' -> Data \cup {NULL}]
    <3>1. use' = [x \in {} |-> {}] /\ disk' = [x \in {} |-> {}]
      BY <1>1
    <3> QED
      BY <3>1
  <2>2. pra_list' \in Seq(Frames)
    BY <1>1
  <2> QED
    BY <1>1, <1>2, <1>4, <2>1, <2>2 DEF IInv, Types, Frames
<1>6. Owned(use, free, ref, mem)'
  BY <1>1, <1>2 DEF Owned, Frames
<1>7. UserPart'
  BY <1>2, <1>4 DEF UserPart, UserTrees, Tree, OfM
<1>8. CheckPart' /\ SwapPart'
  BY <1>1 DEF CheckPart, SwapPart
<1>9. Lists'
  BY <1>4, NoArea DEF Lists, Compact
<1>10. NoneLost'
  BY <1>1 DEF NoneLost, Lost, Frames
<1> QED
  BY <1>5, <1>6, <1>7, <1>8, <1>9, <1>10 DEF IInv

-----------------------------------------------------------------------------
(* Fork.                                                                   *)
CopyIs(m, n, V) ==
  /\ V = Resident(use, m, mmap_list[m]) /\ V \subseteq Pages(mmap_list[m])
  /\ OfM(use, m) = Needs(m, V) /\ OfM(use, n) = {} /\ mmap_list[n] = <<>>
  /\ FramesNext
  /\ DOMAIN use' = Needs(n, V) \cup DOMAIN use
  /\ \A x \in DOMAIN use : use'[x] = use[x] /\ mem'[use[x]] = mem[use[x]]
  /\ \A v \in V : mem'[use'[pte(n, v)]] = mem[use[pte(m, v)]]

LEMMA Copied ==
  ASSUME IInv, check_mm_struct = NULL, NEW m \in Mm, NEW n \in Mm, copy_mm(m, n),
         NEW V, V = Resident(use, m, mmap_list[m])
  PROVE  CopyIs(m, n, V)
<1> DEFINE N == Needs(n, V)
           g == alloc_pages(free, N)
           D == {pte(n, v) : v \in V}
           old(x) == <<m, x[2], x[3], x[4]>>
           c == [x \in D |-> mem[use[old(x)]]]
<1>1. CopyNeeds(m, n) = N
  BY DEF CopyNeeds, Needs
<1>2. /\ m \in Live /\ n \notin Live /\ ~OutOfMemory(free, N)
      /\ Remap({}, g, c, Merge(g, use))
      /\ check_mm_struct' = check_mm_struct /\ spread' = spread
  BY <1>1 DEF copy_mm
<1>3. OfM(use, m) = Needs(m, V) /\ V \subseteq Pages(mmap_list[m])
  BY <1>2, LiveGrown
<1>4. OfM(use, n) = {} /\ mmap_list[n] = <<>>
  <2>1. Tree(use, n, mmap_list[n]) /\ <<n>> \notin DOMAIN use
    BY <1>2, UserEntries DEF Live
  <2> QED
    BY <2>1 DEF Tree
<1>5. V \subseteq Nat /\ IsFiniteSet(V)
  BY <1>3, AreasOf, FS_Subset
<1>6. N \subseteq Entry(n) /\ IsFiniteSet(N)
  BY <1>5, NeedsFinite
<1>7. N \cap DOMAIN use = {}
  <2>1. \A x \in N : x[1] = n
    BY NeedsMembers
  <2> HIDE DEF N
  <2> QED
    BY <1>4, <2>1 DEF OfM
<1>8. ASSUME NEW v \in V PROVE old(pte(n, v)) = pte(m, v) /\ pte(m, v) \in DOMAIN use
  BY DEF pte, Resident
<1>9. ASSUME NEW v \in V PROVE pte(n, v) \in D /\ c[pte(n, v)] = mem[use[pte(m, v)]]
  BY <1>8
<1>10. DOMAIN c = D /\ \A x \in D : \E v \in V : x = pte(n, v)
  OBVIOUS
<1>a. g = alloc_pages(free, N)
  OBVIOUS
<1> HIDE DEF N, g, D, old, c
<1>11. PageContents(c, N)
  <2>1. ASSUME NEW x \in D PROVE x \in N /\ Len(x) = 4 /\ c[x] \in Data \cup {NULL}
    <3>1. PICK v \in V : x = pte(n, v)
      BY <1>10
    <3>2. x \in N
      BY <3>1, NeedsHas DEF N
    <3>3. Len(x) = 4
      BY <3>1, PageLength
    <3>4. use[pte(m, v)] \in Frames
      BY <1>8, PageFrame
    <3>5. mem[use[pte(m, v)]] \in Data \cup {NULL}
      BY <3>4 DEF IInv, Types
    <3> QED
      BY <1>9, <3>1, <3>2, <3>3, <3>5
  <2> QED
    BY <1>10, <2>1 DEF PageContents
<1>12. Got(N, g, c)
  BY <1>2, <1>6, <1>7, <1>11, <1>a, GetFrames
<1>13. ASSUME NEW v \in V PROVE mem'[use'[pte(n, v)]] = mem[use[pte(m, v)]]
  BY <1>9, <1>10, <1>12 DEF Got
<1>14. \A x \in DOMAIN use : use[x] \in Frames
  BY UserEntries
<1> QED
  BY <1>3, <1>4, <1>12, <1>13, <1>14 DEF CopyIs, Got, N

LEMMA CopyStep ==
  ASSUME IInv, check_mm_struct = NULL, NEW m \in Mm, NEW n \in Mm, copy_mm(m, n)
  PROVE  IInv'
<1> DEFINE V == Resident(use, m, mmap_list[m])
           A == mmap_list[m]
<1>1. CopyIs(m, n, V)
  BY Copied
<1>2. mmap_list' = [mmap_list EXCEPT ![n] = A] /\ UNCHANGED <<swap, check_mm_struct, panicked, spread>>
  BY DEF copy_mm
<1> HIDE DEF V
<1>3. /\ V \subseteq Pages(A) /\ OfM(use, n) = {} /\ FramesNext
      /\ DOMAIN use' = Needs(n, V) \cup DOMAIN use
  BY <1>1 DEF CopyIs
<1>4. A \in Seq(Area) /\ Pages(A) \subseteq Nat
  BY AreasOf
<1>5. \A x \in Needs(n, V) : x[1] = n
  BY NeedsMembers
<1>6. OfM(use', n) = Needs(n, V)
  BY <1>3, <1>5 DEF OfM
<1> HIDE DEF A
<1>7. Tree(use', n, A)
  BY <1>3, <1>4, <1>6, GrownTree
<1>8. Others(use', n)
  BY <1>3, <1>5 DEF Others
<1>9. UserTrees(use', mmap_list')
  BY <1>2, <1>7, <1>8, OtherTrees
<1>10. mmap_list \in [Mm -> Seq(Area)] /\ spread \in BOOLEAN /\ Lists
  BY DEF IInv, Types
<1>11. mmap_list' \in [Mm -> Seq(Area)] /\ spread' \in BOOLEAN
  BY <1>2, <1>4, <1>10
<1>12. Lists'
  <2>1. \A k \in Mm : mmap_list'[k] = mmap_list[k] \/ mmap_list'[k] = mmap_list[m]
    BY <1>2, <1>10 DEF A
  <2>2. spread' = spread
    BY <1>2
  <2> QED
    BY <1>10, <2>1, <2>2 DEF Lists
<1> QED
  BY <1>2, <1>3, <1>9, <1>11, <1>12, UserInv

-----------------------------------------------------------------------------
(* An address space that goes: its entries X, and what is left.            *)
Leaves(m, X) ==
  /\ X \subseteq OfM(use, m) /\ X \subseteq DOMAIN use
  /\ FramesOf(X) \subseteq Frames
  /\ \A x \in OfM(use, m) \ X : Len(x) < 4 /\ spread

LEMMA ReplacedLeaves ==
  ASSUME IInv, check_mm_struct = NULL, NEW m \in Mm, NEW X, X = Replaced(m)
  PROVE  Leaves(m, X)
<1> DEFINE A == mmap_list[m]
<1>1. X \subseteq OfM(use, m) => X \subseteq DOMAIN use /\ FramesOf(X) \subseteq Frames
  BY UserEntries DEF OfM
<1>2. CASE m \in Live
  <2>1. X = exit_mmap(use, m, A)
    BY <1>2 DEF Replaced
  <2>2. A \in Seq(Area) /\ Grown(use, m, A)
    BY <1>2, AreasOf, LiveGrown DEF Grown
  <2> HIDE DEF A
  <2>3. /\ X \subseteq OfM(use, m)
        /\ \A x \in OfM(use, m) : Len(x) = 4 => x \in X
        /\ Compact(A) => X = OfM(use, m)
    BY <2>1, <2>2, SpaceFreed
  <2>4. ~spread => Compact(A)
    BY DEF A, IInv, Lists
  <2>5. ASSUME NEW x \in OfM(use, m) \ X PROVE Len(x) < 4 /\ spread
    <3> DEFINE l == Len(x)
    <3>1. x \in Needs(m, Resident(use, m, A))
      BY <2>2 DEF Grown
    <3>2. l \in 1..4
      BY <3>1, NeedsMembers
    <3>3. l # 4
      BY <2>3
    <3> HIDE DEF l
    <3>4. l < 4
      BY <3>2, <3>3
    <3>5. spread
      BY <2>3, <2>4
    <3> QED
      BY <3>4, <3>5 DEF l
  <2> QED
    BY <1>1, <2>3, <2>5 DEF Leaves
<1>3. CASE m \notin Live
  <2>1. X = {}
    BY <1>3 DEF Replaced
  <2>2. Tree(use, m, A) /\ <<m>> \notin DOMAIN use
    BY <1>3, UserEntries DEF Live
  <2>3. OfM(use, m) = {}
    BY <2>2 DEF Tree
  <2> QED
    BY <1>1, <2>1, <2>3 DEF Leaves
<1> QED
  BY <1>2, <1>3

(* The frames when m goes and g comes for it.  Dropped are the entries     *)
(* that exit_mmap has left.                                                *)
LEMMA ReplaceFair ==
  ASSUME NEW m, NEW X, Leaves(m, X), NEW u,
         \A x \in DOMAIN use : x[1] # m => x \in DOMAIN u /\ u[x] = use[x],
         spread => spread'
  PROVE  \A x \in Dropped(X, u) : Len(x) < 4 /\ spread'
BY DEF Leaves, Dropped, OfM

LEMMA Kept ==
  ASSUME IInv, NEW m, NEW X, Leaves(m, X), NEW x \in DOMAIN use, x[1] # m
  PROVE  use[x] \notin free /\ use[x] \notin FramesOf(X)
<1>1. ASSUME NEW z \in X PROVE use[z] # use[x]
  BY DEF Leaves, OfM, IInv, Owned
<1> QED
  BY <1>1 DEF FramesOf, IInv, Owned

-----------------------------------------------------------------------------
(* Exit.                                                                   *)
GoneIs(m) ==
  /\ DOMAIN use' = {x \in DOMAIN use : x[1] # m}
  /\ \A x \in DOMAIN use' : use'[x] = use[x] /\ mem'[use[x]] = mem[use[x]]

LEMMA Exited ==
  ASSUME IInv, check_mm_struct = NULL, NEW m \in Mm, do_exit(m)
  PROVE  FramesNext /\ GoneIs(m)
<1> DEFINE X == Replaced(m)
           g == <<>>
           u == Without(use, m)
           N == {}
<1>1. /\ m \in Live /\ Remap(X, g, g, u)
      /\ check_mm_struct' = check_mm_struct /\ spread' = spread
  BY DEF do_exit, Replaced
<1>2. Leaves(m, X)
  BY ReplacedLeaves
<1>3. /\ DOMAIN u = {x \in DOMAIN use : x[1] # m}
      /\ \A x \in DOMAIN u : u[x] = use[x]
      /\ u = [x \in DOMAIN u |-> u[x]]
  <2>1. u = Without(use, m)
    OBVIOUS
  <2> HIDE DEF u
  <2> QED
    BY <2>1 DEF Without, Restrict
<1>4. DOMAIN g = {} /\ Range(g) = {} /\ N = {}
  BY DEF Range
<1>5. g \in [N -> free \cup FramesOf(X)]
  <2>1. g = [x \in {} |-> {}]
    OBVIOUS
  <2> QED
    BY <2>1
<1> HIDE DEF X, u, g, N
<1>6. Fits(X, N, g, u)
  BY <1>2, <1>3, <1>4, <1>5 DEF Fits, Leaves, OfM, Distinct
<1>7. PageContents(g, N)
  BY <1>4 DEF PageContents
<1>8. Fair(X, N, g, u, g)
  <2>1. \A x \in Dropped(X, u) : Len(x) < 4 /\ spread'
    BY <1>1, <1>2, <1>3, ReplaceFair
  <2> QED
    BY <1>4, <2>1 DEF Fair
<1>9. Sound /\ NoneLost
  BY InvParts
<1>10. FramesNext
  BY <1>1, <1>6, <1>7, <1>8, <1>9, RemapStep
<1>11. use' = u
  BY <1>1, <1>6, <1>9, RemapFrames
<1>12. \A f \in Frames : f \notin free \cup FramesOf(X) => mem'[f] = mem[f]
  BY <1>1, <1>6, <1>7, <1>9, RemapMem
<1>13. \A x \in DOMAIN u : mem'[use[x]] = mem[use[x]]
  BY <1>2, <1>3, <1>12, Kept, UserEntries
<1> QED
  BY <1>3, <1>10, <1>11, <1>13 DEF GoneIs

LEMMA ExitStep ==
  ASSUME IInv, check_mm_struct = NULL, NEW m \in Mm, do_exit(m)
  PROVE  IInv'
<1>1. FramesNext /\ GoneIs(m)
  BY Exited
<1>2. mmap_list' = [mmap_list EXCEPT ![m] = <<>>] /\ UNCHANGED <<swap, check_mm_struct, panicked, spread>>
  BY DEF do_exit
<1>3. Tree(use', m, <<>>)
  BY <1>1 DEF GoneIs, Tree, OfM
<1>4. Others(use', m)
  BY <1>1 DEF GoneIs, Others
<1>5. UserTrees(use', mmap_list')
  BY <1>2, <1>3, <1>4, OtherTrees
<1>6. mmap_list \in [Mm -> Seq(Area)] /\ spread \in BOOLEAN /\ Lists
  BY DEF IInv, Types
<1>7. mmap_list' \in [Mm -> Seq(Area)] /\ spread' \in BOOLEAN
  BY <1>2, <1>6
<1>8. Lists'
  <2>1. \A k \in Mm : mmap_list'[k] = mmap_list[k] \/ mmap_list'[k] = <<>>
    BY <1>2, <1>6
  <2>2. Pages(<<>>) = {} /\ Compact(<<>>)
    BY NoArea DEF Compact
  <2> QED
    BY <1>2, <1>6, <2>1, <2>2 DEF Lists
<1> QED
  BY <1>1, <1>2, <1>5, <1>7, <1>8, UserInv

-----------------------------------------------------------------------------
(* Exec: the pages that load_icode allocates.                              *)
NewPages(y) == (Pages(y.areas) \ Pages(<<Stack>>)) \cup (IF y.failed THEN {} ELSE StackPages)

LEMMA LoadNeeds ==
  ASSUME NEW prog \in Programs, NEW y, y = LoadAreas(prog), NEW m, NEW V, V = NewPages(y)
  PROVE  /\ load_icode(m, prog) = Needs(m, V)
         /\ V \subseteq Pages(y.areas) /\ V \subseteq Nat /\ IsFiniteSet(V)
         /\ y.areas \in Seq(Area) /\ Pages(y.areas) \subseteq Nat
         /\ y.failed \in BOOLEAN
<1>1. y \in Load /\ (~y.failed => Pages(y.areas) = Pages(prog.segs) \cup Span(Stack))
  BY ProgramLoaded
<1>2. y.areas \in Seq(Area) /\ y.failed \in BOOLEAN
  BY <1>1 DEF Load
<1>3. Pages(y.areas) \subseteq Nat /\ IsFiniteSet(Pages(y.areas))
  BY <1>2, PagesAre
<1>4. StackPages \subseteq Span(Stack)
  BY Constants DEF Span
<1>5. V \subseteq Pages(y.areas)
  BY <1>1, <1>4 DEF NewPages
<1>6. V \subseteq Nat /\ IsFiniteSet(V)
  BY <1>3, <1>5, FS_Subset
<1>7. load_icode(m, prog) = Needs(m, V)
  BY DEF load_icode, Needs, NewPages
<1> QED
  BY <1>2, <1>3, <1>5, <1>6, <1>7

(* What is left of a program that could not be loaded: tables, and only    *)
(* when it is spread.                                                      *)
LEMMA ProgramPages ==
  ASSUME NEW prog \in Programs
  PROVE  Pages(Append(prog.segs, Stack)) = Pages(prog.segs) \cup Span(Stack)
<1> DEFINE q == prog.segs
           l == Len(q)
           s == Append(q, Stack)
<1>1. q \in Seq(Area) /\ Stack \in Area
  BY Constants
<1> HIDE DEF q
<1>2. /\ l \in Nat /\ DOMAIN q = 1..l /\ DOMAIN s = 1..l + 1
      /\ s[l + 1] = Stack /\ \A i \in 1..l : s[i] = q[i]
  BY <1>1
<1> HIDE DEF s, l
<1>3. 1..l + 1 = (1..l) \cup {l + 1}
  BY <1>2
<1>4. Pages(s) = UNION {Span(s[i]) : i \in DOMAIN s} /\ Pages(q) = UNION {Span(q[i]) : i \in DOMAIN q}
  BY DEF Pages, Span
<1>5. Pages(s) = Pages(q) \cup Span(Stack)
  BY <1>2, <1>3, <1>4
<1> QED
  BY <1>5 DEF s, q

LEMMA PartCompact ==
  ASSUME NEW prog \in Programs, NEW y, y = LoadAreas(prog), Compact(Append(prog.segs, Stack))
  PROVE  Compact(y.areas)
<1>1. Pages(y.areas) \subseteq Pages(Append(prog.segs, Stack))
  BY ProgramLoaded, ProgramPages
<1> QED
  BY <1>1 DEF Compact

LEMMA LoadLeft ==
  ASSUME NEW prog \in Programs, NEW y, y = LoadAreas(prog), NEW m, NEW V, V = NewPages(y),
         NEW g, DOMAIN g = Needs(m, V), NEW T, T = DOMAIN g \ exit_mmap(g, m, y.areas)
  PROVE  /\ \A x \in T : Len(x) # 4
         /\ Compact(Append(prog.segs, Stack)) => T = {}
<1> DEFINE A == y.areas
           X == exit_mmap(g, m, A)
<1>1. V \subseteq Pages(A) /\ A \in Seq(Area) /\ Pages(A) \subseteq Nat
  BY LoadNeeds
<1>2. OfM(g, m) = Needs(m, V) /\ OfM(g, m) = DOMAIN g
  <2>1. \A x \in Needs(m, V) : x[1] = m
    BY NeedsMembers
  <2> QED
    BY <2>1 DEF OfM
<1>3. Compact(Append(prog.segs, Stack)) => Compact(A)
  BY PartCompact
<1> HIDE DEF A
<1>4. Grown(g, m, A)
  BY <1>1, <1>2, ResidentAre DEF Grown
<1>5. /\ \A x \in OfM(g, m) : Len(x) = 4 => x \in X
      /\ Compact(A) => X = OfM(g, m)
  BY <1>1, <1>4, SpaceFreed
<1>6. T = DOMAIN g \ X
  BY DEF A
<1> HIDE DEF X
<1> QED
  BY <1>2, <1>3, <1>5, <1>6

Stays(m) == \A x \in DOMAIN use : x[1] # m => use'[x] = use[x] /\ mem'[use[x]] = mem[use[x]]

OtherEntries(m) == {x \in DOMAIN use : x[1] # m}

(* The frames of the new program: a frame of its own for every entry.      *)
LEMMA LoadFrames ==
  ASSUME IInv, check_mm_struct = NULL, NEW m \in Mm, NEW X, X = Replaced(m),
         NEW prog \in Programs, NEW y, y = LoadAreas(prog), NEW V, V = NewPages(y),
         NEW F, F = free \cup Freed(X), ~OutOfMemory(F, load_icode(m, prog)),
         NEW g, g = alloc_pages(F, load_icode(m, prog))
  PROVE  /\ F = free \cup FramesOf(X)
         /\ DOMAIN g = Needs(m, V) /\ g \in [Needs(m, V) -> F] /\ Distinct(Needs(m, V), g)
<1> DEFINE N == Needs(m, V)
<1>1. Leaves(m, X)
  BY ReplacedLeaves
<1>2. Freed(X) = FramesOf(X)
  BY <1>1, InvParts, RefsLeft DEF Leaves
<1>3. F = free \cup FramesOf(X) /\ F \subseteq Frames
  BY <1>1, <1>2 DEF Leaves, IInv, Types
<1>4. F \subseteq Nat /\ IsFiniteSet(F)
  BY <1>3, FreeFinite, FS_Subset
<1>5. load_icode(m, prog) = N /\ IsFiniteSet(N) /\ N \subseteq Entry(m)
  BY LoadNeeds, NeedsFinite
<1> HIDE DEF N
<1>6. g \in [N -> F] /\ Distinct(N, g)
  BY <1>4, <1>5, Allocated
<1> QED
  BY <1>3, <1>6 DEF N

(* load_icode has set the program up.                                      *)
ExecIs(m, prog, V) ==
  /\ FramesNext /\ Stays(m)
  /\ DOMAIN use' = Needs(m, V) \cup OtherEntries(m)
  /\ \A v \in V : mem'[use'[pte(m, v)]] = prog.data

LEMMA Executed ==
  ASSUME IInv, check_mm_struct = NULL, NEW m \in Mm, NEW prog \in Programs, do_execve(m, prog),
         NEW y, y = LoadAreas(prog), ~y.failed, NEW V, V = NewPages(y)
  PROVE  ExecIs(m, prog, V)
<1> DEFINE X == Replaced(m)
           F == free \cup Freed(X)
           N == Needs(m, V)
           g == alloc_pages(F, load_icode(m, prog))
           h == Without(use, m)
           u == Merge(g, h)
           D == {x \in N : Len(x) = 4}
           c == [x \in D |-> prog.data]
           k == Restrict(g, N)
<1>1. /\ ~OutOfMemory(F, load_icode(m, prog))
      /\ F = free \cup FramesOf(X)
      /\ DOMAIN g = N /\ g \in [N -> F] /\ Distinct(N, g)
  <2>1. ~OutOfMemory(F, load_icode(m, prog))
    BY DEF do_execve
  <2> HIDE DEF X
  <2> QED
    BY <2>1, LoadFrames DEF X
<1>2. /\ Remap(X, k, c, u)
      /\ check_mm_struct' = check_mm_struct /\ spread => spread'
  BY <1>1 DEF do_execve
<1>3. Leaves(m, X)
  BY ReplacedLeaves
<1>4. k = g
  BY <1>1 DEF Restrict
<1>5. /\ DOMAIN h = OtherEntries(m)
      /\ \A x \in DOMAIN h : h[x] = use[x]
  BY DEF Without, Restrict, OtherEntries
<1>6. \A x \in N : x[1] = m
  BY NeedsMembers
<1>7. DOMAIN c = D /\ \A x \in D : x \in N /\ Len(x) = 4 /\ c[x] = prog.data
  OBVIOUS
<1>8. u = Merge(g, h)
  OBVIOUS
<1>9. prog.data \in Data
  BY Constants
<1>a. \A v \in V : pte(m, v) \in D
  BY NeedsHas, PageLength
<1>b. check_mm_struct' = check_mm_struct /\ (spread => spread')
  BY DEF do_execve
<1> HIDE DEF X, F, N, g, h, u, D, c, k
<1>10. /\ DOMAIN u = N \cup OtherEntries(m)
       /\ \A x \in N : u[x] = g[x]
       /\ \A x \in OtherEntries(m) : u[x] = use[x]
       /\ u = [x \in DOMAIN u |-> u[x]]
  <2>1. /\ DOMAIN u = DOMAIN g \cup DOMAIN h
        /\ \A x \in DOMAIN g : u[x] = g[x]
        /\ \A x \in DOMAIN h : x \notin DOMAIN g => u[x] = h[x]
        /\ u = [x \in DOMAIN u |-> u[x]]
    BY <1>8 DEF Merge
  <2>2. \A x \in OtherEntries(m) : x \notin N
    BY <1>6 DEF OtherEntries
  <2> QED
    BY <1>1, <1>5, <2>1, <2>2
<1>11. Fits(X, N, g, u)
  <2>1. \A x \in OtherEntries(m) : x \in DOMAIN use \ X
    BY <1>3 DEF Leaves, OfM, OtherEntries
  <2> QED
    BY <1>1, <1>3, <1>10, <2>1 DEF Fits, Leaves
<1>12. PageContents(c, N)
  BY <1>7, <1>9 DEF PageContents
<1>13. Fair(X, N, g, u, c)
  <2>1. \A x \in DOMAIN use : x[1] # m => x \in DOMAIN u /\ u[x] = use[x]
    BY <1>10 DEF OtherEntries
  <2>2. \A x \in Dropped(X, u) : Len(x) < 4 /\ spread'
    BY <1>b, <1>3, <2>1, ReplaceFair
  <2> QED
    BY <1>10, <2>2 DEF Fair
<1>14. Sound /\ NoneLost
  BY InvParts
<1>15. Remap(X, g, c, u)
  BY <1>2, <1>4
<1>16. FramesNext
  BY <1>b, <1>11, <1>12, <1>13, <1>14, <1>15, RemapStep
<1>17. use' = u
  BY <1>11, <1>14, <1>15, RemapFrames
<1>18. /\ \A x \in DOMAIN c : mem'[g[x]] = c[x]
       /\ \A f \in Frames : f \notin free \cup FramesOf(X) => mem'[f] = mem[f]
  BY <1>11, <1>12, <1>14, <1>15, RemapMem
<1>19. Stays(m)
  BY <1>3, <1>10, <1>17, <1>18, Kept, UserEntries DEF Stays, OtherEntries
<1>20. \A v \in V : mem'[use'[pte(m, v)]] = prog.data
  BY <1>a, <1>7, <1>10, <1>17, <1>18
<1> QED
  BY <1>10, <1>16, <1>17, <1>19, <1>20 DEF ExecIs, N

(* load_icode has failed.                                                  *)
LEMMA ExecFailed ==
  ASSUME IInv, check_mm_struct = NULL, NEW m \in Mm, NEW prog \in Programs, do_execve(m, prog),
         NEW y, y = LoadAreas(prog), y.failed, NEW V, V = NewPages(y)
  PROVE  FramesNext /\ GoneIs(m)
<1> DEFINE X == Replaced(m)
           F == free \cup Freed(X)
           N == Needs(m, V)
           g == alloc_pages(F, load_icode(m, prog))
           u == Without(use, m)
           T == DOMAIN g \ exit_mmap(g, m, y.areas)
           D == {x \in T : Len(x) = 4}
           c == [x \in D |-> prog.data]
           k == Restrict(g, T)
<1>1. /\ ~OutOfMemory(F, load_icode(m, prog))
      /\ F = free \cup FramesOf(X)
      /\ DOMAIN g = N /\ g \in [N -> F] /\ Distinct(N, g)
  <2>1. ~OutOfMemory(F, load_icode(m, prog))
    BY DEF do_execve
  <2> HIDE DEF X
  <2> QED
    BY <2>1, LoadFrames DEF X
<1>2. Remap(X, k, c, u) /\ spread' = (spread \/ ~Compact(Append(prog.segs, Stack)))
      /\ check_mm_struct' = check_mm_struct
  BY DEF do_execve
<1>3. Leaves(m, X)
  BY ReplacedLeaves
<1>4. T \subseteq N /\ DOMAIN k = T /\ \A x \in T : k[x] = g[x]
  BY <1>1 DEF Restrict
<1>5. (\A x \in T : Len(x) # 4) /\ (Compact(Append(prog.segs, Stack)) => T = {})
  <2> HIDE DEF g
  <2> QED
    BY <1>1, LoadLeft
<1>6. D = {} /\ DOMAIN c = D
  BY <1>5
<1>7. /\ DOMAIN u = OtherEntries(m)
      /\ \A x \in DOMAIN u : u[x] = use[x]
      /\ u = [x \in DOMAIN u |-> u[x]]
  <2>1. u = Without(use, m)
    OBVIOUS
  <2> HIDE DEF u
  <2> QED
    BY <2>1 DEF Without, Restrict, OtherEntries
<1>8. k = [x \in T |-> g[x]]
  BY DEF Restrict
<1> HIDE DEF X, F, N, g, u, T, D, c, k
<1>9. k \in [T -> free \cup FramesOf(X)] /\ Distinct(T, k)
  <2>1. \A x \in T : k[x] \in F
    BY <1>1, <1>4
  <2>2. k = [x \in T |-> k[x]]
    BY <1>8
  <2> QED
    BY <1>1, <1>4, <2>1, <2>2 DEF Distinct
<1>10. Fits(X, T, k, u)
  <2>1. \A x \in OtherEntries(m) : x \in DOMAIN use \ X
    BY <1>3 DEF Leaves, OfM, OtherEntries
  <2> QED
    BY <1>3, <1>7, <1>9, <2>1 DEF Fits, Leaves
<1>11. PageContents(c, T)
  BY <1>6 DEF PageContents
<1>12. Fair(X, T, k, u, c)
  <2>1. \A x \in DOMAIN use : x[1] # m => x \in DOMAIN u /\ u[x] = use[x]
    BY <1>7 DEF OtherEntries
  <2>2. \A x \in Dropped(X, u) : Len(x) < 4 /\ spread'
    BY <1>2, <1>3, <2>1, ReplaceFair
  <2> QED
    BY <1>2, <1>5, <1>6, <2>2 DEF Fair
<1>13. Sound /\ NoneLost
  BY InvParts
<1>14. FramesNext
  BY <1>2, <1>10, <1>11, <1>12, <1>13, RemapStep
<1>15. use' = u
  BY <1>2, <1>10, <1>13, RemapFrames
<1>16. \A f \in Frames : f \notin free \cup FramesOf(X) => mem'[f] = mem[f]
  BY <1>2, <1>10, <1>11, <1>13, RemapMem
<1>17. \A x \in DOMAIN u : mem'[use[x]] = mem[use[x]]
  BY <1>3, <1>7, <1>16, Kept, UserEntries DEF OtherEntries
<1> QED
  BY <1>7, <1>14, <1>15, <1>17 DEF GoneIs, OtherEntries

LEMMA ProgramInVa ==
  ASSUME NEW prog \in Programs, NEW y, y = LoadAreas(prog)
  PROVE  Pages(y.areas) \subseteq Va
<1>1. Pages(y.areas) \subseteq Pages(prog.segs) \cup Span(Stack)
  BY ProgramLoaded
<1>2. Pages(<<Stack>>) = Span(Stack)
  BY OneArea DEF Span
<1> QED
  BY <1>1, <1>2 DEF Va

LEMMA ExecStep ==
  ASSUME IInv, check_mm_struct = NULL, NEW m \in Mm, NEW prog \in Programs, do_execve(m, prog)
  PROVE  IInv'
<1> DEFINE y == LoadAreas(prog)
           V == NewPages(y)
           A == IF y.failed THEN <<>> ELSE y.areas
<1>1. mmap_list' = [mmap_list EXCEPT ![m] = A]
      /\ spread' = (spread \/ ~Compact(Append(prog.segs, Stack)))
      /\ UNCHANGED <<swap, check_mm_struct, panicked>>
  BY DEF do_execve
<1>2. /\ V \subseteq Pages(y.areas) /\ y.areas \in Seq(Area) /\ Pages(y.areas) \subseteq Nat
      /\ y.failed \in BOOLEAN
  <2> DEFINE z == y
             W == V
  <2>1. z = LoadAreas(prog) /\ W = NewPages(z)
    OBVIOUS
  <2> HIDE DEF z, W
  <2>2. W \subseteq Pages(z.areas) /\ z.areas \in Seq(Area) /\ Pages(z.areas) \subseteq Nat /\ z.failed \in BOOLEAN
    BY <2>1, LoadNeeds
  <2> QED
    BY <2>2 DEF z, W
<1>3. Pages(y.areas) \subseteq Va /\ (Compact(Append(prog.segs, Stack)) => Compact(y.areas))
  BY ProgramInVa, PartCompact
<1>4. y.failed => FramesNext /\ GoneIs(m)
  BY ExecFailed
<1>5. ~y.failed => ExecIs(m, prog, V)
  BY Executed
<1>a. A = IF y.failed THEN <<>> ELSE y.areas
  OBVIOUS
<1> HIDE DEF y, V, A
<1>6. A \in Seq(Area)
  BY <1>2, <1>a
<1>7. FramesNext /\ Tree(use', m, A) /\ Others(use', m)
  <2>1. CASE y.failed
    <3>1. Tree(use', m, <<>>)
      BY <1>4, <2>1 DEF GoneIs, Tree, OfM
    <3>2. Others(use', m)
      BY <1>4, <2>1 DEF GoneIs, Others
    <3> QED
      BY <1>4, <1>a, <2>1, <3>1, <3>2
  <2>2. CASE ~y.failed
    <3>1. A = y.areas
      BY <1>a, <2>2
    <3>2. DOMAIN use' = Needs(m, V) \cup OtherEntries(m) /\ FramesNext
      BY <1>5, <2>2 DEF ExecIs
    <3>3. \A x \in Needs(m, V) : x[1] = m
      BY NeedsMembers
    <3>4. OfM(use', m) = Needs(m, V)
      BY <3>2, <3>3 DEF OfM, OtherEntries
    <3>5. Tree(use', m, A)
      BY <1>2, <3>1, <3>4, GrownTree
    <3>6. Others(use', m)
      BY <3>2, <3>3 DEF Others, OtherEntries
    <3> QED
      BY <3>2, <3>5, <3>6
  <2> QED
    BY <2>1, <2>2
<1>8. UserTrees(use', mmap_list')
  BY <1>1, <1>7, OtherTrees
<1>9. mmap_list \in [Mm -> Seq(Area)] /\ spread \in BOOLEAN /\ Lists
  BY DEF IInv, Types
<1>10. mmap_list' \in [Mm -> Seq(Area)]
  BY <1>1, <1>6, <1>9
<1>11. spread' \in BOOLEAN
  BY <1>1, <1>9
<1>12. Pages(A) \subseteq Va /\ (~spread' => Compact(A))
  <2>1. Pages(<<>>) = {} /\ Compact(<<>>)
    BY NoArea DEF Compact
  <2>2. ~spread' => Compact(Append(prog.segs, Stack))
    BY <1>1
  <2>3. CASE y.failed
    BY <1>a, <2>1, <2>3
  <2>4. CASE ~y.failed
    BY <1>3, <1>a, <2>2, <2>4
  <2> QED
    BY <2>3, <2>4
<1>13. Lists'
  <2>1. \A n \in Mm : mmap_list'[n] = mmap_list[n] \/ mmap_list'[n] = A
    BY <1>1, <1>9
  <2>2. ~spread' => ~spread
    BY <1>1
  <2> QED
    BY <1>9, <1>12, <2>1, <2>2 DEF Lists
<1> QED
  BY <1>1, <1>7, <1>8, <1>10, <1>11, <1>13, UserInv

-----------------------------------------------------------------------------
(* The initial state.                                                      *)
LEMMA CheckBounds ==
  /\ CheckPages \subseteq Nat
  /\ Lowest(CheckPages) \in Nat /\ Highest(CheckPages) \in Nat
  /\ CheckPages = Lowest(CheckPages)..Highest(CheckPages)
  /\ Lowest(CheckPages) <= Highest(CheckPages)
<1>1. PICK a, b \in 0..NEntry - 1 : a <= b /\ CheckPages = a..b
  BY VmAssumption
<1>2. a \in Nat /\ b \in Nat
  BY <1>1, Constants
<1>3. Lowest(CheckPages) = a
  <2>1. a \in CheckPages /\ \A k \in CheckPages : a <= k
    BY <1>1, <1>2
  <2>2. \A n \in CheckPages : (\A k \in CheckPages : n <= k) => n = a
    BY <1>1, <1>2, <2>1
  <2> QED
    BY <2>1, <2>2 DEF Lowest
<1>4. Highest(CheckPages) = b
  <2>1. b \in CheckPages /\ \A k \in CheckPages : k <= b
    BY <1>1, <1>2
  <2>2. \A n \in CheckPages : (\A k \in CheckPages : k <= n) => n = b
    BY <1>1, <1>2, <2>1
  <2> QED
    BY <2>1, <2>2 DEF Highest
<1> QED
  BY <1>1, <1>2, <1>3, <1>4

LEMMA InitInv ==
  ASSUME Init
  PROVE  IInv
<1> DEFINE lo == Lowest(CheckPages)
           hi == Highest(CheckPages)
           a == [start |-> lo, end |-> hi + 1, write |-> TRUE]
<1>1. lo \in Nat /\ hi \in Nat /\ CheckPages = lo..hi /\ lo <= hi
  BY CheckBounds
<1>2. /\ mmap_list = [m \in Mm |-> IF m # boot_mm THEN <<>> ELSE <<a>>]
      /\ use = [x \in CheckTables |-> Len(x) - 1]
      /\ free = 3..CheckFrames + 2
      /\ ref = [f \in Frames |-> IF f \in {1, 2} THEN 1 ELSE 0]
      /\ mem = [f \in Frames |-> NULL]
      /\ pra_list = <<>> /\ pra_vaddr = [f \in Frames |-> NULL] /\ disk = <<>>
      /\ check_mm_struct = boot_mm /\ panicked = FALSE /\ spread = FALSE
  BY DEF Init, CheckTables
<1> HIDE DEF lo, hi
<1>3. a \in Area /\ a.start = lo /\ a.end - 1 = hi
  BY <1>1 DEF Area
<1> HIDE DEF a
<1>4. Pages(<<a>>) = CheckPages
  BY <1>1, <1>3, OneArea
<1>5. /\ mmap_list[boot_mm] = <<a>> /\ boot_mm \in Mm /\ NULL # boot_mm
      /\ \A m \in Mm \ {boot_mm} : mmap_list[m] = <<>>
      /\ mmap_list \in [Mm -> Seq(Area)]
  BY <1>2, <1>3, Constants
<1>6. /\ DOMAIN use = CheckTables
      /\ use[<<boot_mm>>] = 0 /\ use[<<boot_mm, 0>>] = 1 /\ use[<<boot_mm, 0, 0>>] = 2
      /\ \A x \in CheckTables : \/ x = <<boot_mm>> /\ Len(x) = 1
                                \/ x = <<boot_mm, 0>> /\ Len(x) = 2
                                \/ x = <<boot_mm, 0, 0>> /\ Len(x) = 3
  BY <1>2 DEF CheckTables
<1>7. 1 \in Frames /\ 2 \in Frames /\ free \subseteq Frames /\ 0 \notin Frames
      /\ 0 \in 0..NFrame /\ 1 \in 0..NFrame /\ 2 \in 0..NFrame
  BY <1>2, Constants DEF Frames
<1>8. Types
  <2>1. use \in [DOMAIN use -> 0..NFrame]
    <3>1. \A x \in DOMAIN use : use[x] \in 0..NFrame
      BY <1>6, <1>7
    <3> QED
      BY <1>2, <3>1
  <2>2. disk \in [DOMAIN disk -> Data \cup {NULL}] /\ DOMAIN disk = {}
    <3>1. disk = [x \in {} |-> {}]
      BY <1>2
    <3> QED
      BY <3>1
  <2>3. pra_list \in Seq(Frames)
    BY <1>2
  <2>4. /\ ref \in [Frames -> Nat] /\ mem \in [Frames -> Data \cup {NULL}]
        /\ pra_vaddr \in [Frames -> CheckPages \cup {NULL}]
    BY <1>2
  <2> QED
    BY <1>2, <1>5, <1>7, <2>1, <2>2, <2>3, <2>4 DEF Types
<1>9. Owned(use, free, ref, mem)
  <2>1. \A x, y \in DOMAIN use : use[x] = use[y] => x = y
    BY <1>6
  <2>2. \A x \in DOMAIN use : use[x] \notin free
    <3>1. 0 \notin free /\ 1 \notin free /\ 2 \notin free
      BY <1>2, Constants
    <3> QED
      BY <1>6, <3>1
  <2>3. \A x \in DOMAIN use : Len(x) > 1 => use[x] \in Frames /\ ref[use[x]] = 1
    <3>1. ref[1] = 1 /\ ref[2] = 1
      BY <1>2, <1>7
    <3> QED
      BY <1>6, <1>7, <3>1
  <2>4. \A f \in free : ref[f] = 0
    BY <1>2, <1>7
  <2>5. \A f \in Frames : mem[f] = NULL
    BY <1>2
  <2> QED
    BY <2>1, <2>2, <2>3, <2>4, <2>5 DEF Owned
<1>10. UserPart
  BY <1>2, <1>5 DEF UserPart
<1>11. CheckPart
  <2>1. \A x \in CheckTables : use[x] = Len(x) - 1 /\ Len(x) # 4
    BY <1>2, CheckLengths
  <2> QED
    BY <1>2, <1>4, <1>5, <1>6, <2>1 DEF CheckPart
<1>12. Lists
  <2>1. CheckPages \subseteq Va
    BY DEF Va
  <2>2. ASSUME NEW v \in CheckPages PROVE PDX0(v) = 0
    <3>1. v \in Index
      BY Constants
    <3> QED
      BY <3>1, SmallPage
  <2>3. Compact(<<a>>)
    BY <1>4, <2>2 DEF Compact
  <2>4. Pages(<<>>) = {} /\ Compact(<<>>)
    BY NoArea DEF Compact
  <2> QED
    BY <1>4, <1>5, <2>1, <2>3, <2>4 DEF Lists
<1>13. NoneLost
  <2>1. Range(use) = {0, 1, 2}
    BY <1>6 DEF Range, CheckTables
  <2>2. ASSUME NEW f \in Frames PROVE f \in free \cup Aside \cup Range(use)
    <3>1. f = 1 \/ f = 2 \/ f \in 3..CheckFrames + 2 \/ f \in CheckFrames + 3..NFrame
      BY Constants DEF Frames
    <3> QED
      BY <1>2, <1>5, <2>1, <3>1 DEF Aside
  <2> QED
    BY <2>2 DEF NoneLost, Lost
<1>14. SwapPart
  <2>1. PageFrames(use) = {}
    BY <1>6, CheckLengths DEF PageFrames
  <2>2. Range(pra_list) = {} /\ Len(pra_list) = 0
    BY <1>2 DEF Range
  <2> QED
    BY <2>1, <2>2 DEF SwapPart, SwapList, NoDuplicates
<1> QED
  BY <1>8, <1>9, <1>10, <1>11, <1>12, <1>13, <1>14 DEF IInv

-----------------------------------------------------------------------------
(* The invariant is inductive.                                             *)
LEMMA AccessStep ==
  ASSUME IInv, Access
  PROVE  IInv'
<1>1. PICK m \in Live, d \in Data : \E v \in Pages(mmap_list[m]) :
        \/ Store(m, v, d)
        \/ do_pgfault(m, v, d)
        \/ \E fails \in BOOLEAN : swap_out(m, v, d, fails)
  BY DEF Access
<1>2. PICK v \in Pages(mmap_list[m]) :
        \/ Store(m, v, d)
        \/ do_pgfault(m, v, d)
        \/ \E fails \in BOOLEAN : swap_out(m, v, d, fails)
  BY <1>1
<1>3. CASE Store(m, v, d)
  BY <1>3, StoreStep
<1>4. CASE do_pgfault(m, v, d)
  BY <1>4, FaultUserStep, FaultCheckStep
<1>5. CASE \E fails \in BOOLEAN : swap_out(m, v, d, fails)
  <2>1. PICK fails \in BOOLEAN : swap_out(m, v, d, fails)
    BY <1>5
  <2>2. check_mm_struct # NULL
    BY <2>1, Constants DEF swap_out, Live
  <2> QED
    BY <2>1, <2>2, SwapStep
<1> QED
  BY <1>2, <1>3, <1>4, <1>5

LEMMA UserPartStep ==
  ASSUME IInv, UserStep
  PROVE  IInv'
<1>1. check_mm_struct = NULL
  BY DEF UserStep
<1>2. CASE \E m, n \in Mm : copy_mm(m, n)
  BY <1>1, <1>2, CopyStep
<1>3. CASE \E m \in Mm, p \in Programs : do_execve(m, p)
  BY <1>1, <1>3, ExecStep
<1>4. CASE \E m \in Mm : do_exit(m)
  BY <1>1, <1>4, ExitStep
<1>5. CASE Panics
  BY <1>5, PanicStep DEF Panics
<1> QED
  BY <1>2, <1>3, <1>4, <1>5 DEF UserStep

LEMMA StutterStep ==
  ASSUME IInv, UNCHANGED vars
  PROVE  IInv'
<1>1. UNCHANGED <<use, free, ref, mem, pra_list, pra_vaddr, disk, mmap_list, check_mm_struct, panicked, spread>>
  BY DEF vars, swap
<1>2. Types' /\ Owned(use, free, ref, mem)' /\ Lists'
  BY <1>1 DEF IInv, Types, Frames, Owned, Lists
<1>3. UserPart' /\ CheckPart' /\ SwapPart' /\ NoneLost'
  BY <1>1 DEF IInv, UserPart, Frames, CheckPart, SwapPart, NoneLost, Lost, Aside
<1> QED
  BY <1>2, <1>3 DEF IInv

(* Through faults, page replacement, fork, exec and exit: the frames, the  *)
(* page tables, the areas and the FIFO of swappable pages agree.           *)
THEOREM MemoryInvariant == Spec => []IInv
<1>1. Init => IInv
  BY InitInv
<1>2. IInv /\ [Next]_vars => IInv'
  BY AccessStep, UserPartStep, EndStep, StutterStep DEF Next
<1> QED
  BY <1>1, <1>2, PTL DEF Spec

-----------------------------------------------------------------------------
(* No frame is in two places (page_insert, page_remove_pte, exit_mmap and  *)
(* put_pgdir), and none is lost but by the tables that exit_range forgets. *)
LEMMA ExactFrames == IInv => FramesExact
<1> SUFFICES ASSUME IInv PROVE FramesExact
  OBVIOUS
<1>1. free \cap Range(use) = {}
  BY DEF IInv, Owned, Range
<1>2. free \cap Aside = {}
  <2>1. CASE check_mm_struct = NULL
    BY <2>1 DEF Aside
  <2>2. CASE check_mm_struct # NULL
    <3>1. free \subseteq 3..CheckFrames + 2 /\ CheckFrames \in Nat /\ NFrame \in Nat
      BY <2>2, CheckFacts, Constants
    <3> QED
      BY <2>2, <3>1 DEF Aside
  <2> QED
    BY <2>1, <2>2
<1>3. \A x \in DOMAIN use : Len(x) > 1 => ref[use[x]] = 1
  BY DEF IInv, Owned
<1>4. \A x, y \in DOMAIN use : use[x] = use[y] => x = y
  BY DEF IInv, Owned
<1> QED
  BY <1>1, <1>2, <1>3, <1>4 DEF FramesExact, IInv, NoneLost

THEOREM FramesAlwaysExact == Spec => []FramesExact
BY MemoryInvariant, ExactFrames, PTL

(* While check_swap runs, the FIFO of swap_fifo.c is the pages in memory:  *)
(* _fifo_swap_out_victim always finds one, with a valid entry.             *)
LEMMA ExactSwapList == IInv => SwapListExact
<1> SUFFICES ASSUME IInv, check_mm_struct # NULL
             PROVE  /\ Cardinality(Range(pra_list)) = Len(pra_list)
                    /\ Range(pra_list) = {use[x] : x \in {x \in DOMAIN use : Len(x) = 4}}
                    /\ \A f \in Range(pra_list) : use[pte(check_mm_struct, pra_vaddr[f])] = f
                    /\ free = {} => pra_list # <<>>
  BY DEF SwapListExact
<1>1. check_mm_struct = boot_mm
  BY CheckState
<1>2. pra_list \in Seq(Frames) /\ SwapList(pra_list, pra_vaddr, use)
  BY CheckFacts
<1>3. Cardinality(Range(pra_list)) = Len(pra_list)
  BY <1>2, DistinctList DEF SwapList
<1>4. Range(pra_list) = {use[x] : x \in {x \in DOMAIN use : Len(x) = 4}}
  BY <1>2 DEF SwapList, PageFrames
<1>5. \A f \in Range(pra_list) : use[pte(check_mm_struct, pra_vaddr[f])] = f
  BY <1>1, <1>2 DEF SwapList
<1>6. free = {} => pra_list # <<>>
  BY NeverEmpty
<1> QED
  BY <1>3, <1>4, <1>5, <1>6

THEOREM SwapListAlwaysExact == Spec => []SwapListExact
BY MemoryInvariant, ExactSwapList, PTL

-----------------------------------------------------------------------------
(* Vm implements AddressSpaces.  The pages of m, and what they hold.       *)
Seen(m) ==
  {v \in Pages(mmap_list[m]) :
     pte(m, v) \in DOMAIN use \/ (m = check_mm_struct /\ v \in DOMAIN disk)}

Holds(m, v) == IF pte(m, v) \in DOMAIN use THEN mem[use[pte(m, v)]] ELSE disk[v]

Same(n) == Seen(n)' = Seen(n) /\ \A v \in Seen(n) : Holds(n, v)' = Holds(n, v)

LEMMA MemoryIs == Memory = [m \in Mm |-> [v \in Seen(m) |-> Holds(m, v)]]
BY DEF Memory, Seen, Holds

LEMMA MemoryNext == Memory' = [m \in Mm |-> [v \in Seen(m)' |-> Holds(m, v)']]
BY DEF Memory, Seen, Holds

LEMMA SpaceChanges ==
  ASSUME NEW m \in Mm, NEW s, s = [v \in Seen(m)' |-> Holds(m, v)'],
         \A n \in Mm \ {m} : Same(n)
  PROVE  Memory' = [Memory EXCEPT ![m] = s]
<1>1. Memory' = [n \in Mm |-> [v \in Seen(n)' |-> Holds(n, v)']]
  BY MemoryNext
<1>2. Memory = [n \in Mm |-> [v \in Seen(n) |-> Holds(n, v)]]
  BY MemoryIs
<1>3. ASSUME NEW n \in Mm, n # m
      PROVE  [v \in Seen(n)' |-> Holds(n, v)'] = [v \in Seen(n) |-> Holds(n, v)]
  BY <1>3 DEF Same
<1> QED
  BY <1>1, <1>2, <1>3

LEMMA NothingChanges ==
  ASSUME \A n \in Mm : Same(n)
  PROVE  UNCHANGED Memory
<1>1. Memory' = [n \in Mm |-> [v \in Seen(n)' |-> Holds(n, v)']]
  BY MemoryNext
<1>2. Memory = [n \in Mm |-> [v \in Seen(n) |-> Holds(n, v)]]
  BY MemoryIs
<1>3. ASSUME NEW n \in Mm
      PROVE  [v \in Seen(n)' |-> Holds(n, v)'] = [v \in Seen(n) |-> Holds(n, v)]
  BY DEF Same
<1> QED
  BY <1>1, <1>2, <1>3

(* An address space whose entries stay, and one without areas.             *)
LEMMA SameEntries ==
  ASSUME NEW n, mmap_list'[n] = mmap_list[n], n # check_mm_struct, n # check_mm_struct',
         \A v : pte(n, v) \in DOMAIN use' <=> pte(n, v) \in DOMAIN use,
         \A v : pte(n, v) \in DOMAIN use => mem'[use'[pte(n, v)]] = mem[use[pte(n, v)]]
  PROVE  Same(n)
<1>1. Seen(n)' = Seen(n)
  BY DEF Seen
<1>2. ASSUME NEW v \in Seen(n) PROVE Holds(n, v)' = Holds(n, v)
  BY DEF Seen, Holds
<1> QED
  BY <1>1, <1>2 DEF Same

LEMMA SameNothing ==
  ASSUME NEW n, mmap_list[n] = <<>>, mmap_list'[n] = <<>>
  PROVE  Same(n)
BY NoArea DEF Same, Seen

(* The address spaces that a step while check_swap runs does not touch.    *)
LEMMA SameInCheck ==
  ASSUME IInv, check_mm_struct # NULL, UNCHANGED mmap_list, NEW n \in Mm \ {boot_mm}
  PROVE  Same(n)
<1>1. mmap_list[n] = <<>>
  BY DEF IInv, CheckPart
<1> QED
  BY <1>1, SameNothing

(* While user programs run, the pages are those in memory.                 *)
LEMMA UserSeen ==
  ASSUME check_mm_struct = NULL, NEW m \in Mm
  PROVE  Seen(m) = Resident(use, m, mmap_list[m])
BY Constants DEF Seen, Resident

LEMMA UserSeenNext ==
  ASSUME check_mm_struct' = NULL, NEW m \in Mm
  PROVE  /\ Seen(m)' = Resident(use', m, mmap_list'[m])
         /\ \A v \in Seen(m)' : pte(m, v) \in DOMAIN use' /\ Holds(m, v)' = mem'[use'[pte(m, v)]]
BY Constants DEF Seen, Resident, Holds

-----------------------------------------------------------------------------
(* A store.                                                                *)
LEMMA StoreSpace ==
  ASSUME IInv, NEW m \in Live, NEW d \in Data, NEW v \in Pages(mmap_list[m]), Store(m, v, d)
  PROVE  v \in DOMAIN Memory[m] /\ Spaces!Store(m, v, d)
<1> DEFINE x == pte(m, v)
           f == use[x]
           s == [w \in Seen(m)' |-> Holds(m, w)']
<1>1. /\ UNCHANGED <<use, disk, mmap_list, check_mm_struct>>
      /\ x \in DOMAIN use /\ mem' = [mem EXCEPT ![f] = d]
  BY DEF Store, swap
<1>2. m \in Mm /\ Pages(mmap_list[m]) \subseteq Nat
  BY AreasOf DEF Live
<1>3. f \in Frames /\ \A y \in DOMAIN use : use[y] = f => y = x
  BY <1>1, PageFrame
<1>4. mem \in [Frames -> Data \cup {NULL}]
  BY DEF IInv, Types
<1>5. ASSUME NEW n, NEW w, pte(n, w) \in DOMAIN use, pte(n, w) # x
      PROVE  mem'[use[pte(n, w)]] = mem[use[pte(n, w)]]
  <2> DEFINE k == use[pte(n, w)]
  <2>1. k \in Frames /\ k # f
    BY <1>3, <1>5, PageFrame
  <2> HIDE DEF k, f
  <2>2. mem'[k] = mem[k]
    BY <1>1, <1>4, <2>1
  <2> QED
    BY <2>2 DEF k
<1>6. mem'[f] = d
  BY <1>1, <1>3, <1>4
<1>7. \A n : Seen(n)' = Seen(n)
  BY <1>1 DEF Seen
<1>8. v \in Seen(m)
  BY <1>1 DEF Seen
<1>9. ASSUME NEW w \in Seen(m) PROVE Holds(m, w)' = IF w = v THEN d ELSE Holds(m, w)
  <2>1. w \in Nat /\ v \in Nat
    BY <1>2 DEF Seen
  <2>2. w # v => pte(m, w) # x
    BY <2>1, SamePage
  <2>3. Holds(m, w)' = IF pte(m, w) \in DOMAIN use THEN mem'[use[pte(m, w)]] ELSE disk[w]
    BY <1>1 DEF Holds
  <2> QED
    BY <1>1, <1>5, <1>6, <2>2, <2>3 DEF Holds
<1>10. ASSUME NEW n \in Mm \ {m} PROVE Same(n)
  <2>1. \A w : pte(n, w) # x
    BY PageLength
  <2>2. ASSUME NEW w \in Seen(n) PROVE Holds(n, w)' = Holds(n, w)
    <3>1. Holds(n, w)' = IF pte(n, w) \in DOMAIN use THEN mem'[use[pte(n, w)]] ELSE disk[w]
      BY <1>1 DEF Holds
    <3> QED
      BY <1>5, <2>1, <3>1 DEF Holds
  <2> QED
    BY <1>7, <2>2 DEF Same
<1> HIDE DEF x, f
<1>11. s = [w \in Seen(m) |-> IF w = v THEN d ELSE Holds(m, w)]
  BY <1>7, <1>9
<1>12. Memory' = [Memory EXCEPT ![m] = s]
  BY <1>2, <1>10, SpaceChanges
<1> HIDE DEF s
<1>13. Memory[m] = [w \in Seen(m) |-> Holds(m, w)] /\ Memory = [n \in Mm |-> Memory[n]]
  BY <1>2, MemoryIs
<1>14. s = [Memory[m] EXCEPT ![v] = d]
  BY <1>11, <1>13
<1>15. v \in DOMAIN Memory[m]
  BY <1>8, <1>13
<1>16. Memory' = [Memory EXCEPT ![m][v] = d]
  BY <1>12, <1>14
<1> QED
  BY <1>15, <1>16 DEF Spaces!Store

-----------------------------------------------------------------------------
(* A fault without page replacement: a page comes into being, or back from *)
(* the disk.                                                               *)
LEMMA TouchSpace ==
  ASSUME NEW m \in Mm, NEW v, NEW d, v \notin Seen(m),
         Seen(m)' = Seen(m) \cup {v}, Holds(m, v)' = d,
         \A w \in Seen(m) : Holds(m, w)' = Holds(m, w),
         \A n \in Mm \ {m} : Same(n)
  PROVE  v \notin DOMAIN Memory[m] /\ Spaces!Touch(m, v, d)
<1> DEFINE s == [w \in Seen(m)' |-> Holds(m, w)']
           t == Memory[m]
<1>1. Memory' = [Memory EXCEPT ![m] = s]
  BY SpaceChanges
<1>2. t = [w \in Seen(m) |-> Holds(m, w)] /\ Memory = [n \in Mm |-> Memory[n]]
  BY MemoryIs
<1>3. s = [w \in Seen(m) \cup {v} |-> IF w = v THEN d ELSE Holds(m, w)]
  OBVIOUS
<1> HIDE DEF s
<1>4. DOMAIN t = Seen(m) /\ \A w \in Seen(m) : t[w] = Holds(m, w)
  BY <1>2
<1> HIDE DEF t
<1>5. s = [w \in DOMAIN t \cup {v} |-> IF w = v THEN d ELSE t[w]]
  BY <1>3, <1>4
<1>6. Memory' = [Memory EXCEPT ![m] = [w \in DOMAIN @ \cup {v} |-> IF w = v THEN d ELSE @[w]]]
  BY <1>1, <1>5 DEF t
<1> QED
  BY <1>4, <1>6 DEF t, Spaces!Touch

LEMMA FaultEntries ==
  ASSUME NEW m, NEW v \in Nat, NEW N, N = get_pte(m, v) \ DOMAIN use, NEW n, NEW w, pte(n, w) \in N
  PROVE  n = m /\ (w \in Nat => w = v)
<1> DEFINE x == pte(n, w)
           V == {v}
<1>1. x \in Needs(m, V)
  BY FaultNeeds
<1>2. x[1] = n /\ Len(x) = 4
  BY PageLength
<1> HIDE DEF x
<1>3. n = m
  BY <1>1, <1>2, NeedsMembers
<1>4. \E k \in V : x = pte(m, k)
  <2> HIDE DEF V
  <2> QED
    BY <1>1, <1>2, NeedsPage
<1>5. pte(n, w) = pte(m, v)
  BY <1>4 DEF x
<1> QED
  BY <1>3, <1>5, SamePage

LEMMA FaultUserSpace ==
  ASSUME IInv, check_mm_struct = NULL,
         NEW m \in Live, NEW d \in Data, NEW v \in Pages(mmap_list[m]), do_pgfault(m, v, d)
  PROVE  v \notin DOMAIN Memory[m] /\ Spaces!Touch(m, v, d)
<1> DEFINE N == get_pte(m, v) \ DOMAIN use
<1>1. FaultIs(m, v, d, N)
  BY Faulted
<1>2. /\ m \in Mm /\ v \in Nat /\ pte(m, v) \in N /\ DOMAIN use' = N \cup DOMAIN use
      /\ \A x \in DOMAIN use : use'[x] = use[x] /\ (use[x] \in Frames => mem'[use[x]] = mem[use[x]])
      /\ mem'[use'[pte(m, v)]] = FaultPage(m, v, d)
  BY <1>1 DEF FaultIs
<1>3. mmap_list' = mmap_list /\ check_mm_struct' = NULL
  BY DEF do_pgfault
<1>4. \A n \in Mm : n # NULL
  BY Constants
<1>5. FaultPage(m, v, d) = d
  BY <1>2, <1>4 DEF FaultPage
<1>6. pte(m, v) \notin DOMAIN use
  <2>1. pte(m, v) \in N
    BY <1>2
  <2> QED
    BY <2>1
<1>a. N = get_pte(m, v) \ DOMAIN use
  OBVIOUS
<1>7. ASSUME NEW n, NEW w, pte(n, w) \in N
      PROVE  n = m /\ (w \in Nat => w = v)
  <2> HIDE DEF N
  <2> QED
    BY <1>2, <1>7, <1>a, FaultEntries
<1> HIDE DEF N
<1>8. ASSUME NEW n, NEW w, pte(n, w) \in DOMAIN use
      PROVE  mem'[use'[pte(n, w)]] = mem[use[pte(n, w)]]
  BY <1>2, <1>8, PageFrame
<1>9. ASSUME NEW n \in Mm \ {m} PROVE Same(n)
  <2>1. \A w : pte(n, w) \in DOMAIN use' <=> pte(n, w) \in DOMAIN use
    BY <1>2, <1>7
  <2> QED
    BY <1>3, <1>4, <1>8, <2>1, SameEntries
<1>10. Pages(mmap_list[m]) \subseteq Nat
  BY <1>2, AreasOf
<1>11. Seen(m) = {w \in Pages(mmap_list[m]) : pte(m, w) \in DOMAIN use}
  BY <1>2, <1>4 DEF Seen
<1>12. Seen(m)' = {w \in Pages(mmap_list[m]) : pte(m, w) \in DOMAIN use'}
  BY <1>2, <1>3, <1>4 DEF Seen
<1>13. Seen(m)' = Seen(m) \cup {v}
  <2>1. ASSUME NEW w \in Pages(mmap_list[m]) PROVE pte(m, w) \in DOMAIN use' <=> pte(m, w) \in DOMAIN use \/ w = v
    BY <1>2, <1>7, <1>10
  <2> QED
    BY <1>11, <1>12, <2>1
<1>14. v \notin Seen(m)
  BY <1>6, <1>11
<1>15. Holds(m, v)' = d
  BY <1>2, <1>5 DEF Holds
<1>16. ASSUME NEW w \in Seen(m) PROVE Holds(m, w)' = Holds(m, w)
  BY <1>2, <1>8, <1>11 DEF Holds
<1> QED
  BY <1>2, <1>9, <1>13, <1>14, <1>15, <1>16, TouchSpace

(* While check_swap runs: a page gets a frame, the others stay where they  *)
(* are or go to the disk.                                                  *)
LEMMA CheckSpace ==
  ASSUME IInv, check_mm_struct # NULL, UNCHANGED <<mmap_list, check_mm_struct>>,
         NEW v \in CheckPages, NEW d, pte(boot_mm, v) \notin DOMAIN use,
         pte(boot_mm, v) \in DOMAIN use',
         mem'[use'[pte(boot_mm, v)]] = FaultPage(boot_mm, v, d),
         \A w \in CheckPages \ {v} :
           w \in Seen(boot_mm)' <=> w \in Seen(boot_mm),
         \A w \in CheckPages \ {v} :
           w \in Seen(boot_mm) => Holds(boot_mm, w)' = Holds(boot_mm, w)
  PROVE  \/ UNCHANGED Memory
         \/ v \notin DOMAIN Memory[boot_mm] /\ Spaces!Touch(boot_mm, v, d)
<1>1. check_mm_struct = boot_mm /\ Pages(mmap_list[boot_mm]) = CheckPages /\ boot_mm \in Mm
  BY CheckState, Constants
<1>2. \A n \in Mm \ {boot_mm} : Same(n)
  BY SameInCheck
<1>3. v \in Seen(boot_mm) <=> v \in DOMAIN disk
  BY <1>1 DEF Seen
<1>4. v \in Seen(boot_mm)'
  BY <1>1 DEF Seen
<1>5. Seen(boot_mm) \subseteq CheckPages /\ Seen(boot_mm)' \subseteq CheckPages
  BY <1>1 DEF Seen
<1>6. Holds(boot_mm, v)' = FaultPage(boot_mm, v, d)
  BY DEF Holds
<1>7. CASE v \in DOMAIN disk
  <2>1. Holds(boot_mm, v) = disk[v] /\ FaultPage(boot_mm, v, d) = disk[v]
    BY <1>1, <1>7 DEF Holds, FaultPage
  <2>2. Seen(boot_mm)' = Seen(boot_mm)
    BY <1>3, <1>4, <1>5, <1>7
  <2>3. Same(boot_mm)
    BY <1>5, <1>6, <2>1, <2>2 DEF Same
  <2> QED
    BY <1>2, <2>3, NothingChanges
<1>8. CASE v \notin DOMAIN disk
  <2>1. FaultPage(boot_mm, v, d) = d
    BY <1>8 DEF FaultPage
  <2>2. Seen(boot_mm)' = Seen(boot_mm) \cup {v}
    BY <1>4, <1>5
  <2>3. v \notin Seen(boot_mm)
    BY <1>3, <1>8
  <2>4. \A w \in Seen(boot_mm) : Holds(boot_mm, w)' = Holds(boot_mm, w)
    BY <1>5, <2>3
  <2> QED
    BY <1>1, <1>2, <1>6, <2>1, <2>2, <2>3, <2>4, TouchSpace
<1> QED
  BY <1>7, <1>8

LEMMA FaultCheckSpace ==
  ASSUME IInv, check_mm_struct # NULL,
         NEW m \in Live, NEW d \in Data, NEW v \in Pages(mmap_list[m]), do_pgfault(m, v, d)
  PROVE  \/ UNCHANGED Memory
         \/ m \in Mm /\ v \notin DOMAIN Memory[m] /\ Spaces!Touch(m, v, d)
<1> DEFINE x == pte(boot_mm, v)
           N == get_pte(m, v) \ DOMAIN use
<1>1. m = boot_mm /\ v \in CheckPages /\ check_mm_struct = boot_mm /\ boot_mm \in Mm
      /\ Pages(mmap_list[boot_mm]) = CheckPages /\ CheckPages \subseteq Nat
  BY CheckState, CheckBounds, Constants
<1>2. FaultIs(m, v, d, N)
  BY Faulted
<1>3. /\ x \in N /\ DOMAIN use' = N \cup DOMAIN use
      /\ \A y \in DOMAIN use : use'[y] = use[y] /\ (use[y] \in Frames => mem'[use[y]] = mem[use[y]])
      /\ mem'[use'[x]] = FaultPage(boot_mm, v, d)
  BY <1>1, <1>2 DEF FaultIs
<1>4. disk' = Restrict(disk, DOMAIN disk \ {v}) /\ UNCHANGED <<mmap_list, check_mm_struct>>
  BY <1>1 DEF do_pgfault
<1>5. x \notin DOMAIN use
  <2>1. x \in N
    BY <1>3
  <2> QED
    BY <2>1
<1>a. N = get_pte(boot_mm, v) \ DOMAIN use
  BY <1>1
<1>6. ASSUME NEW w \in CheckPages \ {v} PROVE pte(boot_mm, w) \notin N
  <2> SUFFICES ASSUME pte(boot_mm, w) \in N PROVE FALSE
    OBVIOUS
  <2> HIDE DEF N
  <2>1. v \in Nat /\ w \in Nat /\ w # v
    BY <1>1
  <2> QED
    BY <1>a, <2>1, FaultEntries
<1> HIDE DEF N
<1>7. DOMAIN disk' = DOMAIN disk \ {v} /\ \A w \in DOMAIN disk' : disk'[w] = disk[w]
  BY <1>4 DEF Restrict
<1>8. ASSUME NEW w \in CheckPages \ {v}
      PROVE  /\ w \in Seen(boot_mm)' <=> w \in Seen(boot_mm)
             /\ w \in Seen(boot_mm) => Holds(boot_mm, w)' = Holds(boot_mm, w)
  <2> DEFINE y == pte(boot_mm, w)
  <2>1. y \in DOMAIN use' <=> y \in DOMAIN use
    BY <1>3, <1>6
  <2>2. y \in DOMAIN use => mem'[use'[y]] = mem[use[y]]
    BY <1>3, PageFrame
  <2>3. /\ w \in Seen(boot_mm) <=> y \in DOMAIN use \/ w \in DOMAIN disk
        /\ w \in Seen(boot_mm)' <=> y \in DOMAIN use' \/ w \in DOMAIN disk'
    BY <1>1, <1>4 DEF Seen
  <2>4. /\ Holds(boot_mm, w) = IF y \in DOMAIN use THEN mem[use[y]] ELSE disk[w]
        /\ Holds(boot_mm, w)' = IF y \in DOMAIN use' THEN mem'[use'[y]] ELSE disk'[w]
    BY DEF Holds
  <2> HIDE DEF y
  <2> QED
    BY <1>7, <2>1, <2>2, <2>3, <2>4
<1>9. x \in DOMAIN use'
  BY <1>3
<1>10. \/ UNCHANGED Memory
       \/ v \notin DOMAIN Memory[boot_mm] /\ Spaces!Touch(boot_mm, v, d)
  BY <1>1, <1>3, <1>4, <1>5, <1>8, <1>9, CheckSpace
<1> QED
  BY <1>1, <1>10

LEMMA SwapSpace ==
  ASSUME IInv, check_mm_struct # NULL,
         NEW m \in Live, NEW d \in Data, NEW v \in Pages(mmap_list[m]),
         NEW fails \in BOOLEAN, swap_out(m, v, d, fails)
  PROVE  \/ UNCHANGED Memory
         \/ m \in Mm /\ v \notin DOMAIN Memory[m] /\ Spaces!Touch(m, v, d)
<1> DEFINE f == Head(swap_out_victim(fails))
           k == pra_vaddr[f]
           x == pte(boot_mm, v)
           z == pte(boot_mm, k)
<1>1. m = boot_mm /\ v \in CheckPages /\ check_mm_struct = boot_mm /\ boot_mm \in Mm
      /\ Pages(mmap_list[boot_mm]) = CheckPages /\ CheckPages \subseteq Nat
  BY CheckState, CheckBounds, Constants
<1>2. SwapIs(v, d, f, k)
  BY <1>1, Swapped
<1>3. /\ k \in CheckPages /\ z \in DOMAIN use /\ use[z] = f /\ x \notin DOMAIN use
      /\ DOMAIN use' = (DOMAIN use \ {z}) \cup {x} /\ use'[x] = f
      /\ \A y \in DOMAIN use : y # z => use'[y] = use[y] /\ (use[y] \in Frames => mem'[use[y]] = mem[use[y]])
      /\ mem'[f] = FaultPage(boot_mm, v, d)
  BY <1>2 DEF SwapIs
<1>4. /\ disk' = Merge(Single(k, mem[f]), Restrict(disk, DOMAIN disk \ {v}))
      /\ UNCHANGED <<mmap_list, check_mm_struct>>
  BY DEF swap_out
<1> HIDE DEF f, k
<1>5. /\ DOMAIN disk' = {k} \cup (DOMAIN disk \ {v}) /\ disk'[k] = mem[f]
      /\ \A w \in DOMAIN disk : w # v /\ w # k => disk'[w] = disk[w]
  BY <1>4 DEF Merge, Single, Restrict
<1>6. ASSUME NEW w \in CheckPages \ {v}
      PROVE  /\ w \in Seen(boot_mm)' <=> w \in Seen(boot_mm)
             /\ w \in Seen(boot_mm) => Holds(boot_mm, w)' = Holds(boot_mm, w)
  <2> DEFINE y == pte(boot_mm, w)
  <2>1. y # x /\ (y = z => w = k) /\ (w = k => y = z)
    BY <1>1, <1>3, SamePage
  <2>2. y \in DOMAIN use /\ y # z => mem'[use'[y]] = mem[use[y]]
    BY <1>3, PageFrame
  <2>3. /\ w \in Seen(boot_mm) <=> y \in DOMAIN use \/ w \in DOMAIN disk
        /\ w \in Seen(boot_mm)' <=> y \in DOMAIN use' \/ w \in DOMAIN disk'
    BY <1>1, <1>4 DEF Seen
  <2>4. /\ Holds(boot_mm, w) = IF y \in DOMAIN use THEN mem[use[y]] ELSE disk[w]
        /\ Holds(boot_mm, w)' = IF y \in DOMAIN use' THEN mem'[use'[y]] ELSE disk'[w]
    BY DEF Holds
  <2> HIDE DEF y, x, z
  <2>5. CASE w = k
    BY <1>3, <1>5, <2>1, <2>3, <2>4, <2>5
  <2>6. CASE w # k
    BY <1>3, <1>5, <2>1, <2>2, <2>3, <2>4, <2>6
  <2> QED
    BY <2>5, <2>6
<1>7. x \in DOMAIN use' /\ mem'[use'[x]] = FaultPage(boot_mm, v, d)
  BY <1>3
<1>8. \/ UNCHANGED Memory
      \/ v \notin DOMAIN Memory[boot_mm] /\ Spaces!Touch(boot_mm, v, d)
  BY <1>1, <1>3, <1>4, <1>6, <1>7, CheckSpace
<1> QED
  BY <1>1, <1>8

-----------------------------------------------------------------------------
(* The steps that end an address space.                                    *)
LEMMA EmptySpace ==
  ASSUME NEW m \in Mm, mmap_list'[m] = <<>>, \A n \in Mm \ {m} : Same(n)
  PROVE  Spaces!Exit(m)
<1> DEFINE s == [v \in Seen(m)' |-> Holds(m, v)']
<1>1. Seen(m)' = {}
  BY NoArea DEF Seen
<1>2. s = Spaces!NoPages
  BY <1>1 DEF Spaces!NoPages
<1>3. Memory' = [Memory EXCEPT ![m] = s]
  BY SpaceChanges
<1> HIDE DEF s
<1> QED
  BY <1>2, <1>3 DEF Spaces!Exit

LEMMA GoneSpace ==
  ASSUME IInv, check_mm_struct = NULL, check_mm_struct' = NULL, NEW m \in Mm, GoneIs(m),
         mmap_list' = [mmap_list EXCEPT ![m] = <<>>]
  PROVE  Spaces!Exit(m)
<1>1. mmap_list \in [Mm -> Seq(Area)]
  BY DEF IInv, Types
<1>2. ASSUME NEW n \in Mm \ {m} PROVE Same(n)
  <2>1. mmap_list'[n] = mmap_list[n] /\ n # NULL
    BY <1>1, Constants
  <2>2. \A v : pte(n, v)[1] # m
    BY PageLength
  <2>3. \A v : pte(n, v) \in DOMAIN use' <=> pte(n, v) \in DOMAIN use
    BY <2>2 DEF GoneIs
  <2>4. \A v : pte(n, v) \in DOMAIN use => mem'[use'[pte(n, v)]] = mem[use[pte(n, v)]]
    BY <2>3 DEF GoneIs
  <2> QED
    BY <2>1, <2>3, <2>4, SameEntries
<1>3. mmap_list'[m] = <<>>
  BY <1>1
<1> QED
  BY <1>2, <1>3, EmptySpace

LEMMA EndSpace ==
  ASSUME IInv, end_check_swap
  PROVE  Spaces!Exit(boot_mm)
<1>1. mmap_list' = [mmap_list EXCEPT ![boot_mm] = <<>>] /\ check_mm_struct # NULL
  BY DEF end_check_swap
<1>2. mmap_list \in [Mm -> Seq(Area)] /\ boot_mm \in Mm
  BY Constants DEF IInv, Types
<1>3. ASSUME NEW n \in Mm \ {boot_mm} PROVE Same(n)
  <2>1. mmap_list[n] = <<>>
    BY <1>1 DEF IInv, CheckPart
  <2>2. mmap_list'[n] = <<>>
    BY <1>1, <1>2, <2>1
  <2> QED
    BY <2>1, <2>2, SameNothing
<1>4. mmap_list'[boot_mm] = <<>>
  BY <1>1, <1>2
<1> QED
  BY <1>2, <1>3, <1>4, EmptySpace

(* Fork: the child has the pages of its parent.                            *)
LEMMA CopySpace ==
  ASSUME IInv, check_mm_struct = NULL, NEW m \in Mm, NEW n \in Mm, copy_mm(m, n)
  PROVE  Spaces!Fork(m, n)
<1> DEFINE V == Resident(use, m, mmap_list[m])
           A == mmap_list[m]
           s == [v \in Seen(n)' |-> Holds(n, v)']
<1>1. CopyIs(m, n, V)
  BY Copied
<1>2. mmap_list' = [mmap_list EXCEPT ![n] = A] /\ check_mm_struct' = NULL
  BY DEF copy_mm
<1>3. V = Seen(m)
  BY UserSeen
<1> HIDE DEF V
<1>4. /\ V \subseteq Pages(A) /\ OfM(use, n) = {} /\ mmap_list[n] = <<>>
      /\ DOMAIN use' = Needs(n, V) \cup DOMAIN use
      /\ \A x \in DOMAIN use : use'[x] = use[x] /\ mem'[use[x]] = mem[use[x]]
      /\ \A v \in V : mem'[use'[pte(n, v)]] = mem[use[pte(m, v)]]
  BY <1>1 DEF CopyIs
<1>5. mmap_list \in [Mm -> Seq(Area)] /\ A \in Seq(Area) /\ Pages(A) \subseteq Nat
  BY AreasOf DEF IInv, Types
<1>6. \A x \in Needs(n, V) : x[1] = n
  BY NeedsMembers
<1>7. ASSUME NEW k \in Mm \ {n} PROVE Same(k)
  <2>1. mmap_list'[k] = mmap_list[k] /\ k # NULL
    BY <1>2, <1>5, Constants
  <2>2. \A v : pte(k, v) \notin Needs(n, V)
    BY <1>6, PageLength
  <2>3. \A v : pte(k, v) \in DOMAIN use' <=> pte(k, v) \in DOMAIN use
    BY <1>4, <2>2
  <2>4. \A v : pte(k, v) \in DOMAIN use => mem'[use'[pte(k, v)]] = mem[use[pte(k, v)]]
    BY <1>4
  <2> QED
    BY <1>2, <2>1, <2>3, <2>4, SameEntries
<1>8. OfM(use', n) = Needs(n, V)
  BY <1>4, <1>6 DEF OfM
<1> HIDE DEF A
<1>9. Resident(use', n, A) = V
  BY <1>4, <1>5, <1>8, GrownTree
<1>10. mmap_list'[n] = A
  BY <1>2, <1>5
<1>11. Seen(n)' = V /\ \A v \in Seen(n)' : Holds(n, v)' = mem'[use'[pte(n, v)]]
  BY <1>2, <1>9, <1>10, UserSeenNext
<1>12. \A v \in V : Holds(m, v) = mem[use[pte(m, v)]]
  BY <1>3, Constants DEF Seen, Holds
<1>13. s = [v \in Seen(m) |-> Holds(m, v)]
  <2>1. \A v \in Seen(n)' : Holds(n, v)' = Holds(m, v)
    BY <1>4, <1>11, <1>12
  <2> QED
    BY <1>3, <1>11, <2>1
<1>14. Memory[m] = [v \in Seen(m) |-> Holds(m, v)] /\ Memory[n] = [v \in Seen(n) |-> Holds(n, v)]
  BY MemoryIs
<1>15. Seen(n) = {}
  BY <1>4, NoArea DEF Seen
<1>16. Memory[n] = Spaces!NoPages
  BY <1>14, <1>15 DEF Spaces!NoPages
<1>17. Memory' = [Memory EXCEPT ![n] = s]
  BY <1>7, SpaceChanges
<1> HIDE DEF s
<1> QED
  BY <1>13, <1>14, <1>16, <1>17 DEF Spaces!Fork

(* Exec: the new program finds its segments and its stack, or is gone.     *)
LEMMA ProgramSpace ==
  ASSUME NEW prog \in Programs, NEW y, y = LoadAreas(prog), ~y.failed, ~y.panic
  PROVE  NewPages(y) = Pages(prog.segs) \cup StackPages
<1>1. /\ Pages(y.areas) = Pages(prog.segs) \cup Span(Stack)
      /\ Pages(prog.segs) \cap Span(Stack) = {}
  BY ProgramLoaded
<1>2. Pages(<<Stack>>) = Span(Stack)
  BY OneArea DEF Span
<1> QED
  BY <1>1, <1>2 DEF NewPages

LEMMA ExecSpace ==
  ASSUME IInv, check_mm_struct = NULL, NEW m \in Mm, NEW prog \in Programs, do_execve(m, prog)
  PROVE  Spaces!Exit(m) \/ \E image \in Image : Spaces!Exec(m, image)
<1> DEFINE y == LoadAreas(prog)
           V == NewPages(y)
           A == y.areas
           s == [v \in Seen(m)' |-> Holds(m, v)']
<1>1. /\ mmap_list' = [mmap_list EXCEPT ![m] = IF y.failed THEN <<>> ELSE A]
      /\ ~y.panic /\ check_mm_struct' = NULL
  BY DEF do_execve
<1>2. mmap_list \in [Mm -> Seq(Area)]
  BY DEF IInv, Types
<1>3. CASE y.failed
  <2>1. GoneIs(m)
    BY <1>3, ExecFailed
  <2>2. mmap_list' = [mmap_list EXCEPT ![m] = <<>>]
    BY <1>1, <1>3
  <2> HIDE DEF y, A, V
  <2> QED
    BY <1>1, <2>1, <2>2, GoneSpace
<1>4. CASE ~y.failed
  <2>1. ExecIs(m, prog, V)
    BY <1>4, Executed
  <2>2. V = Pages(prog.segs) \cup StackPages
    BY <1>1, <1>4, ProgramSpace
  <2>3. V \subseteq Pages(A) /\ Pages(A) \subseteq Nat
    <3> DEFINE z == y
               W == V
    <3>1. z = LoadAreas(prog) /\ W = NewPages(z)
      OBVIOUS
    <3> HIDE DEF z, W
    <3>2. W \subseteq Pages(z.areas) /\ Pages(z.areas) \subseteq Nat
      BY <3>1, LoadNeeds
    <3> QED
      BY <3>2 DEF z, W
  <2>4. mmap_list' = [mmap_list EXCEPT ![m] = A]
    BY <1>1, <1>4
  <2> HIDE DEF y, V, A
  <2>5. /\ DOMAIN use' = Needs(m, V) \cup OtherEntries(m) /\ Stays(m)
        /\ \A v \in V : mem'[use'[pte(m, v)]] = prog.data
    BY <2>1 DEF ExecIs
  <2>6. \A x \in Needs(m, V) : x[1] = m
    BY NeedsMembers
  <2>7. ASSUME NEW n \in Mm \ {m} PROVE Same(n)
    <3>1. mmap_list'[n] = mmap_list[n] /\ n # NULL
      BY <1>2, <2>4, Constants
    <3>2. \A v : pte(n, v)[1] # m
      BY PageLength
    <3>3. \A v : pte(n, v) \in DOMAIN use' <=> pte(n, v) \in DOMAIN use
      BY <2>5, <2>6, <3>2 DEF OtherEntries
    <3>4. \A v : pte(n, v) \in DOMAIN use => mem'[use'[pte(n, v)]] = mem[use[pte(n, v)]]
      BY <2>5, <3>2 DEF Stays
    <3> QED
      BY <1>1, <3>1, <3>3, <3>4, SameEntries
  <2>8. OfM(use', m) = Needs(m, V)
    BY <2>5, <2>6 DEF OfM, OtherEntries
  <2>9. Resident(use', m, A) = V
    BY <2>3, <2>8, GrownTree
  <2>10. mmap_list'[m] = A
    BY <1>2, <2>4
  <2>11. Seen(m)' = V /\ \A v \in Seen(m)' : Holds(m, v)' = mem'[use'[pte(m, v)]]
    BY <1>1, <2>9, <2>10, UserSeenNext
  <2>12. s = [v \in Pages(prog.segs) \cup StackPages |-> prog.data]
    BY <2>2, <2>5, <2>11
  <2>13. Memory' = [Memory EXCEPT ![m] = s]
    BY <2>7, SpaceChanges
  <2> HIDE DEF s
  <2>14. s \in Image
    BY <2>12 DEF Image
  <2> QED
    BY <2>13, <2>14 DEF Spaces!Exec
<1> QED
  BY <1>3, <1>4

-----------------------------------------------------------------------------
(* Every step of Vm is one of AddressSpaces, or changes no memory.         *)
LEMMA InitSpace ==
  ASSUME Init
  PROVE  Spaces!Init
<1>1. IInv
  BY InitInv
<1>2. /\ DOMAIN use = CheckTables /\ disk = <<>> /\ check_mm_struct # NULL
      /\ mmap_list = [m \in Mm |-> IF m # boot_mm THEN <<>> ELSE mmap_list[m]]
  BY Constants DEF Init, CheckTables
<1>3. ASSUME NEW m \in Mm PROVE Seen(m) = {}
  <2>1. CASE m = boot_mm
    <3>1. \A v : pte(m, v) \notin DOMAIN use
      <4>1. ASSUME NEW x \in CheckTables PROVE Len(x) # 4
        BY CheckLengths
      <4> QED
        BY <1>2, <4>1, PageLength
    <3>2. DOMAIN disk = {}
      BY <1>2
    <3> QED
      BY <3>1, <3>2 DEF Seen
  <2>2. CASE m # boot_mm
    <3>1. mmap_list[m] = <<>>
      BY <1>2, <2>2
    <3> QED
      BY <3>1, NoArea DEF Seen
  <2> QED
    BY <2>1, <2>2
<1>4. ASSUME NEW m \in Mm PROVE [v \in Seen(m) |-> Holds(m, v)] = Spaces!NoPages
  BY <1>3 DEF Spaces!NoPages
<1>5. Memory = [m \in Mm |-> Spaces!NoPages]
  BY <1>4, MemoryIs
<1> QED
  BY <1>5 DEF Spaces!Init

LEMMA AccessSpace ==
  ASSUME IInv, Access
  PROVE  Spaces!Next \/ UNCHANGED Memory
<1>1. PICK m \in Live, d \in Data : \E v \in Pages(mmap_list[m]) :
        \/ Store(m, v, d)
        \/ do_pgfault(m, v, d)
        \/ \E fails \in BOOLEAN : swap_out(m, v, d, fails)
  BY DEF Access
<1>2. PICK v \in Pages(mmap_list[m]) :
        \/ Store(m, v, d)
        \/ do_pgfault(m, v, d)
        \/ \E fails \in BOOLEAN : swap_out(m, v, d, fails)
  BY <1>1
<1>3. m \in Mm /\ v \in Va
  BY DEF Live, IInv, Lists
<1>4. v \notin DOMAIN Memory[m] /\ Spaces!Touch(m, v, d) => Spaces!Next
  BY <1>3 DEF Spaces!Next
<1>5. CASE Store(m, v, d)
  <2>1. v \in DOMAIN Memory[m] /\ Spaces!Store(m, v, d)
    BY <1>5, StoreSpace
  <2> QED
    BY <1>3, <2>1 DEF Spaces!Next
<1>6. CASE do_pgfault(m, v, d)
  BY <1>4, <1>6, FaultUserSpace, FaultCheckSpace
<1>7. CASE \E fails \in BOOLEAN : swap_out(m, v, d, fails)
  <2>1. PICK fails \in BOOLEAN : swap_out(m, v, d, fails)
    BY <1>7
  <2>2. check_mm_struct # NULL
    BY <2>1, Constants DEF swap_out, Live
  <2> QED
    BY <1>4, <2>1, <2>2, SwapSpace
<1> QED
  BY <1>2, <1>5, <1>6, <1>7

LEMMA UserSpace ==
  ASSUME IInv, UserStep
  PROVE  Spaces!Next \/ UNCHANGED Memory
<1>1. check_mm_struct = NULL
  BY DEF UserStep
<1>2. CASE \E m, n \in Mm : copy_mm(m, n)
  BY <1>1, <1>2, CopySpace DEF Spaces!Next
<1>3. CASE \E m \in Mm, p \in Programs : do_execve(m, p)
  BY <1>1, <1>3, ExecSpace DEF Spaces!Next
<1>4. CASE \E m \in Mm : do_exit(m)
  <2>1. PICK m \in Mm : do_exit(m)
    BY <1>4
  <2>2. /\ mmap_list' = [mmap_list EXCEPT ![m] = <<>>] /\ check_mm_struct' = NULL
        /\ GoneIs(m)
    BY <1>1, <2>1, Exited DEF do_exit
  <2>3. Spaces!Exit(m)
    BY <1>1, <2>2, GoneSpace
  <2> QED
    BY <2>3 DEF Spaces!Next
<1>5. CASE Panics
  <2>1. UNCHANGED <<use, mem, disk, mmap_list, check_mm_struct>>
    BY <1>5 DEF Panics, panic, swap
  <2> QED
    BY <2>1 DEF Memory
<1> QED
  BY <1>1, <1>2, <1>3, <1>4, <1>5 DEF UserStep

(* do_pgfault, swap_out and swap_in, copy_range, load_icode and exit_mmap  *)
(* give every process a memory of its own: a page keeps what was last      *)
(* stored in it, on the disk too, a store changes one page of one process, *)
(* fork copies every page, and a new program finds its segments and its    *)
(* stack.                                                                  *)
THEOREM SpacesAreSeparate == Spec => IsAddressSpaces
<1>1. Init => Spaces!Init
  BY InitSpace
<1>2. IInv /\ [Next]_vars => [Spaces!Next]_Memory
  <2> SUFFICES ASSUME IInv, [Next]_vars PROVE Spaces!Next \/ UNCHANGED Memory
    OBVIOUS
  <2>1. CASE Access
    BY <2>1, AccessSpace
  <2>2. CASE UserStep
    BY <2>2, UserSpace
  <2>3. CASE end_check_swap
    <3>1. Spaces!Exit(boot_mm)
      BY <2>3, EndSpace
    <3> QED
      BY <3>1, Constants DEF Spaces!Next
  <2>4. CASE UNCHANGED vars
    <3>1. UNCHANGED <<use, mem, disk, mmap_list, check_mm_struct>>
      BY <2>4 DEF vars, swap
    <3> QED
      BY <3>1 DEF Memory
  <2> QED
    BY <2>1, <2>2, <2>3, <2>4 DEF Next
<1> QED
  BY <1>1, <1>2, MemoryInvariant, PTL DEF Spec, IsAddressSpaces, Spaces!Spec

=============================================================================
