-------------------------- MODULE DefaultPmmProofs --------------------------
(***************************************************************************)
(* Proofs about DefaultPmm for any number of pages, as long as the pages   *)
(* at the top of memory stay free (KeepTop).                               *)
(***************************************************************************)
EXTENDS DefaultPmm, FiniteSetTheorems, WellFoundedInduction, TLAPS

(* The list L links the pages of F, and only them, in address order; the   *)
(* head has the address -1.                                                *)
NextIs(L, F, e) ==
  \/ L.next[e] \in F /\ L.next[e] > e /\ \A q \in F : q > e => q >= L.next[e]
  \/ L.next[e] = free_list /\ \A q \in F : q <= e

Chain(L, F) ==
  /\ L.next \in [Entry -> Entry] /\ L.prev \in [Entry -> Entry]
  /\ F \subseteq Page
  /\ \A e \in F \cup {free_list} :
       /\ NextIs(L, F, e)
       /\ L.prev[L.next[e]] = e
       /\ L.prev[e] \in F \cup {free_list} /\ L.next[L.prev[e]] = e

(* The blocks at the pages of F are in memory and do not overlap.          *)
Blocks(F, size) ==
  /\ size \in [Page -> Nat]
  /\ \A p \in F : size[p] >= 1 /\ p + size[p] <= NPage
  /\ \A p, q \in F : p < q => p + size[p] <= q

(* The pages of these blocks.                                              *)
Cover(F, size) == {x \in Page : \E p \in F : p <= x /\ x < p + size[p]}

(* Two blocks that touch.                                                  *)
Touch(F, size, p, q) == p \in F /\ q \in F /\ p < q /\ p + size[p] = q

FreePages == {x \in Page : holders[x] = 0}

(* The inductive invariant: a sound chain of blocks that have all been     *)
(* merged, which cover the pages nobody holds.                             *)
PmmInv ==
  /\ Chain(links, PageProperty)
  /\ Blocks(PageProperty, property)
  /\ \A p, q \in Page : ~Touch(PageProperty, property, p, q)
  /\ holders \in [Page -> {0, 1}]
  /\ Cover(PageProperty, property) = FreePages
  /\ nr_free = Cardinality(FreePages)
  /\ holders[NPage - 1] = 0

-----------------------------------------------------------------------------
(* __list_add between two neighbours, in the right place.                  *)
LEMMA LinkKeepsChain ==
  ASSUME NEW L, NEW F, Chain(L, F), NEW e \in Page, e \notin F,
         NEW p \in F \cup {free_list}, p < e,
         L.next[p] = free_list \/ e < L.next[p]
  PROVE  Chain(list_link(L, e, p, L.next[p]), F \cup {e})
<1> DEFINE n == L.next[p]
           M == list_link(L, e, p, n)
           G == F \cup {e}
<1>1. /\ L.next \in [Entry -> Entry] /\ L.prev \in [Entry -> Entry]
      /\ F \subseteq Page /\ G \subseteq Page
      /\ n \in F \cup {free_list} /\ n \in Entry /\ p \in Entry /\ e \in Entry
      /\ \A x \in F \cup {free_list} : x \in Entry /\ x \in Int
      /\ \A x \in F : x >= 0 /\ x # free_list
      /\ e \in Int /\ e # free_list /\ free_list = -1 /\ e >= 0 /\ L.prev[n] = p
      /\ n # e /\ p # e
  BY PmmAssumption DEF Chain, NextIs, Entry, Page, free_list
<1>2. /\ M.next = [L.next EXCEPT ![p] = e, ![e] = n]
      /\ M.prev = [L.prev EXCEPT ![n] = e, ![e] = p]
  BY DEF list_link
<1> HIDE DEF M
<1>3. /\ M.next \in [Entry -> Entry] /\ M.prev \in [Entry -> Entry]
      /\ \A x \in Entry : M.next[x] = IF x = e THEN n ELSE IF x = p THEN e ELSE L.next[x]
      /\ \A x \in Entry : M.prev[x] = IF x = e THEN p ELSE IF x = n THEN e ELSE L.prev[x]
  BY <1>1, <1>2
<1>4. \A x \in F \cup {free_list} :
        /\ NextIs(L, F, x) /\ L.prev[L.next[x]] = x
        /\ L.prev[x] \in F \cup {free_list} /\ L.next[L.prev[x]] = x
  BY DEF Chain
<1>5. p \in Int /\ n \in Int /\ p >= free_list
  <2>1. p \in Int /\ n \in Int
    BY <1>1
  <2>2. CASE p \in F
    BY <1>1, <2>1, <2>2
  <2>3. CASE p = free_list
    BY <1>1, <2>1, <2>3
  <2> QED
    BY <2>1, <2>2, <2>3
<1>6. \A q \in F : q > p => q > e
  <2> SUFFICES ASSUME NEW q \in F, q > p PROVE q > e
    OBVIOUS
  <2>1. q \in Int
    BY <1>1
  <2>2. NextIs(L, F, p)
    BY <1>4
  <2>3. n \in F /\ q >= n
    BY <1>5, <2>1, <2>2 DEF NextIs
  <2>4. e < n
    BY <1>1, <2>3
  <2> HIDE DEF n
  <2> QED
    BY <1>1, <1>5, <2>1, <2>3, <2>4
<1> HIDE DEF n
<1>7. ASSUME NEW x \in G \cup {free_list}
      PROVE  /\ NextIs(M, G, x)
             /\ M.prev[M.next[x]] = x
             /\ M.prev[x] \in G \cup {free_list} /\ M.next[M.prev[x]] = x
  <2>1. CASE x = e
    <3>1. M.next[x] = n /\ M.prev[x] = p
      BY <1>1, <1>3, <2>1
    <3>2. NextIs(M, G, x)
      <4>1. \A q \in G : q > e => q \in F /\ q > p
        <5> SUFFICES ASSUME NEW q \in G, q > e PROVE q \in F /\ q > p
          OBVIOUS
        <5>1. q \in F
          BY <1>1
        <5>2. q \in Int
          BY <1>1, <5>1
        <5> QED
          BY <1>1, <1>5, <5>1, <5>2
      <4>2. NextIs(L, F, p) /\ n = L.next[p]
        BY <1>4 DEF n
      <4>3. n = free_list \/ e < n
        BY DEF n
      <4>4. CASE n \in F /\ n > p /\ \A q \in F : q > p => q >= n
        <5>1. n \in G /\ e < n
          BY <1>1, <4>3, <4>4
        <5>2. \A q \in G : q > e => q >= n
          BY <4>1, <4>4
        <5> QED
          BY <1>5, <2>1, <3>1, <5>1, <5>2 DEF NextIs
      <4>5. CASE n = free_list /\ \A q \in F : q <= p
        <5>1. \A q \in G : q \in Int /\ ~(q > e)
          <6> SUFFICES ASSUME NEW q \in G PROVE q \in Int /\ ~(q > e)
            OBVIOUS
          <6>1. q \in Int
            BY <1>1
          <6> QED
            BY <1>5, <4>1, <4>5, <6>1
        <5>2. \A q \in G : q <= e
          BY <1>1, <5>1
        <5> QED
          BY <2>1, <3>1, <4>5, <5>2 DEF NextIs
      <4> QED
        BY <4>2, <4>4, <4>5 DEF NextIs
    <3> QED
      BY <1>1, <1>3, <2>1, <3>1, <3>2
  <2>2. CASE x = p
    <3>1. M.next[x] = e
      BY <1>1, <1>3, <2>2
    <3>2. NextIs(M, G, x)
      BY <1>1, <1>6, <2>2, <3>1 DEF NextIs
    <3>3. M.prev[e] = p
      BY <1>1, <1>3
    <3>4. CASE p = n
      <4>1. M.prev[x] = e /\ M.next[e] = n
        BY <1>1, <1>3, <2>2, <3>4
      <4> QED
        BY <2>2, <3>1, <3>2, <3>3, <3>4, <4>1
    <3>5. CASE p # n
      <4>1. M.prev[x] = L.prev[p]
        BY <1>1, <1>3, <2>2, <3>5
      <4>2. L.prev[p] \in F \cup {free_list} /\ L.next[L.prev[p]] = p
        BY <1>4
      <4>3. L.prev[p] # e /\ L.prev[p] # p
        <5>1. L.prev[p] # e
          BY <1>1, <4>2
        <5>2. ASSUME L.prev[p] = p PROVE FALSE
          BY <3>5, <4>2, <5>2 DEF n
        <5> QED
          BY <5>1, <5>2
      <4>4. M.next[L.prev[p]] = p
        BY <1>1, <1>3, <4>2, <4>3
      <4> QED
        BY <2>2, <3>1, <3>2, <3>3, <4>1, <4>2, <4>4
    <3> QED
      BY <3>4, <3>5
  <2>3. CASE x # e /\ x # p
    <3>1. x \in F \cup {free_list} /\ x \in Entry /\ x \in Int /\ L.next[x] \in Int
      <4>1. x \in F \cup {free_list}
        BY <2>3
      <4>2. L.next[x] \in F \cup {free_list}
        BY <1>4, <4>1 DEF NextIs
      <4> QED
        BY <1>1, <4>1, <4>2
    <3>2. M.next[x] = L.next[x] /\ L.next[x] \in F \cup {free_list}
      BY <1>3, <1>4, <2>3, <3>1 DEF NextIs
    <3>3. L.next[x] # n
      <4> SUFFICES ASSUME L.next[x] = n PROVE FALSE
        OBVIOUS
      <4> QED
        BY <1>1, <1>4, <2>3, <3>1
    <3>4. M.prev[L.next[x]] = x
      BY <1>1, <1>3, <1>4, <3>1, <3>2, <3>3
    <3>5. NextIs(M, G, x)
      <4>1. NextIs(L, F, x)
        BY <1>4, <3>1
      <4>2. CASE L.next[x] \in F /\ L.next[x] > x /\ \A q \in F : q > x => q >= L.next[x]
        <5>1. e > x => e >= L.next[x]
          <6> SUFFICES ASSUME e > x, e < L.next[x] PROVE FALSE
            BY <1>1, <1>5, <3>1
          <6>1. CASE p > x
            <7>1. p \in F /\ p >= L.next[x]
              BY <1>1, <1>5, <3>1, <4>2, <6>1
            <7> QED
              BY <1>1, <1>5, <3>1, <3>2, <4>2, <7>1, <6>1, <2>3, <1>4
          <6>2. CASE p <= x
            <7>1. p < x
              BY <1>5, <2>3, <3>1, <6>2
            <7>2. x \in F
              BY <1>1, <3>1, <7>1
            <7>3. x > e
              BY <1>6, <7>1, <7>2
            <7> QED
              BY <1>1, <3>1, <7>3
          <6> QED
            BY <1>5, <3>1, <6>1, <6>2
        <5> QED
          BY <3>2, <4>2, <5>1 DEF NextIs
      <4>3. CASE L.next[x] = free_list /\ \A q \in F : q <= x
        <5>1. e <= x
          <6> SUFFICES ASSUME e > x PROVE FALSE
            BY <1>1, <3>1
          <6>1. p <= x
            BY <1>1, <3>1, <4>3
          <6>2. p < x
            BY <1>5, <2>3, <3>1, <6>1
          <6>3. x \in F
            BY <1>1, <1>5, <3>1, <6>2
          <6>4. x > e
            BY <1>6, <6>2, <6>3
          <6> QED
            BY <1>1, <3>1, <6>4
        <5> QED
          BY <3>2, <4>3, <5>1 DEF NextIs
      <4> QED
        BY <4>1, <4>2, <4>3 DEF NextIs
    <3>6. M.prev[x] \in G \cup {free_list} /\ M.next[M.prev[x]] = x
      <4>1. CASE x = n
        <5>1. M.prev[x] = e /\ M.next[e] = n
          BY <1>1, <1>3, <2>3, <3>1, <4>1
        <5> QED
          BY <4>1, <5>1
      <4>2. CASE x # n
        <5>1. M.prev[x] = L.prev[x]
          BY <1>3, <2>3, <3>1, <4>2
        <5>2. L.prev[x] \in F \cup {free_list} /\ L.next[L.prev[x]] = x
          BY <1>4, <3>1
        <5>3. L.prev[x] # e /\ L.prev[x] # p
          BY <1>1, <4>2, <5>2 DEF n
        <5> QED
          BY <1>1, <1>3, <5>1, <5>2, <5>3
      <4> QED
        BY <4>1, <4>2
    <3> QED
      BY <3>2, <3>4, <3>5, <3>6
  <2> QED
    BY <2>1, <2>2, <2>3
<1>8. Chain(M, G)
  BY <1>1, <1>3, <1>7 DEF Chain
<1> QED
  BY <1>8 DEF M, n

(* list_del of an entry.                                                   *)
LEMMA DelKeepsChain ==
  ASSUME NEW L, NEW F, Chain(L, F), NEW e \in F
  PROVE  Chain(list_del(L, e), F \ {e})
<1> DEFINE n == L.next[e]
           p == L.prev[e]
           M == list_del(L, e)
           G == F \ {e}
<1>1. \A x \in F \cup {free_list} :
        /\ NextIs(L, F, x) /\ L.prev[L.next[x]] = x
        /\ L.prev[x] \in F \cup {free_list} /\ L.next[L.prev[x]] = x
  BY DEF Chain
<1>2. /\ L.next \in [Entry -> Entry] /\ L.prev \in [Entry -> Entry]
      /\ F \subseteq Page /\ G \subseteq Page
      /\ n \in F \cup {free_list} /\ n \in Entry
      /\ p \in F \cup {free_list} /\ p \in Entry /\ e \in Entry
      /\ e \in Page /\ e # free_list
  BY <1>1, PmmAssumption DEF Chain, NextIs, Entry, Page, free_list
<1>3. \A x \in F \cup {free_list} : /\ x \in Entry /\ x \in Int /\ x >= free_list
                                    /\ (x = free_list <=> x \notin F)
  BY <1>2, PmmAssumption DEF Entry, Page, free_list
<1>4. /\ M.next = [L.next EXCEPT ![p] = n]
      /\ M.prev = [L.prev EXCEPT ![n] = p]
  BY DEF list_del
<1> HIDE DEF M
<1>5. /\ M.next \in [Entry -> Entry] /\ M.prev \in [Entry -> Entry]
      /\ \A x \in Entry : M.next[x] = IF x = p THEN n ELSE L.next[x]
      /\ \A x \in Entry : M.prev[x] = IF x = n THEN p ELSE L.prev[x]
  BY <1>2, <1>4
<1>6. /\ L.next[p] = e /\ L.prev[n] = e
      /\ NextIs(L, F, e) /\ NextIs(L, F, p)
  BY <1>1, <1>2
<1>7. p # e /\ n # e
  <2>1. n # e
    BY <1>2, <1>3, <1>6 DEF NextIs
  <2>2. p # e
    BY <1>6, <2>1
  <2> QED
    BY <2>1, <2>2
<1>8. NextIs(M, G, p)
  <2>1. M.next[p] = n
    BY <1>2, <1>5
  <2>2. /\ e \in Int /\ p \in Int /\ n \in Int /\ e > p
        /\ \A q \in F : q \in Int /\ (q > p => q >= e)
    <3>1. e \in Int /\ p \in Int /\ n \in Int /\ \A q \in F : q \in Int
      BY <1>2, <1>3
    <3>2. L.next[p] = e /\ e # free_list
      BY <1>2, <1>6
    <3> QED
      BY <1>6, <3>1, <3>2 DEF NextIs
  <2>3. CASE n \in F /\ n > e /\ \A q \in F : q > e => q >= n
    <3>1. n \in G /\ n > p
      BY <1>7, <2>2, <2>3
    <3>2. ASSUME NEW q \in G, q > p PROVE q >= n
      <4>1. q >= e /\ q # e /\ q \in Int /\ q \in F
        BY <2>2, <3>2
      <4>2. q > e
        BY <2>2, <4>1
      <4> QED
        BY <2>3, <4>1, <4>2
    <3> QED
      BY <2>1, <3>1, <3>2 DEF NextIs
  <2>4. CASE n = free_list /\ \A q \in F : q <= e
    <3>1. ASSUME NEW q \in G PROVE q <= p
      <4>1. q <= e /\ q # e /\ q \in Int /\ q \in F
        BY <2>2, <2>4
      <4> QED
        BY <2>2, <4>1
    <3> QED
      BY <2>1, <2>4, <3>1 DEF NextIs
  <2> QED
    BY <1>6, <2>3, <2>4 DEF NextIs
<1> HIDE DEF n, p
<1>9. ASSUME NEW x \in G \cup {free_list}
      PROVE  /\ NextIs(M, G, x)
             /\ M.prev[M.next[x]] = x
             /\ M.prev[x] \in G \cup {free_list} /\ M.next[M.prev[x]] = x
  <2>1. x \in F \cup {free_list} /\ x \in Entry /\ x # e
    BY <1>2, <1>3
  <2>2. NextIs(M, G, x) /\ M.prev[M.next[x]] = x
    <3>1. CASE x = p
      <4>1. M.next[x] = n /\ M.prev[n] = p
        BY <1>2, <1>5, <3>1
      <4> QED
        BY <1>8, <3>1, <4>1
    <3>2. CASE x # p
      <4>1. M.next[x] = L.next[x] /\ NextIs(L, F, x) /\ L.prev[L.next[x]] = x
        BY <1>1, <1>5, <2>1, <3>2
      <4>2. L.next[x] # e /\ L.next[x] # n
        BY <1>6, <2>1, <3>2, <4>1 DEF p
      <4>3. L.next[x] \in Entry
        BY <1>2, <2>1
      <4>4. M.prev[L.next[x]] = x
        BY <1>5, <4>1, <4>2, <4>3
      <4> QED
        BY <4>1, <4>2, <4>4 DEF NextIs
    <3> QED
      BY <3>1, <3>2
  <2>3. M.prev[x] \in G \cup {free_list} /\ M.next[M.prev[x]] = x
    <3>1. CASE x = n
      <4>1. M.prev[x] = p /\ M.next[p] = n
        BY <1>2, <1>5, <2>1, <3>1
      <4> QED
        BY <1>2, <1>7, <3>1, <4>1
    <3>2. CASE x # n
      <4>1. M.prev[x] = L.prev[x] /\ L.prev[x] \in F \cup {free_list} /\ L.next[L.prev[x]] = x
        BY <1>1, <1>5, <2>1, <3>2
      <4>2. L.prev[x] # e /\ L.prev[x] # p
        BY <1>6, <2>1, <3>2, <4>1 DEF n
      <4>3. L.prev[x] \in Entry
        BY <1>2, <2>1
      <4> QED
        BY <1>5, <4>1, <4>2, <4>3
    <3> QED
      BY <3>1, <3>2
  <2> QED
    BY <2>2, <2>3
<1>10. Chain(M, G)
  BY <1>2, <1>5, <1>9 DEF Chain
<1> QED
  BY <1>10 DEF M

-----------------------------------------------------------------------------
(* A block takes in the one behind it: the pages stay the same, and no     *)
(* pair of blocks comes to touch that did not touch before.                *)
LEMMA JoinBlocks ==
  ASSUME NEW F, F \subseteq Page, NEW size, Blocks(F, size), NEW a \in F, NEW b \in F,
         a + size[a] = b, NEW joined \in [Page -> Nat], joined[a] = size[a] + size[b],
         \A p \in F \ {a} : joined[p] = size[p]
  PROVE  /\ Blocks(F \ {b}, joined)
         /\ Cover(F \ {b}, joined) = Cover(F, size)
         /\ \A p, q \in Page : Touch(F \ {b}, joined, p, q) =>
              \/ p # a /\ Touch(F, size, p, q)
              \/ p = a /\ Touch(F, size, b, q)
<1>1. /\ \A p \in F : p \in Int /\ p \in Page /\ size[p] \in Nat /\ size[p] >= 1 /\ p + size[p] <= NPage
      /\ \A p, q \in F : p < q => p + size[p] <= q
      /\ size \in [Page -> Nat]
  BY DEF Blocks, Page
<1>2. a < b /\ a # b
  BY <1>1
<1>3. /\ joined \in [Page -> Nat]
      /\ joined[a] = size[a] + size[b]
      /\ \A p \in F \ {a} : joined[p] = size[p]
  OBVIOUS
<1>4. a + joined[a] = b + size[b] /\ joined[a] >= 1
  BY <1>1, <1>3
<1>5. \A q \in F : q > a /\ q # b => q > b /\ b + size[b] <= q
  <2> SUFFICES ASSUME NEW q \in F, q > a, q # b PROVE q > b /\ b + size[b] <= q
    OBVIOUS
  <2>1. a + size[a] <= q
    BY <1>1
  <2>2. q > b
    BY <1>1, <2>1
  <2> QED
    BY <1>1, <2>2
<1>6. Blocks(F \ {b}, joined)
  <2>1. \A p \in F \ {b} : joined[p] >= 1 /\ p + joined[p] <= NPage
    BY <1>1, <1>3, <1>4
  <2>2. ASSUME NEW p \in F \ {b}, NEW q \in F \ {b}, p < q PROVE p + joined[p] <= q
    <3>1. CASE p = a
      BY <1>1, <1>4, <1>5, <2>2, <3>1
    <3>2. CASE p # a
      BY <1>1, <1>3, <2>2, <3>2
    <3> QED
      BY <3>1, <3>2
  <2> QED
    BY <1>3, <2>1, <2>2 DEF Blocks
<1>7. Cover(F \ {b}, joined) = Cover(F, size)
  <2>1. ASSUME NEW x \in Page, NEW p \in F, p <= x, x < p + size[p]
        PROVE  \E q \in F \ {b} : q <= x /\ x < q + joined[q]
    <3>0. x \in Int /\ p \in Int /\ a \in Int
      BY <1>1 DEF Page
    <3>1. CASE p = a \/ p = b
      <4>1. a \in F \ {b} /\ a <= x /\ x < a + joined[a]
        BY <1>1, <1>2, <1>4, <2>1, <3>0, <3>1
      <4> QED
        BY <4>1
    <3>2. CASE p # a /\ p # b
      <4>1. p \in F \ {b} /\ joined[p] = size[p]
        BY <1>3, <3>2
      <4> QED
        BY <2>1, <4>1
    <3> QED
      BY <3>1, <3>2
  <2>2. ASSUME NEW x \in Page, NEW p \in F \ {b}, p <= x, x < p + joined[p]
        PROVE  \E q \in F : q <= x /\ x < q + size[q]
    <3>0. x \in Int /\ p \in Int /\ a \in Int
      BY <1>1 DEF Page
    <3>1. CASE p = a
      <4>1. x < b + size[b]
        BY <1>4, <2>2, <3>1
      <4>2. CASE x < b
        <5>1. a <= x /\ x < a + size[a]
          BY <2>2, <3>1, <4>2
        <5> QED
          BY <5>1
      <4>3. CASE b <= x
        BY <4>1, <4>3
      <4> QED
        BY <1>1, <3>0, <4>2, <4>3
    <3>2. CASE p # a
      BY <1>3, <2>2, <3>2
    <3> QED
      BY <3>1, <3>2
  <2> QED
    BY <2>1, <2>2 DEF Cover
<1>8. ASSUME NEW p \in Page, NEW q \in Page, Touch(F \ {b}, joined, p, q)
      PROVE  \/ p # a /\ Touch(F, size, p, q)
             \/ p = a /\ Touch(F, size, b, q)
  <2>1. p \in F /\ q \in F /\ q # b /\ p < q /\ p + joined[p] = q
    BY <1>8 DEF Touch
  <2>2. CASE p = a
    <3>1. b + size[b] = q
      BY <1>4, <2>1, <2>2
    <3>2. q > b
      BY <1>1, <1>5, <2>1, <2>2
    <3> QED
      BY <2>1, <2>2, <3>1, <3>2 DEF Touch
  <2>3. CASE p # a
    BY <1>3, <2>1, <2>3 DEF Touch
  <2> QED
    BY <2>2, <2>3
<1> QED
  BY <1>6, <1>7, <1>8

Merged(m, F, size) ==
  /\ Chain(m.links, m.flags)
  /\ Blocks(m.flags, m.size)
  /\ Cover(m.flags, m.size) = Cover(F, size)
  /\ m.base \in m.flags

(* After MergePrev only the block behind base may touch it.                *)
LEMMA MergePrevKeeps ==
  ASSUME NEW L, NEW F, NEW size, Chain(L, F), Blocks(F, size), NEW base \in F,
         \A p, q \in Page : Touch(F, size, p, q) => p = base \/ q = base,
         NEW m, m = MergePrev(L, size, F, base)
  PROVE  /\ Merged(m, F, size)
         /\ \A p, q \in Page : Touch(m.flags, m.size, p, q) => p = m.base
<1> DEFINE a == L.prev[base]
<1>1. /\ F \subseteq Page /\ free_list \notin F
      /\ a \in F \cup {free_list} /\ L.next[a] = base /\ NextIs(L, F, a)
      /\ \A x \in F : x \in Int /\ x >= 0 /\ size[x] \in Nat /\ size[x] >= 1
      /\ \A p, q \in F : p < q => p + size[p] <= q
  <2>1. F \subseteq Page
    BY DEF Chain
  <2>2. free_list \notin F /\ \A x \in F : x \in Int /\ x >= 0
    BY <2>1, PmmAssumption DEF Page, free_list
  <2>3. a \in F \cup {free_list} /\ L.next[a] = base
    BY DEF Chain
  <2>4. NextIs(L, F, a)
    BY <2>3 DEF Chain
  <2>5. size \in [Page -> Nat]
    BY DEF Blocks
  <2>6. \A x \in F : size[x] \in Nat /\ size[x] >= 1
    BY <2>1, <2>5 DEF Blocks
  <2>7. \A p, q \in F : p < q => p + size[p] <= q
    BY DEF Blocks
  <2> QED
    BY <2>1, <2>2, <2>3, <2>4, <2>6, <2>7
<1>2. CASE a # free_list /\ a + size[a] = base
  <2> DEFINE joined == [size EXCEPT ![a] = size[a] + size[base]]
  <2>1. /\ m.links = list_del(L, base) /\ m.size = joined
        /\ m.flags = F \ {base} /\ m.base = a
    BY <1>2 DEF MergePrev
  <2>2. a \in F
    BY <1>1, <1>2
  <2>3. a # base
    BY <1>1, <1>2, <2>2
  <2>0. /\ joined \in [Page -> Nat] /\ joined[a] = size[a] + size[base]
        /\ \A p \in F \ {a} : joined[p] = size[p]
    BY <1>1, <2>2 DEF Blocks
  <2> HIDE DEF a, joined
  <2>4. Chain(m.links, m.flags)
    BY <2>1, DelKeepsChain
  <2>5. /\ Blocks(F \ {base}, joined)
        /\ Cover(F \ {base}, joined) = Cover(F, size)
        /\ \A p, q \in Page : Touch(F \ {base}, joined, p, q) =>
             \/ p # a /\ Touch(F, size, p, q)
             \/ p = a /\ Touch(F, size, base, q)
    BY <1>1, <1>2, <2>0, <2>2, JoinBlocks
  <2>6. \A p, q \in Page : Touch(m.flags, m.size, p, q) => p = m.base
    BY <2>1, <2>5 DEF Touch
  <2> QED
    BY <2>1, <2>2, <2>3, <2>4, <2>5, <2>6 DEF Merged
<1>3. CASE ~(a # free_list /\ a + size[a] = base)
  <2>1. m.links = L /\ m.size = size /\ m.flags = F /\ m.base = base
    BY <1>3 DEF MergePrev
  <2> HIDE DEF a
  <2>2. ASSUME NEW p \in Page, NEW q \in Page, Touch(F, size, p, q), p # base PROVE FALSE
    <3>1. q = base /\ p \in F /\ p < base /\ p + size[p] = base
      BY <2>2 DEF Touch
    <3>2. CASE a \in F /\ a > p
      <4>1. a < base
        BY <1>1, <3>2 DEF NextIs
      <4>2. p + size[p] <= a
        BY <1>1, <3>1, <3>2
      <4> QED
        BY <1>1, <3>1, <3>2, <4>1, <4>2
    <3>3. CASE a = p
      BY <1>1, <1>3, <3>1, <3>3
    <3>4. CASE a = free_list \/ a < p
      <4>1. p > a
        BY <1>1, <3>1, <3>4 DEF Page, free_list
      <4>2. p >= base
        BY <1>1, <3>1, <4>1 DEF NextIs
      <4> QED
        BY <1>1, <3>1, <4>2
    <3> QED
      BY <1>1, <3>1, <3>2, <3>3, <3>4
  <2> QED
    BY <2>1, <2>2 DEF Merged
<1> QED
  BY <1>2, <1>3

(* After MergeNext no two blocks touch.                                    *)
LEMMA MergeNextKeeps ==
  ASSUME NEW L, NEW F, NEW size, Chain(L, F), Blocks(F, size), NEW base \in F,
         \A p, q \in Page : Touch(F, size, p, q) => p = base,
         NEW m, m = MergeNext(L, size, F, base)
  PROVE  /\ Merged(m, F, size)
         /\ \A p, q \in Page : ~Touch(m.flags, m.size, p, q)
<1> DEFINE b == L.next[base]
<1>1. /\ F \subseteq Page /\ free_list \notin F
      /\ b \in F \cup {free_list} /\ NextIs(L, F, base)
      /\ \A x \in F : x \in Int /\ x >= 0 /\ size[x] \in Nat /\ size[x] >= 1
      /\ \A p, q \in F : p < q => p + size[p] <= q
  <2>1. F \subseteq Page
    BY DEF Chain
  <2>2. free_list \notin F /\ \A x \in F : x \in Int /\ x >= 0
    BY <2>1, PmmAssumption DEF Page, free_list
  <2>3. NextIs(L, F, base)
    BY DEF Chain
  <2>4. b \in F \cup {free_list}
    BY <2>3 DEF NextIs
  <2>5. size \in [Page -> Nat]
    BY DEF Blocks
  <2>6. \A x \in F : size[x] \in Nat /\ size[x] >= 1
    BY <2>1, <2>5 DEF Blocks
  <2>7. \A p, q \in F : p < q => p + size[p] <= q
    BY DEF Blocks
  <2> QED
    BY <2>1, <2>2, <2>3, <2>4, <2>6, <2>7
<1>2. CASE b # free_list /\ base + size[base] = b
  <2> DEFINE joined == [size EXCEPT ![base] = size[base] + size[b]]
  <2>1. /\ m.links = list_del(L, b) /\ m.size = joined
        /\ m.flags = F \ {b} /\ m.base = base
    BY <1>2 DEF MergeNext
  <2>2. b \in F /\ b # base
    BY <1>1, <1>2
  <2>0. /\ joined \in [Page -> Nat] /\ joined[base] = size[base] + size[b]
        /\ \A p \in F \ {base} : joined[p] = size[p]
    BY <1>1, <2>2 DEF Blocks
  <2> HIDE DEF b, joined
  <2>3. Chain(m.links, m.flags)
    BY <2>1, <2>2, DelKeepsChain
  <2>4. /\ Blocks(F \ {b}, joined)
        /\ Cover(F \ {b}, joined) = Cover(F, size)
        /\ \A p, q \in Page : Touch(F \ {b}, joined, p, q) =>
             \/ p # base /\ Touch(F, size, p, q)
             \/ p = base /\ Touch(F, size, b, q)
    BY <1>1, <1>2, <2>0, <2>2, JoinBlocks
  <2>5. \A p, q \in Page : ~Touch(m.flags, m.size, p, q)
    BY <1>1, <2>1, <2>2, <2>4
  <2> QED
    BY <2>1, <2>2, <2>3, <2>4, <2>5 DEF Merged
<1>3. CASE ~(b # free_list /\ base + size[base] = b)
  <2>1. m.links = L /\ m.size = size /\ m.flags = F /\ m.base = base
    BY <1>3 DEF MergeNext
  <2>2. ASSUME NEW p \in Page, NEW q \in Page, Touch(F, size, p, q) PROVE FALSE
    <3>1. p = base /\ q \in F /\ base < q /\ base + size[base] = q
      BY <2>2 DEF Touch
    <3>2. b \in F /\ b > base /\ q >= b
      BY <1>1, <3>1 DEF NextIs
    <3>3. q # b
      BY <1>1, <1>3, <3>1, <3>2
    <3> HIDE DEF b
    <3>4. base + size[base] <= b
      BY <1>1, <3>2
    <3> QED
      BY <1>1, <3>1, <3>2, <3>3, <3>4
  <2> QED
    BY <2>1, <2>2 DEF Merged
<1> QED
  BY <1>2, <1>3

(* The pages of a block below rest are given out and the others are a      *)
(* block of their own.                                                     *)
LEMMA CutBlock ==
  ASSUME NEW F, F \subseteq Page, NEW size, Blocks(F, size), NEW page \in F,
         NEW rest \in Int, page < rest, rest < page + size[page],
         NEW cut \in [Page -> Nat], rest + cut[rest] = page + size[page],
         cut[rest] >= 1, \A p \in F : cut[p] = size[p]
  PROVE  /\ Blocks((F \ {page}) \cup {rest}, cut)
         /\ Cover((F \ {page}) \cup {rest}, cut) = Cover(F, size) \ (page..rest - 1)
         /\ \A p, q \in Page : Touch((F \ {page}) \cup {rest}, cut, p, q) =>
              \E r \in Page : Touch(F, size, r, q)
<1> DEFINE G == (F \ {page}) \cup {rest}
<1>1. /\ \A p \in F : p \in Int /\ p \in Page /\ size[p] \in Nat /\ size[p] >= 1 /\ p + size[p] <= NPage
      /\ \A p, q \in F : p < q => p + size[p] <= q
      /\ NPage \in Int
  BY PmmAssumption DEF Blocks, Page
<1>2. /\ rest \in Int /\ page \in Int /\ size[page] \in Nat /\ rest \in Page
      /\ cut[rest] \in Int /\ cut[rest] >= 1
      /\ rest + cut[rest] = page + size[page] /\ page < rest
  <2>1. page \in Int /\ page >= 0 /\ size[page] \in Nat /\ page + size[page] <= NPage
    BY <1>1 DEF Page
  <2>2. rest \in Page
    BY <1>1, <2>1 DEF Page
  <2> QED
    BY <2>1, <2>2
<1>3. \A p \in F \ {page} : (p < page /\ p + size[p] <= page) \/ (p > rest /\ page + size[page] <= p)
  <2> SUFFICES ASSUME NEW p \in F \ {page}
               PROVE  (p < page /\ p + size[p] <= page) \/ (p > rest /\ page + size[page] <= p)
    OBVIOUS
  <2>1. page \in Int /\ p \in Int /\ size[page] \in Int /\ p # page
    BY <1>1
  <2>2. CASE p < page
    <3>1. p + size[p] <= page
      BY <1>1, <2>2
    <3> QED
      BY <2>2, <3>1
  <2>3. CASE page < p
    <3>1. page + size[page] <= p
      BY <1>1, <2>3
    <3> QED
      BY <1>2, <2>1, <3>1
  <2> QED
    BY <2>1, <2>2, <2>3
<1>4. Blocks(G, cut)
  <2>1. \A p \in G : cut[p] >= 1 /\ p + cut[p] <= NPage
    BY <1>1, <1>2
  <2>2. ASSUME NEW p \in G, NEW q \in G, p < q PROVE p + cut[p] <= q
    <3>1. CASE p = rest
      BY <1>1, <1>2, <1>3, <2>2, <3>1
    <3>2. CASE p # rest /\ q = rest
      BY <1>1, <1>2, <1>3, <2>2, <3>2
    <3>3. CASE p # rest /\ q # rest
      BY <1>1, <2>2, <3>3
    <3> QED
      BY <3>1, <3>2, <3>3
  <2> QED
    BY <2>1, <2>2 DEF Blocks
<1>5. Cover(G, cut) = Cover(F, size) \ (page..rest - 1)
  <2>1. ASSUME NEW x \in Page, NEW p \in G, p <= x, x < p + cut[p]
        PROVE  x \notin page..rest - 1 /\ \E q \in F : q <= x /\ x < q + size[q]
    <3>0. x \in Int
      BY DEF Page
    <3>1. CASE p = rest
      <4>1. page <= x /\ x < page + size[page] /\ x \notin page..rest - 1
        BY <1>1, <1>2, <2>1, <3>0, <3>1
      <4> QED
        BY <4>1
    <3>2. CASE p # rest
      <4>1. p \in F \ {page} /\ cut[p] = size[p]
        BY <3>2
      <4>2. x \notin page..rest - 1
        BY <1>1, <1>2, <1>3, <2>1, <3>0, <4>1
      <4> QED
        BY <2>1, <4>1, <4>2
    <3> QED
      BY <3>1, <3>2
  <2>2. ASSUME NEW x \in Page, x \notin page..rest - 1, NEW p \in F, p <= x, x < p + size[p]
        PROVE  \E q \in G : q <= x /\ x < q + cut[q]
    <3>0. x \in Int
      BY DEF Page
    <3>1. CASE p = page
      <4>1. rest <= x /\ x < rest + cut[rest]
        BY <1>1, <1>2, <2>2, <3>0, <3>1
      <4> QED
        BY <4>1
    <3>2. CASE p # page
      BY <2>2, <3>2
    <3> QED
      BY <3>1, <3>2
  <2> HIDE DEF G
  <2> QED
    BY <2>1, <2>2 DEF Cover
<1>6. ASSUME NEW p \in Page, NEW q \in Page, Touch(G, cut, p, q)
      PROVE  \E r \in Page : Touch(F, size, r, q)
  <2>1. p \in G /\ q \in G /\ p < q /\ p + cut[p] = q
    BY <1>6 DEF Touch
  <2>2. CASE q = rest
    <3>1. p \in F \ {page} /\ cut[p] = size[p]
      BY <1>2, <2>1, <2>2
    <3> QED
      BY <1>1, <1>2, <1>3, <2>1, <2>2, <3>1
  <2>3. CASE p = rest /\ q # rest
    <3>1. q \in F /\ page < q /\ page + size[page] = q
      BY <1>1, <1>2, <2>1, <2>3
    <3> QED
      BY <1>1, <3>1 DEF Touch
  <2>4. CASE p # rest /\ q # rest
    BY <1>1, <2>1, <2>4 DEF Touch
  <2> QED
    BY <2>2, <2>3, <2>4
<1> QED
  BY <1>4, <1>5, <1>6

(* A whole block is given out.                                             *)
LEMMA DropBlock ==
  ASSUME NEW F, F \subseteq Page, NEW size, Blocks(F, size), NEW page \in F
  PROVE  /\ Blocks(F \ {page}, size)
         /\ Cover(F \ {page}, size) = Cover(F, size) \ (page..page + size[page] - 1)
         /\ \A p, q \in Page : Touch(F \ {page}, size, p, q) => Touch(F, size, p, q)
<1>1. /\ \A p \in F : p \in Int /\ size[p] \in Nat /\ size[p] >= 1 /\ p + size[p] <= NPage
      /\ \A p, q \in F : p < q => p + size[p] <= q
      /\ size \in [Page -> Nat]
  BY PmmAssumption DEF Blocks, Page
<1>2. \A p \in F \ {page} : (p < page /\ p + size[p] <= page) \/ page + size[page] <= p
  BY <1>1
<1>3. Blocks(F \ {page}, size)
  BY <1>1 DEF Blocks
<1>4. Cover(F \ {page}, size) = Cover(F, size) \ (page..page + size[page] - 1)
  <2>1. ASSUME NEW x \in Page, NEW p \in F \ {page}, p <= x, x < p + size[p]
        PROVE  x \notin page..page + size[page] - 1
    BY <1>1, <1>2, <2>1 DEF Page
  <2>2. ASSUME NEW x \in Page, x \notin page..page + size[page] - 1,
               NEW p \in F, p <= x, x < p + size[p]
        PROVE  p # page
    BY <1>1, <2>2 DEF Page
  <2> QED
    BY <2>1, <2>2 DEF Cover
<1> QED
  BY <1>3, <1>4 DEF Touch

(* A new block where no block is.                                          *)
LEMMA AddBlock ==
  ASSUME NEW F, F \subseteq Page, NEW size, Blocks(F, size), NEW base \in Page,
         NEW new \in [Page -> Nat], 1 <= new[base], base + new[base] <= NPage,
         \A x \in base..base + new[base] - 1 : x \notin Cover(F, size),
         \A p \in F : p # base => new[p] = size[p]
  PROVE  /\ base \notin F
         /\ Blocks(F \cup {base}, new)
         /\ Cover(F \cup {base}, new) = Cover(F, size) \cup (base..base + new[base] - 1)
         /\ \A p, q \in Page : Touch(F \cup {base}, new, p, q) =>
              Touch(F, size, p, q) \/ p = base \/ q = base
<1> DEFINE n == new[base]
<1>0. n \in Nat /\ 1 <= n /\ base + n <= NPage /\ n = new[base]
  OBVIOUS
<1>1. /\ \A p \in F : p \in Int /\ p \in Page /\ size[p] \in Nat /\ size[p] >= 1 /\ p + size[p] <= NPage
      /\ \A p, q \in F : p < q => p + size[p] <= q
      /\ base \in Int /\ NPage \in Int
      /\ base..base + n - 1 \subseteq Page
  <2>1. base \in Int /\ base >= 0 /\ NPage \in Int
    BY PmmAssumption DEF Page
  <2>2. base..base + n - 1 \subseteq Page
    <3> HIDE DEF n
    <3> QED
      BY <1>0, <2>1 DEF Page
  <2>3. \A p \in F : p \in Int /\ p \in Page
    BY DEF Page
  <2>4. /\ \A p \in F : size[p] \in Nat /\ size[p] >= 1 /\ p + size[p] <= NPage
        /\ \A p, q \in F : p < q => p + size[p] <= q
    BY <2>3 DEF Blocks
  <2> QED
    BY <2>1, <2>2, <2>3, <2>4
<1>2. \A x \in base..base + n - 1 : \A p \in F : ~(p <= x /\ x < p + size[p])
  BY <1>1 DEF Cover
<1>3. base \notin F
  <2>1. base \in base..base + n - 1
    BY <1>1
  <2> QED
    BY <1>1, <1>2, <2>1
<1>4. \A p \in F : new[p] = size[p]
  BY <1>3
<1>5. \A p \in F : (p < base /\ p + size[p] <= base) \/ base + n <= p
  <2> SUFFICES ASSUME NEW p \in F PROVE (p < base /\ p + size[p] <= base) \/ base + n <= p
    OBVIOUS
  <2>1. base \in base..base + n - 1
    BY <1>1
  <2>2. ~(p <= base /\ base < p + size[p])
    BY <1>2, <2>1
  <2>3. p \in base..base + n - 1 => ~(p <= p /\ p < p + size[p])
    BY <1>2
  <2> QED
    BY <1>1, <2>2, <2>3
<1>6. Blocks(F \cup {base}, new)
  <2>1. \A p \in F \cup {base} : new[p] >= 1 /\ p + new[p] <= NPage
    BY <1>1, <1>4
  <2>2. ASSUME NEW p \in F \cup {base}, NEW q \in F \cup {base}, p < q PROVE p + new[p] <= q
    <3>1. CASE p = base
      BY <1>1, <1>5, <2>2, <3>1
    <3>2. CASE p # base /\ q = base
      BY <1>1, <1>4, <1>5, <2>2, <3>2
    <3>3. CASE p # base /\ q # base
      BY <1>1, <1>4, <2>2, <3>3
    <3> QED
      BY <3>1, <3>2, <3>3
  <2> QED
    BY <2>1, <2>2 DEF Blocks
<1>7. Cover(F \cup {base}, new) = Cover(F, size) \cup (base..base + new[base] - 1)
  <2>1. \A x \in Page : x \in base..base + n - 1 <=> base <= x /\ x < base + new[base]
    BY <1>1 DEF Page
  <2> QED
    BY <1>1, <1>3, <1>4, <2>1 DEF Cover
<1>8. ASSUME NEW p \in Page, NEW q \in Page, Touch(F \cup {base}, new, p, q),
             p # base, q # base
      PROVE  Touch(F, size, p, q)
  BY <1>4, <1>8 DEF Touch
<1> QED
  BY <1>3, <1>6, <1>7, <1>8

-----------------------------------------------------------------------------
(* Induction over the natural numbers, in a form without operators.        *)
LEMMA LeastNat ==
  ASSUME NEW T, T \subseteq Nat, T # {}
  PROVE  \E x \in T : \A y \in T : x <= y
<1> DEFINE R == OpToRel(<, Nat)
<1>1. IsWellFoundedOn(R, Nat)
  BY NatLessThanWellFounded
<1>2. \E x \in T : \A y \in T : ~(<<y, x>> \in R)
  <2> HIDE DEF R
  <2> QED
    BY <1>1, WFMin
<1>3. \A x, y \in Nat : ~(<<y, x>> \in R) => x <= y
  BY DEF OpToRel
<1> HIDE DEF R
<1>4. \A x \in T : x \in Nat
  OBVIOUS
<1> QED
  BY <1>2, <1>3, <1>4, Zenon

LEMMA SetInduction ==
  ASSUME NEW S, 0 \in S, \A n \in Nat : n \in S => n + 1 \in S
  PROVE  Nat \subseteq S
<1> SUFFICES ASSUME Nat \ S # {} PROVE FALSE
  OBVIOUS
<1>1. PICK x \in Nat \ S : \A y \in Nat \ S : x <= y
  BY LeastNat
<1>2. x # 0 /\ x - 1 \in Nat /\ x - 1 \notin Nat \ S
  BY <1>1
<1> QED
  BY <1>1, <1>2

(* The recursion of Walk defines a function.                               *)
IsWalk(f, head, next, n) ==
  f = [k \in 0..n |-> IF k = 0 THEN head ELSE next[f[k - 1]]]

LEMMA WalkExists ==
  ASSUME NEW head, NEW next, NEW n \in Nat
  PROVE  \E f : IsWalk(f, head, next, n)
<1> DEFINE S == {i \in Nat : \E f : IsWalk(f, head, next, i)}
<1>1. 0 \in S
  <2> DEFINE f == [k \in 0..0 |-> head]
  <2>1. IsWalk(f, head, next, 0)
    BY DEF IsWalk
  <2> QED
    BY <2>1
<1>2. ASSUME NEW i \in Nat, i \in S PROVE i + 1 \in S
  <2>1. PICK f : IsWalk(f, head, next, i)
    BY <1>2
  <2> DEFINE e == next[f[i]]
             g == [j \in 0..i + 1 |-> IF j = i + 1 THEN e ELSE f[j]]
             h == [j \in 0..i + 1 |-> IF j = 0 THEN head ELSE next[g[j - 1]]]
  <2>2. \A j \in 0..i : f[j] = IF j = 0 THEN head ELSE next[f[j - 1]]
    BY <2>1 DEF IsWalk
  <2>3. ASSUME NEW j \in 0..i + 1 PROVE g[j] = h[j]
    <3>1. CASE j = 0
      BY <2>2, <3>1
    <3>2. CASE j \in 1..i
      <4>1. j \in 0..i /\ j # i + 1 /\ j - 1 \in 0..i + 1 /\ j - 1 # i + 1 /\ j # 0
        BY <3>2
      <4>2. g[j] = f[j] /\ g[j - 1] = f[j - 1]
        BY <4>1
      <4> QED
        BY <2>2, <4>1, <4>2
    <3>3. CASE j = i + 1
      <4>1. g[j] = e /\ j - 1 = i /\ g[i] = f[i] /\ j # 0
        BY <3>3
      <4> QED
        BY <4>1
    <3> QED
      BY <3>1, <3>2, <3>3
  <2>4. g = h
    BY <2>3
  <2>5. IsWalk(g, head, next, i + 1)
    BY <2>4 DEF IsWalk
  <2> QED
    BY <2>5
<1>3. Nat \subseteq S
  <2> HIDE DEF S
  <2> QED
    BY <1>1, <1>2, SetInduction
<1> QED
  BY <1>3

LEMMA NodesSteps ==
  /\ Nodes[0] = free_list
  /\ \A k \in 1..NPage + 1 : Nodes[k] = links.next[Nodes[k - 1]]
<1> DEFINE n == NPage + 1  next == links.next
<1>1. n \in Nat /\ NPage \in Nat
  BY PmmAssumption
<1>2. \E f : IsWalk(f, free_list, next, n)
  <2> HIDE DEF n, next
  <2> QED
    BY <1>1, WalkExists
<1>3. IsWalk(Nodes, free_list, next, n)
  BY <1>2 DEF IsWalk, Nodes, Walk
<1> HIDE DEF next
<1>4. \A k \in 0..n : Nodes[k] = IF k = 0 THEN free_list ELSE next[Nodes[k - 1]]
  <2> HIDE DEF n
  <2> QED
    BY <1>3 DEF IsWalk
<1>5. 0 \in 0..n /\ \A k \in 1..n : k \in 0..n /\ k # 0
  BY <1>1
<1> QED
  BY <1>4, <1>5 DEF next

(* A walk along a chain stays on it.                                       *)
LEMMA NodesStay ==
  ASSUME NEW F, Chain(links, F)
  PROVE  \A k \in 0..NPage + 1 : Nodes[k] \in F \cup {free_list}
<1> DEFINE S == {i \in Nat : i <= NPage + 1 => Nodes[i] \in F \cup {free_list}}
<1>1. 0 \in S
  BY NodesSteps
<1>2. ASSUME NEW i \in Nat, i \in S PROVE i + 1 \in S
  <2> SUFFICES ASSUME i + 1 <= NPage + 1 PROVE Nodes[i + 1] \in F \cup {free_list}
    OBVIOUS
  <2>1. NPage \in Nat /\ Nodes[i] \in F \cup {free_list} /\ i + 1 \in 1..NPage + 1
    BY <1>2, PmmAssumption
  <2>2. Nodes[i + 1] = links.next[Nodes[i]]
    BY <2>1, NodesSteps
  <2>3. NextIs(links, F, Nodes[i])
    BY <2>1 DEF Chain
  <2> QED
    BY <2>2, <2>3 DEF NextIs
<1>3. Nat \subseteq S
  <2> HIDE DEF S
  <2> QED
    BY <1>1, <1>2, SetInduction
<1>4. \A k \in 0..NPage + 1 : k \in Nat /\ k <= NPage + 1
  BY PmmAssumption
<1> QED
  BY <1>3, <1>4

(* It climbs by at least one page a step until it is back at the head.     *)
LEMMA NodesClimb ==
  ASSUME NEW F, Chain(links, F), NEW m \in 0..NPage + 1, \A j \in 1..m : Nodes[j] \in F
  PROVE  Nodes[m] >= m - 1
<1> DEFINE S == {i \in Nat : i <= m => Nodes[i] >= i - 1}
<1>0. m \in Nat /\ m <= NPage + 1 /\ NPage \in Nat
  BY PmmAssumption
<1>1. 0 \in S
  BY NodesSteps DEF free_list
<1>2. ASSUME NEW i \in Nat, i \in S PROVE i + 1 \in S
  <2> SUFFICES ASSUME i + 1 <= m PROVE Nodes[i + 1] >= (i + 1) - 1
    OBVIOUS
  <2>1. Nodes[i] >= i - 1 /\ i + 1 \in 1..NPage + 1 /\ i \in 0..NPage + 1 /\ i + 1 \in 1..m
    BY <1>0, <1>2
  <2>2. Nodes[i + 1] = links.next[Nodes[i]] /\ Nodes[i + 1] \in F
    BY <2>1, NodesSteps
  <2>3. NextIs(links, F, Nodes[i]) /\ Nodes[i] \in F \cup {free_list}
    BY <2>1, NodesStay DEF Chain
  <2>4. \A e \in F : e \in Int /\ e # free_list
    BY PmmAssumption DEF Chain, Page, free_list
  <2>5. Nodes[i] \in Int
    BY <2>3, <2>4 DEF free_list
  <2>6. Nodes[i + 1] > Nodes[i]
    BY <2>2, <2>3, <2>4 DEF NextIs
  <2> QED
    BY <2>1, <2>2, <2>4, <2>5, <2>6
<1>3. Nat \subseteq S
  <2> HIDE DEF S
  <2> QED
    BY <1>1, <1>2, SetInduction
<1> QED
  BY <1>0, <1>3

(* There is a first entry that is the head or has an address of p or more. *)
LEMMA FirstFrom ==
  ASSUME NEW F, Chain(links, F), NEW p \in Int
  PROVE  \E k \in 1..NPage + 1 :
           /\ Nodes[k] \notin F \/ Nodes[k] >= p
           /\ \A j \in 1..k - 1 : Nodes[j] \in F /\ Nodes[j] < p
<1> DEFINE T == {k \in 1..NPage + 1 : Nodes[k] \notin F \/ Nodes[k] >= p}
<1>0. NPage \in Nat /\ NPage >= 1 /\ F \subseteq Page /\ \A e \in F : e \in Int /\ e <= NPage - 1
  BY PmmAssumption DEF Chain, Page
<1>1. T # {}
  <2> SUFFICES ASSUME \A k \in 1..NPage + 1 : Nodes[k] \in F PROVE FALSE
    OBVIOUS
  <2> DEFINE m == NPage + 1
  <2>1. m \in 0..NPage + 1 /\ m \in 1..NPage + 1 /\ \A j \in 1..m : Nodes[j] \in F
    BY <1>0
  <2>2. m - 1 = NPage
    BY <1>0
  <2> HIDE DEF m
  <2>3. Nodes[m] >= m - 1
    BY <2>1, NodesClimb
  <2>4. Nodes[m] \in F
    BY <2>1
  <2> QED
    BY <1>0, <2>2, <2>3, <2>4
<1>2. T \subseteq Nat
  BY <1>0
<1>3. PICK k \in T : \A y \in T : k <= y
  <2> HIDE DEF T
  <2> QED
    BY <1>1, <1>2, LeastNat
<1>4. ASSUME NEW j \in 1..k - 1 PROVE Nodes[j] \in F /\ Nodes[j] < p
  <2>1. j \in 1..NPage + 1 /\ ~(k <= j)
    BY <1>0, <1>3
  <2>2. Nodes[j] \in F /\ ~(Nodes[j] >= p)
    BY <1>3, <2>1
  <2> QED
    BY <1>0, <2>2
<1> QED
  BY <1>3, <1>4

-----------------------------------------------------------------------------
LEMMA PagesAreFinite ==
  /\ \A S : S \subseteq Page => IsFiniteSet(S) /\ Cardinality(S) \in Nat
  /\ Cardinality(Page) = NPage
  /\ \A base \in Page, n \in Nat : base + n <= NPage =>
       /\ base..base + n - 1 \subseteq Page
       /\ Cardinality(base..base + n - 1) = n
<1>1. NPage \in Nat /\ NPage >= 1 /\ Page = 0..NPage - 1
  BY PmmAssumption DEF Page
<1>2. ASSUME NEW base \in Page, NEW n \in Nat, base + n <= NPage
      PROVE  /\ base..base + n - 1 \subseteq Page
             /\ Cardinality(base..base + n - 1) = n
  <2> DEFINE b == base + n - 1
  <2>1. base \in Int /\ b \in Int /\ base..b \subseteq Page
    BY <1>1, <1>2
  <2>2. b - base + 1 = n /\ (base > b <=> n = 0)
    BY <1>1
  <2> HIDE DEF b
  <2>3. Cardinality(base..b) = IF base > b THEN 0 ELSE b - base + 1
    BY <2>1, FS_Interval
  <2>4. Cardinality(base..b) = n
    BY <2>1, <2>2, <2>3
  <2> QED
    BY <2>1, <2>4 DEF b
<1>3. IsFiniteSet(Page) /\ Cardinality(Page) = NPage
  <2> DEFINE b == NPage - 1
  <2>1. 0 \in Int /\ b \in Int /\ ~(0 > b) /\ b - 0 + 1 = NPage /\ Page = 0..b
    BY <1>1
  <2> HIDE DEF b
  <2> QED
    BY <2>1, FS_Interval
<1>4. ASSUME NEW S, S \subseteq Page PROVE IsFiniteSet(S) /\ Cardinality(S) \in Nat
  BY <1>3, <1>4, FS_Subset, FS_CardinalityType
<1> QED
  BY <1>2, <1>3, <1>4

LEMMA PmmInit == Init => PmmInv
<1> SUFFICES ASSUME Init PROVE PmmInv
  OBVIOUS
<1>1. /\ NPage \in Nat /\ NPage >= 1 /\ 0 \in Page /\ NPage - 1 \in Page
      /\ \A x \in Page : x \in Int /\ 0 <= x /\ x < NPage
  BY PmmAssumption DEF Page
<1>2. Chain(links, PageProperty)
  <2> DEFINE L == list_init(Entry)
  <2>1. Chain(L, {})
    BY DEF Chain, NextIs, list_init, Entry, free_list
  <2>2. L.next[free_list] = free_list
    BY DEF list_init, Entry
  <2>3. links = list_link(L, 0, free_list, L.next[free_list])
    BY DEF Init, list_add_after
  <2> HIDE DEF L
  <2>4. free_list < 0
    BY DEF free_list
  <2>5. Chain(list_link(L, 0, free_list, L.next[free_list]), {} \cup {0})
    BY <1>1, <2>1, <2>2, <2>4, LinkKeepsChain
  <2>6. {} \cup {0} = PageProperty
    BY DEF Init
  <2> QED
    BY <2>3, <2>5, <2>6
<1>3. /\ property \in [Page -> Nat] /\ PageProperty = {0} /\ property[0] = NPage
  BY <1>1 DEF Init
<1>4. Blocks(PageProperty, property)
  BY <1>1, <1>3 DEF Blocks
<1>5. \A p, q \in Page : ~Touch(PageProperty, property, p, q)
  BY <1>1, <1>3 DEF Touch
<1>6. holders \in [Page -> {0, 1}] /\ FreePages = Page /\ holders[NPage - 1] = 0
  BY <1>1 DEF Init, FreePages
<1>7. Cover(PageProperty, property) = Page
  BY <1>1, <1>3 DEF Cover
<1>8. nr_free = Cardinality(FreePages)
  BY <1>6, PagesAreFinite DEF Init
<1> QED
  BY <1>2, <1>4, <1>5, <1>6, <1>7, <1>8 DEF PmmInv

(* What the head of a block that is out of the list says of its pages.     *)
LEMMA CountOut ==
  ASSUME NEW S, S \subseteq Page, NEW R, R \subseteq S
  PROVE  Cardinality(S \ R) = Cardinality(S) - Cardinality(R)
<1>1. IsFiniteSet(S) /\ S \cap R = R
  BY PagesAreFinite
<1> QED
  BY <1>1, FS_Difference

LEMMA AllocKeeps ==
  ASSUME PmmInv, KeepTop, NEW n \in 1..NPage, default_alloc_pages(n)
  PROVE  PmmInv'
<1> DEFINE F == PageProperty
<1>1. PICK k \in 1..NPage + 1 :
        LET page == Nodes[k]
        IN  /\ FirstFit(k, n)
            /\ KeepTop => page + n < NPage
            /\ links' = Unlinked(page, n)
            /\ property' = IF property[page] > n
                           THEN [property EXCEPT ![page + n] = property[page] - n]
                           ELSE property
            /\ PageProperty' = AllocFlags(page, n)
            /\ nr_free' = nr_free - n
            /\ holders' = [p \in Page |-> IF p \in page..page + n - 1 THEN holders[p] + 1
                                          ELSE holders[p]]
  BY DEF default_alloc_pages
<1> DEFINE page == Nodes[k]
           R == page..page + n - 1
<1>2. /\ Chain(links, F) /\ Blocks(F, property) /\ F \subseteq Page
      /\ \A p, q \in Page : ~Touch(F, property, p, q)
      /\ holders \in [Page -> {0, 1}] /\ Cover(F, property) = FreePages
      /\ nr_free = Cardinality(FreePages) /\ holders[NPage - 1] = 0
  BY DEF PmmInv, Chain
<1>0. \A x \in F : x \in Page /\ x \in Int /\ x >= 0
  BY <1>2 DEF Page
<1>3. /\ page \in F /\ page \in Page /\ page \in Int /\ page >= 0 /\ page # free_list
      /\ n \in Nat /\ 1 <= n /\ NPage \in Nat
      /\ property[page] \in Nat /\ property[page] >= n /\ page + property[page] <= NPage
      /\ page + n < NPage /\ property \in [Page -> Nat]
  <2>1. NPage \in Nat /\ n \in Nat /\ 1 <= n /\ k \in 0..NPage + 1
    BY PmmAssumption
  <2>2. page \in F
    <3> HIDE DEF F
    <3>1. Nodes[k] \in F \cup {free_list}
      BY <1>2, <2>1, NodesStay
    <3> QED
      BY <1>1, <3>1 DEF FirstFit
  <2> HIDE DEF page
  <2>3. page \in Page /\ page \in Int /\ page >= 0 /\ page # free_list
    BY <1>2, <2>2 DEF Page, free_list
  <2>4. property \in [Page -> Nat] /\ page + property[page] <= NPage
    BY <1>2, <2>2 DEF Blocks
  <2>5. property[page] >= n /\ page + n < NPage
    BY <1>1 DEF page, FirstFit, Fits
  <2> QED
    BY <2>1, <2>2, <2>3, <2>4, <2>5
<1>4. /\ links' = Unlinked(page, n)
      /\ property' = IF property[page] > n
                     THEN [property EXCEPT ![page + n] = property[page] - n] ELSE property
      /\ PageProperty' = AllocFlags(page, n)
      /\ nr_free' = nr_free - n
      /\ holders' = [p \in Page |-> IF p \in R THEN holders[p] + 1 ELSE holders[p]]
  BY <1>1
<1> HIDE DEF page
<1>5. R \subseteq Page /\ Cardinality(R) = n
  BY <1>3, PagesAreFinite
<1>6. \A x \in R : x \in Int /\ page <= x /\ x < page + property[page]
  BY <1>3
<1>7. R \subseteq FreePages
  BY <1>2, <1>3, <1>5, <1>6 DEF Cover
<1>8. /\ Chain(links', PageProperty') /\ Blocks(PageProperty', property')
      /\ Cover(PageProperty', property') = FreePages \ R
      /\ \A p, q \in Page : ~Touch(PageProperty', property', p, q)
  <2> DEFINE L == list_del(links, page)
             G == F \ {page}
  <2>1. Chain(L, G)
    <3> HIDE DEF F
    <3> QED
      BY <1>2, <1>3, DelKeepsChain
  <2>2. CASE property[page] > n
    <3> DEFINE rest == page + n
               a == links.prev[page]
               cut == [property EXCEPT ![rest] = property[page] - n]
    <3>1. /\ links' = list_link(L, rest, a, L.next[a])
          /\ PageProperty' = G \cup {rest} /\ property' = cut
      <4>1. rest # page
        BY <1>3
      <4> QED
        BY <1>4, <2>2, <4>1 DEF Unlinked, list_add_after, AllocFlags
    <3>2. /\ rest \in Page /\ rest \in Int /\ rest = page + n /\ page < rest
          /\ rest < page + property[page]
      BY <1>3, <2>2 DEF Page
    <3>3. cut \in [Page -> Nat] /\ cut[rest] = property[page] - n
      BY <1>3, <2>2, <3>2
    <3>4. rest \notin F
      <4>1. \A q \in F : page < q => page + property[page] <= q
        BY <1>2, <1>3 DEF Blocks
      <4> QED
        BY <1>3, <3>2, <4>1
    <3>5. \A p \in F : cut[p] = property[p]
      BY <1>2, <1>3, <3>4
    <3>6. a \in G \cup {free_list} /\ a < rest /\ (L.next[a] = free_list \/ rest < L.next[a])
      <4>1. a \in F \cup {free_list} /\ links.next[a] = page
        BY <1>2, <1>3 DEF Chain
      <4>2. NextIs(links, F, a)
        BY <1>2, <4>1 DEF Chain
      <4>3. page > a
        BY <1>3, <4>1, <4>2 DEF NextIs
      <4>0. a \in Int
        BY <1>0, <4>1 DEF free_list
      <4>4. a \in Int /\ a # page
        BY <1>3, <4>0, <4>3
      <4>5. NextIs(links, F, page)
        BY <1>2, <1>3 DEF Chain
      <4>6. L.next[a] = links.next[page]
        <5>1. links.next \in [Entry -> Entry] /\ a \in Entry
          BY <1>2, <4>1 DEF Chain, Entry
        <5> QED
          BY <5>1 DEF list_del
      <4>7. links.next[page] = free_list \/ rest < links.next[page]
        <5>1. CASE links.next[page] \in F /\ links.next[page] > page
          <6>0. \A q \in F : page < q => page + property[page] <= q
            BY <1>2, <1>3 DEF Blocks
          <6>1. page + property[page] <= links.next[page]
            BY <5>1, <6>0
          <6>2. links.next[page] \in Int
            BY <1>0, <5>1
          <6> QED
            BY <1>3, <3>2, <6>1, <6>2
        <5> QED
          BY <4>5, <5>1 DEF NextIs
      <4>8. a < rest
        BY <1>3, <3>2, <4>3, <4>4
      <4> QED
        BY <4>1, <4>4, <4>6, <4>7, <4>8
    <3>7. rest \notin G
      BY <3>4
    <3> HIDE DEF L, G, a, rest, cut
    <3>8. Chain(links', PageProperty')
      BY <2>1, <3>1, <3>2, <3>6, <3>7, LinkKeepsChain
    <3>9. /\ Blocks(G \cup {rest}, cut)
          /\ Cover(G \cup {rest}, cut) = Cover(F, property) \ R
          /\ \A p, q \in Page : Touch(G \cup {rest}, cut, p, q) =>
               \E r \in Page : Touch(F, property, r, q)
      <4>1. /\ F \subseteq Page /\ Blocks(F, property) /\ page \in F
            /\ rest \in Int /\ page < rest /\ rest < page + property[page]
            /\ cut \in [Page -> Nat] /\ \A p \in F : cut[p] = property[p]
        BY <1>2, <1>3, <3>2, <3>3, <3>5
      <4>2. rest + cut[rest] = page + property[page] /\ cut[rest] >= 1
        BY <1>3, <2>2, <3>2, <3>3
      <4>3. page..rest - 1 = R
        BY <1>3, <3>2
      <4> HIDE DEF F, R
      <4>4. /\ Blocks((F \ {page}) \cup {rest}, cut)
            /\ Cover((F \ {page}) \cup {rest}, cut) = Cover(F, property) \ (page..rest - 1)
            /\ \A p, q \in Page : Touch((F \ {page}) \cup {rest}, cut, p, q) =>
                 \E r \in Page : Touch(F, property, r, q)
        BY <4>1, <4>2, CutBlock
      <4> QED
        BY <4>3, <4>4 DEF G
    <3> QED
      BY <1>2, <3>1, <3>8, <3>9
  <2>3. CASE ~(property[page] > n)
    <3>1. property[page] = n
      BY <1>3, <2>3
    <3>2. links' = L /\ property' = property /\ PageProperty' = G
      BY <1>4, <2>3 DEF Unlinked, AllocFlags
    <3>3. /\ Blocks(G, property)
          /\ Cover(G, property) = Cover(F, property) \ R
          /\ \A p, q \in Page : Touch(G, property, p, q) => Touch(F, property, p, q)
      <4> HIDE DEF F
      <4> QED
        BY <1>2, <1>3, <3>1, DropBlock
    <3> HIDE DEF L, G
    <3> QED
      BY <1>2, <2>1, <3>2, <3>3
  <2> QED
    BY <2>2, <2>3
<1> HIDE DEF F, R
<1>9. holders' \in [Page -> {0, 1}] /\ FreePages' = FreePages \ R
  <2>1. \A p \in Page : holders'[p] = IF p \in R THEN 1 ELSE holders[p]
    BY <1>2, <1>4, <1>7 DEF FreePages
  <2> QED
    BY <1>2, <1>4, <2>1 DEF FreePages
<1>10. nr_free' = Cardinality(FreePages')
  <2>1. FreePages \subseteq Page
    BY DEF FreePages
  <2>2. Cardinality(FreePages \ R) = Cardinality(FreePages) - Cardinality(R)
    BY <1>7, <2>1, CountOut
  <2> QED
    BY <1>2, <1>4, <1>5, <1>9, <2>2
<1>11. holders'[NPage - 1] = 0
  <2>1. NPage - 1 \notin R /\ NPage - 1 \in Page
    BY <1>3 DEF R, Page
  <2> QED
    BY <1>2, <1>4, <2>1
<1> QED
  BY <1>8, <1>9, <1>10, <1>11 DEF PmmInv

(* A block above base stays free, because the last page is.                *)
LEMMA BlockAbove ==
  ASSUME PmmInv, NEW base \in Page, holders[base] = 1
  PROVE  \E h \in PageProperty : h > base
<1>1. /\ Blocks(PageProperty, property) /\ PageProperty \subseteq Page
      /\ Cover(PageProperty, property) = FreePages
      /\ holders[NPage - 1] = 0
  BY DEF PmmInv, Chain
<1>2. NPage - 1 \in Page /\ NPage \in Nat /\ base \in Int /\ base <= NPage - 1
  BY PmmAssumption DEF Page
<1>3. NPage - 1 \in FreePages /\ base \notin FreePages
  BY <1>1, <1>2 DEF FreePages
<1>4. PICK h \in PageProperty : h <= NPage - 1 /\ NPage - 1 < h + property[h]
  BY <1>1, <1>3 DEF Cover
<1>5. h \in Int /\ property[h] \in Nat
  BY <1>1, <1>4 DEF Page, Blocks
<1>6. ~(h <= base /\ base < h + property[h])
  BY <1>1, <1>3 DEF Cover
<1> QED
  BY <1>2, <1>4, <1>5, <1>6

LEMMA FreeKeeps ==
  ASSUME PmmInv, NEW n \in 1..NPage, NEW base \in Page, default_free_pages(base, n)
  PROVE  PmmInv'
<1> DEFINE F == PageProperty
           R == base..base + n - 1
           size == [property EXCEPT ![base] = n]
<1>1. /\ Chain(links, F) /\ Blocks(F, property) /\ F \subseteq Page
      /\ \A p, q \in Page : ~Touch(F, property, p, q)
      /\ holders \in [Page -> {0, 1}] /\ Cover(F, property) = FreePages
      /\ nr_free = Cardinality(FreePages) /\ holders[NPage - 1] = 0
  BY DEF PmmInv, Chain
<1>0. \A x \in F : x \in Page /\ x \in Int /\ x >= 0
  BY <1>1 DEF Page
<1>2. /\ base + n <= NPage /\ \A p \in R : holders[p] = 1
      /\ nr_free' = nr_free + n
      /\ holders' = [p \in Page |-> IF p \in R THEN 0 ELSE holders[p]]
  BY DEF default_free_pages
<1>3. /\ NPage \in Nat /\ n \in Nat /\ 1 <= n /\ base \in Int /\ base >= 0 /\ base \in R
      /\ base + n <= NPage /\ NPage - 1 \in Page
  BY <1>2, PmmAssumption DEF Page
<1>4. R \subseteq Page /\ Cardinality(R) = n /\ FreePages \subseteq Page
  BY <1>3, PagesAreFinite DEF FreePages
<1>5. \A x \in R : x \notin FreePages
  BY <1>2 DEF FreePages
<1>6. /\ size \in [Page -> Nat] /\ size[base] = n
      /\ \A p \in F : p # base => size[p] = property[p]
  BY <1>1, <1>3 DEF Blocks
<1>7. PICK k \in 1..NPage + 1 :
        /\ InsertPlace(base, k)
        /\ LET a == MergePrev(Inserted(base, k), size, PageProperty \cup {base}, base)
               b == MergeNext(a.links, a.size, a.flags, a.base)
           IN  links' = b.links /\ property' = b.size /\ PageProperty' = b.flags
  BY DEF default_free_pages
<1> DEFINE L == Inserted(base, k)
           a == MergePrev(L, size, F \cup {base}, base)
           b == MergeNext(a.links, a.size, a.flags, a.base)
<1>8. links' = b.links /\ property' = b.size /\ PageProperty' = b.flags
  BY <1>7
<1> HIDE DEF size
<1>9. /\ base \notin F
      /\ Blocks(F \cup {base}, size)
      /\ Cover(F \cup {base}, size) = FreePages \cup R
      /\ \A p, q \in Page : Touch(F \cup {base}, size, p, q) => p = base \/ q = base
  <2>1. /\ 1 <= size[base] /\ base + size[base] <= NPage
        /\ \A x \in base..base + size[base] - 1 : x \notin Cover(F, property)
    BY <1>1, <1>3, <1>5, <1>6
  <2> HIDE DEF F
  <2>2. /\ base \notin F
        /\ Blocks(F \cup {base}, size)
        /\ Cover(F \cup {base}, size) = Cover(F, property) \cup (base..base + size[base] - 1)
        /\ \A p, q \in Page : Touch(F \cup {base}, size, p, q) =>
             Touch(F, property, p, q) \/ p = base \/ q = base
    BY <1>1, <1>6, <2>1, AddBlock
  <2> QED
    BY <1>1, <1>6, <2>2
<1> HIDE DEF R
<1>10. Chain(L, F \cup {base})
  <2> DEFINE p == Nodes[k - 1]
  <2>1. k \in 0..NPage + 1 /\ k - 1 \in 0..NPage + 1 /\ k - 1 >= 0 /\ k \in 1..NPage + 1
    BY <1>3
  <2>2. p \in F \cup {free_list} /\ Nodes[k] = links.next[p]
    <3> HIDE DEF F
    <3>1. p \in F \cup {free_list}
      BY <1>1, <2>1, NodesStay
    <3> QED
      BY <2>1, <3>1, NodesSteps
  <2>3. p < base
    <3>1. CASE k = 1
      BY <1>3, <3>1, NodesSteps DEF free_list
    <3>2. CASE k # 1
      <4>1. k - 1 \in 1..k - 1
        BY <2>1, <3>2
      <4>2. p # free_list /\ ~(base < p)
        BY <1>7, <4>1 DEF InsertPlace
      <4>3. p \in F /\ p \in Int
        BY <1>0, <2>2, <4>2
      <4> HIDE DEF p
      <4> QED
        BY <1>3, <1>9, <4>2, <4>3
    <3> QED
      BY <3>1, <3>2
  <2>4. NextIs(links, F, p) /\ links.prev[links.next[p]] = p
    BY <1>1, <2>2 DEF Chain
  <2>5. Nodes[k] # free_list /\ base < Nodes[k]
    <3>1. PICK h \in F : h > base
      <4>1. holders[base] = 1
        BY <1>2, <1>3
      <4> QED
        BY <4>1, BlockAbove
    <3>2. h \in Int /\ p \in Int
      BY <1>0, <2>2, <3>1 DEF free_list
    <3> HIDE DEF p
    <3>3. ~(\A q \in F : q <= p)
      BY <1>3, <2>3, <3>1, <3>2
    <3>4. links.next[p] \in F
      BY <2>4, <3>3 DEF NextIs
    <3>5. Nodes[k] # free_list
      BY <1>1, <2>2, <3>4, PmmAssumption DEF Page, free_list
    <3> QED
      BY <1>7, <3>5 DEF InsertPlace
  <2>6. L = list_link(links, base, p, links.next[p])
    BY <2>2, <2>4, <2>5 DEF Inserted, list_add_before
  <2> HIDE DEF p, F, L
  <2>7. Chain(list_link(links, base, p, links.next[p]), F \cup {base})
    <3>1. links.next[p] = free_list \/ base < links.next[p]
      BY <2>2, <2>5
    <3> QED
      BY <1>1, <1>9, <2>2, <2>3, <3>1, LinkKeepsChain
  <2> QED
    BY <2>6, <2>7
<1> HIDE DEF L
<1>11. /\ Merged(a, F \cup {base}, size)
       /\ \A p, q \in Page : Touch(a.flags, a.size, p, q) => p = a.base
  <2>1. base \in F \cup {base} /\ a = MergePrev(L, size, F \cup {base}, base)
    OBVIOUS
  <2> DEFINE G == F \cup {base}
  <2>2. /\ Chain(L, G) /\ Blocks(G, size) /\ base \in G
        /\ \A p, q \in Page : Touch(G, size, p, q) => p = base \/ q = base
        /\ a = MergePrev(L, size, G, base)
    BY <1>9, <1>10, <2>1
  <2> HIDE DEF G, F, a
  <2>3. /\ Merged(a, G, size)
        /\ \A p, q \in Page : Touch(a.flags, a.size, p, q) => p = a.base
    BY <2>2, MergePrevKeeps
  <2> QED
    BY <2>3 DEF G
<1>12. /\ Merged(b, a.flags, a.size)
       /\ \A p, q \in Page : ~Touch(b.flags, b.size, p, q)
  <2>1. b = MergeNext(a.links, a.size, a.flags, a.base)
    OBVIOUS
  <2> HIDE DEF a, b
  <2> DEFINE aL == a.links  aF == a.flags  aS == a.size  aB == a.base
  <2>2. /\ Chain(aL, aF) /\ Blocks(aF, aS) /\ aB \in aF
        /\ \A p, q \in Page : Touch(aF, aS, p, q) => p = aB
        /\ b = MergeNext(aL, aS, aF, aB)
    BY <1>11, <2>1 DEF Merged
  <2> HIDE DEF aL, aF, aS, aB
  <2>3. /\ Merged(b, aF, aS)
        /\ \A p, q \in Page : ~Touch(b.flags, b.size, p, q)
    BY <2>2, MergeNextKeeps
  <2> QED
    BY <2>3 DEF aF, aS
<1> HIDE DEF a, b
<1>13. /\ Chain(links', PageProperty') /\ Blocks(PageProperty', property')
       /\ Cover(PageProperty', property') = FreePages \cup R
       /\ \A p, q \in Page : ~Touch(PageProperty', property', p, q)
  BY <1>8, <1>9, <1>11, <1>12 DEF Merged
<1>14. holders' \in [Page -> {0, 1}] /\ FreePages' = FreePages \cup R
  <2>1. \A p \in Page : holders'[p] = IF p \in R THEN 0 ELSE holders[p]
    BY <1>2
  <2>2. holders' \in [Page -> {0, 1}]
    BY <1>1, <1>2
  <2> QED
    BY <1>4, <2>1, <2>2 DEF FreePages
<1>15. nr_free' = Cardinality(FreePages')
  <2>1. FreePages \cap R = {}
    BY <1>5
  <2>2. /\ IsFiniteSet(FreePages) /\ IsFiniteSet(R) /\ Cardinality(FreePages) \in Nat
    BY <1>4, PagesAreFinite
  <2>3. Cardinality(FreePages \cup R) = Cardinality(FreePages) + Cardinality(R) - Cardinality({})
    BY <2>1, <2>2, FS_Union
  <2>4. Cardinality({}) = 0
    BY FS_EmptySet
  <2> QED
    BY <1>1, <1>2, <1>4, <1>14, <2>2, <2>3, <2>4
<1>16. holders'[NPage - 1] = 0
  BY <1>1, <1>2, <1>3
<1> QED
  BY <1>13, <1>14, <1>15, <1>16 DEF PmmInv

-----------------------------------------------------------------------------
(* The walk meets every page of the chain, and lower pages before it.      *)
LEMMA NodesReach ==
  ASSUME NEW F, Chain(links, F), NEW p \in F
  PROVE  \E k \in 1..NPage + 1 :
           Nodes[k] = p /\ \A j \in 1..k - 1 : Nodes[j] \in F /\ Nodes[j] < p
<1>1. \A x \in F : x \in Int /\ x >= 0 /\ x # free_list
  BY PmmAssumption DEF Chain, Page, free_list
<1>2. PICK k \in 1..NPage + 1 :
        /\ Nodes[k] \notin F \/ Nodes[k] >= p
        /\ \A j \in 1..k - 1 : Nodes[j] \in F /\ Nodes[j] < p
  <2>1. p \in Int
    BY <1>1
  <2> QED
    BY <2>1, FirstFrom
<1> DEFINE e == Nodes[k - 1]
<1>3. Nodes[k] = links.next[e]
  BY NodesSteps
<1>4. e \in F \cup {free_list} /\ e < p
  <2>1. CASE k = 1
    <3>1. e = free_list
      BY <2>1, NodesSteps
    <3> QED
      BY <1>1, <3>1 DEF free_list
  <2>2. CASE k # 1
    <3>1. k - 1 \in 1..k - 1
      BY <2>2
    <3> QED
      BY <1>2, <3>1
  <2> QED
    BY <2>1, <2>2
<1> HIDE DEF e
<1>5. NextIs(links, F, e)
  BY <1>4 DEF Chain
<1>6. e \in Int
  BY <1>1, <1>4 DEF free_list
<1>7. Nodes[k] \in F /\ p >= Nodes[k]
  BY <1>1, <1>3, <1>4, <1>5, <1>6 DEF NextIs
<1>8. Nodes[k] = p
  BY <1>1, <1>2, <1>7
<1> QED
  BY <1>2, <1>8

LEMMA ListIsFlags ==
  ASSUME PmmInv
  PROVE  InList = PageProperty
<1> DEFINE F == PageProperty
<1>1. Chain(links, F) /\ \A x \in F : x # free_list
  BY PmmAssumption DEF PmmInv, Chain, Page, free_list
<1> HIDE DEF F
<1>2. ASSUME NEW k \in 1..NPage + 1, Nodes[k] # free_list PROVE Nodes[k] \in F
  <2>1. k \in 0..NPage + 1
    BY PmmAssumption
  <2> QED
    BY <1>1, <1>2, <2>1, NodesStay
<1>3. ASSUME NEW p \in F PROVE \E k \in 1..NPage + 1 : Nodes[k] = p
  BY <1>1, NodesReach
<1>4. InList = F
  BY <1>1, <1>2, <1>3 DEF InList
<1> QED
  BY <1>4 DEF F

LEMMA SoundByInv == PmmInv => FreeListSound
<1> SUFFICES ASSUME PmmInv PROVE FreeListSound
  OBVIOUS
<1> DEFINE F == PageProperty  max == NPage + 1
<1>1. InList = F /\ Chain(links, F) /\ NPage \in Nat
  BY ListIsFlags, PmmAssumption DEF PmmInv
<1>2. \A p \in F : links.next[p] = free_list \/ links.next[p] > p
  BY <1>1 DEF Chain, NextIs
<1>3. \E k \in 1..max : Nodes[k] = free_list
  <2>1. NPage \in Int
    BY <1>1
  <2> HIDE DEF F
  <2>2. PICK k \in 1..NPage + 1 : Nodes[k] \notin F \/ Nodes[k] >= NPage
    BY <1>1, <2>1, FirstFrom
  <2>3. k \in 0..NPage + 1
    BY <1>1
  <2>4. Nodes[k] \in F \cup {free_list}
    BY <1>1, <2>3, NodesStay
  <2>5. \A x \in F : ~(x >= NPage)
    BY <1>1 DEF Chain, Page
  <2> QED
    BY <2>2, <2>4, <2>5
<1>4. ASSUME NEW k \in 0..max - 1 PROVE links.prev[Nodes[k + 1]] = Nodes[k]
  <2>1. k \in 0..NPage + 1 /\ k + 1 \in 1..NPage + 1 /\ (k + 1) - 1 = k
    BY <1>1
  <2> HIDE DEF F
  <2>2. Nodes[k] \in F \cup {free_list}
    BY <1>1, <2>1, NodesStay
  <2>3. Nodes[k + 1] = links.next[Nodes[k]]
    BY <2>1, NodesSteps
  <2> QED
    BY <1>1, <2>2, <2>3 DEF Chain
<1>5. WellLinked(links, free_list, NPage + 1)
  BY <1>3, <1>4 DEF WellLinked, Nodes
<1> QED
  BY <1>1, <1>2, <1>5 DEF FreeListSound

LEMMA NoneLostByInv == PmmInv => NoPageLost
<1> SUFFICES ASSUME PmmInv PROVE NoPageLost
  OBVIOUS
<1>1. /\ InList = PageProperty /\ PageProperty \subseteq Page
      /\ Blocks(PageProperty, property) /\ NPage \in Nat
      /\ Cover(PageProperty, property) = FreePages
      /\ nr_free = Cardinality(FreePages)
  BY ListIsFlags, PmmAssumption DEF PmmInv, Chain
<1>2. \A p \in PageProperty :
        /\ p \in Int /\ p >= 0 /\ property[p] \in Nat /\ p + property[p] <= NPage
        /\ Block(p) = {x \in Page : p <= x /\ x < p + property[p]}
  BY <1>1 DEF Blocks, Block, Page
<1>3. UNION {Block(p) : p \in PageProperty} = Cover(PageProperty, property)
  BY <1>2 DEF Cover
<1>4. ASSUME NEW p \in PageProperty, NEW q \in PageProperty, p # q
      PROVE  Block(p) \cap Block(q) = {}
  <2>1. p + property[p] <= q \/ q + property[q] <= p
    BY <1>1, <1>2, <1>4 DEF Blocks
  <2>2. ASSUME NEW x \in Page, p <= x, x < p + property[p], q <= x, x < q + property[q]
        PROVE  FALSE
    BY <1>2, <2>1, <2>2 DEF Page
  <2> QED
    BY <1>2, <2>2
<1> QED
  BY <1>1, <1>3, <1>4 DEF NoPageLost, FreePages

LEMMA RoomByInv == PmmInv => FindsRoom
<1> SUFFICES ASSUME PmmInv, NEW n \in 1..NPage, NEW base \in Page, base + n <= NPage,
                    \A x \in base..base + n - 1 : holders[x] = 0
             PROVE  \E k \in 1..NPage + 1 : FirstFit(k, n)
  BY DEF FindsRoom
<1> DEFINE F == PageProperty
<1>1. /\ Chain(links, F) /\ Blocks(F, property) /\ F \subseteq Page
      /\ \A p, q \in Page : ~Touch(F, property, p, q)
      /\ Cover(F, property) = FreePages /\ InList = F
      /\ NPage \in Nat /\ n \in Nat /\ n >= 1
  BY ListIsFlags, PmmAssumption DEF PmmInv, Chain
<1>2. /\ base \in Int /\ base >= 0
      /\ \A x \in F : x \in Int /\ x \in Page /\ x # free_list /\ property[x] \in Nat /\ property[x] >= 1
      /\ \A p, q \in F : p < q => p + property[p] <= q
  BY <1>1 DEF Page, Blocks, free_list
<1>3. base..base + n - 1 \subseteq FreePages
  BY <1>1, <1>2 DEF FreePages, Page
<1> HIDE DEF F
<1>4. PICK p \in F : p <= base /\ base < p + property[p]
  <2>1. base \in base..base + n - 1
    BY <1>1, <1>2
  <2> QED
    BY <1>1, <1>3, <2>1 DEF Cover
<1>5. property[p] >= n
  <2> SUFFICES ASSUME property[p] < n PROVE FALSE
    BY <1>1, <1>2
  <2> DEFINE e == p + property[p]
  <2>1. e \in base..base + n - 1 /\ e \in Int
    BY <1>1, <1>2, <1>4
  <2>2. PICK q \in F : q <= e /\ e < q + property[q]
    BY <1>1, <1>3, <2>1 DEF Cover
  <2>3. q \in Int /\ p \in Int /\ property[p] \in Nat /\ property[q] \in Nat /\ property[p] >= 1
    BY <1>2
  <2>4. CASE q = p
    BY <2>2, <2>3, <2>4
  <2>5. CASE q < p
    <3>1. q + property[q] <= p
      BY <1>2, <2>5
    <3> QED
      BY <2>2, <2>3, <3>1
  <2>6. CASE q > p
    <3>1. p + property[p] <= q
      BY <1>2, <2>6
    <3>2. q = p + property[p]
      BY <2>2, <2>3, <3>1
    <3>3. Touch(F, property, p, q)
      BY <2>6, <3>2 DEF Touch
    <3> QED
      BY <1>1, <1>2, <3>3
  <2> QED
    BY <2>3, <2>4, <2>5, <2>6
<1>6. PICK m \in 1..NPage + 1 :
        Nodes[m] = p /\ \A j \in 1..m - 1 : Nodes[j] \in F /\ Nodes[j] < p
  BY <1>1, NodesReach
<1>7. Nodes[m] = p
  BY <1>6
<1> DEFINE T == {k \in 1..m : Fits(Nodes[k], n)}
<1>8. T # {} /\ T \subseteq Nat
  BY <1>1, <1>5, <1>7 DEF Fits
<1>9. PICK k \in T : \A y \in T : k <= y
  <2> HIDE DEF T
  <2> QED
    BY <1>8, LeastNat
<1>10. \A j \in 1..m : Nodes[j] \in F /\ Nodes[j] # free_list
  <2>1. \A j \in 1..m : j = m \/ j \in 1..m - 1
    OBVIOUS
  <2> QED
    BY <1>2, <1>6, <1>7, <2>1
<1>11. ASSUME NEW j \in 1..k - 1 PROVE Nodes[j] # free_list /\ ~Fits(Nodes[j], n)
  <2>1. j \in 1..m /\ ~(k <= j)
    BY <1>9
  <2> QED
    BY <1>9, <1>10, <2>1
<1>12. k \in 1..NPage + 1 /\ Nodes[k] # free_list /\ Fits(Nodes[k], n)
  BY <1>1, <1>9, <1>10
<1> QED
  BY <1>11, <1>12 DEF FirstFit

-----------------------------------------------------------------------------
LEMMA PmmStep == KeepTop /\ PmmInv /\ [Next]_vars => PmmInv'
<1> SUFFICES ASSUME KeepTop, PmmInv, [Next]_vars PROVE PmmInv'
  OBVIOUS
<1>1. ASSUME NEW n \in 1..NPage, default_alloc_pages(n) PROVE PmmInv'
  BY <1>1, AllocKeeps
<1>2. ASSUME NEW n \in 1..NPage, NEW base \in Page, default_free_pages(base, n) PROVE PmmInv'
  BY <1>2, FreeKeeps
<1>3. CASE UNCHANGED vars
  BY <1>3 DEF vars, PmmInv, FreePages
<1> QED
  BY <1>1, <1>2, <1>3 DEF Next

(* default_alloc_pages and default_free_pages keep the free list sound, in *)
(* address order and fully merged, as long as the top page stays free.     *)
THEOREM PmmInvariance == ASSUME KeepTop PROVE Spec => []PmmInv
<1>1. Init => PmmInv
  BY PmmInit
<1>2. PmmInv /\ [Next]_vars => PmmInv'
  BY PmmStep
<1> QED
  BY <1>1, <1>2, PTL DEF Spec

(* The prev pointers of the free list match its next pointers, it is in    *)
(* address order, and PG_property marks its entries and nothing else.      *)
THEOREM FreeListStaysSound == ASSUME KeepTop PROVE Spec => []FreeListSound
<1>1. PmmInv => FreeListSound
  BY SoundByInv
<1>2. Spec => []PmmInv
  BY PmmInvariance
<1> QED
  BY <1>1, <1>2, PTL

(* The blocks of the free list are disjoint, hold exactly the pages that   *)
(* nobody has, and nr_free counts them.                                    *)
THEOREM NoPageIsLost == ASSUME KeepTop PROVE Spec => []NoPageLost
<1>1. PmmInv => NoPageLost
  BY NoneLostByInv
<1>2. Spec => []PmmInv
  BY PmmInvariance
<1> QED
  BY <1>1, <1>2, PTL

(* default_alloc_pages finds a block whenever there are n free pages in a  *)
(* row, because default_free_pages has merged all the blocks that touch.   *)
THEOREM RoomIsFound == ASSUME KeepTop PROVE Spec => []FindsRoom
<1>1. PmmInv => FindsRoom
  BY RoomByInv
<1>2. Spec => []PmmInv
  BY PmmInvariance
<1> QED
  BY <1>1, <1>2, PTL

(* No page is given to two clients: with the top page in use this fails.   *)
THEOREM NoPageIsGivenTwice == ASSUME KeepTop PROVE Spec => []NeverTwice
<1>1. PmmInv => NeverTwice
  <2> SUFFICES ASSUME PmmInv, NEW p \in Page PROVE holders[p] <= 1
    BY DEF NeverTwice
  <2>1. holders[p] \in {0, 1}
    BY DEF PmmInv
  <2> QED
    BY <2>1
<1>2. Spec => []PmmInv
  BY PmmInvariance
<1> QED
  BY <1>1, <1>2, PTL
=============================================================================
