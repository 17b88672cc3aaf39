-------------------------------- MODULE Slab --------------------------------
(***************************************************************************)
(* The slab allocator of mm/slab.c.  A cache (kmem_cache_t) serves objects *)
(* of one size from slabs of one page each; a slab keeps the nodes of its  *)
(* unused objects in a chain and is itself on one of three lists of its    *)
(* cache.                                                                  *)
(*                                                                         *)
(* Pointers to slabs are positions in slabs, 0 is NULL; pointers to nodes  *)
(* of a slab are positions in its node array, NoNode is NULL.  Caches have *)
(* distinct sizes, so the chain that links them is a set here.             *)
(*                                                                         *)
(* A NULL pointer that is followed ends in do_page_fault, which never      *)
(* returns; neither is anything modelled behind a read outside the cache   *)
(* table, a write into memory that is not the allocator's or a search that *)
(* does not end.  These are the values of fault.                           *)
(***************************************************************************)
EXTENDS Integers, Sequences, FiniteSets, Bags

CONSTANTS
    SLAB_SIZE,      \* bytes in a slab; a power of two
    NrClasses,      \* entries of quick_alloc_table: log2(SLAB_SIZE), 12
    MaxSlabs,       \* the pages palloc has left for slabs
    MaxLent,        \* bound on the objects callers hold at a time
    Requests        \* the sizes in bytes callers ask for

VARIABLES
    kmems,          \* kmems[1] is kmem_kmem, kmems[i + 2] is quick_alloc_table[i]
    slabs,          \* every slab ever created: none is given back
    lent,           \* the bag of objects callers hold, with the size asked for
    fault           \* what ended the execution

vars == <<kmems, slabs, lent, fault>>

ASSUME SlabAssumption ==
    /\ SLAB_SIZE \in Nat /\ NrClasses \in Nat /\ MaxSlabs \in Nat
    /\ MaxLent \in Nat
    /\ SLAB_SIZE = 2 ^ NrClasses
    /\ SLAB_SIZE >= 64     \* room for the header and an object of half a slab
    /\ Requests \subseteq Nat

NULL == 0
NoNode == -1

sizeof_slab_t == 20
sizeof_free_t == 8
sizeof_kmem_cache_t == 28

Faults == {"none", "null", "table", "overwrite", "endless"}

-----------------------------------------------------------------------------
(* Caches                                                                  *)

obj_count(obj_size) ==
    (SLAB_SIZE - sizeof_slab_t) \div (sizeof_free_t + obj_size)

NewKmem(obj_size) ==
    [empty_slab |-> NULL, partial_slab |-> NULL, full_slab |-> NULL,
     obj_size |-> obj_size, obj_count_per_slab |-> obj_count(obj_size)]

\* query_kmem, and the search of __kmalloc: the caches of exactly this size.
query_kmem(size) == {k \in DOMAIN kmems : kmems[k].obj_size = size}

\* The entry of quick_alloc_table for a size: one above its highest bit.
ClassIndex(size) ==
    1 + (CHOOSE i \in 0 .. NrClasses - 1 :
            /\ 2 ^ i <= size \/ i = 0
            /\ size < 2 ^ (i + 1))

-----------------------------------------------------------------------------
(* Slabs                                                                   *)

\* mutant: the last node's next is not cut
creat_slab_uncut(k, n) ==
    [parent |-> k, free_count |-> n, free |-> 0, next |-> NULL,
     node |-> [p \in 0 .. n - 1 |-> [index |-> p, next |-> (p + 1) % n]]]

\* mutant: a node points to itself
creat_slab_self(k, n) ==
    [parent |-> k, free_count |-> n, free |-> 0, next |-> NULL,
     node |-> [p \in 0 .. n - 1 |->
                 [index |-> p, next |-> IF p = n - 1 THEN NoNode ELSE p]]]

creat_slab(k, n) ==
    [parent |-> k, free_count |-> n, free |-> 0, next |-> NULL,
     node |-> [p \in 0 .. n - 1 |->
                 [index |-> p, next |-> IF p = n - 1 THEN NoNode ELSE p + 1]]]

\* mutant: the empty list is not looked at
HeadSlab_no_empty(kmem) ==
    IF kmem.partial_slab # NULL THEN kmem.partial_slab ELSE Len(slabs) + 1

\* The slab alloc_from_kmem turns to; a position behind slabs stands for one
\* that has to be created.
HeadSlab(kmem) ==
    IF kmem.partial_slab # NULL THEN kmem.partial_slab
    ELSE IF kmem.empty_slab # NULL THEN kmem.empty_slab
    ELSE Len(slabs) + 1

\* The tail of alloc_from_kmem: on which list the slab is left, given its
\* next and the number of objects left in it.  Status 0 means "from partial",
\* but is also that of a new slab, which has been put on the empty list.
PutBack(kmem, head, status, next, left) ==
    CASE status = 0 /\ left = 0 ->
           [kmem |-> [kmem EXCEPT !.partial_slab = next, !.full_slab = head],
            next |-> kmem.full_slab]
      [] status = 0 /\ left # 0 ->
           [kmem |-> kmem, next |-> next]
      [] status = 1 /\ left = 0 ->
           [kmem |-> [kmem EXCEPT !.empty_slab = next, !.full_slab = head],
            next |-> kmem.full_slab]
      [] status = 1 /\ left # 0 ->
           [kmem |-> [kmem EXCEPT !.empty_slab = next, !.partial_slab = head],
            next |-> kmem.partial_slab]

\* alloc_from_kmem and the alloc_from_slab in it: the new caches and slabs,
\* and the object.  free_count is only tested for equality, so that -1 may
\* stand for what an unsigned count wraps to.
alloc_from_kmem(k) ==
    LET kmem == kmems[k]
        head == HeadSlab(kmem)
        fresh == head > Len(slabs)
        status == IF kmem.partial_slab = NULL /\ ~ fresh THEN 1 ELSE 0
        all == IF fresh
               THEN Append(slabs, creat_slab(k, kmem.obj_count_per_slab))
               ELSE slabs
        slab == all[head]
        taken == slab.node[slab.free]
        put == PutBack(IF fresh THEN [kmem EXCEPT !.empty_slab = head]
                                ELSE kmem,
                       head, status, slab.next, slab.free_count - 1)
    IN  [kmems |-> [kmems EXCEPT ![k] = put.kmem],
         slabs |-> [all EXCEPT ![head] =
                      [slab EXCEPT !.free = taken.next,
                                   !.free_count = slab.free_count - 1,
                                   !.next = put.next]],
         slab |-> head,
         index |-> taken.index]

\* palloc has no page left, or the head slab's chain of nodes is empty.
AllocFaults(k) ==
    LET head == HeadSlab(kmems[k])
    IN  IF head > Len(slabs) THEN Len(slabs) = MaxSlabs
        ELSE slabs[head].free = NoNode

Object(slab, index, size) == [slab |-> slab, index |-> index, size |-> size]

Crash(how) == fault' = how /\ UNCHANGED <<kmems, slabs, lent>>

\* alloc_from_kmem as a step: a caller gets an object for a request of size.
AllocObject(k, size) ==
    /\ BagCardinality(lent) < MaxLent
    /\ IF AllocFaults(k) THEN Crash("null")
       ELSE LET a == alloc_from_kmem(k)
            IN  /\ kmems' = a.kmems
                /\ slabs' = a.slabs
                /\ lent' = lent (+) SetToBag({Object(a.slab, a.index, size)})
                /\ UNCHANGED fault

-----------------------------------------------------------------------------
(* The operations                                                          *)

Running == fault = "none"
SlabInited == Len(kmems) = NrClasses + 1

\* add_kmem, once for every class of slab_init: the cache is itself an object
\* of kmem_kmem.
add_kmem ==
    /\ Running /\ ~ SlabInited
    /\ IF AllocFaults(1) THEN Crash("null")
       ELSE LET a == alloc_from_kmem(1)
            IN  /\ kmems' = Append(a.kmems, NewKmem(2 ^ (Len(kmems) - 1)))
                /\ slabs' = a.slabs
                /\ lent' = lent (+) SetToBag(
                      {Object(a.slab, a.index, sizeof_kmem_cache_t)})
                /\ UNCHANGED fault

TooLarge(size) == size > SLAB_SIZE \div 2

kmalloc(size) ==
    /\ Running /\ SlabInited /\ ~ TooLarge(size)
    /\ IF ClassIndex(size) = NrClasses THEN Crash("table")
       ELSE AllocObject(ClassIndex(size) + 2, size)

kmalloc_s(size) ==
    /\ Running /\ SlabInited /\ ~ TooLarge(size)
    /\ \E k \in query_kmem(size) : AllocObject(k, size)

qsmalloc(k) ==
    /\ Running /\ SlabInited
    /\ AllocObject(k, kmems[k].obj_size)

\* kmalloc and kmalloc_s return NULL: the size is too large, or no cache has
\* exactly this one.  qsmalloc of NULL is the second case, with size 0.
kmalloc_fails(size) ==
    /\ Running /\ SlabInited
    /\ TooLarge(size) \/ query_kmem(size) = {}
    /\ UNCHANGED vars

\* do_page_fault and the like: the kernel prints and stays in a loop.
Panic == ~ Running /\ UNCHANGED vars

-----------------------------------------------------------------------------
(* kfree                                                                   *)

\* The slabs met when next is followed from head, in order; NULL once the
\* list has ended.
Walk(all, head) ==
    LET at[n \in 0 .. Len(all)] ==
            IF n = 0 THEN head
            ELSE LET s == at[n - 1]
                 IN  IF s = NULL THEN NULL ELSE all[s].next
    IN  at

OnList(head) == {Walk(slabs, head)[n] : n \in 0 .. Len(slabs)} \ {NULL}

\* release_slab: the node is counted from slab->free, not from the array.
ReleasedNode(slab, index) == slab.free + index

release_slab(slab, index) ==
    LET p == ReleasedNode(slab, index)
    IN  [slab EXCEPT !.node[p].next = slab.free,
                     !.free = p,
                     !.free_count = slab.free_count + 1]

\* The rest of kfree: take the slab s out of the list that begins at head,
\* behind its predecessor there (or itself, when it is the head), and put it
\* at the head of the empty or the partial list.
MoveFreed(all, s, prev) ==
    LET k == all[s].parent
        kmem == kmems[k]
        cut == [all EXCEPT ![prev].next = all[s].next]
    IN  IF all[s].free_count = kmem.obj_count_per_slab
        THEN /\ slabs' = [cut EXCEPT ![s].next = kmem.empty_slab]
             /\ kmems' = [kmems EXCEPT ![k].empty_slab = s]
        ELSE /\ slabs' = [cut EXCEPT ![s].next = kmem.partial_slab]
             /\ kmems' = [kmems EXCEPT ![k].partial_slab = s]

kfree(o) ==
    LET s == o.slab
        slab == slabs[s]
        kmem == kmems[slab.parent]
        all == [slabs EXCEPT ![s] = release_slab(slab, o.index)]
        head == IF slab.free_count + 1 = 1 THEN kmem.full_slab
                                           ELSE kmem.partial_slab
        at == Walk(all, head)
        prevs == {n \in DOMAIN at : at[n] # NULL /\ all[at[n]].next = s}
        first == CHOOSE n \in prevs : \A m \in prevs : n <= m
    IN  /\ Running /\ SlabInited
        /\ CASE slab.free = NoNode -> Crash("null")
             [] slab.free # NoNode
                  /\ ReleasedNode(slab, o.index) \notin DOMAIN slab.node ->
                    Crash("overwrite")
             [] slab.free # NoNode
                  /\ ReleasedNode(slab, o.index) \in DOMAIN slab.node ->
                    \/ /\ head = s \/ prevs # {}
                       /\ MoveFreed(all, s, IF head = s THEN s ELSE at[first])
                       /\ lent' = lent (-) SetToBag({o})
                       /\ UNCHANGED fault
                    \/ /\ head # s /\ prevs = {}
                       /\ Crash(IF \E n \in DOMAIN at : at[n] = NULL
                                THEN "null" ELSE "endless")

-----------------------------------------------------------------------------
Init ==
    /\ kmems = <<NewKmem(sizeof_kmem_cache_t)>>
    /\ slabs = << >>
    /\ lent = EmptyBag
    /\ fault = "none"

\* What callers may pass to kfree: the caches themselves stay.
Freeable == {o \in BagToSet(lent) : slabs[o.slab].parent # 1}

AllocNext ==
    \/ add_kmem
    \/ \E size \in Requests :
          kmalloc(size) \/ kmalloc_s(size) \/ kmalloc_fails(size)
    \/ \E size \in Requests : \E k \in query_kmem(size) : qsmalloc(k)
    \/ Panic

Next ==
    \/ AllocNext
    \/ \E o \in Freeable : kfree(o)

\* The kernel as it boots: objects are allocated, none is freed.
AllocSpec == Init /\ [][AllocNext]_vars

Spec == Init /\ [][Next]_vars

-----------------------------------------------------------------------------
(* Properties                                                              *)

Lent == BagToSet(lent)
SlabSize(s) == kmems[slabs[s].parent].obj_size

TypeOK ==
    /\ Len(kmems) \in 1 .. NrClasses + 1
    /\ \A k \in DOMAIN kmems :
          /\ kmems[k].obj_count_per_slab = obj_count(kmems[k].obj_size)
          /\ {kmems[k].empty_slab, kmems[k].partial_slab, kmems[k].full_slab}
                \subseteq 0 .. Len(slabs)
    /\ Len(slabs) <= MaxSlabs
    /\ \A s \in DOMAIN slabs :
          /\ DOMAIN slabs[s].node =
                0 .. kmems[slabs[s].parent].obj_count_per_slab - 1
          /\ slabs[s].next \in 0 .. Len(slabs)
          /\ slabs[s].free \in DOMAIN slabs[s].node \cup {NoNode}
    /\ IsABag(lent)
    /\ fault \in Faults

\* The bytes of its slab that an object's caller may use.
Bytes(o) ==
    LET nodes == Cardinality(DOMAIN slabs[o.slab].node)
        start == sizeof_slab_t + sizeof_free_t * nodes
                    + o.index * SlabSize(o.slab)
    IN  start .. start + o.size - 1

\* An object lies behind the header and the node array of its slab, ends
\* before the page does, and its cache's objects are at least as long as the
\* request: true even after frees have spoiled the chain of nodes.
ObjectsInsideSlab ==
    \A o \in Lent :
        /\ o.size <= SlabSize(o.slab)
        /\ o.index \in DOMAIN slabs[o.slab].node
        /\ Bytes(o) \subseteq 0 .. SLAB_SIZE - 1

\* No byte is lent to two callers: as long as nothing is freed, an object is
\* handed out once, and objects of one slab do not overlap.
ObjectsApart ==
    /\ \A o \in Lent : lent[o] = 1
    /\ \A o, q \in Lent :
          o # q /\ o.slab = q.slab => o.index # q.index
                                      /\ Bytes(o) \cap Bytes(q) = {}

\* What callers are given: objects of their own, whole and inside their slab.
ObjectsSound == TypeOK /\ ObjectsInsideSlab /\ ObjectsApart

\* The nodes met when a slab's chain is followed.
Chain(s) ==
    LET node == slabs[s].node
        at[n \in 0 .. Cardinality(DOMAIN node)] ==
            IF n = 0 THEN slabs[s].free
            ELSE LET p == at[n - 1]
                 IN  IF p = NoNode THEN NoNode ELSE node[p].next
    IN  at

Nodes(s) == [n \in {m \in DOMAIN Chain(s) : Chain(s)[m] # NoNode} |-> Chain(s)[n]]

\* The chain of a slab has free_count nodes, no node twice, and they stand
\* for exactly the objects that are not lent: none is lost and none is both
\* free and in use.
ChainIsTheRest ==
    \A s \in DOMAIN slabs :
        LET at == Nodes(s)
            index == {slabs[s].node[at[n]].index : n \in DOMAIN at}
        IN  /\ Cardinality(DOMAIN at) = slabs[s].free_count
            /\ Cardinality(index) = slabs[s].free_count
            /\ index = DOMAIN slabs[s].node
                         \ {o.index : o \in {q \in Lent : q.slab = s}}

\* Every slab is on exactly one list of its cache, so that no memory is lost
\* and no slab is given out from two lists; the full list holds exactly the
\* slabs without a free object.
SlabsOnOneList ==
    \A s \in DOMAIN slabs :
        LET kmem == kmems[slabs[s].parent]
            on == {l \in {"empty", "partial", "full"} :
                     s \in OnList(CASE l = "empty" -> kmem.empty_slab
                                    [] l = "partial" -> kmem.partial_slab
                                    [] l = "full" -> kmem.full_slab)}
        IN  /\ Cardinality(on) = 1
            /\ on = {"full"} <=> slabs[s].free_count = 0

\* A cache takes a new page only when its other slabs are exhausted: at most
\* one of its slabs has free objects while nothing is freed.
OneOpenSlab ==
    \A s, t \in DOMAIN slabs :
        /\ slabs[s].parent = slabs[t].parent
        /\ slabs[s].free_count > 0 /\ slabs[t].free_count > 0
        => s = t

\* The lists of a cache account for its slabs, and for few of them.
ListsSound == SlabsOnOneList /\ OneOpenSlab

\* What the comment "must in partial" in kfree says: a slab with an object to
\* be freed and another one free is on the partial list.  A slab that has
\* just been created is not.
MustInPartial ==
    \A o \in Freeable :
        slabs[o.slab].free_count > 0 =>
            o.slab \in OnList(kmems[slabs[o.slab].parent].partial_slab)

\* What the comment "ultra-large object: one object in one slab" says of a
\* cache whose slabs hold one object: they can be allocated one after the
\* other until the pages run out.
UltraLargeObjects == fault = "null" => Len(slabs) = MaxSlabs

\* What slab.h says of kmalloc, "return a kernel-space mapped address": every
\* request that is not refused ends with an object, and reads no entry behind
\* the end of quick_alloc_table.
KmallocInTable == fault # "table"
=============================================================================
