----------------------------- MODULE SlabProofs -----------------------------
(***************************************************************************)
(* Proofs about the slab allocator as the kernel boots, when objects are   *)
(* allocated and none is freed, for every size of the slabs and every set  *)
(* of requests: objects are apart and inside their slabs, a cache has at   *)
(* most one slab with free objects, and every slab is on one list.         *)
(***************************************************************************)
EXTENDS Slab, Induction

\* What the proofs use of the sizes of the classes: they are at most half a
\* slab, and a size up to that lies between two of them.
PowersOfTwo ==
    /\ \A i \in 0 .. NrClasses - 1 :
          2 ^ i \in Nat \ {0} /\ 2 ^ i <= SLAB_SIZE \div 2
    /\ \A size \in 0 .. SLAB_SIZE \div 2 :
          \E i \in 0 .. NrClasses - 1 :
             (2 ^ i <= size \/ i = 0) /\ size < 2 ^ (i + 1)

LEMMA ClassSizes ==
  PowersOfTwo
  <1> DEFINE h == 2 ^ (NrClasses - 1)
  <1>1. NrClasses \in Nat /\ SLAB_SIZE = 2 ^ NrClasses /\ SLAB_SIZE >= 64 /\ SLAB_SIZE \in Nat
    BY SlabAssumption
  <1>2. NrClasses # 0
    <2>1. 2 ^ 0 = 1
      BY Zenon, Doubling
    <2>2. ~ (2 ^ 0 >= 64)
      BY <2>1
    <2> QED BY <1>1, <2>2
  <1>3. NrClasses - 1 \in Nat /\ NrClasses = (NrClasses - 1) + 1
    BY <1>1, <1>2
  <1>4. SLAB_SIZE = 2 * h /\ h \in Nat
    BY <1>1, <1>3, PowerIsNat, Doubling
  <1> HIDE DEF h
  <1>5. SLAB_SIZE \div 2 = h
    BY <1>4
  <1>6. ASSUME NEW i \in 0 .. NrClasses - 1
        PROVE  2 ^ i \in Nat \ {0} /\ 2 ^ i <= h
    <2>1. i \in Nat /\ i <= NrClasses - 1
      BY <1>1
    <2> QED BY <1>3, <2>1, PowerIsNat, PowerGrows DEF h
  <1>7. ASSUME NEW size \in 0 .. h
        PROVE  \E i \in 0 .. NrClasses - 1 :
                  (2 ^ i <= size \/ i = 0) /\ size < 2 ^ (i + 1)
    <2> DEFINE T == {i \in 0 .. NrClasses - 1 : size < 2 ^ (i + 1)}
    <2>1. NrClasses - 1 \in T
      <3>1. h < SLAB_SIZE /\ size \in Nat /\ size <= h
        BY <1>1, <1>4
      <3>2. size < 2 ^ ((NrClasses - 1) + 1)
        BY <1>1, <1>3, <1>4, <3>1
      <3> QED BY <1>3, <3>2
    <2>2. PICK i \in T : \A m \in T : i <= m
      <3>1. T \in SUBSET Nat /\ T # {}
        BY <2>1
      <3> HIDE DEF T
      <3> QED BY <3>1, LeastNat
    <2>3. i \in 0 .. NrClasses - 1 /\ size < 2 ^ (i + 1)
      BY <2>2
    <2>4. i # 0 => 2 ^ i <= size
      <3> SUFFICES ASSUME i # 0 PROVE 2 ^ i <= size
        OBVIOUS
      <3>1. i - 1 \in 0 .. NrClasses - 1 /\ (i - 1) + 1 = i /\ ~ (i <= i - 1)
        BY <1>1, <2>3
      <3>2. ~ (size < 2 ^ ((i - 1) + 1))
        BY <2>2, <3>1
      <3>3. 2 ^ i \in Nat /\ size \in Nat
        BY <1>4, <1>6, <2>3
      <3> QED BY <3>1, <3>2, <3>3
    <2> QED BY <2>3, <2>4
  <1> QED BY <1>5, <1>6, <1>7 DEF PowersOfTwo

-----------------------------------------------------------------------------
(* Shapes of caches and slabs                                              *)

KmemRec(e, p, f, o, n) ==
    [empty_slab |-> e, partial_slab |-> p, full_slab |-> f,
     obj_size |-> o, obj_count_per_slab |-> n]

KmemRecords == [empty_slab : Nat, partial_slab : Nat, full_slab : Nat,
                obj_size : Nat, obj_count_per_slab : Nat]

SlabRec(k, c, f, x, nodes) ==
    [parent |-> k, free_count |-> c, free |-> f, next |-> x, node |-> nodes]

\* The node array as it is created: every node leads to the next.
InOrder(n) == [p \in 0 .. n - 1 |->
                 [index |-> p, next |-> IF p = n - 1 THEN NoNode ELSE p + 1]]

NodeArrays == {InOrder(n) : n \in Nat}

SlabRecords == [parent : Nat, free_count : Nat, free : Int, next : Nat, node : NodeArrays]

\* The first node of a slab of n objects, c of which are free.
FirstFree(n, c) == IF c = 0 THEN NoNode ELSE n - c

\* A slab holds an object at least, and what it holds fits.
LEMMA ObjectsFit ==
  ASSUME NEW o \in Nat, o <= SLAB_SIZE \div 2
  PROVE  /\ obj_count(o) \in Nat /\ obj_count(o) >= 1
         /\ sizeof_slab_t + obj_count(o) * (sizeof_free_t + o) <= SLAB_SIZE
  <1> DEFINE a == SLAB_SIZE - 20
             b == 8 + o
  <1>1. SLAB_SIZE \in Nat /\ SLAB_SIZE >= 64
    BY SlabAssumption
  <1>2. a \in Nat /\ b \in Nat \ {0} /\ a >= b
    BY <1>1
  <1>3. obj_count(o) = a \div b
    BY DEF obj_count, sizeof_slab_t, sizeof_free_t
  <1>4. a = SLAB_SIZE - 20
    OBVIOUS
  <1> HIDE DEF a, b
  <1>5. (a \div b) * b <= a /\ a \div b \in Nat /\ a \div b >= 1
    BY <1>2
  <1>6. 20 + obj_count(o) * b <= SLAB_SIZE
    BY <1>1, <1>2, <1>3, <1>4, <1>5
  <1> QED BY <1>3, <1>5, <1>6 DEF b, sizeof_slab_t, sizeof_free_t

\* The parts of a slab.
LEMMA SlabParts ==
  ASSUME NEW k, NEW c, NEW f, NEW x, NEW nodes
  PROVE  LET s == SlabRec(k, c, f, x, nodes)
         IN  /\ s.parent = k /\ s.free_count = c /\ s.free = f
             /\ s.next = x /\ s.node = nodes
             /\ k \in Nat /\ c \in Nat /\ f \in Int /\ x \in Nat /\ nodes \in NodeArrays =>
                   s \in SlabRecords
  BY DEF SlabRec, SlabRecords

LEMMA KmemParts ==
  ASSUME NEW e, NEW p, NEW f, NEW o, NEW n
  PROVE  LET k == KmemRec(e, p, f, o, n)
         IN  /\ k.empty_slab = e /\ k.partial_slab = p /\ k.full_slab = f
             /\ k.obj_size = o /\ k.obj_count_per_slab = n
             /\ e \in Nat /\ p \in Nat /\ f \in Nat /\ o \in Nat /\ n \in Nat =>
                   k \in KmemRecords
  BY DEF KmemRec, KmemRecords

\* A new slab is in order.
LEMMA CreatSlabIs ==
  ASSUME NEW k, NEW n \in Nat, n >= 1
  PROVE  /\ creat_slab(k, n) = SlabRec(k, n, FirstFree(n, n), NULL, InOrder(n))
         /\ InOrder(n) \in NodeArrays
         /\ DOMAIN InOrder(n) = 0 .. n - 1
         /\ \A c \in 1 .. n : /\ FirstFree(n, c) \in 0 .. n - 1
                              /\ InOrder(n)[FirstFree(n, c)].index = n - c
                              /\ InOrder(n)[FirstFree(n, c)].next = FirstFree(n, c - 1)
  <1>1. FirstFree(n, n) = 0
    BY DEF FirstFree
  <1>2. creat_slab(k, n) = SlabRec(k, n, FirstFree(n, n), NULL, InOrder(n))
    BY <1>1 DEF creat_slab, SlabRec, InOrder
  <1>3. DOMAIN InOrder(n) = 0 .. n - 1
    BY DEF InOrder
  <1>4. InOrder(n) \in NodeArrays
    BY DEF NodeArrays
  <1>5. ASSUME NEW c \in 1 .. n
        PROVE  /\ FirstFree(n, c) \in 0 .. n - 1
               /\ InOrder(n)[FirstFree(n, c)].index = n - c
               /\ InOrder(n)[FirstFree(n, c)].next = FirstFree(n, c - 1)
    BY DEF FirstFree, InOrder, NoNode
  <1> QED BY <1>2, <1>3, <1>4, <1>5

-----------------------------------------------------------------------------
(* The inductive invariant                                                 *)

\* The caches of slab_init, in its order.
KmemsOK ==
    /\ kmems \in Seq(KmemRecords) /\ Len(kmems) \in 1 .. NrClasses + 1
    /\ kmems[1].obj_size = sizeof_kmem_cache_t
    /\ \A k \in 2 .. Len(kmems) : kmems[k].obj_size = 2 ^ (k - 2)
    /\ \A k \in 1 .. Len(kmems) :
          /\ kmems[k].obj_count_per_slab = obj_count(kmems[k].obj_size)
          /\ kmems[k].empty_slab \in 0 .. Len(slabs)
          /\ kmems[k].partial_slab \in 0 .. Len(slabs)
          /\ kmems[k].full_slab \in 0 .. Len(slabs)

\* A slab of n objects: those lent are the first, and the chain is the rest.
SlabOK(r, n) ==
    /\ r.free_count \in 0 .. n
    /\ r.free = FirstFree(n, r.free_count)
    /\ r.node = InOrder(n)

SlabsOK ==
    /\ slabs \in Seq(SlabRecords) /\ Len(slabs) <= MaxSlabs
    /\ \A s \in 1 .. Len(slabs) :
          /\ slabs[s].parent \in 1 .. Len(kmems)
          /\ slabs[s].next \in 0 .. Len(slabs)
          /\ SlabOK(slabs[s], kmems[slabs[s].parent].obj_count_per_slab)

\* The slabs of a cache but one are full.  The one that is not is on the
\* empty or the partial list, alone; a slab of one object, though, stays on
\* the empty list when it is full.
OpenOK(k) ==
    LET e == kmems[k].empty_slab
        p == kmems[k].partial_slab
    IN  /\ e = 0 \/ p = 0
        /\ p # 0 => slabs[p].parent = k /\ slabs[p].free_count > 0 /\ slabs[p].next = 0
        /\ e # 0 => /\ slabs[e].parent = k
                    /\ slabs[e].free_count > 0 => slabs[e].next = 0
                    /\ slabs[e].free_count > 0 \/ kmems[k].obj_count_per_slab = 1
        /\ \A s \in 1 .. Len(slabs) :
              slabs[s].parent = k /\ slabs[s].free_count > 0 => s = e \/ s = p

\* How many objects of a slab are lent.
InUse(s) == kmems[slabs[s].parent].obj_count_per_slab - slabs[s].free_count

LentOK ==
    /\ IsABag(lent)
    /\ \A o \in Lent :
          /\ o.slab \in 1 .. Len(slabs)
          /\ o.size \in Nat /\ o.size <= SlabSize(o.slab)
          /\ o.index \in 0 .. InUse(o.slab) - 1
          /\ lent[o] = 1
    /\ \A o, q \in Lent : o.slab = q.slab /\ o.index = q.index => o = q
    /\ \A s \in 1 .. Len(slabs) : \A i \in 0 .. InUse(s) - 1 :
          \E o \in Lent : o.slab = s /\ o.index = i

SlabInv ==
    /\ KmemsOK
    /\ SlabsOK
    /\ \A k \in 1 .. Len(kmems) : OpenOK(k)
    /\ LentOK
    /\ fault \in Faults

\* The objects of a cache.
LEMMA KmemIs ==
  ASSUME PowersOfTwo, KmemsOK, NEW k \in 1 .. Len(kmems)
  PROVE  LET o == kmems[k].obj_size
             n == kmems[k].obj_count_per_slab
         IN  /\ kmems[k] \in KmemRecords
             /\ o \in Nat /\ n = obj_count(o) /\ n \in Nat /\ n >= 1
             /\ sizeof_slab_t + n * (sizeof_free_t + o) <= SLAB_SIZE
  <1> DEFINE o == kmems[k].obj_size
  <1>1. /\ kmems[k] \in KmemRecords /\ o \in Nat
        /\ kmems[k].obj_count_per_slab = obj_count(o)
    <2>1. kmems[k] \in KmemRecords
      BY DEF KmemsOK
    <2>2. kmems[k].obj_count_per_slab = obj_count(o)
      BY DEF KmemsOK
    <2> QED BY <2>1, <2>2 DEF KmemRecords
  <1>2. o <= SLAB_SIZE \div 2
    <2>1. CASE k = 1
      <3>1. o = 28
        BY <2>1 DEF KmemsOK, sizeof_kmem_cache_t
      <3> QED BY <3>1, SlabAssumption
    <2>2. CASE k # 1
      <3>1. k \in 2 .. Len(kmems) /\ Len(kmems) <= NrClasses + 1 /\ Len(kmems) \in Nat
        BY <2>2 DEF KmemsOK
      <3>2. k - 2 \in 0 .. NrClasses - 1 /\ o = 2 ^ (k - 2)
        BY <3>1, SlabAssumption DEF KmemsOK
      <3> QED BY <3>2 DEF PowersOfTwo
    <2> QED BY <2>1, <2>2
  <1> HIDE DEF o
  <1>3. /\ obj_count(o) \in Nat /\ obj_count(o) >= 1
        /\ sizeof_slab_t + obj_count(o) * (sizeof_free_t + o) <= SLAB_SIZE
    BY <1>1, <1>2, ObjectsFit
  <1> QED BY <1>1, <1>3 DEF o

-----------------------------------------------------------------------------
(* What alloc_from_kmem does                                               *)

\* The slabs among which the allocation of cache k chooses, with a new one
\* behind them when there is none with a free object.
Fresh(k) == HeadSlab(kmems[k]) > Len(slabs)
Slabs(k) == IF Fresh(k) THEN Append(slabs, creat_slab(k, kmems[k].obj_count_per_slab))
            ELSE slabs

\* The slab that is chosen has a free object; the others of its cache have not.
LEMMA HeadIs ==
  ASSUME PowersOfTwo, SlabInv, NEW k \in 1 .. Len(kmems), ~ AllocFaults(k)
  PROVE  LET h == HeadSlab(kmems[k])
             n == kmems[k].obj_count_per_slab
             e == kmems[k].empty_slab
             p == kmems[k].partial_slab
             r == Slabs(k)[h]
         IN  /\ h \in 1 .. Len(Slabs(k)) /\ Len(Slabs(k)) <= MaxSlabs
             /\ Slabs(k) \in Seq(SlabRecords)
             /\ r.free_count \in 1 .. n /\ r.next = 0 /\ r.parent = k /\ SlabOK(r, n)
             /\ \A s \in 1 .. Len(slabs) : Slabs(k)[s] = slabs[s]
             /\ Fresh(k) => /\ h = Len(slabs) + 1 /\ Len(Slabs(k)) = h
                            /\ r.free_count = n /\ e = 0 /\ p = 0
             /\ ~ Fresh(k) => /\ Slabs(k) = slabs
                              /\ (p = h /\ e = 0) \/ (p = 0 /\ e = h)
             /\ \A s \in 1 .. Len(slabs) :
                   s # h /\ slabs[s].parent = k => slabs[s].free_count = 0
  <1> DEFINE h == HeadSlab(kmems[k])
             n == kmems[k].obj_count_per_slab
             e == kmems[k].empty_slab
             p == kmems[k].partial_slab
             r == Slabs(k)[h]
  <1>1. KmemsOK /\ SlabsOK /\ OpenOK(k)
    BY DEF SlabInv
  <1>2. /\ slabs \in Seq(SlabRecords) /\ Len(slabs) \in Nat /\ MaxSlabs \in Nat
        /\ Len(slabs) <= MaxSlabs
    BY <1>1, SlabAssumption DEF SlabsOK
  <1>3. e \in 0 .. Len(slabs) /\ p \in 0 .. Len(slabs)
    BY <1>1 DEF KmemsOK
  <1>4. n \in Nat /\ n >= 1
    BY <1>1, KmemIs
  <1>5. h = IF p # 0 THEN p ELSE IF e # 0 THEN e ELSE Len(slabs) + 1
    BY DEF HeadSlab, NULL
  <1>6. /\ e = 0 \/ p = 0
        /\ p # 0 => slabs[p].parent = k /\ slabs[p].free_count > 0 /\ slabs[p].next = 0
        /\ e # 0 => slabs[e].parent = k /\ (slabs[e].free_count > 0 => slabs[e].next = 0)
        /\ \A s \in 1 .. Len(slabs) :
              slabs[s].parent = k /\ slabs[s].free_count > 0 => s = e \/ s = p
    BY <1>1 DEF OpenOK
  <1>7. \A s \in 1 .. Len(slabs) :
           slabs[s].parent = k => slabs[s].free_count \in Nat /\ SlabOK(slabs[s], n)
    BY <1>1 DEF SlabsOK, SlabOK
  <1>8. CASE Fresh(k)
    <2>1. h = Len(slabs) + 1 /\ e = 0 /\ p = 0
      BY <1>2, <1>3, <1>5, <1>8 DEF Fresh
    <2>2. Len(slabs) # MaxSlabs
      BY <1>8 DEF AllocFaults, Fresh
    <2> DEFINE c == creat_slab(k, n)
    <2>3. c = SlabRec(k, n, FirstFree(n, n), NULL, InOrder(n)) /\ InOrder(n) \in NodeArrays
      BY <1>4, CreatSlabIs
    <2>4. c.parent = k /\ c.free_count = n /\ c.free = FirstFree(n, n) /\ c.next = 0
          /\ c.node = InOrder(n)
      BY <2>3, SlabParts DEF NULL
    <2>5. c \in SlabRecords
      <3>1. FirstFree(n, n) \in Int /\ NULL \in Nat /\ k \in Nat
        BY <1>4 DEF FirstFree, NULL, NoNode
      <3> QED BY <1>4, <2>3, <3>1, SlabParts
    <2>6. SlabOK(c, n)
      BY <1>4, <2>4 DEF SlabOK
    <2>7. Slabs(k) = Append(slabs, c)
      BY <1>8 DEF Slabs
    <2> HIDE DEF c
    <2>8. /\ Slabs(k) \in Seq(SlabRecords) /\ Len(Slabs(k)) = Len(slabs) + 1
          /\ Slabs(k)[Len(slabs) + 1] = c
          /\ \A s \in 1 .. Len(slabs) : Slabs(k)[s] = slabs[s]
      BY <1>2, <2>5, <2>7
    <2>9. Len(Slabs(k)) <= MaxSlabs /\ h \in 1 .. Len(Slabs(k))
      BY <1>2, <2>1, <2>2, <2>8
    <2>10. \A s \in 1 .. Len(slabs) :
              s # h /\ slabs[s].parent = k => slabs[s].free_count = 0
      BY <1>6, <1>7, <2>1
    <2>11. r = c /\ n \in 1 .. n
      BY <1>4, <2>1, <2>8
    <2> QED BY <1>8, <2>1, <2>4, <2>6, <2>8, <2>9, <2>10, <2>11
  <1>9. CASE ~ Fresh(k)
    <2>1. Slabs(k) = slabs /\ ~ (h > Len(slabs))
      BY <1>9 DEF Slabs, Fresh
    <2>2. (p = h /\ e = 0) \/ (p = 0 /\ e = h)
      BY <1>2, <1>3, <1>5, <1>6, <2>1
    <2>3. h \in 1 .. Len(slabs) /\ slabs[h].parent = k
      BY <1>2, <1>3, <1>5, <1>6, <2>1
    <2>4. slabs[h].free # NoNode
      BY <2>1 DEF AllocFaults
    <2>5. SlabOK(slabs[h], n)
      BY <1>7, <2>3
    <2>6. slabs[h].free_count \in 1 .. n
      BY <1>4, <2>4, <2>5 DEF SlabOK, FirstFree
    <2>7. slabs[h].next = 0
      BY <1>4, <1>6, <2>2, <2>3, <2>6
    <2>8. \A s \in 1 .. Len(slabs) :
             s # h /\ slabs[s].parent = k => slabs[s].free_count = 0
      BY <1>3, <1>6, <1>7, <2>2
    <2> QED BY <1>2, <1>9, <2>1, <2>2, <2>3, <2>5, <2>6, <2>7, <2>8
  <1> QED BY <1>8, <1>9

\* The lists of the cache after an object was taken: h is the slab, of n
\* objects, that has c - 1 free ones left; x is its next.
ListsAfter(h, n, c, x, e, p) ==
    /\ e = 0 \/ p = 0
    /\ p # 0 => p = h /\ c > 1 /\ x = 0
    /\ e # 0 => e = h /\ (c > 1 => x = 0) /\ (c > 1 \/ n = 1)
    /\ c > 1 => h = e \/ h = p

\* What is then the head of the full list, f before, and what the slab leads
\* to: a slab whose last object is taken comes before the others.
FullAfter(h, c, f, x, f1) ==
    IF c = 1 THEN x = f /\ f1 = h ELSE x = 0 /\ f1 = f

\* What the tail of alloc_from_kmem makes of a cache with the full list f.
PutOK(put, h, n, c, f, o) ==
    \E x \in {0, f}, e1 \in {0, h}, p1 \in {0, h}, f1 \in {f, h} :
        /\ put.kmem = KmemRec(e1, p1, f1, o, n) /\ put.next = x
        /\ ListsAfter(h, n, c, x, e1, p1) /\ FullAfter(h, c, f, x, f1)

\* It does so on the cache kmem with the slab h.
LEMMA PutBackIs ==
  ASSUME NEW kmem, NEW e \in Nat, NEW p \in Nat, NEW f \in Nat, NEW o, NEW n \in Nat,
         kmem = KmemRec(e, p, f, o, n),
         NEW h \in Nat \ {0}, NEW c \in 1 .. n, NEW status \in {0, 1},
         \/ status = 0 /\ p = h /\ e = 0
         \/ status = 0 /\ p = 0 /\ e = h /\ c = n
         \/ status = 1 /\ p = 0 /\ e = h
  PROVE  PutOK(PutBack(kmem, h, status, 0, c - 1), h, n, c, f, o)
  <1> DEFINE put == PutBack(kmem, h, status, 0, c - 1)
  <1>1. /\ kmem.empty_slab = e /\ kmem.partial_slab = p /\ kmem.full_slab = f
    BY KmemParts
  <1>2. CASE status = 0 /\ c - 1 = 0
    <2>1. put = [kmem |-> [kmem EXCEPT !.partial_slab = 0, !.full_slab = h], next |-> f]
      BY <1>1, <1>2 DEF PutBack
    <2>2. [kmem EXCEPT !.partial_slab = 0, !.full_slab = h] = KmemRec(e, 0, h, o, n)
      <3>1. [kmem EXCEPT !.partial_slab = 0] = KmemRec(e, 0, f, o, n)
        BY DEF KmemRec
      <3>2. [KmemRec(e, 0, f, o, n) EXCEPT !.full_slab = h] = KmemRec(e, 0, h, o, n)
        BY DEF KmemRec
      <3> QED BY <3>1, <3>2
    <2> HIDE DEF put
    <2>3. put.kmem = KmemRec(e, 0, h, o, n) /\ put.next = f
      BY <2>1, <2>2
    <2>4. ListsAfter(h, n, c, f, e, 0) /\ e \in {0, h} /\ FullAfter(h, c, f, f, h)
      BY <1>2 DEF ListsAfter, FullAfter
    <2> QED BY <2>3, <2>4 DEF put, PutOK
  <1>3. CASE status = 0 /\ c - 1 # 0
    <2>1. put = [kmem |-> kmem, next |-> 0]
      BY <1>1, <1>3 DEF PutBack
    <2> HIDE DEF put
    <2>2. put.kmem = KmemRec(e, p, f, o, n) /\ put.next = 0
      BY <2>1
    <2>3. /\ ListsAfter(h, n, c, 0, e, p) /\ e \in {0, h} /\ p \in {0, h}
          /\ FullAfter(h, c, f, 0, f)
      BY <1>3 DEF ListsAfter, FullAfter
    <2> QED BY <2>2, <2>3 DEF put, PutOK
  <1>4. CASE status = 1 /\ c - 1 = 0
    <2>1. put = [kmem |-> [kmem EXCEPT !.empty_slab = 0, !.full_slab = h], next |-> f]
      BY <1>1, <1>4 DEF PutBack
    <2>2. [kmem EXCEPT !.empty_slab = 0, !.full_slab = h] = KmemRec(0, p, h, o, n)
      <3>1. [kmem EXCEPT !.empty_slab = 0] = KmemRec(0, p, f, o, n)
        BY DEF KmemRec
      <3>2. [KmemRec(0, p, f, o, n) EXCEPT !.full_slab = h] = KmemRec(0, p, h, o, n)
        BY DEF KmemRec
      <3> QED BY <3>1, <3>2
    <2> HIDE DEF put
    <2>3. put.kmem = KmemRec(0, p, h, o, n) /\ put.next = f
      BY <2>1, <2>2
    <2>4. ListsAfter(h, n, c, f, 0, p) /\ p \in {0, h} /\ FullAfter(h, c, f, f, h)
      BY <1>4 DEF ListsAfter, FullAfter
    <2> QED BY <2>3, <2>4 DEF put, PutOK
  <1>5. CASE status = 1 /\ c - 1 # 0
    <2>1. put = [kmem |-> [kmem EXCEPT !.empty_slab = 0, !.partial_slab = h], next |-> p]
      BY <1>1, <1>5 DEF PutBack
    <2>2. [kmem EXCEPT !.empty_slab = 0, !.partial_slab = h] = KmemRec(0, h, f, o, n)
      <3>1. [kmem EXCEPT !.empty_slab = 0] = KmemRec(0, p, f, o, n)
        BY DEF KmemRec
      <3>2. [KmemRec(0, p, f, o, n) EXCEPT !.partial_slab = h] = KmemRec(0, h, f, o, n)
        BY DEF KmemRec
      <3> QED BY <3>1, <3>2
    <2> HIDE DEF put
    <2>3. put.kmem = KmemRec(0, h, f, o, n) /\ put.next = 0
      BY <1>5, <2>1, <2>2
    <2>4. ListsAfter(h, n, c, 0, 0, h) /\ FullAfter(h, c, f, 0, f)
      BY <1>5 DEF ListsAfter, FullAfter
    <2> QED BY <2>3, <2>4 DEF put, PutOK
  <1> QED BY <1>2, <1>3, <1>4, <1>5

\* An allocation takes the first free object of the head slab.
LEMMA AllocIs ==
  ASSUME PowersOfTwo, SlabInv, NEW k \in 1 .. Len(kmems), ~ AllocFaults(k)
  PROVE  LET a == alloc_from_kmem(k)
             h == HeadSlab(kmems[k])
             n == kmems[k].obj_count_per_slab
             c == Slabs(k)[h].free_count
             f == kmems[k].full_slab
         IN  \E x \in {0, f}, e1 \in {0, h}, p1 \in {0, h}, f1 \in {f, h} :
                /\ a.slab = h /\ a.index = n - c
                /\ a.kmems = [kmems EXCEPT ![k] = KmemRec(e1, p1, f1, kmems[k].obj_size, n)]
                /\ a.slabs = [Slabs(k) EXCEPT ![h] =
                                SlabRec(k, c - 1, FirstFree(n, c - 1), x, InOrder(n))]
                /\ ListsAfter(h, n, c, x, e1, p1) /\ FullAfter(h, c, f, x, f1)
  <1> DEFINE a == alloc_from_kmem(k)
             h == HeadSlab(kmems[k])
             n == kmems[k].obj_count_per_slab
             o == kmems[k].obj_size
             e == kmems[k].empty_slab
             p == kmems[k].partial_slab
             f == kmems[k].full_slab
             r == Slabs(k)[h]
             c == r.free_count
             status == IF p = NULL /\ ~ Fresh(k) THEN 1 ELSE 0
             taken == r.node[r.free]
             kmem == IF Fresh(k) THEN [kmems[k] EXCEPT !.empty_slab = h] ELSE kmems[k]
             put == PutBack(kmem, h, status, r.next, c - 1)
  <1>1. a = [kmems |-> [kmems EXCEPT ![k] = put.kmem],
             slabs |-> [Slabs(k) EXCEPT ![h] =
                          [r EXCEPT !.free = taken.next, !.free_count = c - 1,
                                    !.next = put.next]],
             slab |-> h, index |-> taken.index]
    BY DEF alloc_from_kmem, Fresh, Slabs
  <1>2. /\ h \in 1 .. Len(Slabs(k)) /\ Slabs(k) \in Seq(SlabRecords)
        /\ c \in 1 .. n /\ r.next = 0 /\ r.parent = k /\ SlabOK(r, n)
        /\ Fresh(k) => c = n /\ e = 0 /\ p = 0
        /\ ~ Fresh(k) => (p = h /\ e = 0) \/ (p = 0 /\ e = h)
    BY HeadIs
  <1>3. /\ kmems[k] \in KmemRecords /\ n \in Nat /\ n >= 1
        /\ e \in Nat /\ p \in Nat /\ f \in Nat
    BY KmemIs DEF SlabInv, KmemRecords
  <1>4. kmems[k] = KmemRec(e, p, f, o, n)
    BY <1>3 DEF KmemRecords, KmemRec
  <1>5. r = SlabRec(k, c, FirstFree(n, c), 0, InOrder(n))
    <2>1. r \in SlabRecords
      BY <1>2
    <2>2. r = SlabRec(r.parent, r.free_count, r.free, r.next, r.node)
      BY <2>1 DEF SlabRecords, SlabRec
    <2> QED BY <1>2, <2>2 DEF SlabOK
  <1>6. taken.index = n - c /\ taken.next = FirstFree(n, c - 1)
    <2>1. taken = InOrder(n)[FirstFree(n, c)]
      BY <1>2 DEF SlabOK
    <2> QED BY <1>2, <1>3, <2>1, CreatSlabIs, ZenonT(30)
  <1>7. kmem = KmemRec(IF Fresh(k) THEN h ELSE e, p, f, o, n)
    BY <1>4 DEF KmemRec
  <1>8. status = IF p = 0 /\ ~ Fresh(k) THEN 1 ELSE 0
    BY DEF NULL
  <1> HIDE DEF a, r, n, o, e, p, f, c, kmem, status, taken, h
  <1>9. PICK x \in {0, f}, e1 \in {0, h}, p1 \in {0, h}, f1 \in {f, h} :
           /\ put.kmem = KmemRec(e1, p1, f1, o, n) /\ put.next = x
           /\ ListsAfter(h, n, c, x, e1, p1) /\ FullAfter(h, c, f, x, f1)
    <2>1. /\ h \in Nat \ {0} /\ (IF Fresh(k) THEN h ELSE e) \in Nat /\ status \in {0, 1}
          /\ r.next = 0
      BY <1>2, <1>3, <1>8
    <2>2. put = PutBack(kmem, h, status, 0, c - 1)
      BY <2>1
    <2>3. CASE Fresh(k)
      <3>1. kmem = KmemRec(h, p, f, o, n) /\ status = 0 /\ p = 0 /\ c = n
        BY <1>2, <1>7, <1>8, <2>3
      <3>2. PutOK(PutBack(kmem, h, status, 0, c - 1), h, n, c, f, o)
        BY <1>2, <1>3, <2>1, <3>1, PutBackIs
      <3> QED BY <2>2, <3>2 DEF PutOK
    <2>4. CASE ~ Fresh(k)
      <3>1. kmem = KmemRec(e, p, f, o, n)
        BY <1>7, <2>4
      <3>2. \/ status = 0 /\ p = h /\ e = 0
            \/ status = 1 /\ p = 0 /\ e = h
        BY <1>2, <1>8, <2>1, <2>4
      <3>3. PutOK(PutBack(kmem, h, status, 0, c - 1), h, n, c, f, o)
        BY <1>2, <1>3, <2>1, <3>1, <3>2, PutBackIs
      <3> QED BY <2>2, <3>3 DEF PutOK
    <2> QED BY <2>3, <2>4
  <1>10. [r EXCEPT !.free = taken.next, !.free_count = c - 1, !.next = put.next]
            = SlabRec(k, c - 1, FirstFree(n, c - 1), x, InOrder(n))
    <2>1. [r EXCEPT !.free = taken.next, !.free_count = c - 1, !.next = put.next]
             = [[[r EXCEPT !.free = FirstFree(n, c - 1)] EXCEPT !.free_count = c - 1]
                    EXCEPT !.next = x]
      BY <1>6, <1>9
    <2>2. [r EXCEPT !.free = FirstFree(n, c - 1)]
             = SlabRec(k, c, FirstFree(n, c - 1), 0, InOrder(n))
      BY <1>5 DEF SlabRec
    <2>3. [SlabRec(k, c, FirstFree(n, c - 1), 0, InOrder(n)) EXCEPT !.free_count = c - 1]
             = SlabRec(k, c - 1, FirstFree(n, c - 1), 0, InOrder(n))
      BY DEF SlabRec
    <2>4. [SlabRec(k, c - 1, FirstFree(n, c - 1), 0, InOrder(n)) EXCEPT !.next = x]
             = SlabRec(k, c - 1, FirstFree(n, c - 1), x, InOrder(n))
      BY DEF SlabRec
    <2> QED BY <2>1, <2>2, <2>3, <2>4
  <1> HIDE DEF put
  <1>11. /\ a.slab = h /\ a.index = n - c
         /\ a.kmems = [kmems EXCEPT ![k] = KmemRec(e1, p1, f1, o, n)]
         /\ a.slabs = [Slabs(k) EXCEPT ![h] =
                         SlabRec(k, c - 1, FirstFree(n, c - 1), x, InOrder(n))]
    BY <1>1, <1>6, <1>9, <1>10
  <1> QED BY <1>9, <1>11 DEF a, r, n, o, f, c, h

-----------------------------------------------------------------------------
(* The invariant is kept                                                   *)

\* One more object in the bag.
LEMMA OneMore ==
  ASSUME NEW B, IsABag(B), NEW o, o \notin BagToSet(B)
  PROVE  LET C == B (+) SetToBag({o})
         IN  /\ IsABag(C) /\ BagToSet(C) = BagToSet(B) \cup {o}
             /\ C[o] = 1 /\ \A q \in BagToSet(B) : C[q] = B[q]
  BY DEF IsABag, BagToSet, (+), SetToBag

\* The caches after an allocation: those that were there, with new lists for
\* cache k, and perhaps another one of the next class.
KmemsAfter(k, new) ==
    \/ kmems' = [kmems EXCEPT ![k] = new]
    \/ /\ kmems' = Append([kmems EXCEPT ![k] = new], NewKmem(2 ^ (Len(kmems) - 1)))
       /\ Len(kmems) <= NrClasses

LEMMA KmemsAfterIs ==
  ASSUME PowersOfTwo, KmemsOK, NEW k \in 1 .. Len(kmems),
         NEW new \in KmemRecords, KmemsAfter(k, new)
  PROVE  /\ kmems' \in Seq(KmemRecords)
         /\ Len(kmems') \in 1 .. NrClasses + 1 /\ Len(kmems) <= Len(kmems')
         /\ kmems'[k] = new
         /\ \A j \in 1 .. Len(kmems) : j # k => kmems'[j] = kmems[j]
         /\ \A j \in 1 .. Len(kmems') : j \notin 1 .. Len(kmems) =>
               j >= 2 /\ kmems'[j] = NewKmem(2 ^ (j - 2))
  <1> DEFINE was == [kmems EXCEPT ![k] = new]
  <1>1. /\ kmems \in Seq(KmemRecords) /\ Len(kmems) \in Nat /\ Len(kmems) >= 1
        /\ Len(kmems) <= NrClasses + 1 /\ NrClasses \in Nat
    BY SlabAssumption DEF KmemsOK
  <1>2. /\ was \in Seq(KmemRecords) /\ Len(was) = Len(kmems) /\ was[k] = new
        /\ \A j \in 1 .. Len(kmems) : j # k => was[j] = kmems[j]
    BY <1>1
  <1> HIDE DEF was
  <1>3. CASE kmems' = was
    BY <1>1, <1>2, <1>3
  <1>4. CASE kmems' # was
    <2> DEFINE more == NewKmem(2 ^ (Len(kmems) - 1))
    <2>1. kmems' = Append(was, more) /\ Len(kmems) <= NrClasses
      BY <1>4 DEF KmemsAfter, was
    <2>2. more \in KmemRecords
      <3> DEFINE o == 2 ^ (Len(kmems) - 1)
      <3>1. Len(kmems) - 1 \in 0 .. NrClasses - 1
        BY <1>1, <2>1
      <3>2. o \in Nat /\ o <= SLAB_SIZE \div 2
        BY <3>1 DEF PowersOfTwo
      <3> HIDE DEF o
      <3>3. obj_count(o) \in Nat
        BY <3>2, ObjectsFit
      <3>4. more = KmemRec(0, 0, 0, o, obj_count(o))
        BY DEF NewKmem, KmemRec, NULL, o
      <3> QED BY <3>2, <3>3, <3>4, KmemParts
    <2>3. more = NewKmem(2 ^ ((Len(kmems) + 1) - 2))
      <3>1. (Len(kmems) + 1) - 2 = Len(kmems) - 1
        BY <1>1
      <3> QED BY <3>1
    <2> HIDE DEF more
    <2>4. /\ kmems' \in Seq(KmemRecords) /\ Len(kmems') = Len(kmems) + 1
          /\ kmems'[Len(kmems) + 1] = more
          /\ \A j \in 1 .. Len(kmems) : kmems'[j] = was[j]
      BY <1>1, <1>2, <2>1, <2>2
    <2>5. \A j \in 1 .. Len(kmems') : j \notin 1 .. Len(kmems) => j = Len(kmems) + 1
      BY <1>1, <2>4
    <2>6. \A j \in 1 .. Len(kmems') : j \notin 1 .. Len(kmems) =>
             j >= 2 /\ kmems'[j] = NewKmem(2 ^ (j - 2))
      BY <1>1, <2>3, <2>4, <2>5
    <2> QED BY <1>1, <1>2, <2>1, <2>4, <2>6
  <1> QED BY <1>3, <1>4

\* A step that takes an object of cache k for a request it can serve.
Takes(k, size) ==
    LET a == alloc_from_kmem(k)
    IN  /\ ~ AllocFaults(k)
        /\ slabs' = a.slabs
        /\ \/ kmems' = a.kmems
           \/ kmems' = Append(a.kmems, NewKmem(2 ^ (Len(kmems) - 1))) /\ ~ SlabInited
        /\ lent' = lent (+) SetToBag({Object(a.slab, a.index, size)})
        /\ UNCHANGED fault

LEMMA TakesKeeps ==
  ASSUME PowersOfTwo, SlabInv, NEW k \in 1 .. Len(kmems),
         NEW size \in Nat, size <= kmems[k].obj_size, Takes(k, size)
  PROVE  SlabInv'
  <1> DEFINE a == alloc_from_kmem(k)
             h == HeadSlab(kmems[k])
             n == kmems[k].obj_count_per_slab
             c == Slabs(k)[h].free_count
             f == kmems[k].full_slab
             o == kmems[k].obj_size
  <1>1. /\ KmemsOK /\ SlabsOK /\ LentOK /\ fault \in Faults
        /\ \A j \in 1 .. Len(kmems) : OpenOK(j)
    BY DEF SlabInv
  <1>2. ~ AllocFaults(k)
    BY DEF Takes
  <1>3. /\ h \in 1 .. Len(Slabs(k)) /\ Len(Slabs(k)) <= MaxSlabs
        /\ Slabs(k) \in Seq(SlabRecords) /\ c \in 1 .. n
        /\ \A s \in 1 .. Len(slabs) : Slabs(k)[s] = slabs[s]
        /\ Fresh(k) => h = Len(slabs) + 1 /\ Len(Slabs(k)) = h /\ c = n
        /\ ~ Fresh(k) => Slabs(k) = slabs /\ slabs[h].parent = k
        /\ \A s \in 1 .. Len(slabs) :
              s # h /\ slabs[s].parent = k => slabs[s].free_count = 0
    BY <1>2, HeadIs, SMTT(30)
  <1>4. PICK x \in {0, f}, e1 \in {0, h}, p1 \in {0, h}, f1 \in {f, h} :
           /\ a.slab = h /\ a.index = n - c
           /\ a.kmems = [kmems EXCEPT ![k] = KmemRec(e1, p1, f1, o, n)]
           /\ a.slabs = [Slabs(k) EXCEPT ![h] =
                           SlabRec(k, c - 1, FirstFree(n, c - 1), x, InOrder(n))]
           /\ ListsAfter(h, n, c, x, e1, p1) /\ FullAfter(h, c, f, x, f1)
    BY <1>2, AllocIs
  <1> DEFINE new == KmemRec(e1, p1, f1, o, n)
             r == SlabRec(k, c - 1, FirstFree(n, c - 1), x, InOrder(n))
             obj == Object(h, n - c, size)
  <1>5. /\ slabs' = [Slabs(k) EXCEPT ![h] = r] /\ fault' = fault
        /\ lent' = lent (+) SetToBag({obj})
    BY <1>4 DEF Takes
  <1>6. KmemsAfter(k, new)
    <2>1. \/ kmems' = a.kmems
          \/ kmems' = Append(a.kmems, NewKmem(2 ^ (Len(kmems) - 1))) /\ ~ SlabInited
      BY DEF Takes
    <2>2. ~ SlabInited => Len(kmems) <= NrClasses
      BY <1>1, SlabAssumption DEF SlabInited, KmemsOK
    <2> QED BY <1>4, <2>1, <2>2 DEF KmemsAfter
  <1>7. /\ o \in Nat /\ n = obj_count(o) /\ n \in Nat /\ n >= 1
        /\ Len(kmems) \in Nat /\ Len(slabs) \in Nat /\ f \in 0 .. Len(slabs)
        /\ Len(Slabs(k)) \in Nat /\ slabs \in Seq(SlabRecords)
    <2>1. o \in Nat /\ n = obj_count(o) /\ n \in Nat /\ n >= 1
      BY <1>1, KmemIs
    <2>2. Len(kmems) \in Nat /\ f \in 0 .. Len(slabs)
      BY <1>1 DEF KmemsOK
    <2>3. Len(slabs) \in Nat /\ slabs \in Seq(SlabRecords)
      BY <1>1 DEF SlabsOK
    <2>4. Len(Slabs(k)) \in Nat
      BY <1>3
    <2> QED BY <2>1, <2>2, <2>3, <2>4
  <1>8. /\ new.empty_slab = e1 /\ new.partial_slab = p1 /\ new.full_slab = f1
        /\ new.obj_size = o /\ new.obj_count_per_slab = n
    BY KmemParts
  <1>9. /\ r.parent = k /\ r.free_count = c - 1 /\ r.free = FirstFree(n, c - 1)
        /\ r.next = x /\ r.node = InOrder(n)
    BY SlabParts
  <1>10. obj.slab = h /\ obj.index = n - c /\ obj.size = size
    BY DEF Object
  <1>11. ListsAfter(h, n, c, x, e1, p1)
    BY <1>4
  <1> HIDE DEF a, h, n, c, f, o
  <1>12. /\ Len(slabs) <= Len(Slabs(k)) /\ x \in 0 .. Len(Slabs(k)) /\ h \in Nat \ {0}
         /\ {e1, p1, f1} \subseteq 0 .. Len(Slabs(k))
    <2>1. Len(slabs) <= Len(Slabs(k))
      BY <1>3, <1>7
    <2>2. h \in Nat \ {0} /\ h \in 0 .. Len(Slabs(k)) /\ f \in 0 .. Len(Slabs(k))
      BY <1>3, <1>7, <2>1
    <2> QED BY <1>7, <2>1, <2>2
  <1>13. new \in KmemRecords
    BY <1>7, <1>12, KmemParts, SMTT(30)
  <1>14. r \in SlabRecords
    <2>1. c - 1 \in Nat /\ FirstFree(n, c - 1) \in Int /\ k \in Nat /\ x \in Nat
      BY <1>3, <1>7, <1>12 DEF FirstFree, NoNode
    <2>2. InOrder(n) \in NodeArrays
      BY <1>7 DEF NodeArrays
    <2> QED BY <2>1, <2>2, SlabParts
  <1> HIDE DEF new, r, obj
  <1>15. /\ slabs' \in Seq(SlabRecords) /\ Len(slabs') = Len(Slabs(k)) /\ slabs'[h] = r
         /\ \A s \in 1 .. Len(slabs') : s # h => slabs'[s] = Slabs(k)[s]
    BY <1>3, <1>5, <1>14
  <1>16. \A s \in 1 .. Len(slabs') : s # h => s \in 1 .. Len(slabs) /\ slabs'[s] = slabs[s]
    BY <1>3, <1>7, <1>15
  <1>17. /\ kmems' \in Seq(KmemRecords)
         /\ Len(kmems') \in 1 .. NrClasses + 1 /\ Len(kmems) <= Len(kmems')
         /\ kmems'[k] = new
         /\ \A j \in 1 .. Len(kmems) : j # k => kmems'[j] = kmems[j]
         /\ \A j \in 1 .. Len(kmems') : j \notin 1 .. Len(kmems) =>
               j >= 2 /\ kmems'[j] = NewKmem(2 ^ (j - 2))
    BY <1>1, <1>6, <1>13, KmemsAfterIs
  <1>18. \A j \in 1 .. Len(kmems) :
            /\ j \in 1 .. Len(kmems') /\ kmems'[j].obj_size = kmems[j].obj_size
            /\ kmems'[j].obj_count_per_slab = kmems[j].obj_count_per_slab
    BY <1>7, <1>8, <1>17, SMTT(30) DEF n, o
  <1>19. \A s \in 1 .. Len(slabs') :
            slabs'[s].parent \in 1 .. Len(kmems) /\ (s = h => slabs'[s].parent = k)
    BY <1>1, <1>9, <1>15, <1>16 DEF SlabsOK
  <1>20. KmemsOK'
    <2>1. ASSUME NEW j \in 1 .. Len(kmems')
          PROVE  /\ j = 1 => kmems'[j].obj_size = sizeof_kmem_cache_t
                 /\ j >= 2 => kmems'[j].obj_size = 2 ^ (j - 2)
                 /\ kmems'[j].obj_count_per_slab = obj_count(kmems'[j].obj_size)
                 /\ kmems'[j].empty_slab \in 0 .. Len(slabs')
                 /\ kmems'[j].partial_slab \in 0 .. Len(slabs')
                 /\ kmems'[j].full_slab \in 0 .. Len(slabs')
      <3>1. CASE j \in 1 .. Len(kmems)
        <4>1. /\ j = 1 => kmems[j].obj_size = sizeof_kmem_cache_t
              /\ j >= 2 => kmems[j].obj_size = 2 ^ (j - 2)
              /\ kmems[j].obj_count_per_slab = obj_count(kmems[j].obj_size)
          BY <1>1, <3>1 DEF KmemsOK
        <4>2. CASE j = k
          BY <1>8, <1>12, <1>15, <1>17, <1>18, <4>1, <4>2
        <4>3. CASE j # k
          <5>1. /\ kmems[j].empty_slab \in 0 .. Len(slabs)
                /\ kmems[j].partial_slab \in 0 .. Len(slabs)
                /\ kmems[j].full_slab \in 0 .. Len(slabs)
            BY <1>1, <3>1 DEF KmemsOK
          <5>2. 0 .. Len(slabs) \subseteq 0 .. Len(slabs')
            BY <1>7, <1>12, <1>15
          <5> QED BY <1>17, <3>1, <4>1, <4>3, <5>1, <5>2
        <4> QED BY <4>2, <4>3
      <3>2. CASE j \notin 1 .. Len(kmems)
        <4> DEFINE q == 2 ^ (j - 2)
        <4>1. j >= 2 /\ kmems'[j] = NewKmem(q)
          BY <1>17, <3>2
        <4> HIDE DEF q
        <4>2. NewKmem(q) = KmemRec(0, 0, 0, q, obj_count(q))
          BY DEF NewKmem, KmemRec, NULL
        <4>3. 0 \in 0 .. Len(slabs')
          BY <1>7, <1>15
        <4>4. j # 1
          BY <4>1
        <4> QED BY <4>1, <4>2, <4>3, <4>4, KmemParts DEF q
      <3> QED BY <3>1, <3>2
    <2>2. 1 \in 1 .. Len(kmems') /\ \A j \in 2 .. Len(kmems') : j \in 1 .. Len(kmems') /\ j >= 2
      BY <1>17
    <2> QED BY <1>17, <2>1, <2>2 DEF KmemsOK
  <1>21. SlabsOK'
    <2>1. ASSUME NEW s \in 1 .. Len(slabs')
          PROVE  /\ slabs'[s].parent \in 1 .. Len(kmems')
                 /\ slabs'[s].next \in 0 .. Len(slabs')
                 /\ SlabOK(slabs'[s], kmems'[slabs'[s].parent].obj_count_per_slab)
      <3>1. CASE s = h
        <4>1. SlabOK(r, n)
          BY <1>3, <1>7, <1>9 DEF SlabOK
        <4> QED BY <1>8, <1>9, <1>12, <1>15, <1>17, <1>18, <3>1, <4>1
      <3>2. CASE s # h
        <4>1. s \in 1 .. Len(slabs) /\ slabs'[s] = slabs[s]
          BY <1>16, <3>2
        <4>2. /\ slabs[s].parent \in 1 .. Len(kmems) /\ slabs[s].next \in 0 .. Len(slabs)
              /\ SlabOK(slabs[s], kmems[slabs[s].parent].obj_count_per_slab)
          BY <1>1, <4>1 DEF SlabsOK
        <4>3. 0 .. Len(slabs) \subseteq 0 .. Len(slabs')
          BY <1>7, <1>12, <1>15
        <4> QED BY <1>18, <4>1, <4>2, <4>3
      <3> QED BY <3>1, <3>2
    <2> QED BY <1>3, <1>15, <2>1 DEF SlabsOK
  <1>22. ASSUME NEW j \in 1 .. Len(kmems')
         PROVE  OpenOK(j)'
    <2> DEFINE e == kmems'[j].empty_slab
               p == kmems'[j].partial_slab
    <2>1. CASE j = k
      <3>1. e = e1 /\ p = p1 /\ kmems'[j].obj_count_per_slab = n
        BY <1>8, <1>17, <2>1
      <3>2. slabs'[h].parent = k /\ slabs'[h].free_count = c - 1 /\ slabs'[h].next = x
        BY <1>9, <1>15
      <3>3. ASSUME NEW s \in 1 .. Len(slabs'), slabs'[s].parent = k, slabs'[s].free_count > 0
            PROVE  s = h
        BY <1>3, <1>16, <3>3
      <3>4. (c - 1 > 0 <=> c > 1) /\ h # 0
        BY <1>3, <1>7, <1>12
      <3>5. /\ e1 = 0 \/ p1 = 0
            /\ p1 # 0 => p1 = h /\ c > 1 /\ x = 0
            /\ e1 # 0 => e1 = h /\ (c > 1 => x = 0) /\ (c > 1 \/ n = 1)
            /\ c > 1 => h = e1 \/ h = p1
        BY <1>11 DEF ListsAfter
      <3>6. \A s \in 1 .. Len(slabs') :
               slabs'[s].parent = j /\ slabs'[s].free_count > 0 => s = e \/ s = p
        BY <2>1, <3>1, <3>2, <3>3, <3>4, <3>5
      <3>7. p # 0 => slabs'[p].parent = j /\ slabs'[p].free_count > 0 /\ slabs'[p].next = 0
        BY <2>1, <3>1, <3>2, <3>4, <3>5
      <3>8. e # 0 => /\ slabs'[e].parent = j
                     /\ slabs'[e].free_count > 0 => slabs'[e].next = 0
                     /\ slabs'[e].free_count > 0 \/ kmems'[j].obj_count_per_slab = 1
        BY <2>1, <3>1, <3>2, <3>4, <3>5
      <3> QED BY <3>1, <3>5, <3>6, <3>7, <3>8 DEF OpenOK
    <2>2. CASE j # k /\ j \in 1 .. Len(kmems)
      <3>1. kmems'[j] = kmems[j] /\ OpenOK(j)
        BY <1>1, <1>17, <2>2
      <3>2. e \in 0 .. Len(slabs) /\ p \in 0 .. Len(slabs)
        BY <1>1, <2>2, <3>1 DEF KmemsOK
      <3>3. ASSUME NEW s \in 1 .. Len(slabs), slabs[s].parent = j
            PROVE  slabs'[s] = slabs[s]
        <4>1. s # h
          <5>1. CASE Fresh(k)
            BY <1>3, <1>7, <5>1
          <5>2. CASE ~ Fresh(k)
            BY <1>3, <2>2, <3>3, <5>2
          <5> QED BY <5>1, <5>2
        <4>2. s \in 1 .. Len(slabs')
          BY <1>7, <1>12, <1>15
        <4> QED BY <1>16, <4>1, <4>2
      <3>4. \A s \in 1 .. Len(slabs') : slabs'[s].parent = j =>
               s \in 1 .. Len(slabs) /\ slabs'[s] = slabs[s]
        BY <1>16, <1>19, <2>2
      <3>5. (p # 0 => slabs[p].parent = j) /\ (e # 0 => slabs[e].parent = j)
        BY <3>1 DEF OpenOK
      <3>6. (p # 0 => p \in 1 .. Len(slabs)) /\ (e # 0 => e \in 1 .. Len(slabs))
        BY <1>7, <3>2, SMTT(30)
      <3>7. (p # 0 => slabs'[p] = slabs[p]) /\ (e # 0 => slabs'[e] = slabs[e])
        BY <3>3, <3>5, <3>6
      <3> QED BY <3>1, <3>4, <3>7 DEF OpenOK
    <2>3. CASE j \notin 1 .. Len(kmems)
      <3> DEFINE q == 2 ^ (j - 2)
      <3>1. kmems'[j] = NewKmem(q)
        BY <1>17, <2>3
      <3> HIDE DEF q
      <3>2. e = 0 /\ p = 0
        BY <3>1 DEF NewKmem, NULL
      <3>3. \A s \in 1 .. Len(slabs') : slabs'[s].parent # j
        BY <1>19, <2>3
      <3> QED BY <3>2, <3>3 DEF OpenOK
    <2> QED BY <2>1, <2>2, <2>3
  <1>23. LentOK'
    <2> DEFINE Used(s) == kmems'[slabs'[s].parent].obj_count_per_slab - slabs'[s].free_count
               Size(s) == kmems'[slabs'[s].parent].obj_size
    <2>1. /\ IsABag(lent)
          /\ \A q \in Lent :
                /\ q.slab \in 1 .. Len(slabs)
                /\ q.size \in Nat /\ q.size <= SlabSize(q.slab)
                /\ q.index \in 0 .. InUse(q.slab) - 1
                /\ lent[q] = 1
          /\ \A q, w \in Lent : q.slab = w.slab /\ q.index = w.index => q = w
          /\ \A s \in 1 .. Len(slabs) : \A i \in 0 .. InUse(s) - 1 :
                \E q \in Lent : q.slab = s /\ q.index = i
      BY <1>1 DEF LentOK
    <2>2. /\ h \in 1 .. Len(slabs') /\ Used(h) = n - c + 1 /\ Size(h) = o
          /\ n - c \in Nat
      <3>1. h \in 1 .. Len(slabs')
        BY <1>3, <1>15
      <3>2. slabs'[h].parent = k /\ slabs'[h].free_count = c - 1
        BY <1>9, <1>15
      <3>3. kmems'[k].obj_count_per_slab = n /\ kmems'[k].obj_size = o
        BY <1>8, <1>17
      <3>4. c \in Nat /\ n - c \in Nat /\ n - (c - 1) = n - c + 1
        BY <1>3, <1>7
      <3> QED BY <3>1, <3>2, <3>3, <3>4
    <2>3. ASSUME NEW s \in 1 .. Len(slabs)
          PROVE  /\ s \in 1 .. Len(slabs')
                 /\ s = h => InUse(s) = n - c /\ SlabSize(s) = o
                 /\ s # h => Used(s) = InUse(s) /\ Size(s) = SlabSize(s)
      <3>1. s \in 1 .. Len(slabs')
        BY <1>7, <1>12, <1>15
      <3>2. CASE s = h
        <4>1. ~ Fresh(k)
          BY <1>3, <1>7, <3>2
        <4>2. slabs[s].parent = k /\ Slabs(k) = slabs
          BY <1>3, <3>2, <4>1
        <4>3. slabs[s].free_count = c
          BY <3>2, <4>2 DEF c, h
        <4> QED BY <3>1, <3>2, <4>2, <4>3 DEF InUse, SlabSize, n, o
      <3>3. CASE s # h
        <4>1. slabs'[s] = slabs[s] /\ slabs[s].parent \in 1 .. Len(kmems)
          BY <1>16, <1>19, <3>1, <3>3
        <4> QED BY <1>18, <3>1, <3>3, <4>1 DEF InUse, SlabSize
      <3> QED BY <3>2, <3>3
    <2> HIDE DEF Used, Size
    <2>4. ASSUME NEW q \in Lent
          PROVE  q.slab = h => q.index \in 0 .. n - c - 1
      BY <2>1, <2>3
    <2>5. obj \notin Lent
      <3>1. SUFFICES ASSUME obj \in Lent PROVE FALSE
        OBVIOUS
      <3>2. n - c \in 0 .. n - c - 1
        BY <1>10, <2>4, <3>1
      <3> QED BY <2>2, <3>2
    <2>6. /\ IsABag(lent') /\ Lent' = Lent \cup {obj}
          /\ lent'[obj] = 1 /\ \A q \in Lent : lent'[q] = 1
      <3>1. IsABag(lent) /\ obj \notin BagToSet(lent)
        BY <2>1, <2>5 DEF Lent
      <3>2. /\ IsABag(lent') /\ BagToSet(lent') = BagToSet(lent) \cup {obj}
            /\ lent'[obj] = 1 /\ \A q \in BagToSet(lent) : lent'[q] = lent[q]
        <4> DEFINE more == lent (+) SetToBag({obj})
        <4>1. /\ IsABag(more) /\ BagToSet(more) = BagToSet(lent) \cup {obj}
              /\ more[obj] = 1 /\ \A q \in BagToSet(lent) : more[q] = lent[q]
          BY <3>1, OneMore
        <4> HIDE DEF more
        <4>2. lent' = more
          BY <1>5 DEF more
        <4> QED BY <4>1, <4>2
      <3> QED BY <2>1, <3>2 DEF Lent
    <2>7. ASSUME NEW q \in Lent'
          PROVE  /\ q.slab \in 1 .. Len(slabs')
                 /\ q.size \in Nat /\ q.size <= Size(q.slab)
                 /\ q.index \in 0 .. Used(q.slab) - 1
                 /\ lent'[q] = 1
      <3>1. CASE q = obj
        <4>1. n - c \in 0 .. (n - c + 1) - 1 /\ size <= o
          BY <2>2 DEF o
        <4>2. q.slab = h /\ q.size = size /\ q.index = n - c /\ lent'[q] = 1
          BY <1>10, <2>6, <3>1
        <4> QED BY <2>2, <4>1, <4>2
      <3>2. CASE q # obj
        <4>1. q \in Lent /\ lent'[q] = 1
          BY <2>6, <3>2
        <4>2. /\ q.slab \in 1 .. Len(slabs) /\ q.size \in Nat
              /\ q.size <= SlabSize(q.slab) /\ q.index \in 0 .. InUse(q.slab) - 1
          BY <2>1, <4>1
        <4>3. CASE q.slab = h
          <5>1. SlabSize(q.slab) = o /\ InUse(q.slab) = n - c
            BY <2>3, <4>2, <4>3
          <5>2. Size(q.slab) = o /\ Used(q.slab) = n - c + 1
            BY <2>2, <4>3
          <5>3. q.index \in 0 .. (n - c + 1) - 1
            BY <2>2, <4>2, <5>1
          <5> QED BY <2>3, <4>1, <4>2, <5>1, <5>2, <5>3
        <4>4. CASE q.slab # h
          BY <2>3, <4>1, <4>2, <4>4
        <4> QED BY <4>3, <4>4
      <3> QED BY <3>1, <3>2
    <2>8. ASSUME NEW q \in Lent', NEW w \in Lent', q.slab = w.slab, q.index = w.index
          PROVE  q = w
      <3>1. \A v \in Lent : ~ (v.slab = h /\ v.index = n - c)
        BY <2>2, <2>4
      <3> QED BY <1>10, <2>1, <2>6, <2>8, <3>1
    <2>9. ASSUME NEW s \in 1 .. Len(slabs'), NEW i \in 0 .. Used(s) - 1
          PROVE  \E q \in Lent' : q.slab = s /\ q.index = i
      <3>1. CASE s = h
        <4>1. CASE i = n - c
          BY <1>10, <2>6, <3>1, <4>1
        <4>2. CASE i # n - c
          <5>1. i \in 0 .. n - c - 1
            BY <2>2, <3>1, <4>2
          <5>2. s \in 1 .. Len(slabs)
            <6>1. Fresh(k) => n - c = 0
              BY <1>3, <1>7
            <6>2. ~ Fresh(k)
              BY <5>1, <6>1
            <6> QED BY <1>3, <3>1, <6>2
          <5>3. InUse(s) = n - c
            BY <2>3, <3>1, <5>2
          <5> QED BY <2>1, <2>6, <5>1, <5>2, <5>3
        <4> QED BY <4>1, <4>2
      <3>2. CASE s # h
        <4>1. s \in 1 .. Len(slabs)
          BY <1>16, <3>2
        <4>2. i \in 0 .. InUse(s) - 1
          BY <2>3, <3>2, <4>1
        <4> QED BY <2>1, <2>6, <4>1, <4>2
      <3> QED BY <3>1, <3>2
    <2> QED BY <2>6, <2>7, <2>8, <2>9 DEF LentOK, InUse, SlabSize, Used, Size
  <1> QED BY <1>1, <1>5, <1>20, <1>21, <1>22, <1>23 DEF SlabInv

\* A step that ends the execution, or does nothing: only fault changes.
LEMMA CrashKeeps ==
  ASSUME SlabInv, UNCHANGED <<kmems, slabs, lent>>, fault' \in Faults
  PROVE  SlabInv'
  <1>1. kmems' = kmems /\ slabs' = slabs /\ lent' = lent
    OBVIOUS
  <1>2. KmemsOK' /\ SlabsOK'
    BY <1>1 DEF SlabInv, KmemsOK, SlabsOK
  <1>3. \A k \in 1 .. Len(kmems') : OpenOK(k)'
    BY <1>1 DEF SlabInv, OpenOK
  <1>4. LentOK'
    <2>1. Lent' = Lent
      BY <1>1 DEF Lent
    <2>2. \A s : InUse(s)' = InUse(s) /\ SlabSize(s)' = SlabSize(s)
      BY <1>1 DEF InUse, SlabSize
    <2>3. LentOK
      BY DEF SlabInv
    <2>4. IsABag(lent')
      BY <1>1, <2>3 DEF LentOK
    <2>5. ASSUME NEW o \in Lent'
          PROVE  /\ o.slab \in 1 .. Len(slabs')
                 /\ o.size \in Nat /\ o.size <= SlabSize(o.slab)'
                 /\ o.index \in 0 .. InUse(o.slab)' - 1
                 /\ lent'[o] = 1
      BY <1>1, <2>1, <2>2, <2>3 DEF LentOK
    <2>6. \A o, q \in Lent' : o.slab = q.slab /\ o.index = q.index => o = q
      BY <2>1, <2>3 DEF LentOK
    <2>7. ASSUME NEW s \in 1 .. Len(slabs'), NEW i \in 0 .. InUse(s)' - 1
          PROVE  \E o \in Lent' : o.slab = s /\ o.index = i
      BY <1>1, <2>1, <2>2, <2>3 DEF LentOK
    <2> QED BY <2>4, <2>5, <2>6, <2>7 DEF LentOK
  <1> QED BY <1>2, <1>3, <1>4 DEF SlabInv

LEMMA SlabInit == Init => SlabInv
  <1> SUFFICES ASSUME Init PROVE SlabInv
    OBVIOUS
  <1> DEFINE o == sizeof_kmem_cache_t
             first == NewKmem(o)
  <1>1. kmems = <<first>> /\ slabs = << >> /\ lent = EmptyBag /\ fault = "none"
    BY DEF Init
  <1>2. o \in Nat /\ o <= SLAB_SIZE \div 2
    BY SlabAssumption DEF sizeof_kmem_cache_t
  <1>3. obj_count(o) \in Nat
    BY <1>2, ObjectsFit
  <1>4. first = KmemRec(0, 0, 0, o, obj_count(o))
    BY DEF NewKmem, KmemRec, NULL
  <1> HIDE DEF o, first
  <1>5. /\ first \in KmemRecords
        /\ first.empty_slab = 0 /\ first.partial_slab = 0 /\ first.full_slab = 0
        /\ first.obj_size = o /\ first.obj_count_per_slab = obj_count(o)
    BY <1>2, <1>3, <1>4, KmemParts
  <1>6. /\ kmems \in Seq(KmemRecords) /\ Len(kmems) = 1 /\ kmems[1] = first
        /\ slabs \in Seq(SlabRecords) /\ Len(slabs) = 0
    BY <1>1, <1>5
  <1>7. KmemsOK
    <2>1. Len(kmems) \in 1 .. NrClasses + 1
      BY <1>6, SlabAssumption
    <2>2. \A k \in 1 .. Len(kmems) : k = 1
      BY <1>6
    <2>3. \A k \in 2 .. Len(kmems) : FALSE
      BY <1>6
    <2> QED BY <1>5, <1>6, <2>1, <2>2, <2>3 DEF KmemsOK, o
  <1>8. SlabsOK
    BY <1>6, SlabAssumption DEF SlabsOK
  <1>9. \A k \in 1 .. Len(kmems) : OpenOK(k)
    BY <1>5, <1>6 DEF OpenOK
  <1>10. LentOK
    <2>1. IsABag(lent) /\ Lent = {}
      BY <1>1 DEF Lent, EmptyBag, SetToBag, BagToSet, IsABag
    <2> QED BY <1>6, <2>1 DEF LentOK
  <1> QED BY <1>1, <1>7, <1>8, <1>9, <1>10 DEF SlabInv, Faults

\* A request for size bytes finds an entry of the table with objects that long.
LEMMA ClassIs ==
  ASSUME PowersOfTwo, SlabInv, SlabInited, NEW size \in Nat, ~ TooLarge(size),
         ClassIndex(size) # NrClasses
  PROVE  /\ ClassIndex(size) + 2 \in 1 .. Len(kmems)
         /\ size <= kmems[ClassIndex(size) + 2].obj_size
  <1> DEFINE Fits(i) == (2 ^ i <= size \/ i = 0) /\ size < 2 ^ (i + 1)
             j == CHOOSE i \in 0 .. NrClasses - 1 : Fits(i)
  <1>1. NrClasses \in Nat /\ SLAB_SIZE \in Nat
    BY SlabAssumption
  <1>2. size \in 0 .. SLAB_SIZE \div 2
    BY <1>1 DEF TooLarge
  <1>3. \E i \in 0 .. NrClasses - 1 : Fits(i)
    BY <1>2 DEF PowersOfTwo
  <1>4. j \in 0 .. NrClasses - 1 /\ Fits(j)
    BY <1>3
  <1>5. ClassIndex(size) = 1 + j
    BY DEF ClassIndex
  <1>6. size < 2 ^ (j + 1)
    BY <1>4
  <1> HIDE DEF j, Fits
  <1>7. j + 1 \in 0 .. NrClasses - 1 /\ ClassIndex(size) + 2 = j + 3
    BY <1>1, <1>4, <1>5
  <1>8. Len(kmems) = NrClasses + 1 /\ \A k \in 2 .. Len(kmems) : kmems[k].obj_size = 2 ^ (k - 2)
    BY DEF SlabInv, KmemsOK, SlabInited
  <1>9. j + 3 \in 2 .. Len(kmems) /\ (j + 3) - 2 = j + 1
    BY <1>1, <1>4, <1>7, <1>8
  <1>10. kmems[j + 3].obj_size = 2 ^ (j + 1) /\ 2 ^ (j + 1) \in Nat
    BY <1>7, <1>8, <1>9 DEF PowersOfTwo
  <1>11. j + 3 \in 1 .. Len(kmems)
    BY <1>9
  <1> HIDE DEF PowersOfTwo
  <1> QED BY <1>6, <1>7, <1>10, <1>11

LEMMA AllocObjectKeeps ==
  ASSUME PowersOfTwo, SlabInv, NEW k \in 1 .. Len(kmems),
         NEW size \in Nat, size <= kmems[k].obj_size, AllocObject(k, size)
  PROVE  SlabInv'
  <1>1. CASE AllocFaults(k)
    BY <1>1, CrashKeeps DEF AllocObject, Crash, Faults
  <1>2. CASE ~ AllocFaults(k)
    <2>1. Takes(k, size)
      BY <1>2 DEF AllocObject, Takes
    <2> QED BY <2>1, TakesKeeps
  <1> QED BY <1>1, <1>2

LEMMA SlabStep ==
  ASSUME PowersOfTwo, SlabInv, [AllocNext]_vars
  PROVE  SlabInv'
  <1>1. kmems \in Seq(KmemRecords) /\ Len(kmems) \in Nat /\ Len(kmems) >= 1
    BY DEF SlabInv, KmemsOK
  <1>2. \A k \in 1 .. Len(kmems) : kmems[k].obj_size \in Nat
    <2>1. \A k \in 1 .. Len(kmems) : kmems[k] \in KmemRecords
      BY <1>1
    <2> QED BY <2>1 DEF KmemRecords
  <1>3. CASE add_kmem
    <2>1. CASE AllocFaults(1)
      BY <1>3, <2>1, CrashKeeps DEF add_kmem, Crash, Faults
    <2>2. CASE ~ AllocFaults(1)
      <3>1. Takes(1, sizeof_kmem_cache_t)
        BY <1>3, <2>2 DEF add_kmem, Takes
      <3>2. /\ sizeof_kmem_cache_t \in Nat /\ kmems[1].obj_size = sizeof_kmem_cache_t
            /\ 1 \in 1 .. Len(kmems)
        BY <1>1 DEF SlabInv, KmemsOK, sizeof_kmem_cache_t
      <3>3. sizeof_kmem_cache_t <= kmems[1].obj_size
        BY <3>2
      <3> QED BY <3>1, <3>2, <3>3, TakesKeeps
    <2> QED BY <2>1, <2>2
  <1>4. ASSUME NEW size \in Requests, kmalloc(size)
        PROVE  SlabInv'
    <2>1. size \in Nat /\ SlabInited /\ ~ TooLarge(size)
      BY <1>4, SlabAssumption DEF kmalloc
    <2>2. CASE ClassIndex(size) = NrClasses
      BY <1>4, <2>2, CrashKeeps DEF kmalloc, Crash, Faults
    <2>3. CASE ClassIndex(size) # NrClasses
      <3>1. AllocObject(ClassIndex(size) + 2, size)
        BY <1>4, <2>3 DEF kmalloc
      <3>2. /\ ClassIndex(size) + 2 \in 1 .. Len(kmems)
            /\ size <= kmems[ClassIndex(size) + 2].obj_size
        BY <2>1, <2>3, ClassIs
      <3> QED BY <2>1, <3>1, <3>2, AllocObjectKeeps
    <2> QED BY <2>2, <2>3
  <1>5. ASSUME NEW size \in Requests, kmalloc_s(size)
        PROVE  SlabInv'
    <2>1. PICK k \in query_kmem(size) : AllocObject(k, size)
      BY <1>5 DEF kmalloc_s
    <2>2. k \in 1 .. Len(kmems) /\ kmems[k].obj_size = size
      BY <1>1, <2>1 DEF query_kmem
    <2>3. size \in Nat /\ size <= kmems[k].obj_size
      BY <1>2, <2>2
    <2> QED BY <2>1, <2>2, <2>3, AllocObjectKeeps
  <1>6. ASSUME NEW size \in Requests, NEW k \in query_kmem(size), qsmalloc(k)
        PROVE  SlabInv'
    <2>1. k \in 1 .. Len(kmems) /\ AllocObject(k, kmems[k].obj_size)
      BY <1>1, <1>6 DEF query_kmem, qsmalloc
    <2>2. kmems[k].obj_size \in Nat /\ kmems[k].obj_size <= kmems[k].obj_size
      BY <1>2, <2>1
    <2> QED BY <2>1, <2>2, AllocObjectKeeps
  <1>7. CASE UNCHANGED vars
    BY <1>7, CrashKeeps DEF vars, SlabInv
  <1>8. ASSUME NEW size \in Requests, kmalloc_fails(size)
        PROVE  UNCHANGED vars
    BY <1>8 DEF kmalloc_fails
  <1>9. Panic => UNCHANGED vars
    BY DEF Panic
  <1> QED BY <1>3, <1>4, <1>5, <1>6, <1>7, <1>8, <1>9 DEF AllocNext

LEMMA SlabInvariant ==
  ASSUME PowersOfTwo
  PROVE  AllocSpec => []SlabInv
  <1>1. SlabInv /\ [AllocNext]_vars => SlabInv'
    BY SlabStep
  <1> QED BY <1>1, SlabInit, PTL DEF AllocSpec

-----------------------------------------------------------------------------
(* The results                                                             *)

\* Objects of o bytes, one behind the other.
LEMMA InARow ==
  ASSUME NEW i \in Nat, NEW j \in Nat, i < j, NEW o \in Nat
  PROVE  i * o \in Nat /\ j * o \in Nat /\ i * o + o <= j * o
  <1>1. PICK d \in Nat : j = i + 1 + d
    <2>1. j - i - 1 \in Nat /\ j = i + 1 + (j - i - 1)
      OBVIOUS
    <2> QED BY <2>1
  <1>2. j * o = i * o + o + d * o
    BY <1>1
  <1>3. i * o \in Nat /\ d * o \in Nat
    OBVIOUS
  <1> QED BY <1>2, <1>3

\* What the invariant says of an object that a caller holds.
LEMMA LentIs ==
  ASSUME PowersOfTwo, SlabInv, NEW q \in Lent
  PROVE  \E n \in Nat, o \in Nat :
            /\ q.slab \in DOMAIN slabs /\ o = SlabSize(q.slab)
            /\ n = kmems[slabs[q.slab].parent].obj_count_per_slab
            /\ DOMAIN slabs[q.slab].node = 0 .. n - 1
            /\ q.index \in 0 .. n - 1 /\ q.size \in Nat /\ q.size <= o
            /\ Bytes(q) = 20 + 8 * n + q.index * o .. 20 + 8 * n + q.index * o + q.size - 1
            /\ 20 + n * (8 + o) <= SLAB_SIZE
  <1> DEFINE s == q.slab
             k == slabs[s].parent
             n == kmems[k].obj_count_per_slab
             o == kmems[k].obj_size
  <1>1. /\ s \in 1 .. Len(slabs) /\ q.size \in Nat /\ q.size <= SlabSize(s)
        /\ q.index \in 0 .. InUse(s) - 1
    BY DEF SlabInv, LentOK
  <1>2. KmemsOK /\ SlabsOK
    BY DEF SlabInv
  <1>3. k \in 1 .. Len(kmems) /\ SlabOK(slabs[s], n) /\ s \in DOMAIN slabs
    BY <1>1, <1>2 DEF SlabsOK
  <1>4. o \in Nat /\ n \in Nat /\ n >= 1 /\ 20 + n * (8 + o) <= SLAB_SIZE
    <2>1. sizeof_slab_t = 20 /\ sizeof_free_t = 8
      BY DEF sizeof_slab_t, sizeof_free_t
    <2> QED BY <1>2, <1>3, <2>1, KmemIs
  <1>5. SlabSize(s) = o /\ InUse(s) = n - slabs[s].free_count
    BY DEF SlabSize, InUse
  <1>6. slabs[s].free_count \in 0 .. n /\ slabs[s].node = InOrder(n)
    BY <1>3 DEF SlabOK
  <1>7. DOMAIN slabs[s].node = 0 .. n - 1
    BY <1>4, <1>6, CreatSlabIs
  <1> HIDE DEF n, o
  <1>8. Cardinality(0 .. n - 1) = n
    <2>1. 0 \in Int /\ n - 1 \in Int /\ ~ (0 > n - 1) /\ (n - 1) - 0 + 1 = n
      BY <1>4
    <2> QED BY <2>1, FS_Interval
  <1>9. q.index \in 0 .. n - 1
    BY <1>1, <1>4, <1>5, <1>6
  <1>10. Bytes(q) = 20 + 8 * n + q.index * o .. 20 + 8 * n + q.index * o + q.size - 1
    <2>1. Cardinality(DOMAIN slabs[q.slab].node) = n
      BY <1>7, <1>8
    <2> QED BY <1>5, <2>1 DEF Bytes, sizeof_slab_t, sizeof_free_t
  <1> QED BY <1>1, <1>3, <1>4, <1>5, <1>7, <1>9, <1>10 DEF n, o

LEMMA SlabInvObjects ==
  PowersOfTwo /\ SlabInv => ObjectsSound
  <1> SUFFICES ASSUME PowersOfTwo, SlabInv PROVE ObjectsSound
    OBVIOUS
  <1>1. TypeOK
    <2>1. KmemsOK /\ SlabsOK /\ LentOK /\ fault \in Faults
      BY DEF SlabInv
    <2>2. DOMAIN kmems = 1 .. Len(kmems) /\ DOMAIN slabs = 1 .. Len(slabs)
      BY <2>1 DEF KmemsOK, SlabsOK
    <2>3. ASSUME NEW s \in 1 .. Len(slabs)
          PROVE  /\ DOMAIN slabs[s].node =
                       0 .. kmems[slabs[s].parent].obj_count_per_slab - 1
                 /\ slabs[s].free \in DOMAIN slabs[s].node \cup {NoNode}
      <3> DEFINE n == kmems[slabs[s].parent].obj_count_per_slab
      <3>1. slabs[s].parent \in 1 .. Len(kmems) /\ SlabOK(slabs[s], n)
        BY <2>1 DEF SlabsOK
      <3>2. n \in Nat /\ n >= 1
        BY <2>1, <3>1, KmemIs
      <3> HIDE DEF n
      <3>3. DOMAIN slabs[s].node = 0 .. n - 1
        BY <3>1, <3>2, CreatSlabIs DEF SlabOK
      <3>4. slabs[s].free_count \in 0 .. n /\ slabs[s].free = FirstFree(n, slabs[s].free_count)
        BY <3>1 DEF SlabOK
      <3>5. slabs[s].free \in 0 .. n - 1 \cup {NoNode}
        BY <3>2, <3>4 DEF FirstFree
      <3> QED BY <3>3, <3>5 DEF n
    <2>4. /\ Len(kmems) \in 1 .. NrClasses + 1 /\ Len(slabs) <= MaxSlabs
          /\ IsABag(lent)
          /\ \A s \in 1 .. Len(slabs) : slabs[s].next \in 0 .. Len(slabs)
      BY <2>1 DEF KmemsOK, SlabsOK, LentOK
    <2>5. \A k \in 1 .. Len(kmems) :
             /\ kmems[k].obj_count_per_slab = obj_count(kmems[k].obj_size)
             /\ {kmems[k].empty_slab, kmems[k].partial_slab, kmems[k].full_slab}
                   \subseteq 0 .. Len(slabs)
      BY <2>1 DEF KmemsOK
    <2> QED BY <2>1, <2>2, <2>3, <2>4, <2>5 DEF TypeOK
  <1>2. ASSUME NEW q \in Lent
        PROVE  /\ q.size <= SlabSize(q.slab)
               /\ q.index \in DOMAIN slabs[q.slab].node
               /\ Bytes(q) \subseteq 0 .. SLAB_SIZE - 1
    <2>1. PICK n \in Nat, o \in Nat :
             /\ o = SlabSize(q.slab) /\ DOMAIN slabs[q.slab].node = 0 .. n - 1
             /\ q.index \in 0 .. n - 1 /\ q.size \in Nat /\ q.size <= o
             /\ Bytes(q) = 20 + 8 * n + q.index * o .. 20 + 8 * n + q.index * o + q.size - 1
             /\ 20 + n * (8 + o) <= SLAB_SIZE
      BY LentIs
    <2> DEFINE a == q.index * o
               b == n * o
    <2>2. a \in Nat /\ b \in Nat /\ a + o <= b
      <3>1. q.index \in Nat /\ q.index < n
        BY <2>1
      <3> QED BY <3>1, InARow, Zenon
    <2>3. n * (8 + o) = 8 * n + b
      BY <2>1
    <2>4. Bytes(q) = 20 + 8 * n + a .. 20 + 8 * n + a + q.size - 1
      BY <2>1
    <2> HIDE DEF a, b
    <2>5. 20 + 8 * n + b <= SLAB_SIZE /\ SLAB_SIZE \in Nat
      BY <2>1, <2>2, <2>3, SlabAssumption
    <2>6. Bytes(q) \subseteq 0 .. SLAB_SIZE - 1
      <3>1. q.size \in Nat /\ q.size <= o
        BY <2>1
      <3>2. /\ 20 + 8 * n + a \in Nat /\ 20 + 8 * n + a + q.size - 1 \in Int
            /\ 20 + 8 * n + a + q.size - 1 <= SLAB_SIZE - 1
        BY <2>2, <2>5, <3>1
      <3> QED BY <2>4, <2>5, <3>2
    <2> QED BY <2>1, <2>6
  <1>3. ASSUME NEW q \in Lent, NEW w \in Lent, q.slab = w.slab, q.index < w.index
        PROVE  Bytes(q) \cap Bytes(w) = {}
    <2>1. PICK n \in Nat, o \in Nat :
             /\ o = SlabSize(q.slab) /\ n = kmems[slabs[q.slab].parent].obj_count_per_slab
             /\ q.index \in 0 .. n - 1 /\ q.size \in Nat /\ q.size <= o
             /\ Bytes(q) = 20 + 8 * n + q.index * o .. 20 + 8 * n + q.index * o + q.size - 1
      BY LentIs
    <2>2. PICK m \in Nat, u \in Nat :
             /\ u = SlabSize(w.slab) /\ m = kmems[slabs[w.slab].parent].obj_count_per_slab
             /\ w.index \in 0 .. m - 1 /\ w.size \in Nat
             /\ Bytes(w) = 20 + 8 * m + w.index * u .. 20 + 8 * m + w.index * u + w.size - 1
      BY LentIs
    <2>3. m = n /\ u = o
      BY <1>3, <2>1, <2>2
    <2> DEFINE a == q.index * o
               b == w.index * o
    <2>4. a \in Nat /\ b \in Nat /\ a + o <= b
      <3>1. q.index \in Nat /\ w.index \in Nat
        BY <2>1, <2>2
      <3> QED BY <1>3, <3>1, InARow, Zenon
    <2>5. /\ Bytes(q) = 20 + 8 * n + a .. 20 + 8 * n + a + q.size - 1
          /\ Bytes(w) = 20 + 8 * n + b .. 20 + 8 * n + b + w.size - 1
      BY <2>1, <2>2, <2>3
    <2> HIDE DEF a, b
    <2>6. q.size \in Nat /\ q.size <= o /\ w.size \in Nat
      BY <2>1, <2>2
    <2> DEFINE x == 20 + 8 * n + a
               y == x + q.size - 1
               z == 20 + 8 * n + b
    <2>7. x \in Int /\ y \in Int /\ z \in Int /\ z + w.size - 1 \in Int /\ y < z
      BY <2>4, <2>6
    <2>8. Bytes(q) = x .. y /\ Bytes(w) = z .. z + w.size - 1
      BY <2>5
    <2> HIDE DEF x, y, z
    <2> QED BY <2>7, <2>8
  <1>4. ObjectsApart
    <2>1. /\ \A q \in Lent : lent[q] = 1
          /\ \A q, w \in Lent : q.slab = w.slab /\ q.index = w.index => q = w
      BY DEF SlabInv, LentOK
    <2>2. \A q \in Lent : q.index \in Int
      BY LentIs
    <2>3. ASSUME NEW q \in Lent, NEW w \in Lent, q # w, q.slab = w.slab
          PROVE  q.index # w.index /\ Bytes(q) \cap Bytes(w) = {}
      <3>1. q.index # w.index
        BY <2>1, <2>3
      <3>2. q.index < w.index \/ w.index < q.index
        BY <2>2, <3>1
      <3>3. CASE q.index < w.index
        BY <1>3, <2>3, <3>1, <3>3
      <3>4. CASE w.index < q.index
        <4>1. Bytes(w) \cap Bytes(q) = {}
          BY <1>3, <2>3, <3>4
        <4> QED BY <3>1, <4>1
      <3> QED BY <3>2, <3>3, <3>4
    <2> QED BY <2>1, <2>3 DEF ObjectsApart
  <1> QED BY <1>1, <1>2, <1>4 DEF ObjectsSound, ObjectsInsideSlab

\* The chain of a slab with c of its n objects free: the nodes from n - c on,
\* in their order, then NULL.
Rest(n, c) == [m \in 0 .. n |-> IF m < c THEN n - c + m ELSE NoNode]

\* Following next from free goes through them, one after the other.
LEMMA ChainIs ==
  ASSUME NEW s, NEW n \in Nat, NEW c \in 0 .. n, n >= 1,
         slabs[s].free = FirstFree(n, c), slabs[s].node = InOrder(n)
  PROVE  Chain(s) = Rest(n, c)
  <1> DEFINE node == slabs[s].node
             next(p) == IF p = NoNode THEN NoNode ELSE node[p].next
             body(f, m) == IF m = 0 THEN slabs[s].free ELSE next(f[m - 1])
             S == 0 .. Cardinality(DOMAIN node)
  <1>1. S = 0 .. n
    <2>1. DOMAIN node = 0 .. n - 1
      BY CreatSlabIs
    <2>2. Cardinality(0 .. n - 1) = n
      <3>1. 0 \in Int /\ n - 1 \in Int /\ ~ (0 > n - 1) /\ (n - 1) - 0 + 1 = n
        OBVIOUS
      <3> QED BY <3>1, FS_Interval
    <2> QED BY <2>1, <2>2
  <1>2. Chain(s) = CHOOSE f : f = [m \in S |-> body(f, m)]
    BY DEF Chain
  <1>3. \A p \in 0 .. n - 1 : next(p) = IF p = n - 1 THEN NoNode ELSE p + 1
    BY DEF InOrder, NoNode
  <1>4. next(NoNode) = NoNode
    OBVIOUS
  <1>5. slabs[s].free = Rest(n, c)[0]
    BY DEF FirstFree, Rest
  <1>6. ASSUME NEW m \in 1 .. n
        PROVE  next(Rest(n, c)[m - 1]) = Rest(n, c)[m]
    <2> HIDE DEF next
    <2>1. /\ m - 1 \in 0 .. n /\ m \in 0 .. n
          /\ Rest(n, c)[m] = IF m < c THEN n - c + m ELSE NoNode
          /\ Rest(n, c)[m - 1] = IF m - 1 < c THEN n - c + (m - 1) ELSE NoNode
      BY DEF Rest
    <2>2. CASE m - 1 < c
      <3>1. n - c + (m - 1) \in 0 .. n - 1 /\ (n - c + (m - 1) = n - 1 <=> ~ (m < c))
            /\ n - c + (m - 1) + 1 = n - c + m
        BY <2>2
      <3> QED BY <1>3, <2>1, <2>2, <3>1
    <2>3. CASE ~ (m - 1 < c)
      <3>1. ~ (m < c)
        BY <2>3
      <3> QED BY <1>4, <2>1, <2>3, <3>1
    <2> QED BY <2>2, <2>3
  <1> HIDE DEF next, node, S
  <1>7. Rest(n, c) = [m \in S |-> body(Rest(n, c), m)]
    <2>1. ASSUME NEW m \in 0 .. n
          PROVE  body(Rest(n, c), m) = Rest(n, c)[m]
      <3>1. CASE m = 0
        BY <1>5, <3>1
      <3>2. CASE m # 0
        <4>1. m \in 1 .. n
          BY <3>2
        <4> QED BY <1>6, <3>2, <4>1
      <3> QED BY <3>1, <3>2
    <2>2. Rest(n, c) = [m \in 0 .. n |-> Rest(n, c)[m]]
      BY DEF Rest
    <2> HIDE DEF body
    <2> QED BY <1>1, <2>1, <2>2
  <1>8. Chain(s) = [m \in S |-> body(Chain(s), m)]
    <2> HIDE DEF body
    <2>1. \E f : f = [m \in S |-> body(f, m)]
      BY <1>7
    <2> QED BY <1>2, <2>1
  <1> DEFINE T == {m \in 0 .. n : Chain(s)[m] # Rest(n, c)[m]}
  <1>9. T = {}
    <2> SUFFICES ASSUME T # {} PROVE FALSE
      OBVIOUS
    <2>1. PICK m \in T : \A y \in T : m <= y
      <3>1. T \in SUBSET Nat
        OBVIOUS
      <3> HIDE DEF T
      <3> QED BY <3>1, LeastNat
    <2>2. m \in 0 .. n /\ Chain(s)[m] # Rest(n, c)[m]
      BY <2>1
    <2>3. Chain(s)[m] = body(Chain(s), m)
      <3> HIDE DEF body
      <3> QED BY <1>1, <1>8, <2>2
    <2>4. m # 0
      BY <1>5, <2>2, <2>3
    <2>5. m - 1 \in 0 .. n /\ m \in 1 .. n /\ ~ (m <= m - 1)
      BY <2>2, <2>4
    <2>6. Chain(s)[m - 1] = Rest(n, c)[m - 1]
      BY <2>1, <2>5
    <2> QED BY <1>6, <2>2, <2>3, <2>4, <2>5, <2>6
  <1>10. Chain(s) = [m \in 0 .. n |-> Chain(s)[m]]
    <2> HIDE DEF body
    <2>1. Chain(s) = [m \in 0 .. n |-> body(Chain(s), m)]
      BY <1>1, <1>8
    <2>2. \A m \in 0 .. n : Chain(s)[m] = body(Chain(s), m)
      BY <2>1
    <2> QED BY <2>1, <2>2
  <1>11. \A m \in 0 .. n : Chain(s)[m] = Rest(n, c)[m]
    BY <1>9
  <1>12. Rest(n, c) = [m \in 0 .. n |-> Rest(n, c)[m]]
    BY DEF Rest
  <1> QED BY <1>10, <1>11, <1>12

LEMMA SlabInvChain ==
  PowersOfTwo /\ SlabInv => ChainIsTheRest
  <1> SUFFICES ASSUME PowersOfTwo, SlabInv, NEW s \in DOMAIN slabs
               PROVE  LET at == Nodes(s)
                          index == {slabs[s].node[at[m]].index : m \in DOMAIN at}
                      IN  /\ Cardinality(DOMAIN at) = slabs[s].free_count
                          /\ Cardinality(index) = slabs[s].free_count
                          /\ index = DOMAIN slabs[s].node
                                \ {o.index : o \in {q \in Lent : q.slab = s}}
    BY DEF ChainIsTheRest
  <1> DEFINE n == kmems[slabs[s].parent].obj_count_per_slab
             c == slabs[s].free_count
             at == Nodes(s)
             index == {slabs[s].node[at[m]].index : m \in DOMAIN at}
             used == {o.index : o \in {q \in Lent : q.slab = s}}
  <1>1. KmemsOK /\ SlabsOK /\ LentOK
    BY DEF SlabInv
  <1>2. s \in 1 .. Len(slabs) /\ slabs[s].parent \in 1 .. Len(kmems) /\ SlabOK(slabs[s], n)
    BY <1>1 DEF SlabsOK
  <1>3. n \in Nat /\ n >= 1
    BY <1>1, <1>2, KmemIs
  <1>4. /\ c \in 0 .. n /\ slabs[s].free = FirstFree(n, c)
        /\ slabs[s].node = InOrder(n) /\ DOMAIN slabs[s].node = 0 .. n - 1
    BY <1>2, <1>3, CreatSlabIs DEF SlabOK
  <1>5. InUse(s) = n - c
    BY DEF InUse
  <1> HIDE DEF n, c
  <1>6. Chain(s) = Rest(n, c)
    BY <1>3, <1>4, ChainIs
  <1>7. {m \in DOMAIN Rest(n, c) : Rest(n, c)[m] # NoNode} = 0 .. c - 1
    BY <1>3, <1>4 DEF Rest, NoNode
  <1>8. DOMAIN at = 0 .. c - 1 /\ \A m \in 0 .. c - 1 : at[m] = n - c + m
    <2>1. at = [m \in 0 .. c - 1 |-> Rest(n, c)[m]]
      BY <1>6, <1>7 DEF Nodes
    <2>2. \A m \in 0 .. c - 1 : Rest(n, c)[m] = n - c + m
      BY <1>3, <1>4 DEF Rest
    <2> HIDE DEF at
    <2> QED BY <2>1, <2>2
  <1> HIDE DEF at
  <1>9. index = n - c .. n - 1
    <2>1. \A p \in 0 .. n - 1 : slabs[s].node[p].index = p
      BY <1>3, <1>4 DEF InOrder
    <2>2. \A m \in 0 .. c - 1 : n - c + m \in 0 .. n - 1
      BY <1>3, <1>4
    <2>3. index = {n - c + m : m \in 0 .. c - 1}
      BY <1>8, <2>1, <2>2
    <2>4. ASSUME NEW p \in n - c .. n - 1
          PROVE  p \in {n - c + m : m \in 0 .. c - 1}
      <3>1. p - (n - c) \in 0 .. c - 1 /\ p = n - c + (p - (n - c))
        BY <1>3, <1>4
      <3> QED BY <3>1
    <2>5. \A m \in 0 .. c - 1 : n - c + m \in n - c .. n - 1
      BY <1>3, <1>4
    <2> QED BY <2>3, <2>4, <2>5
  <1>10. Cardinality(0 .. c - 1) = c /\ Cardinality(n - c .. n - 1) = c
    <2>1. c \in Nat /\ n - c \in Int /\ n - c + c - 1 = n - 1 /\ 0 + c - 1 = c - 1 /\ 0 \in Int
      BY <1>3, <1>4
    <2>2. Cardinality(n - c .. n - c + c - 1) = c /\ Cardinality(0 .. 0 + c - 1) = c
      BY <2>1, IntervalSize
    <2> QED BY <2>1, <2>2
  <1>11. used = 0 .. n - c - 1
    <2>1. \A q \in Lent : q.slab = s => q.index \in 0 .. n - c - 1
      BY <1>1, <1>5 DEF LentOK
    <2>2. \A p \in 0 .. n - c - 1 : \E q \in Lent : q.slab = s /\ q.index = p
      BY <1>1, <1>2, <1>5 DEF LentOK
    <2> QED BY <2>1, <2>2
  <1>12. index = DOMAIN slabs[s].node \ used
    <2> HIDE DEF index, used
    <2>1. n - c .. n - 1 = (0 .. n - 1) \ (0 .. n - c - 1)
      BY <1>3, <1>4
    <2> QED BY <1>4, <1>9, <1>11, <2>1
  <1>13. Cardinality(DOMAIN at) = c /\ Cardinality(index) = c
    <2> HIDE DEF index
    <2> QED BY <1>8, <1>9, <1>10
  <1> QED BY <1>12, <1>13 DEF c, at

\* What kmalloc, kmalloc_s and qsmalloc give out lies inside its slab, behind
\* the header and the nodes, is as long as was asked for and shares no byte
\* with anything else that was given out, while nothing is freed.
THEOREM SlabObjectsSound ==
  AllocSpec => []ObjectsSound
  <1>1. SlabInv => ObjectsSound
    BY ClassSizes, SlabInvObjects
  <1>2. AllocSpec => []SlabInv
    BY ClassSizes, SlabInvariant
  <1> QED BY <1>1, <1>2, PTL

\* alloc_from_slab keeps the chain of a slab: following it from free meets
\* free_count nodes, which stand for exactly the objects nobody holds.
THEOREM SlabChainIsTheRest ==
  AllocSpec => []ChainIsTheRest
  <1>1. SlabInv => ChainIsTheRest
    BY ClassSizes, SlabInvChain
  <1>2. AllocSpec => []SlabInv
    BY ClassSizes, SlabInvariant
  <1> QED BY <1>1, <1>2, PTL

\* alloc_from_kmem creates a slab only when every slab of the cache is used
\* up: two slabs with free objects belong to different caches.
THEOREM SlabOneOpenSlab ==
  AllocSpec => []OneOpenSlab
  <1>1. SlabInv => OneOpenSlab
    <2> SUFFICES ASSUME SlabInv,
                        NEW s \in DOMAIN slabs, NEW t \in DOMAIN slabs,
                        slabs[s].parent = slabs[t].parent,
                        slabs[s].free_count > 0, slabs[t].free_count > 0
                 PROVE  s = t
      BY DEF OneOpenSlab
    <2>1. s \in 1 .. Len(slabs) /\ t \in 1 .. Len(slabs)
      BY DEF SlabInv, SlabsOK
    <2>2. PICK k \in 1 .. Len(kmems) : slabs[s].parent = k /\ slabs[t].parent = k
      BY <2>1 DEF SlabInv, SlabsOK
    <2> DEFINE e == kmems[k].empty_slab
               p == kmems[k].partial_slab
    <2>3. (e = 0 \/ p = 0) /\ (s = e \/ s = p) /\ (t = e \/ t = p)
      BY <2>1, <2>2 DEF SlabInv, OpenOK
    <2>4. s # 0 /\ t # 0
      BY <2>1
    <2> QED BY <2>3, <2>4
  <1>2. AllocSpec => []SlabInv
    BY ClassSizes, SlabInvariant
  <1> QED BY <1>1, <1>2, PTL

-----------------------------------------------------------------------------
(* The lists of a cache                                                    *)

\* No request is served from slabs of one object, which stay on the empty
\* list when they are full.
SeveralPerSlab ==
    /\ SLAB_SIZE >= 128
    /\ \A size \in Requests : TooLarge(size) \/ size < SLAB_SIZE \div 4

\* b is the last slab of S, NULL if there is none.
IsLast(b, S) == (S = {} /\ b = 0) \/ (b \in S /\ \A t \in S : t <= b)

Full(k) == {s \in 1 .. Len(slabs) : slabs[s].parent = k /\ slabs[s].free_count = 0}

\* Slabs of a cache are used up in the order in which they were created, so
\* that the full list leads from each to the one before.
FullOK(k) ==
    /\ IsLast(kmems[k].full_slab, Full(k))
    /\ \A s \in Full(k) : IsLast(slabs[s].next, {t \in Full(k) : t < s})
    /\ \A s \in 1 .. Len(slabs) :
          slabs[s].parent = k /\ slabs[s].free_count > 0 => \A t \in Full(k) : t < s

ListsOK ==
    /\ \A s \in 1 .. Len(slabs) : kmems[slabs[s].parent].obj_count_per_slab >= 2
    /\ \A k \in 1 .. Len(kmems) : FullOK(k)

\* What an allocation from cache k does to lists and counts.
LEMMA TakesLists ==
  ASSUME PowersOfTwo, SlabInv, NEW k \in 1 .. Len(kmems), NEW size, Takes(k, size)
  PROVE  LET h == HeadSlab(kmems[k])
             f == kmems[k].full_slab
         IN  \E c \in Nat \ {0} :
               /\ Len(slabs) \in Nat /\ Len(slabs') \in Nat /\ Len(slabs) <= Len(slabs')
               /\ h \in 1 .. Len(slabs')
               /\ h \in 1 .. Len(slabs) => slabs[h].parent = k /\ slabs[h].free_count = c
               /\ h \notin 1 .. Len(slabs) => h = Len(slabs) + 1
               /\ \A s \in 1 .. Len(slabs) :
                     s # h /\ slabs[s].parent = k => slabs[s].free_count = 0
               /\ \A s \in 1 .. Len(slabs') :
                     s # h => s \in 1 .. Len(slabs) /\ slabs'[s] = slabs[s]
               /\ slabs'[h].parent = k /\ slabs'[h].free_count = c - 1
               /\ FullAfter(h, c, f, slabs'[h].next, kmems'[k].full_slab)
               /\ \A j \in 1 .. Len(kmems) : j # k => kmems'[j] = kmems[j]
               /\ \A j \in 1 .. Len(kmems) : j \in 1 .. Len(kmems')
                     /\ kmems'[j].obj_count_per_slab = kmems[j].obj_count_per_slab
               /\ \A j \in 1 .. Len(kmems') : j \notin 1 .. Len(kmems) =>
                     kmems'[j].full_slab = 0
  <1> DEFINE a == alloc_from_kmem(k)
             h == HeadSlab(kmems[k])
             n == kmems[k].obj_count_per_slab
             c == Slabs(k)[h].free_count
             f == kmems[k].full_slab
             o == kmems[k].obj_size
  <1>1. KmemsOK /\ SlabsOK
    BY DEF SlabInv
  <1>2. ~ AllocFaults(k)
    BY DEF Takes
  <1>3. /\ h \in 1 .. Len(Slabs(k)) /\ Slabs(k) \in Seq(SlabRecords) /\ c \in 1 .. n
        /\ \A s \in 1 .. Len(slabs) : Slabs(k)[s] = slabs[s]
        /\ Fresh(k) => h = Len(slabs) + 1 /\ Len(Slabs(k)) = h
        /\ ~ Fresh(k) => Slabs(k) = slabs /\ slabs[h].parent = k
        /\ \A s \in 1 .. Len(slabs) :
              s # h /\ slabs[s].parent = k => slabs[s].free_count = 0
    BY <1>2, HeadIs
  <1>4. PICK x \in {0, f}, e1 \in {0, h}, p1 \in {0, h}, f1 \in {f, h} :
           /\ a.slab = h /\ a.index = n - c
           /\ a.kmems = [kmems EXCEPT ![k] = KmemRec(e1, p1, f1, o, n)]
           /\ a.slabs = [Slabs(k) EXCEPT ![h] =
                           SlabRec(k, c - 1, FirstFree(n, c - 1), x, InOrder(n))]
           /\ ListsAfter(h, n, c, x, e1, p1) /\ FullAfter(h, c, f, x, f1)
    BY <1>2, AllocIs
  <1> DEFINE new == KmemRec(e1, p1, f1, o, n)
             r == SlabRec(k, c - 1, FirstFree(n, c - 1), x, InOrder(n))
  <1>5. slabs' = [Slabs(k) EXCEPT ![h] = r]
    BY <1>4 DEF Takes
  <1>6. KmemsAfter(k, new)
    <2>1. \/ kmems' = a.kmems
          \/ kmems' = Append(a.kmems, NewKmem(2 ^ (Len(kmems) - 1))) /\ ~ SlabInited
      BY DEF Takes
    <2>2. ~ SlabInited => Len(kmems) <= NrClasses
      BY <1>1, SlabAssumption DEF SlabInited, KmemsOK
    <2> QED BY <1>4, <2>1, <2>2 DEF KmemsAfter
  <1>7. /\ o \in Nat /\ n \in Nat /\ n >= 1
        /\ Len(slabs) \in Nat /\ f \in Nat /\ Len(kmems) \in Nat
    <2>1. o \in Nat /\ n \in Nat /\ n >= 1
      BY <1>1, KmemIs
    <2>2. f \in 0 .. Len(slabs) /\ Len(kmems) \in Nat
      BY <1>1 DEF KmemsOK
    <2>3. Len(slabs) \in Nat
      BY <1>1 DEF SlabsOK
    <2> QED BY <2>1, <2>2, <2>3
  <1>8. /\ new.full_slab = f1 /\ new.obj_count_per_slab = n
        /\ r.parent = k /\ r.free_count = c - 1 /\ r.next = x
    BY KmemParts, SlabParts
  <1>9. FullAfter(h, c, f, x, f1)
    BY <1>4
  <1> HIDE DEF a, h, n, c, f, o
  <1>10. h \in Nat \ {0} /\ x \in Nat /\ f1 \in Nat /\ e1 \in Nat /\ p1 \in Nat
    BY <1>3, <1>7
  <1>11. new \in KmemRecords
    BY <1>7, <1>10, KmemParts
  <1> HIDE DEF new, r
  <1>12. /\ Len(slabs') = Len(Slabs(k)) /\ slabs'[h] = r
         /\ \A s \in 1 .. Len(slabs') : s # h => slabs'[s] = Slabs(k)[s]
    BY <1>3, <1>5
  <1>13. /\ \A s \in 1 .. Len(slabs') : s # h => s \in 1 .. Len(slabs) /\ slabs'[s] = slabs[s]
         /\ Len(slabs') \in Nat /\ Len(slabs) <= Len(slabs') /\ h \in 1 .. Len(slabs')
    BY <1>3, <1>7, <1>12
  <1>14. /\ Len(kmems) <= Len(kmems') /\ Len(kmems') \in Nat
         /\ kmems'[k] = new
         /\ \A j \in 1 .. Len(kmems) : j # k => kmems'[j] = kmems[j]
         /\ \A j \in 1 .. Len(kmems') : j \notin 1 .. Len(kmems) =>
               j >= 2 /\ kmems'[j] = NewKmem(2 ^ (j - 2))
    BY <1>1, <1>6, <1>11, KmemsAfterIs
  <1>15. \A j \in 1 .. Len(kmems) : j \in 1 .. Len(kmems')
            /\ kmems'[j].obj_count_per_slab = kmems[j].obj_count_per_slab
    BY <1>7, <1>8, <1>14 DEF n
  <1>16. \A j \in 1 .. Len(kmems') : j \notin 1 .. Len(kmems) => kmems'[j].full_slab = 0
    <2>1. \A q : NewKmem(q).full_slab = 0
      BY DEF NewKmem, NULL
    <2>2. ASSUME NEW j \in 1 .. Len(kmems'), j \notin 1 .. Len(kmems)
          PROVE  kmems'[j].full_slab = 0
      <3>1. PICK q : kmems'[j] = NewKmem(q)
        BY <1>14, <2>2, Zenon
      <3> QED BY <2>1, <3>1, Zenon
    <2> QED BY <2>2
  <1>17. h \in 1 .. Len(slabs) => slabs[h].parent = k /\ slabs[h].free_count = c
    <2> SUFFICES ASSUME h \in 1 .. Len(slabs)
                 PROVE  slabs[h].parent = k /\ slabs[h].free_count = c
      OBVIOUS
    <2>1. ~ Fresh(k)
      BY <1>3, <1>7
    <2> QED BY <1>3, <2>1 DEF c, h
  <1>18. h \notin 1 .. Len(slabs) => h = Len(slabs) + 1
    BY <1>3
  <1>19. slabs'[h].parent = k /\ slabs'[h].free_count = c - 1
         /\ FullAfter(h, c, f, slabs'[h].next, kmems'[k].full_slab)
    BY <1>8, <1>9, <1>12, <1>14
  <1>20. c \in Nat \ {0}
    BY <1>3, <1>7
  <1>21. \A s \in 1 .. Len(slabs) :
            s # h /\ slabs[s].parent = k => slabs[s].free_count = 0
    BY <1>3
  <1>22. \A j \in 1 .. Len(kmems) : j # k => kmems'[j] = kmems[j]
    BY <1>14
  <1> HIDE DEF Full, FullAfter
  <1> QED
    BY <1>7, <1>13, <1>15, <1>16, <1>17, <1>18, <1>19, <1>20, <1>21, <1>22
    DEF h, f

\* An allocation keeps the order of the lists of every cache.
LEMMA TakesKeepsLists ==
  ASSUME PowersOfTwo, SlabInv, ListsOK, NEW k \in 1 .. Len(kmems), NEW size,
         Takes(k, size), kmems[k].obj_count_per_slab >= 2
  PROVE  ListsOK'
  <1> DEFINE h == HeadSlab(kmems[k])
             f == kmems[k].full_slab
             F(j) == {s \in 1 .. Len(slabs') :
                         slabs'[s].parent = j /\ slabs'[s].free_count = 0}
  <1>1. PICK c \in Nat \ {0} :
           /\ Len(slabs) \in Nat /\ Len(slabs') \in Nat /\ Len(slabs) <= Len(slabs')
           /\ h \in 1 .. Len(slabs')
           /\ h \in 1 .. Len(slabs) => slabs[h].parent = k /\ slabs[h].free_count = c
           /\ h \notin 1 .. Len(slabs) => h = Len(slabs) + 1
           /\ \A s \in 1 .. Len(slabs) :
                 s # h /\ slabs[s].parent = k => slabs[s].free_count = 0
           /\ \A s \in 1 .. Len(slabs') :
                 s # h => s \in 1 .. Len(slabs) /\ slabs'[s] = slabs[s]
           /\ slabs'[h].parent = k /\ slabs'[h].free_count = c - 1
           /\ FullAfter(h, c, f, slabs'[h].next, kmems'[k].full_slab)
           /\ \A j \in 1 .. Len(kmems) : j # k => kmems'[j] = kmems[j]
           /\ \A j \in 1 .. Len(kmems) : j \in 1 .. Len(kmems')
                 /\ kmems'[j].obj_count_per_slab = kmems[j].obj_count_per_slab
           /\ \A j \in 1 .. Len(kmems') : j \notin 1 .. Len(kmems) =>
                 kmems'[j].full_slab = 0
    BY TakesLists
  <1> HIDE DEF h
  <1>2. \A s \in 1 .. Len(slabs) : s \in 1 .. Len(slabs')
    BY <1>1
  <1>3. \A s \in 1 .. Len(slabs) :
           slabs[s].parent \in 1 .. Len(kmems) /\ slabs[s].free_count \in Nat
    <2>1. slabs \in Seq(SlabRecords) /\ \A s \in 1 .. Len(slabs) : slabs[s].parent \in 1 .. Len(kmems)
      BY DEF SlabInv, SlabsOK
    <2>2. \A s \in 1 .. Len(slabs) : slabs[s] \in SlabRecords
      BY <2>1
    <2> QED BY <2>1, <2>2 DEF SlabRecords
  <1>4. /\ \A s \in 1 .. Len(slabs) : kmems[slabs[s].parent].obj_count_per_slab >= 2
        /\ \A j \in 1 .. Len(kmems) : FullOK(j)
    BY DEF ListsOK
  <1>5. ASSUME NEW s \in 1 .. Len(slabs')
        PROVE  kmems'[slabs'[s].parent].obj_count_per_slab >= 2
    <2>1. CASE s = h
      BY <1>1, <2>1
    <2>2. CASE s # h
      BY <1>1, <1>3, <1>4, <2>2
    <2> QED BY <2>1, <2>2
  <1>6. \A t \in Full(k) : t < h /\ t # h /\ t \in 1 .. Len(slabs) /\ t \in Nat
    <2>1. \A t \in Full(k) : t \in 1 .. Len(slabs) /\ t \in Nat
      BY <1>1 DEF Full
    <2>2. CASE h \in 1 .. Len(slabs)
      BY <1>1, <1>4, <2>1, <2>2, SMTT(30) DEF FullOK
    <2>3. CASE h \notin 1 .. Len(slabs)
      BY <1>1, <2>1, <2>3
    <2> QED BY <2>1, <2>2, <2>3
  <1>7. ASSUME NEW j \in 1 .. Len(kmems')
        PROVE  /\ IsLast(kmems'[j].full_slab, F(j))
               /\ \A s \in F(j) : IsLast(slabs'[s].next, {t \in F(j) : t < s})
               /\ \A s \in 1 .. Len(slabs') :
                     slabs'[s].parent = j /\ slabs'[s].free_count > 0 =>
                        \A t \in F(j) : t < s
    <2>1. CASE j \notin 1 .. Len(kmems)
      <3>1. ASSUME NEW s \in 1 .. Len(slabs') PROVE slabs'[s].parent # j
        <4>1. slabs'[s].parent \in 1 .. Len(kmems)
          <5>1. CASE s = h
            BY <1>1, <5>1
          <5>2. CASE s # h
            BY <1>1, <1>3, <5>2
          <5> QED BY <5>1, <5>2
        <4> QED BY <2>1, <4>1
      <3>2. F(j) = {}
        BY <3>1
      <3> HIDE DEF F
      <3> QED BY <1>1, <2>1, <3>1, <3>2 DEF IsLast
    <2>2. CASE j \in 1 .. Len(kmems) /\ j # k
      <3>1. \A s \in 1 .. Len(slabs') : slabs'[s].parent = j =>
               s \in 1 .. Len(slabs) /\ slabs'[s] = slabs[s]
        BY <1>1, <2>2
      <3>2. \A s \in 1 .. Len(slabs) : slabs[s].parent = j =>
               s \in 1 .. Len(slabs') /\ slabs'[s] = slabs[s]
        BY <1>1, <1>2, <2>2
      <3>3. F(j) = Full(j)
        BY <3>1, <3>2 DEF Full
      <3>4. kmems'[j].full_slab = kmems[j].full_slab
        BY <1>1, <2>2
      <3>5. \A s \in Full(j) : slabs'[s] = slabs[s]
        BY <3>2 DEF Full
      <3>6. FullOK(j)
        BY <1>4, <2>2
      <3> HIDE DEF F
      <3> QED BY <3>1, <3>3, <3>4, <3>5, <3>6 DEF FullOK
    <2>3. CASE j = k
      <3>1. \A s \in 1 .. Len(slabs') : slabs'[s].parent = k /\ slabs'[s].free_count > 0 => s = h
        BY <1>1, <1>3, SMTT(30)
      <3>2. FullOK(k)
        BY <1>4
      <3>3. \A s \in Full(k) : s \in 1 .. Len(slabs') /\ slabs'[s] = slabs[s]
        BY <1>1, <1>2, <1>6
      <3>4. F(k) = IF c = 1 THEN Full(k) \cup {h} ELSE Full(k)
        <4>1. \A s : s # h => (s \in F(k) <=> s \in Full(k))
          BY <1>1, <1>2 DEF Full
        <4>2. h \in F(k) <=> c = 1
          BY <1>1
        <4>3. h \notin Full(k)
          BY <1>6
        <4> HIDE DEF F
        <4>4. CASE c = 1
          <5>1. \A s : s \in F(k) <=> s \in Full(k) \cup {h}
            BY <4>1, <4>2, <4>4
          <5> QED BY <4>4, <5>1
        <4>5. CASE c # 1
          <5>1. \A s : s \in F(k) <=> s \in Full(k)
            BY <4>1, <4>2, <4>3, <4>5
          <5>2. F(k) = Full(k)
            BY <5>1
          <5> QED BY <4>5, <5>2
        <4> QED BY <4>4, <4>5
      <3>5. h \in Nat
        BY <1>1
      <3> HIDE DEF F
      <3>6. CASE c = 1
        <4>1. slabs'[h].next = f /\ kmems'[k].full_slab = h /\ F(k) = Full(k) \cup {h}
          BY <1>1, <3>4, <3>6 DEF FullAfter
        <4>2. IsLast(h, F(k))
          BY <1>6, <3>5, <4>1 DEF IsLast
        <4>3. {t \in F(k) : t < h} = Full(k)
          BY <1>6, <3>5, <4>1
        <4>4. \A s \in Full(k) : {t \in F(k) : t < s} = {t \in Full(k) : t < s}
          BY <1>6, <3>5, <4>1
        <4>5. IsLast(f, Full(k)) /\ \A s \in Full(k) : IsLast(slabs[s].next, {t \in Full(k) : t < s})
          BY <3>2 DEF FullOK
        <4>6. ASSUME NEW s \in F(k)
              PROVE  IsLast(slabs'[s].next, {t \in F(k) : t < s})
          <5>1. CASE s = h
            BY <4>1, <4>3, <4>5, <5>1
          <5>2. CASE s # h
            BY <3>3, <4>1, <4>4, <4>5, <5>2
          <5> QED BY <5>1, <5>2
        <4>7. \A s \in 1 .. Len(slabs') :
                 ~ (slabs'[s].parent = k /\ slabs'[s].free_count > 0)
          BY <1>1, <3>1, <3>6
        <4> QED BY <2>3, <4>1, <4>2, <4>6, <4>7
      <3>7. CASE c # 1
        <4>1. kmems'[k].full_slab = f /\ F(k) = Full(k)
          BY <1>1, <3>4, <3>7 DEF FullAfter
        <4>2. IsLast(f, Full(k)) /\ \A s \in Full(k) : IsLast(slabs[s].next, {t \in Full(k) : t < s})
          BY <3>2 DEF FullOK
        <4> QED BY <1>6, <2>3, <3>1, <3>3, <4>1, <4>2
      <3> QED BY <3>6, <3>7
    <2> QED BY <2>1, <2>2, <2>3
  <1> QED BY <1>5, <1>7 DEF ListsOK, FullOK, Full

\* Steps that change no cache and no slab.
LEMMA SameLists ==
  ASSUME ListsOK, kmems' = kmems, slabs' = slabs
  PROVE  ListsOK'
  <1>1. \A k : Full(k)' = Full(k)
    BY DEF Full
  <1>2. ASSUME NEW k \in 1 .. Len(kmems) PROVE FullOK(k)'
    BY <1>1 DEF ListsOK, FullOK
  <1> QED BY <1>2 DEF ListsOK

\* Two objects of at most a quarter of a slab fit into one.
LEMMA SeveralFit ==
  ASSUME SeveralPerSlab, NEW o \in Nat,
         o <= SLAB_SIZE \div 4 \/ o = sizeof_kmem_cache_t
  PROVE  obj_count(o) >= 2
  <1> DEFINE a == SLAB_SIZE - 20
             b == 8 + o
  <1>1. SLAB_SIZE \in Nat /\ SLAB_SIZE >= 128
    BY SlabAssumption DEF SeveralPerSlab
  <1>2. 4 * (SLAB_SIZE \div 4) <= SLAB_SIZE
    BY <1>1
  <1>3. a \in Nat /\ b \in Nat \ {0} /\ a >= 2 * b
    BY <1>1, <1>2 DEF sizeof_kmem_cache_t
  <1>4. obj_count(o) = a \div b
    BY DEF obj_count, sizeof_slab_t, sizeof_free_t
  <1> HIDE DEF a, b
  <1>5. a \div b >= 2
    <2> DEFINE q == a \div b
    <2>1. q \in Nat /\ a < (q + 1) * b
      BY <1>3
    <2> HIDE DEF q
    <2>2. CASE q = 0
      BY <1>3, <2>1, <2>2
    <2>3. CASE q = 1
      BY <1>3, <2>1, <2>3
    <2>4. CASE q >= 2
      BY <2>4 DEF q
    <2> QED BY <2>1, <2>2, <2>3, <2>4
  <1> QED BY <1>4, <1>5

\* A request below a quarter of a slab is served by objects of at most that.
LEMMA ClassIsSmall ==
  ASSUME SeveralPerSlab, SlabInv, SlabInited, NEW size \in Nat,
         size < SLAB_SIZE \div 4, ClassIndex(size) # NrClasses
  PROVE  kmems[ClassIndex(size) + 2].obj_size <= SLAB_SIZE \div 4
  <1> DEFINE Fits(i) == (2 ^ i <= size \/ i = 0) /\ size < 2 ^ (i + 1)
             j == CHOOSE i \in 0 .. NrClasses - 1 : Fits(i)
             m == NrClasses - 2
             q == 2 ^ m
  <1>1. /\ NrClasses \in Nat /\ SLAB_SIZE \in Nat /\ SLAB_SIZE = 2 ^ NrClasses
        /\ SLAB_SIZE >= 128
    BY SlabAssumption DEF SeveralPerSlab
  <1>2. NrClasses # 0 /\ NrClasses # 1
    <2>1. 2 ^ 0 = 1 /\ 2 ^ (0 + 1) = 2 * 2 ^ 0
      BY Zenon, 0 \in Nat, Doubling
    <2>2. ~ (2 ^ 0 >= 128) /\ ~ (2 ^ 1 >= 128)
      BY <2>1
    <2>3. ASSUME NrClasses = 0 PROVE FALSE
      <3>1. 2 ^ 0 >= 128
        BY <1>1, <2>3, Zenon
      <3> QED BY <2>2, <3>1, Zenon
    <2>4. ASSUME NrClasses = 1 PROVE FALSE
      <3>1. 2 ^ 1 >= 128
        BY <1>1, <2>4, Zenon
      <3> QED BY <2>2, <3>1, Zenon
    <2> QED BY <2>3, <2>4
  <1>3. m \in Nat /\ NrClasses = (m + 1) + 1 /\ m + 1 \in Nat
    BY <1>1, <1>2
  <1>4. q \in Nat /\ 2 ^ (m + 1) = 2 * q /\ 2 ^ ((m + 1) + 1) = 2 * 2 ^ (m + 1)
    BY <1>3, PowerIsNat, Doubling
  <1>5. SLAB_SIZE = 4 * q
    BY <1>1, <1>3, <1>4
  <1>6. SLAB_SIZE \div 4 = q /\ q >= 32
    <2> HIDE DEF q
    <2> QED BY <1>1, <1>4, <1>5
  <1>7. \E i \in 0 .. NrClasses - 1 : Fits(i)
    <2>1. size \in 0 .. SLAB_SIZE \div 2
      <3> HIDE DEF q
      <3>1. SLAB_SIZE \div 2 = 2 * q
        BY <1>4, <1>5
      <3> QED BY <1>4, <1>6, <3>1
    <2> QED BY <2>1, ClassSizes DEF PowersOfTwo
  <1>8. j \in 0 .. NrClasses - 1 /\ Fits(j)
    BY <1>7
  <1>9. ClassIndex(size) = 1 + j
    BY DEF ClassIndex
  <1>10. 2 ^ j <= size \/ j = 0
    BY <1>8
  <1> HIDE DEF j, Fits
  <1>11. j \in Nat /\ j + 1 \in 0 .. NrClasses - 1 /\ ClassIndex(size) + 2 = j + 3
    BY <1>1, <1>8, <1>9
  <1>12. Len(kmems) = NrClasses + 1 /\ \A k \in 2 .. Len(kmems) : kmems[k].obj_size = 2 ^ (k - 2)
    BY DEF SlabInv, KmemsOK, SlabInited
  <1>13. j + 3 \in 2 .. Len(kmems) /\ (j + 3) - 2 = j + 1
    BY <1>1, <1>11, <1>12
  <1>14. kmems[ClassIndex(size) + 2].obj_size = 2 ^ (j + 1)
    BY <1>11, <1>12, <1>13
  <1>15. CASE j = 0
    <2>1. 2 ^ 0 = 1 /\ 2 ^ (0 + 1) = 2 * 2 ^ 0
      BY Zenon, 0 \in Nat, Doubling
    <2>2. 2 ^ (j + 1) = 2
      BY <1>15, <2>1
    <2> HIDE DEF q
    <2> QED BY <1>4, <1>6, <1>14, <2>2
  <1>16. CASE j # 0
    <2>1. 2 ^ j \in Nat /\ 2 ^ j < q
      <3>1. 2 ^ j \in Nat
        BY <1>11, PowerIsNat
      <3> HIDE DEF q
      <3> QED BY <1>4, <1>6, <1>10, <1>16, <3>1
    <2>2. j < m
      <3> SUFFICES ASSUME m <= j PROVE FALSE
        BY <1>3, <1>11
      <3>1. q <= 2 ^ j
        BY <1>3, <1>11, PowerGrows
      <3> QED BY <1>4, <2>1, <3>1
    <2>3. j + 1 \in Nat /\ j + 1 <= m
      BY <1>3, <1>11, <2>2
    <2>4. 2 ^ (j + 1) <= q
      BY <1>3, <2>3, PowerGrows
    <2> QED BY <1>6, <1>14, <2>4
  <1> QED BY <1>15, <1>16

LEMMA AllocObjectKeepsLists ==
  ASSUME PowersOfTwo, SlabInv, ListsOK, NEW k \in 1 .. Len(kmems), NEW size,
         kmems[k].obj_count_per_slab >= 2, AllocObject(k, size)
  PROVE  ListsOK'
  <1>1. CASE AllocFaults(k)
    BY <1>1, SameLists DEF AllocObject, Crash
  <1>2. CASE ~ AllocFaults(k)
    <2>1. Takes(k, size)
      BY <1>2 DEF AllocObject, Takes
    <2> QED BY <2>1, TakesKeepsLists
  <1> QED BY <1>1, <1>2

\* No object is longer than half a slab.
LEMMA ObjectsAtMostHalf ==
  ASSUME PowersOfTwo, SlabInv, NEW k \in 1 .. Len(kmems)
  PROVE  ~ TooLarge(kmems[k].obj_size)
  <1>1. SLAB_SIZE \in Nat /\ SLAB_SIZE >= 64 /\ NrClasses \in Nat
    BY SlabAssumption
  <1>2. /\ Len(kmems) \in 1 .. NrClasses + 1
        /\ kmems[1].obj_size = sizeof_kmem_cache_t
        /\ \A j \in 2 .. Len(kmems) : kmems[j].obj_size = 2 ^ (j - 2)
    BY DEF SlabInv, KmemsOK
  <1>3. CASE k = 1
    BY <1>1, <1>2, <1>3 DEF TooLarge, sizeof_kmem_cache_t
  <1>4. CASE k # 1
    <2> DEFINE o == 2 ^ (k - 2)
    <2>1. k \in 2 .. Len(kmems) /\ k - 2 \in 0 .. NrClasses - 1
      BY <1>1, <1>2, <1>4
    <2>2. kmems[k].obj_size = o /\ o \in Nat /\ o <= SLAB_SIZE \div 2
      BY <1>2, <2>1 DEF PowersOfTwo
    <2> HIDE DEF o
    <2> QED BY <1>1, <2>2 DEF TooLarge
  <1> QED BY <1>3, <1>4

\* The caches that a request reaches by its exact size.
LEMMA QueriedIsSmall ==
  ASSUME PowersOfTwo, SeveralPerSlab, SlabInv, NEW size \in Requests,
         NEW k \in query_kmem(size)
  PROVE  k \in 1 .. Len(kmems) /\ kmems[k].obj_count_per_slab >= 2
  <1>1. k \in 1 .. Len(kmems) /\ kmems[k].obj_size = size
    BY DEF query_kmem, SlabInv, KmemsOK
  <1>2. size < SLAB_SIZE \div 4 /\ size \in Nat
    BY <1>1, ObjectsAtMostHalf, SlabAssumption DEF SeveralPerSlab
  <1>3. kmems[k].obj_count_per_slab = obj_count(size)
    BY <1>1 DEF SlabInv, KmemsOK
  <1>4. SLAB_SIZE \div 4 \in Nat
    BY SlabAssumption
  <1>5. size <= SLAB_SIZE \div 4
    BY <1>2, <1>4
  <1> QED BY <1>1, <1>2, <1>3, <1>5, SeveralFit

LEMMA ListsStep ==
  ASSUME SeveralPerSlab, SlabInv, ListsOK, [AllocNext]_vars
  PROVE  ListsOK'
  <1>1. PowersOfTwo
    BY ClassSizes
  <1>2. CASE add_kmem
    <2>1. 1 \in 1 .. Len(kmems)
      BY DEF SlabInv, KmemsOK
    <2>2. kmems[1].obj_count_per_slab >= 2
      <3>1. kmems[1].obj_count_per_slab = obj_count(sizeof_kmem_cache_t)
        BY <2>1 DEF SlabInv, KmemsOK
      <3>2. sizeof_kmem_cache_t \in Nat
        BY DEF sizeof_kmem_cache_t
      <3> QED BY <3>1, <3>2, SeveralFit
    <2>3. CASE AllocFaults(1)
      BY <1>2, <2>3, SameLists DEF add_kmem, Crash
    <2>4. CASE ~ AllocFaults(1)
      <3>1. Takes(1, sizeof_kmem_cache_t)
        BY <1>2, <2>4 DEF add_kmem, Takes
      <3> QED BY <1>1, <2>1, <2>2, <3>1, TakesKeepsLists
    <2> QED BY <2>3, <2>4
  <1>3. ASSUME NEW size \in Requests, kmalloc(size)
        PROVE  ListsOK'
    <2>1. size \in Nat /\ SlabInited /\ ~ TooLarge(size)
      BY <1>3, SlabAssumption DEF kmalloc
    <2>2. CASE ClassIndex(size) = NrClasses
      BY <1>3, <2>2, SameLists DEF kmalloc, Crash
    <2>3. CASE ClassIndex(size) # NrClasses
      <3> DEFINE k == ClassIndex(size) + 2
      <3>1. AllocObject(k, size)
        BY <1>3, <2>3 DEF kmalloc
      <3>2. k \in 1 .. Len(kmems)
        BY <1>1, <2>1, <2>3, ClassIs
      <3>3. size < SLAB_SIZE \div 4
        BY <2>1 DEF SeveralPerSlab
      <3>4. kmems[k].obj_size <= SLAB_SIZE \div 4
        BY <2>1, <2>3, <3>3, ClassIsSmall
      <3> HIDE DEF k
      <3>5. kmems[k].obj_size \in Nat /\ kmems[k].obj_count_per_slab = obj_count(kmems[k].obj_size)
        BY <1>1, <3>2, KmemIs DEF SlabInv
      <3>6. kmems[k].obj_count_per_slab >= 2
        BY <3>4, <3>5, SeveralFit
      <3> QED BY <1>1, <3>1, <3>2, <3>6, AllocObjectKeepsLists
    <2> QED BY <2>2, <2>3
  <1>4. ASSUME NEW size \in Requests, kmalloc_s(size)
        PROVE  ListsOK'
    <2>1. PICK k \in query_kmem(size) : AllocObject(k, size)
      BY <1>4 DEF kmalloc_s
    <2> QED BY <1>1, <2>1, QueriedIsSmall, AllocObjectKeepsLists
  <1>5. ASSUME NEW size \in Requests, NEW k \in query_kmem(size), qsmalloc(k)
        PROVE  ListsOK'
    BY <1>1, <1>5, QueriedIsSmall, AllocObjectKeepsLists DEF qsmalloc
  <1>6. CASE UNCHANGED vars
    BY <1>6, SameLists DEF vars
  <1>7. ASSUME NEW size \in Requests, kmalloc_fails(size)
        PROVE  UNCHANGED vars
    BY <1>7 DEF kmalloc_fails
  <1>8. Panic => UNCHANGED vars
    BY DEF Panic
  <1> QED BY <1>2, <1>3, <1>4, <1>5, <1>6, <1>7, <1>8 DEF AllocNext

LEMMA ListsInit == Init => ListsOK
  <1> SUFFICES ASSUME Init PROVE ListsOK
    OBVIOUS
  <1>1. Len(slabs) = 0 /\ Len(kmems) = 1
    BY DEF Init
  <1>2. kmems[1].full_slab = 0
    BY DEF Init, NewKmem, NULL
  <1>3. \A k : Full(k) = {}
    BY <1>1 DEF Full
  <1>4. ASSUME NEW k \in 1 .. Len(kmems) PROVE FullOK(k)
    <2>1. k = 1
      BY <1>1
    <2> QED BY <1>1, <1>2, <1>3, <2>1 DEF FullOK, IsLast
  <1> QED BY <1>1, <1>4 DEF ListsOK

\* What kfree's walk meets, one slab after the other.
LEMMA WalkIs ==
  ASSUME SlabInv, NEW head \in 0 .. Len(slabs)
  PROVE  LET at == Walk(slabs, head)
             m == Len(slabs)
         IN  /\ m \in Nat /\ at \in [0 .. m -> 0 .. m] /\ at[0] = head
             /\ \A i \in 1 .. m :
                   at[i] = IF at[i - 1] = 0 THEN 0 ELSE slabs[at[i - 1]].next
  <1> DEFINE m == Len(slabs)
             S == 0 .. m
             next(p) == IF p = NULL THEN NULL ELSE slabs[p].next
             body(f, i) == IF i = 0 THEN head ELSE next(f[i - 1])
             g == [v \in Nat \X S |-> next(v[2])]
  <1>1. m \in Nat /\ \A p \in 1 .. m : slabs[p].next \in S
    BY DEF SlabInv, SlabsOK
  <1>2. \A p \in S : next(p) \in S
    BY <1>1 DEF NULL
  <1>3. Walk(slabs, head) = CHOOSE f : f = [i \in S |-> body(f, i)]
    BY DEF Walk
  <1> HIDE DEF next
  <1>4. g \in [Nat \X S -> S]
    BY <1>2
  <1>5. \A i \in Nat, p \in S : g[<<i, p>>] = next(p)
    OBVIOUS
  <1> HIDE DEF g, S
  <1>6. PICK f \in [0 .. m -> S] : Iterates(f, head, g, m)
    BY <1>1, <1>4, LoopRuns DEF S
  <1>7. \A i \in 0 .. m : f[i] = body(f, i)
    <2> SUFFICES ASSUME NEW i \in 0 .. m, i # 0 PROVE f[i] = next(f[i - 1])
      BY <1>6 DEF Iterates
    <2>1. i \in 1 .. m /\ i - 1 \in 0 .. m /\ i \in Nat
      BY <1>1
    <2>2. f[i] = g[<<i, f[i - 1]>>] /\ f[i - 1] \in S
      BY <1>6, <2>1 DEF Iterates
    <2> QED BY <1>5, <2>1, <2>2
  <1> HIDE DEF body
  <1>8. f = [i \in S |-> body(f, i)]
    BY <1>6, <1>7 DEF S
  <1> DEFINE at == Walk(slabs, head)
  <1>9. at = [i \in S |-> body(at, i)]
    BY <1>3, <1>8
  <1> HIDE DEF at
  <1>10. \A i \in 0 .. m : at[i] = body(at, i)
    BY <1>9 DEF S
  <1>11. at[0] = head
    BY <1>1, <1>10 DEF body
  <1>12. \A i \in 1 .. m : i \in 0 .. m /\ i # 0
    BY <1>1
  <1>13. \A i \in 1 .. m : at[i] = next(at[i - 1])
    BY <1>10, <1>12 DEF body
  <1>14. \A i \in 0 .. m : at[i] \in S
    <2> DEFINE T == {i \in 0 .. m : at[i] \notin S}
    <2> SUFFICES ASSUME T # {} PROVE FALSE
      OBVIOUS
    <2>1. PICK i \in T : \A y \in T : i <= y
      <3>1. T \in SUBSET Nat
        OBVIOUS
      <3> HIDE DEF T
      <3> QED BY <3>1, LeastNat
    <2>2. i \in 0 .. m /\ at[i] \notin S
      BY <2>1
    <2>3. i # 0
      BY <1>11, <2>2 DEF S
    <2>4. i \in 1 .. m /\ i - 1 \in 0 .. m /\ ~ (i <= i - 1)
      BY <1>1, <2>2, <2>3
    <2>5. at[i - 1] \in S
      BY <2>1, <2>4
    <2> QED BY <1>2, <1>13, <2>2, <2>4, <2>5
  <1>15. at \in [0 .. m -> S]
    <2>1. at = [i \in 0 .. m |-> body(at, i)]
      BY <1>9 DEF S
    <2>2. \A i \in 0 .. m : body(at, i) \in S
      BY <1>10, <1>14
    <2> QED BY <2>1, <2>2
  <1> QED BY <1>1, <1>11, <1>13, <1>15 DEF S, next, at, NULL

\* A list of one slab, or of none.
LEMMA ShortListIs ==
  ASSUME SlabInv, NEW head \in 0 .. Len(slabs), head # 0 => slabs[head].next = 0
  PROVE  OnList(head) = {head} \ {0}
  <1> DEFINE at == Walk(slabs, head)
             m == Len(slabs)
  <1>1. /\ m \in Nat /\ at \in [0 .. m -> 0 .. m] /\ at[0] = head
        /\ \A i \in 1 .. m :
              at[i] = IF at[i - 1] = 0 THEN 0 ELSE slabs[at[i - 1]].next
    BY WalkIs
  <1>2. OnList(head) = {at[i] : i \in 0 .. m} \ {0}
    BY DEF OnList, NULL
  <1> HIDE DEF at
  <1>3. \A i \in 1 .. m : at[i] = 0
    <2> DEFINE T == {i \in 1 .. m : at[i] # 0}
    <2> SUFFICES ASSUME T # {} PROVE FALSE
      OBVIOUS
    <2>1. PICK i \in T : \A y \in T : i <= y
      <3>1. T \in SUBSET Nat
        OBVIOUS
      <3> HIDE DEF T
      <3> QED BY <3>1, LeastNat
    <2>2. i \in 1 .. m /\ at[i] # 0
      BY <2>1
    <2>3. at[i - 1] # 0 /\ slabs[at[i - 1]].next # 0
      BY <1>1, <2>2
    <2>4. i # 1
      BY <1>1, <2>3
    <2>5. i - 1 \in 1 .. m /\ ~ (i <= i - 1)
      BY <1>1, <2>2, <2>4
    <2> QED BY <2>1, <2>3, <2>5
  <1>4. \A i \in 0 .. m : i = 0 \/ i \in 1 .. m
    BY <1>1
  <1>5. {at[i] : i \in 0 .. m} \subseteq {head, 0}
    BY <1>1, <1>3, <1>4
  <1>6. head \in {at[i] : i \in 0 .. m}
    <2>1. 0 \in 0 .. m
      BY <1>1
    <2> QED BY <1>1, <2>1
  <1> QED BY <1>2, <1>5, <1>6

\* The full list is the full slabs.
LEMMA FullListIs ==
  ASSUME SlabInv, ListsOK, NEW k \in 1 .. Len(kmems)
  PROVE  OnList(kmems[k].full_slab) = Full(k)
  <1> DEFINE head == kmems[k].full_slab
             at == Walk(slabs, head)
             m == Len(slabs)
  <1>1. head \in 0 .. m
    BY DEF SlabInv, KmemsOK
  <1>2. /\ m \in Nat /\ at \in [0 .. m -> 0 .. m] /\ at[0] = head
        /\ \A i \in 1 .. m :
              at[i] = IF at[i - 1] = 0 THEN 0 ELSE slabs[at[i - 1]].next
    BY <1>1, WalkIs
  <1>3. OnList(head) = {at[i] : i \in 0 .. m} \ {0}
    BY DEF OnList, NULL
  <1>4. /\ IsLast(head, Full(k))
        /\ \A s \in Full(k) : IsLast(slabs[s].next, {t \in Full(k) : t < s})
    BY DEF ListsOK, FullOK
  <1>5. Full(k) \subseteq 1 .. m
    BY DEF Full
  <1> HIDE DEF at, head, m
  <1>6. \A i \in 0 .. m : at[i] \in Full(k) \cup {0}
    <2> DEFINE T == {i \in 0 .. m : at[i] \notin Full(k) \cup {0}}
    <2> SUFFICES ASSUME T # {} PROVE FALSE
      OBVIOUS
    <2>1. PICK i \in T : \A y \in T : i <= y
      <3>1. T \in SUBSET Nat
        OBVIOUS
      <3> HIDE DEF T
      <3> QED BY <3>1, LeastNat
    <2>2. i \in 0 .. m /\ at[i] \notin Full(k) \cup {0}
      BY <2>1
    <2>3. i # 0
      BY <1>2, <1>4, <2>2 DEF IsLast
    <2>4. i \in 1 .. m /\ i - 1 \in 0 .. m /\ ~ (i <= i - 1)
      BY <1>2, <2>2, <2>3
    <2>5. at[i - 1] \in Full(k) \cup {0}
      BY <2>1, <2>4
    <2>6. at[i - 1] \in Full(k) /\ at[i] = slabs[at[i - 1]].next
      BY <1>2, <2>2, <2>4, <2>5
    <2> QED BY <1>4, <2>2, <2>6 DEF IsLast
  <1>7. \A i \in 0 .. m : at[i] <= m - i
    <2> DEFINE T == {i \in 0 .. m : ~ (at[i] <= m - i)}
    <2> SUFFICES ASSUME T # {} PROVE FALSE
      OBVIOUS
    <2>1. PICK i \in T : \A y \in T : i <= y
      <3>1. T \in SUBSET Nat
        OBVIOUS
      <3> HIDE DEF T
      <3> QED BY <3>1, LeastNat
    <2>2. i \in 0 .. m /\ ~ (at[i] <= m - i) /\ at[i] \in 0 .. m
      BY <1>2, <2>1
    <2>3. i # 0
      BY <1>2, <2>2
    <2>4. i \in 1 .. m /\ i - 1 \in 0 .. m /\ ~ (i <= i - 1)
      BY <1>2, <2>2, <2>3
    <2>5. at[i - 1] <= m - (i - 1) /\ at[i - 1] \in 0 .. m
      BY <1>2, <2>1, <2>4
    <2>6. at[i] # 0
      BY <1>2, <2>2
    <2>7. at[i - 1] \in Full(k) /\ at[i] = slabs[at[i - 1]].next
      BY <1>2, <1>6, <2>4, <2>6
    <2>8. at[i] < at[i - 1]
      BY <1>4, <2>6, <2>7 DEF IsLast
    <2> DEFINE x == at[i]
               y == at[i - 1]
    <2>9. x \in Int /\ y \in Int /\ i \in Int /\ m \in Int /\ x < y /\ y <= m - (i - 1)
      BY <1>2, <2>2, <2>5, <2>8
    <2> HIDE DEF x, y
    <2>10. x <= m - i
      BY <2>9
    <2> QED BY <2>2, <2>10 DEF x
  <1>8. ASSUME NEW t \in Full(k) PROVE \E i \in 0 .. m : at[i] = t
    <2> DEFINE T == {i \in 0 .. m : at[i] < t}
    <2>1. t \in 1 .. m
      BY <1>5
    <2>2. m \in T
      BY <1>2, <1>7, <2>1
    <2>3. PICK i \in T : \A y \in T : i <= y
      <3>1. T \in SUBSET Nat /\ T # {}
        BY <2>2
      <3> HIDE DEF T
      <3> QED BY <3>1, LeastNat
    <2>4. i \in 0 .. m /\ at[i] < t /\ at[i] \in 0 .. m
      BY <1>2, <2>3
    <2>5. t <= head
      BY <1>4 DEF IsLast
    <2>6. i # 0
      BY <1>1, <1>2, <2>1, <2>4, <2>5
    <2>7. i \in 1 .. m /\ i - 1 \in 0 .. m /\ ~ (i <= i - 1)
      BY <1>2, <2>4, <2>6
    <2>8. ~ (at[i - 1] < t) /\ at[i - 1] \in 0 .. m
      BY <1>2, <2>3, <2>7
    <2>9. at[i - 1] # 0
      BY <2>1, <2>8
    <2>10. at[i - 1] \in Full(k) /\ at[i] = slabs[at[i - 1]].next
      BY <1>2, <1>6, <2>7, <2>9
    <2>11. at[i - 1] = t
      <3> SUFFICES ASSUME t < at[i - 1] PROVE FALSE
        BY <2>1, <2>8
      <3>1. t <= at[i]
        BY <1>4, <2>10 DEF IsLast
      <3> QED BY <2>1, <2>4, <3>1
    <2> QED BY <2>7, <2>11
  <1>9. 0 \notin Full(k)
    BY <1>2, <1>5
  <1> QED BY <1>3, <1>6, <1>8, <1>9 DEF head

\* A slab is on the list it belongs to and on no other.
LEMMA OneList ==
  SlabInv /\ ListsOK => SlabsOnOneList
  <1> SUFFICES ASSUME SlabInv, ListsOK, NEW s \in DOMAIN slabs
               PROVE  LET kmem == kmems[slabs[s].parent]
                          on == {l \in {"empty", "partial", "full"} :
                                   s \in OnList(CASE l = "empty" -> kmem.empty_slab
                                                  [] l = "partial" -> kmem.partial_slab
                                                  [] l = "full" -> kmem.full_slab)}
                      IN  /\ Cardinality(on) = 1
                          /\ on = {"full"} <=> slabs[s].free_count = 0
    BY DEF SlabsOnOneList
  <1> DEFINE k == slabs[s].parent
             e == kmems[k].empty_slab
             p == kmems[k].partial_slab
             f == kmems[k].full_slab
             on == {l \in {"empty", "partial", "full"} :
                      s \in OnList(CASE l = "empty" -> e
                                     [] l = "partial" -> p
                                     [] l = "full" -> f)}
  <1>1. /\ s \in 1 .. Len(slabs) /\ k \in 1 .. Len(kmems)
        /\ slabs[s].free_count \in Nat
    <2>1. slabs \in Seq(SlabRecords) /\ s \in 1 .. Len(slabs)
      BY DEF SlabInv, SlabsOK
    <2>2. slabs[s] \in SlabRecords
      BY <2>1
    <2> QED BY <2>1, <2>2 DEF SlabInv, SlabsOK, SlabRecords
  <1>2. e \in 0 .. Len(slabs) /\ p \in 0 .. Len(slabs)
    BY <1>1 DEF SlabInv, KmemsOK
  <1>3. kmems[k].obj_count_per_slab # 1
    <2>1. kmems[k].obj_count_per_slab >= 2
      BY <1>1 DEF ListsOK
    <2> QED BY <2>1
  <1>4. /\ e = 0 \/ p = 0
        /\ p # 0 => slabs[p].free_count > 0 /\ slabs[p].next = 0
        /\ e # 0 => slabs[e].free_count > 0 /\ slabs[e].next = 0
        /\ slabs[s].free_count > 0 => s = e \/ s = p
    BY <1>1, <1>3 DEF SlabInv, OpenOK
  <1>5. OnList(e) = {e} \ {0} /\ OnList(p) = {p} \ {0}
    BY <1>2, <1>4, ShortListIs
  <1>6. OnList(f) = Full(k)
    BY <1>1, FullListIs
  <1>7. s \in Full(k) <=> slabs[s].free_count = 0
    BY <1>1 DEF Full
  <1>8. s # 0
    BY <1>1
  <1>9. on = {l \in {"empty", "partial", "full"} :
                \/ l = "empty" /\ s = e
                \/ l = "partial" /\ s = p
                \/ l = "full" /\ slabs[s].free_count = 0}
    BY <1>5, <1>6, <1>7, <1>8
  <1> HIDE DEF on
  <1>10. CASE slabs[s].free_count = 0
    <2>1. s # e /\ s # p
      BY <1>4, <1>8, <1>10
    <2>2. on = {"full"}
      BY <1>9, <1>10, <2>1
    <2> QED BY <1>10, <2>2, FS_Singleton DEF on
  <1>11. CASE slabs[s].free_count # 0
    <2>1. slabs[s].free_count > 0
      BY <1>1, <1>11
    <2>2. (s = e /\ s # p) \/ (s = p /\ s # e)
      BY <1>4, <1>8, <2>1
    <2>3. on = {"empty"} \/ on = {"partial"}
      BY <1>9, <1>11, <2>2
    <2>4. Cardinality(on) = 1 /\ on # {"full"}
      BY <2>3, FS_Singleton
    <2> QED BY <1>11, <2>4 DEF on
  <1> QED BY <1>10, <1>11

\* While nothing is freed, every slab is on exactly one list of its cache, the
\* full list holds exactly the slabs that are used up, and one slab of a cache
\* at most has free objects.  No request may be for a cache with one object
\* per slab: there alloc_from_kmem leaves the slab on two lists.
THEOREM SlabListsSound ==
  ASSUME SeveralPerSlab
  PROVE  AllocSpec => []ListsSound
  <1>1. SlabInv /\ ListsOK /\ [AllocNext]_vars => ListsOK'
    BY ListsStep
  <1>2. AllocSpec => []SlabInv
    BY ClassSizes, SlabInvariant
  <1>3. AllocSpec => []ListsOK
    BY <1>1, <1>2, ListsInit, PTL DEF AllocSpec
  <1>4. AllocSpec => []OneOpenSlab
    BY SlabOneOpenSlab
  <1>5. SlabInv /\ ListsOK /\ OneOpenSlab => ListsSound
    BY OneList DEF ListsSound
  <1> QED BY <1>2, <1>3, <1>4, <1>5, PTL

=============================================================================
