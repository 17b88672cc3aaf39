--------------------------- MODULE PageAllocProofs ---------------------------
(***************************************************************************)
(* Proofs about the page allocator for every memory size, image size, page *)
(* size, set of callers and set of requests.                               *)
(***************************************************************************)
EXTENDS PageAlloc, Induction

-----------------------------------------------------------------------------
(* Arithmetic                                                              *)

\* The remainder of a number below the divisor is the number.
LEMMA ModSmall == ASSUME NEW n \in Nat \ {0}, NEW x \in 0 .. n - 1
                  PROVE  x % n = x
  OBVIOUS

\* A page number that wraps below zero is the last of the address space.
LEMMA ModMinusOne == ASSUME NEW n \in Nat \ {0}
                     PROVE  (-1) % n = n - 1
  OBVIOUS

\* Any result of the wrap-around is an address.
LEMMA ModRange == ASSUME NEW n \in Nat \ {0}, NEW x \in Int
                  PROVE  x % n \in 0 .. n - 1
  OBVIOUS

\* The page arithmetic of palloc and pfree yields natural numbers.
LEMMA PageCountNat == ASSUME NEW size \in Nat
                      PROVE  PageCount(size) \in Nat
  <1>1. PAGE_SIZE \in Nat \ {0}
    BY SizeAssumption
  <1>2. size \div PAGE_SIZE \in Nat
    BY <1>1
  <1> QED BY <1>2 DEF PageCount

\* The page count of pfree is an integer.
LEMMA FreeCountInt == ASSUME NEW len \in Nat
                      PROVE  FreeCount(len) \in Int
  <1>1. PAGE_SIZE \in Nat \ {0}
    BY SizeAssumption
  <1>2. len \div PAGE_SIZE \in Nat
    BY <1>1
  <1> QED BY <1>2 DEF FreeCount

\* The two zones: natural numbers, and less than the linear kernel addresses.
LEMMA ZoneFacts ==
    /\ kernel_mem_pages \in Nat
    /\ user_mem_pages \in Nat
    /\ kernel_reserved_pages \in Nat \ {0}
    /\ kernel_reserved_pages <= kernel_mem_pages
    /\ kernel_mem_pages <= Quarter
    /\ kernel_mem_pages + user_mem_pages <= KERNEL_BASE
    /\ user_mem_pages = kernel_mem_pages * 3
  <1>1. kernel_mem_pages \in Nat
    BY SizeAssumption DEF kernel_mem_pages
  <1>2. user_mem_pages = kernel_mem_pages * 3
    BY DEF kernel_mem_pages, user_mem_pages
  <1>3. memmap_end \in Nat
    BY <1>1, <1>2, SizeAssumption DEF memmap_end
  <1>4. PAGE_SIZE \in Nat \ {0}
    BY SizeAssumption
  <1>5. memmap_end \div PAGE_SIZE \in Nat
    BY <1>3, <1>4
  <1> QED BY <1>1, <1>2, <1>5, ReservedAssumption, MemoryAssumption,
             QuarterAssumption DEF kernel_reserved_pages, KERNEL_BASE


\* The search of palloc, when it succeeds, ends at the first run.
LEMMA FirstRunEndFacts ==
    ASSUME NEW z \in Zones, NEW n \in Nat, RunEnds(z, n) # {}
    PROVE  /\ FirstRunEnd(z, n) \in RunEnds(z, n)
           /\ \A j \in RunEnds(z, n) : FirstRunEnd(z, n) <= j
  <1>1. RunEnds(z, n) \in SUBSET Nat
    BY DEF RunEnds
  <1>2. \E i \in RunEnds(z, n) : \A j \in RunEnds(z, n) : i <= j
    BY <1>1, LeastNat
  <1> QED BY <1>2 DEF FirstRunEnd

-----------------------------------------------------------------------------
(* Type correctness                                                        *)

\* Linear addresses are addresses.
LEMMA phy2linAddr == ASSUME NEW p \in AnyAddr PROVE phy2lin(p) \in AnyAddr
  <1>1. AddrSize \in Nat \ {0}
    BY QuarterAssumption DEF AddrSize
  <1>2. (p + KERNEL_BASE) % AddrSize \in AnyAddr
    BY <1>1, QuarterAssumption DEF AnyAddr, KERNEL_BASE
  <1> QED
    BY <1>2, QuarterAssumption DEF phy2lin, AnyAddr, AddrSize, KERNEL_BASE, NULL

\* What palloc returns is a page number of the address space.
LEMMA PallocResultAddr ==
    ASSUME NEW z \in Zones, NEW i \in Nat, NEW n \in Nat
    PROVE  PallocResult(z, i, n) \in AnyAddr
  <1>1. AddrSize \in Nat \ {0}
    BY QuarterAssumption DEF AddrSize
  <1>2. (i - n) % AddrSize \in AnyAddr
    BY <1>1 DEF AnyAddr
  <1> QED BY <1>2, phy2linAddr DEF PallocResult

\* The variables keep their types under every operation of mm/buddy.c: the
\* bytemap holds the two status values and what a caller holds has an
\* address of the 32-bit space.
THEOREM TypeCorrect == Spec => []TypeOK
  <1>1. Init => TypeOK
    BY DEF Init, page_init, TypeOK
  <1>2. TypeOK /\ [Next]_vars => TypeOK'
    <2> SUFFICES ASSUME TypeOK, [Next]_vars PROVE TypeOK'
      OBVIOUS
    <2>1. ASSUME NEW c \in Callers, NEW z \in Zones, NEW size \in Requests[z],
                 palloc(c, z, size)
          PROVE  TypeOK'
      <3> DEFINE n == PageCount(size)
                 i == FirstRunEnd(z, n)
                 ret == PallocResult(z, i, n)
      <3>1. size \in Nat
        BY SizeAssumption
      <3>2. n \in Nat
        BY <3>1, PageCountNat
      <3>3. RunEnds(z, n) # {}
        BY <2>1 DEF palloc
      <3>4. i \in Nat
        BY <3>2, <3>3, FirstRunEndFacts DEF RunEnds
      <3>5. ret \in AnyAddr
        BY <3>2, <3>4, PallocResultAddr
      <3>6. [zone |-> z, addr |-> ret, size |-> size] \in Block
        BY <3>1, <3>5 DEF Block
      <3>7. status' \in [Pages -> {MEM_UNUSED, MEM_USED}]
        BY <2>1 DEF palloc, TypeOK
      <3>8. held' \in [Callers -> Block \cup {None}]
        BY <2>1, <3>6 DEF palloc, TypeOK
      <3> QED BY <2>1, <3>7, <3>8 DEF palloc, TypeOK
    <2>2. ASSUME NEW c \in Callers, NEW z \in Zones, NEW size \in Requests[z],
                 palloc_fails(c, z, size)
          PROVE  TypeOK'
      BY <2>2 DEF palloc_fails, vars, TypeOK
    <2>3. ASSUME NEW c \in Callers, pfree(c)
          PROVE  TypeOK'
      BY <2>3 DEF pfree, TypeOK
    <2>4. CASE UNCHANGED vars
      BY <2>4 DEF vars, TypeOK
    <2> QED BY <2>1, <2>2, <2>3, <2>4 DEF Next
  <1> QED BY <1>1, <1>2, PTL DEF Spec

-----------------------------------------------------------------------------
(* The kernel zone, for requests of any size in both zones                 *)

KernelHeld(c) == Holds(c) /\ held[c].zone = ZONE_KERNEL

\* The first m pages of the kernel zone, and no other, are used.
PrefixUsed(m) ==
    \A p \in 0 .. kernel_mem_pages - 1 : status[p] = MEM_USED <=> p < m

\* A kernel block starts at the last reserved page or behind it, and the
\* bytes behind its own pages' are used.
KernelBlockOK(b) ==
    /\ PageCount(b.size) >= 1
    /\ b.addr >= KERNEL_BASE + kernel_reserved_pages - 1
    /\ b.addr + PageCount(b.size) <= KERNEL_BASE + kernel_mem_pages - 1
    /\ \A p \in b.addr - KERNEL_BASE + 1
                    .. b.addr - KERNEL_BASE + PageCount(b.size) :
          status[p] = MEM_USED

KernelBlocksOK == \A c \in Callers : KernelHeld(c) => KernelBlockOK(held[c])

KernelBlocksApart ==
    \A c, d \in Callers : c # d /\ KernelHeld(c) /\ KernelHeld(d) =>
        \/ held[c].addr + PageCount(held[c].size) <= held[d].addr
        \/ held[d].addr + PageCount(held[d].size) <= held[c].addr

KernelInv ==
    /\ TypeOK
    /\ KernelUsedIsPrefix
    /\ KernelBlocksOK
    /\ KernelBlocksApart

\* Where palloc finds a run in a kernel zone whose used pages are a prefix:
\* right behind the prefix, and head_ptr stands at the run's first page.
LEMMA KernelPalloc ==
    ASSUME TypeOK, NEW n \in Nat, RunEnds(ZONE_KERNEL, n) # {},
           NEW m \in kernel_reserved_pages .. kernel_mem_pages, PrefixUsed(m)
    PROVE  LET i == FirstRunEnd(ZONE_KERNEL, n)
           IN  /\ n >= 1
               /\ i = m + n - 1
               /\ i <= kernel_mem_pages - 1
               /\ head_ptr(ZONE_KERNEL, i) = m
               /\ PallocResult(ZONE_KERNEL, i, n) = KERNEL_BASE + m - 1
  <1> DEFINE i == FirstRunEnd(ZONE_KERNEL, n)
  <1> USE ZoneFacts
  <1>1. \A p \in 0 .. kernel_mem_pages - 1 : Used(ZONE_KERNEL, p) <=> p < m
    BY DEF Used, ZoneBase, PrefixUsed
  <1>2. /\ i \in RunEnds(ZONE_KERNEL, n)
        /\ \A j \in RunEnds(ZONE_KERNEL, n) : i <= j
    BY FirstRunEndFacts DEF Zones
  <1>3. /\ i \in 0 .. kernel_mem_pages - 1
        /\ n > 0
        /\ n <= i + 1
        /\ \A j \in i - n + 1 .. i : ~ Used(ZONE_KERNEL, j)
    BY <1>2 DEF RunEnds, ZoneLen
  <1> HIDE DEF i
  <1>4. i - n + 1 >= m
    <2>1. i - n + 1 \in 0 .. kernel_mem_pages - 1
      BY <1>3
    <2>2. ~ Used(ZONE_KERNEL, i - n + 1)
      BY <1>3
    <2> QED BY <1>1, <2>1, <2>2
  <1>5. m + n - 1 \in RunEnds(ZONE_KERNEL, n)
    <2>1. m + n - 1 \in 0 .. kernel_mem_pages - 1 /\ n <= (m + n - 1) + 1
      BY <1>3, <1>4
    <2>2. \A j \in (m + n - 1) - n + 1 .. m + n - 1 : ~ Used(ZONE_KERNEL, j)
      BY <1>1, <2>1, <1>3
    <2> QED BY <1>3, <2>1, <2>2 DEF RunEnds, ZoneLen
  <1>6. i = m + n - 1
    BY <1>2, <1>3, <1>4, <1>5
  <1>7. head_ptr(ZONE_KERNEL, i) = m
    <2>1. {j \in 0 .. i : Used(ZONE_KERNEL, j)} = 0 .. m - 1
      BY <1>1, <1>3, <1>6
    <2>2. Cardinality(0 .. m - 1) = m
      <3>1. 0 \in Int /\ m - 1 \in Int
        OBVIOUS
      <3>2. Cardinality(0 .. m - 1) = IF 0 > m - 1 THEN 0 ELSE (m - 1) - 0 + 1
        BY <3>1, FS_Interval
      <3> QED BY <3>2
    <2> QED BY <2>1, <2>2 DEF head_ptr
  <1>8. PallocResult(ZONE_KERNEL, i, n) = KERNEL_BASE + m - 1
    <2>1. AddrSize \in Nat \ {0}
      BY QuarterAssumption DEF AddrSize
    <2>2. i - n = m - 1 /\ m - 1 \in 0 .. AddrSize - 1
      BY <1>6, QuarterAssumption DEF AddrSize
    <2>3. (i - n) % AddrSize = m - 1
      BY <2>1, <2>2, ModSmall
    <2>4. m - 1 + KERNEL_BASE \in 0 .. AddrSize - 1
      BY <2>2, QuarterAssumption DEF AddrSize, KERNEL_BASE
    <2>5. (m - 1 + KERNEL_BASE) % AddrSize = m - 1 + KERNEL_BASE
      BY <2>1, <2>4, ModSmall
    <2>6. phy2lin(m - 1) = m - 1 + KERNEL_BASE
      BY <2>2, <2>5, QuarterAssumption DEF phy2lin
    <2> QED BY <2>3, <2>6, QuarterAssumption DEF PallocResult, KERNEL_BASE
  <1> QED BY <1>3, <1>6, <1>7, <1>8 DEF i

\* pfree never writes into the kernel zone's bytes: a kernel address is a
\* linear one and indexes behind the bytemap, a user index is not negative.
LEMMA FreeOutsideKernelZone ==
    ASSUME KernelInv, NEW c \in Callers, Holds(c),
           NEW p \in 0 .. kernel_mem_pages - 1
    PROVE  p \notin FreeIndexes(held[c])
  <1> DEFINE b == held[c]
  <1>1. b \in Block
    BY DEF KernelInv, TypeOK, Holds
  <1>2. b.zone \in Zones /\ b.addr \in Nat /\ b.size \in Nat
    BY <1>1, QuarterAssumption DEF Block, AnyAddr, AddrSize
  <1>3. FreeCount(b.size) \in Int
    BY <1>2, FreeCountInt
  <1>4. CASE b.zone = ZONE_KERNEL
    <2>1. b.addr >= KERNEL_BASE
      <3>1. b.addr >= KERNEL_BASE + kernel_reserved_pages - 1
        BY <1>4 DEF KernelInv, KernelBlocksOK, KernelBlockOK, KernelHeld
      <3> QED BY <3>1, <1>2, ZoneFacts, QuarterAssumption DEF KERNEL_BASE
    <2> QED
      BY <1>2, <1>3, <1>4, <2>1, ZoneFacts, QuarterAssumption
      DEF FreeIndexes, ZoneBase, KERNEL_BASE
  <1>5. CASE b.zone = ZONE_USER
    BY <1>2, <1>3, <1>5, ZoneFacts
    DEF FreeIndexes, ZoneBase, ZONE_USER, ZONE_KERNEL
  <1> QED BY <1>2, <1>4, <1>5 DEF Zones

\* palloc in the user zone writes only bytes of the user zone.
LEMMA UserPallocOutsideKernelZone ==
    ASSUME NEW i \in Nat, NEW p \in 0 .. kernel_mem_pages - 1,
           NEW n \in Nat
    PROVE  LET first == ZoneBase(ZONE_USER) + head_ptr(ZONE_USER, i)
           IN  p \notin first .. first + n - 1
  <1> DEFINE S == {j \in 0 .. i : Used(ZONE_USER, j)}
  <1>1. IsFiniteSet(0 .. i)
    BY FS_Interval
  <1>2. IsFiniteSet(S)
    BY <1>1, FS_Subset
  <1>3. head_ptr(ZONE_USER, i) \in Nat
    BY <1>2, FS_CardinalityType DEF head_ptr
  <1>4. ZoneBase(ZONE_USER) = kernel_mem_pages
    BY DEF ZoneBase, ZONE_USER, ZONE_KERNEL
  <1> QED BY <1>3, <1>4, ZoneFacts

\* Initially the reserved pages are the used prefix and nobody holds a block.
LEMMA KernelInvInit == Init => KernelInv
  <1> SUFFICES ASSUME Init PROVE KernelInv
    OBVIOUS
  <1>1. TypeOK
    BY DEF Init, page_init, TypeOK
  <1>2. KernelUsedIsPrefix
    <2>1. kernel_reserved_pages \in kernel_reserved_pages .. kernel_mem_pages
      BY ZoneFacts
    <2>2. PrefixUsed(kernel_reserved_pages)
      BY ZoneFacts DEF Init, page_init, PrefixUsed, Pages, MEM_USED, MEM_UNUSED
    <2> QED BY <2>1, <2>2 DEF KernelUsedIsPrefix, PrefixUsed
  <1>3. \A c \in Callers : ~ KernelHeld(c)
    BY DEF Init, KernelHeld, Holds
  <1> QED
    BY <1>1, <1>2, <1>3 DEF KernelInv, KernelBlocksOK, KernelBlocksApart

\* Whatever leaves the kernel zone's bytes alone and gives no caller a new
\* kernel block keeps the invariant.
LEMMA KernelUntouched ==
    ASSUME KernelInv, TypeOK',
           \A p \in 0 .. kernel_mem_pages - 1 : status'[p] = status[p],
           \A c \in Callers : KernelHeld(c)' =>
                                  KernelHeld(c) /\ held'[c] = held[c]
    PROVE  KernelInv'
  <1>1. KernelUsedIsPrefix'
    BY DEF KernelInv, KernelUsedIsPrefix
  <1>2. KernelBlocksOK'
    <2> SUFFICES ASSUME NEW c \in Callers, KernelHeld(c)'
                 PROVE  KernelBlockOK(held[c])'
      BY DEF KernelBlocksOK
    <2>1. KernelHeld(c) /\ held'[c] = held[c]
      OBVIOUS
    <2>2. held[c] \in Block
      BY <2>1 DEF KernelInv, TypeOK, KernelHeld, Holds
    <2>3. held[c].addr \in Nat /\ held[c].size \in Nat
      BY <2>2, QuarterAssumption DEF Block, AnyAddr, AddrSize
    <2>4. PageCount(held[c].size) \in Nat
      BY <2>3, PageCountNat
    <2>5. KernelBlockOK(held[c])
      BY <2>1 DEF KernelInv, KernelBlocksOK
    <2> QED
      BY <2>1, <2>3, <2>4, <2>5, ZoneFacts, QuarterAssumption
      DEF KernelBlockOK, KERNEL_BASE
  <1>3. KernelBlocksApart'
    BY DEF KernelInv, KernelBlocksApart
  <1> QED BY <1>1, <1>2, <1>3 DEF KernelInv

\* A kernel palloc lengthens the used prefix by the pages of the new block,
\* which therefore lies behind every block that is still held.
LEMMA KernelPallocStep ==
    ASSUME KernelInv, TypeOK', NEW c \in Callers,
           NEW size \in Requests[ZONE_KERNEL], palloc(c, ZONE_KERNEL, size)
    PROVE  KernelInv'
  <1> DEFINE n == PageCount(size)
             i == FirstRunEnd(ZONE_KERNEL, n)
             new == [zone |-> ZONE_KERNEL,
                     addr |-> PallocResult(ZONE_KERNEL, i, n), size |-> size]
  <1> USE ZoneFacts
  <1>1. size \in Nat
    BY SizeAssumption DEF Zones
  <1>2. n \in Nat
    BY <1>1, PageCountNat
  <1>3. PICK m \in kernel_reserved_pages .. kernel_mem_pages : PrefixUsed(m)
    BY DEF KernelInv, KernelUsedIsPrefix, PrefixUsed
  <1>4. RunEnds(ZONE_KERNEL, n) # {}
    BY DEF palloc
  <1>5. /\ n >= 1
        /\ i = m + n - 1
        /\ i <= kernel_mem_pages - 1
        /\ head_ptr(ZONE_KERNEL, i) = m
        /\ PallocResult(ZONE_KERNEL, i, n) = KERNEL_BASE + m - 1
    BY <1>2, <1>3, <1>4, KernelPalloc DEF KernelInv
  <1>6. \A p \in 0 .. kernel_mem_pages - 1 :
            status'[p] = IF p \in m .. m + n - 1 THEN MEM_USED ELSE status[p]
    BY <1>2, <1>5 DEF palloc, ZoneBase, Pages
  <1>7. held' = [held EXCEPT ![c] = new]
    <2>1. KERNEL_BASE + m - 1 # NULL
      BY QuarterAssumption DEF KERNEL_BASE, NULL
    <2> QED BY <1>5, <2>1 DEF palloc
  <1>8. new.addr = KERNEL_BASE + m - 1 /\ new.size = size
        /\ new.zone = ZONE_KERNEL
    BY <1>5
  <1> HIDE DEF n, i, new
  <1>9. n = PageCount(size)
    BY DEF n
  <1>10. PrefixUsed(m + n)'
    <2> SUFFICES ASSUME NEW p \in 0 .. kernel_mem_pages - 1
                 PROVE  status'[p] = MEM_USED <=> p < m + n
      BY DEF PrefixUsed
    <2>1. status[p] = MEM_USED <=> p < m
      BY <1>3 DEF PrefixUsed
    <2> QED BY <1>2, <1>6, <2>1
  <1>11. KernelUsedIsPrefix'
    <2>1. m + n \in kernel_reserved_pages .. kernel_mem_pages
      BY <1>2, <1>5
    <2> QED BY <1>10, <2>1 DEF KernelUsedIsPrefix, PrefixUsed
  <1>12. ASSUME NEW d \in Callers, d # c, KernelHeld(d)'
         PROVE  /\ KernelHeld(d) /\ held'[d] = held[d]
                /\ held[d].addr \in Nat /\ PageCount(held[d].size) \in Nat
                /\ KernelBlockOK(held[d])
                /\ held[d].addr + PageCount(held[d].size) < KERNEL_BASE + m
    <2>1. held'[d] = held[d]
      BY <1>7, <1>12 DEF KernelInv, TypeOK
    <2>2. KernelHeld(d)
      BY <2>1, <1>12 DEF KernelHeld, Holds
    <2>3. held[d] \in Block
      BY <2>2 DEF KernelInv, TypeOK, KernelHeld, Holds
    <2>4. held[d].addr \in Nat /\ held[d].size \in Nat
      BY <2>3, QuarterAssumption DEF Block, AnyAddr, AddrSize
    <2>5. PageCount(held[d].size) \in Nat
      BY <2>4, PageCountNat
    <2>6. KernelBlockOK(held[d])
      BY <2>2 DEF KernelInv, KernelBlocksOK
    <2> DEFINE last == held[d].addr - KERNEL_BASE + PageCount(held[d].size)
    <2>7. last \in 0 .. kernel_mem_pages - 1 /\ status[last] = MEM_USED
      BY <2>4, <2>5, <2>6, QuarterAssumption DEF KernelBlockOK, KERNEL_BASE
    <2>8. last < m
      BY <1>3, <2>7 DEF PrefixUsed
    <2> QED
      BY <2>1, <2>2, <2>4, <2>5, <2>6, <2>8, QuarterAssumption DEF KERNEL_BASE
  <1>13. KernelBlocksOK'
    <2> SUFFICES ASSUME NEW d \in Callers, KernelHeld(d)'
                 PROVE  KernelBlockOK(held[d])'
      BY DEF KernelBlocksOK
    <2>1. CASE d = c
      <3>1. held'[c] = new
        BY <1>7 DEF KernelInv, TypeOK
      <3>2. \A p \in m .. m + n - 1 : status'[p] = MEM_USED
        BY <1>2, <1>5, <1>6
      <3> QED
        BY <1>2, <1>5, <1>8, <1>9, <2>1, <3>1, <3>2, QuarterAssumption
        DEF KernelBlockOK, KERNEL_BASE
    <2>2. CASE d # c
      <3>1. KernelBlockOK(held[d]) /\ held'[d] = held[d]
            /\ held[d].addr \in Nat /\ PageCount(held[d].size) \in Nat
        BY <1>12, <2>2
      <3> QED
        BY <1>6, <3>1, QuarterAssumption DEF KernelBlockOK, KERNEL_BASE
    <2> QED BY <2>1, <2>2
  <1>14. KernelBlocksApart'
    <2>1. held'[c] = new
      BY <1>7 DEF KernelInv, TypeOK
    <2>2. \A d \in Callers : d # c /\ KernelHeld(d)' =>
              held'[d].addr + PageCount(held'[d].size) <= held'[c].addr
      BY <1>8, <1>12, <2>1, QuarterAssumption DEF KERNEL_BASE
    <2>3. \A d, e \in Callers :
              d # c /\ e # c /\ d # e /\ KernelHeld(d)' /\ KernelHeld(e)' =>
                 \/ held'[d].addr + PageCount(held'[d].size) <= held'[e].addr
                 \/ held'[e].addr + PageCount(held'[e].size) <= held'[d].addr
      BY <1>12 DEF KernelInv, KernelBlocksApart
    <2> QED BY <2>2, <2>3 DEF KernelBlocksApart
  <1> QED BY <1>11, <1>13, <1>14 DEF KernelInv

\* What pfree and a user palloc do to the kernel zone: nothing, except that
\* pfree makes its caller forget the block.
LEMMA PfreeKernelStep ==
    ASSUME KernelInv, NEW c \in Callers, pfree(c)
    PROVE  /\ \A p \in 0 .. kernel_mem_pages - 1 : status'[p] = status[p]
           /\ \A d \in Callers : KernelHeld(d)' =>
                                     KernelHeld(d) /\ held'[d] = held[d]
  <1>1. Holds(c)
    BY DEF pfree, Holds
  <1>2. \A p \in 0 .. kernel_mem_pages - 1 : status'[p] = status[p]
    BY <1>1, FreeOutsideKernelZone, ZoneFacts DEF pfree, Pages
  <1>3. \A d \in Callers : held'[d] = IF d = c THEN None ELSE held[d]
    BY DEF pfree, KernelInv, TypeOK
  <1> QED BY <1>2, <1>3 DEF KernelHeld, Holds

\* palloc in the user zone preserves KernelInv: it marks no kernel page.
LEMMA UserPallocKernelStep ==
    ASSUME KernelInv, NEW c \in Callers, NEW size \in Requests[ZONE_USER],
           palloc(c, ZONE_USER, size)
    PROVE  /\ \A p \in 0 .. kernel_mem_pages - 1 : status'[p] = status[p]
           /\ \A d \in Callers : KernelHeld(d)' =>
                                     KernelHeld(d) /\ held'[d] = held[d]
  <1> DEFINE n == PageCount(size)
             i == FirstRunEnd(ZONE_USER, n)
             first == ZoneBase(ZONE_USER) + head_ptr(ZONE_USER, i)
  <1>1. n \in Nat
    BY SizeAssumption, PageCountNat DEF Zones
  <1>2. i \in Nat
    BY <1>1, FirstRunEndFacts DEF palloc, RunEnds, Zones
  <1>3. \A p \in 0 .. kernel_mem_pages - 1 : p \notin first .. first + n - 1
    BY <1>1, <1>2, UserPallocOutsideKernelZone
  <1>4. \A p \in 0 .. kernel_mem_pages - 1 : status'[p] = status[p]
    BY <1>3, ZoneFacts DEF palloc, Pages
  <1>5. \A d \in Callers :
            \/ held'[d] = held[d]
            \/ held'[d].zone = ZONE_USER
    BY DEF palloc, KernelInv, TypeOK
  <1> QED
    BY <1>4, <1>5 DEF KernelHeld, Holds, ZONE_USER, ZONE_KERNEL

\* KernelInv is inductive, and a used kernel page stays used.
LEMMA KernelInvStep ==
    ASSUME KernelInv, TypeOK', [Next]_vars
    PROVE  /\ KernelInv'
           /\ \A p \in 0 .. kernel_mem_pages - 1 :
                  status[p] = MEM_USED => status'[p] = MEM_USED
  <1>1. ASSUME NEW c \in Callers, NEW size \in Requests[ZONE_KERNEL],
               palloc(c, ZONE_KERNEL, size)
        PROVE  /\ KernelInv'
               /\ \A p \in 0 .. kernel_mem_pages - 1 :
                      status[p] = MEM_USED => status'[p] = MEM_USED
    <2>1. KernelInv'
      BY <1>1, KernelPallocStep
    <2>2. \A p \in Pages : status[p] = MEM_USED => status'[p] = MEM_USED
      BY <1>1 DEF palloc
    <2> QED BY <2>1, <2>2, ZoneFacts DEF Pages
  <1>2. ASSUME NEW c \in Callers, NEW size \in Requests[ZONE_USER],
               palloc(c, ZONE_USER, size)
        PROVE  /\ KernelInv'
               /\ \A p \in 0 .. kernel_mem_pages - 1 : status'[p] = status[p]
    BY <1>2, UserPallocKernelStep, KernelUntouched
  <1>3. ASSUME NEW c \in Callers, pfree(c)
        PROVE  /\ KernelInv'
               /\ \A p \in 0 .. kernel_mem_pages - 1 : status'[p] = status[p]
    BY <1>3, PfreeKernelStep, KernelUntouched
  <1>4. ASSUME UNCHANGED vars
        PROVE  /\ KernelInv'
               /\ \A p \in 0 .. kernel_mem_pages - 1 : status'[p] = status[p]
    BY <1>4, KernelUntouched DEF vars, KernelHeld, Holds
  <1> QED
    BY <1>1, <1>2, <1>3, <1>4 DEF Next, Zones, palloc_fails

\* KernelInv holds in every reachable state.
LEMMA KernelInvAlways == Spec => []KernelInv
  <1>1. Spec => []TypeOK
    BY TypeCorrect
  <1>2. KernelInv /\ TypeOK' /\ [Next]_vars => KernelInv'
    BY KernelInvStep
  <1> QED BY <1>1, <1>2, KernelInvInit, PTL DEF Spec

\* The used pages of the kernel zone are always a prefix of it, whatever is
\* allocated and freed, in both zones and in any order.
THEOREM KernelZoneHasNoHoles == Spec => []KernelUsedIsPrefix
  <1>1. KernelInv => KernelUsedIsPrefix
    BY DEF KernelInv
  <1> QED BY <1>1, KernelInvAlways, PTL

\* A kernel palloc never returns memory of the kernel image or the bytemap
\* below the last reserved page.
THEOREM KernelBlocksClearOfImage == Spec => []KernelBlocksAboveImage
  <1>1. KernelInv => KernelBlocksAboveImage
    <2> SUFFICES ASSUME KernelInv, NEW c \in Callers, KernelHeld(c)
                 PROVE  lin2phy(held[c].addr) \in
                           kernel_reserved_pages - 1 .. kernel_mem_pages - 1
      BY DEF KernelBlocksAboveImage, KernelHeld
    <2>1. held[c].addr \in Nat /\ held[c].size \in Nat
      BY QuarterAssumption
      DEF KernelInv, TypeOK, KernelHeld, Holds, Block, AnyAddr, AddrSize
    <2>2. PageCount(held[c].size) \in Nat
      BY <2>1, PageCountNat
    <2>3. KernelBlockOK(held[c])
      BY DEF KernelInv, KernelBlocksOK
    <2> QED
      BY <2>1, <2>2, <2>3, ZoneFacts, QuarterAssumption
      DEF KernelBlockOK, lin2phy, KERNEL_BASE
  <1> QED BY <1>1, KernelInvAlways, PTL

\* pfree never gives a page of the kernel zone back.
THEOREM KernelZoneOnlyGrows == Spec => KernelPagesNeverReclaimed
  <1>1. KernelInv /\ TypeOK' /\ [Next]_vars =>
            [\A p \in 0 .. kernel_mem_pages - 1 :
                status[p] = MEM_USED => status'[p] = MEM_USED]_vars
    BY KernelInvStep
  <1> QED
    BY <1>1, KernelInvAlways, TypeCorrect, PTL
    DEF Spec, KernelPagesNeverReclaimed

-----------------------------------------------------------------------------
(* The user zone, when every user request is for at most one page.  With a *)
(* longer request the properties fail: head_ptr falls behind a free run    *)
(* that was too short, and the wrong bytes are marked.                     *)

OnePageUserRequests == \A size \in Requests[ZONE_USER] : size <= PAGE_SIZE

UserHeld(c) == Holds(c) /\ held[c].zone = ZONE_USER

\* The index in the user zone of the byte that stands for a user block.
UserSlot(b) == IF b.addr = AddrSize - 1 THEN 0 ELSE b.addr + 1

UserBlockOK(b) ==
    /\ PageCount(b.size) = 1
    /\ b.size <= PAGE_SIZE
    /\ UserSlot(b) <= user_mem_pages - 1
    /\ status[kernel_mem_pages + UserSlot(b)] = MEM_USED

UserInv ==
    /\ \A c \in Callers : UserHeld(c) => UserBlockOK(held[c])
    /\ \A c, d \in Callers : c # d /\ UserHeld(c) /\ UserHeld(d) =>
            held[c].addr # held[d].addr

\* A request of at most one page is for no page or for one.
LEMMA OnePage == ASSUME NEW size \in Nat, size <= PAGE_SIZE, size > 0
                 PROVE  PageCount(size) = 1
  <1>1. PAGE_SIZE \in Nat \ {0}
    BY SizeAssumption
  <1>2. CASE size = PAGE_SIZE
    <2>1. size \div PAGE_SIZE = 1 /\ size % PAGE_SIZE = 0
      BY <1>1, <1>2
    <2> QED BY <2>1 DEF PageCount
  <1>3. CASE size < PAGE_SIZE
    <2>1. size \div PAGE_SIZE = 0 /\ size % PAGE_SIZE = size
      BY <1>1, <1>3
    <2> QED BY <2>1 DEF PageCount
  <1> QED BY <1>1, <1>2, <1>3

\* A request of no byte takes no page.
LEMMA NoPage == PageCount(0) = 0
  <1>1. PAGE_SIZE \in Nat \ {0}
    BY SizeAssumption
  <1>2. 0 \div PAGE_SIZE = 0 /\ 0 % PAGE_SIZE = 0
    BY <1>1
  <1> QED BY <1>2 DEF PageCount

\* A search for one page ends at the first unused page, with head_ptr there.
LEMMA UserPalloc ==
    ASSUME TypeOK, RunEnds(ZONE_USER, 1) # {}
    PROVE  LET i == FirstRunEnd(ZONE_USER, 1)
           IN  /\ i \in 0 .. user_mem_pages - 1
               /\ status[kernel_mem_pages + i] # MEM_USED
               /\ head_ptr(ZONE_USER, i) = i
               /\ PallocResult(ZONE_USER, i, 1) =
                    IF i = 0 THEN AddrSize - 1 ELSE i - 1
  <1> DEFINE i == FirstRunEnd(ZONE_USER, 1)
  <1> USE ZoneFacts
  <1>1. /\ i \in RunEnds(ZONE_USER, 1)
        /\ \A j \in RunEnds(ZONE_USER, 1) : i <= j
    BY FirstRunEndFacts DEF Zones
  <1> HIDE DEF i
  <1>2. ZoneLen(ZONE_USER) = user_mem_pages
        /\ ZoneBase(ZONE_USER) = kernel_mem_pages
    BY DEF ZoneLen, ZoneBase, ZONE_USER, ZONE_KERNEL
  <1>3. i \in 0 .. user_mem_pages - 1 /\ ~ Used(ZONE_USER, i)
    BY <1>1, <1>2 DEF RunEnds
  <1>4. \A j \in 0 .. i : Used(ZONE_USER, j) <=> j < i
    <2> SUFFICES ASSUME NEW j \in 0 .. i, j < i PROVE Used(ZONE_USER, j)
      BY <1>3
    <2>1. j \notin RunEnds(ZONE_USER, 1)
      BY <1>1, <1>3
    <2> QED BY <1>2, <1>3, <2>1 DEF RunEnds
  <1>5. head_ptr(ZONE_USER, i) = i
    <2>1. {j \in 0 .. i : Used(ZONE_USER, j)} = 0 .. i - 1
      BY <1>3, <1>4
    <2>2. Cardinality(0 .. i - 1) = i
      <3>1. 0 \in Int /\ i - 1 \in Int
        BY <1>3
      <3>2. Cardinality(0 .. i - 1) = IF 0 > i - 1 THEN 0 ELSE (i - 1) - 0 + 1
        BY <3>1, FS_Interval
      <3> QED BY <1>3, <3>2
    <2> QED BY <2>1, <2>2 DEF head_ptr
  <1>6. PallocResult(ZONE_USER, i, 1) = IF i = 0 THEN AddrSize - 1 ELSE i - 1
    <2>1. AddrSize \in Nat \ {0}
      BY QuarterAssumption DEF AddrSize
    <2>2. PallocResult(ZONE_USER, i, 1) = (i - 1) % AddrSize
      BY DEF PallocResult, ZONE_USER, ZONE_KERNEL
    <2>3. CASE i = 0
      BY <2>1, <2>2, <2>3, ModMinusOne, SMTT(30)
    <2>4. CASE i # 0
      <3>1. i - 1 \in 0 .. AddrSize - 1
        BY <1>3, <2>4, QuarterAssumption DEF AddrSize, KERNEL_BASE
      <3>2. (i - 1) % AddrSize = i - 1
        BY <2>1, <3>1, ModSmall
      <3> QED BY <2>2, <2>4, <3>2
    <2> QED BY <2>3, <2>4
  <1>7. status[kernel_mem_pages + i] # MEM_USED
    BY <1>2, <1>3 DEF Used
  <1> QED BY <1>3, <1>5, <1>6, <1>7 DEF i

\* A user block of at most one page: what it is made of.
LEMMA UserBlockFacts ==
    ASSUME TypeOK, UserInv, NEW c \in Callers, UserHeld(c)
    PROVE  /\ held[c].addr \in 0 .. AddrSize - 1 /\ held[c].size \in Nat
           /\ UserBlockOK(held[c])
           /\ kernel_mem_pages + UserSlot(held[c]) \in Pages
           /\ UserSlot(held[c]) \in Nat
  <1>1. held[c].addr \in 0 .. AddrSize - 1 /\ held[c].size \in Nat
    BY DEF TypeOK, UserHeld, Holds, Block, AnyAddr
  <1>2. UserBlockOK(held[c])
    BY DEF UserInv
  <1>3. UserSlot(held[c]) \in Nat
    BY <1>1, QuarterAssumption DEF UserSlot, AddrSize
  <1> QED BY <1>1, <1>2, <1>3, ZoneFacts DEF UserBlockOK, Pages

\* pfree of a user block clears at most the byte that stands for it.
LEMMA UserFreeOwnSlot ==
    ASSUME TypeOK, UserInv, NEW c \in Callers, UserHeld(c),
           NEW p \in Pages, p \in FreeIndexes(held[c])
    PROVE  p = kernel_mem_pages + UserSlot(held[c])
  <1> DEFINE b == held[c]
  <1>1. /\ b.addr \in 0 .. AddrSize - 1 /\ b.size \in Nat
        /\ b.size <= PAGE_SIZE
    BY UserBlockFacts DEF UserBlockOK
  <1>2. PAGE_SIZE \in Nat \ {0}
    BY SizeAssumption
  <1>3. b.size \div PAGE_SIZE \in {0, 1}
    BY <1>1, <1>2
  <1>4. FreeCount(b.size) <= 2 /\ FreeCount(b.size) \in Int
    BY <1>3 DEF FreeCount
  <1>5. ZoneBase(b.zone) = kernel_mem_pages
    BY DEF UserHeld, ZoneBase, ZONE_USER, ZONE_KERNEL
  <1>6. PICK j \in 1 .. FreeCount(b.size) - 1 :
            p = kernel_mem_pages + b.addr + j
    BY <1>5 DEF FreeIndexes
  <1>7. p = kernel_mem_pages + b.addr + 1
    BY <1>4, <1>6
  <1>8. b.addr # AddrSize - 1
    BY <1>1, <1>7, ZoneFacts, QuarterAssumption DEF Pages, AddrSize, KERNEL_BASE
  <1> QED BY <1>1, <1>7, <1>8, ZoneFacts DEF UserSlot

\* pfree of a kernel block writes no byte of the bytemap.
LEMMA KernelFreeOutside ==
    ASSUME KernelInv, NEW c \in Callers, KernelHeld(c), NEW p \in Pages
    PROVE  p \notin FreeIndexes(held[c])
  <1> DEFINE b == held[c]
  <1>1. b.addr \in Nat /\ b.size \in Nat
    BY QuarterAssumption
    DEF KernelInv, TypeOK, KernelHeld, Holds, Block, AnyAddr, AddrSize
  <1>2. FreeCount(b.size) \in Int
    BY <1>1, FreeCountInt
  <1>3. b.addr >= KERNEL_BASE + kernel_reserved_pages - 1
    BY DEF KernelInv, KernelBlocksOK, KernelBlockOK
  <1> QED
    BY <1>1, <1>2, <1>3, ZoneFacts, QuarterAssumption
    DEF FreeIndexes, ZoneBase, KernelHeld, KERNEL_BASE, Pages

\* Whatever keeps the bytes of the user blocks that stay held used, and
\* hands out no user block, keeps UserInv.
LEMMA UserKept ==
    ASSUME TypeOK, UserInv,
           \A d \in Callers : UserHeld(d)' =>
               /\ UserHeld(d) /\ held'[d] = held[d]
               /\ status'[kernel_mem_pages + UserSlot(held[d])] = MEM_USED
    PROVE  UserInv'
  <1>1. \A d \in Callers : UserHeld(d)' => UserBlockOK(held[d])'
    <2> SUFFICES ASSUME NEW d \in Callers, UserHeld(d)'
                 PROVE  UserBlockOK(held[d])'
      OBVIOUS
    <2>1. /\ UserHeld(d) /\ held'[d] = held[d]
          /\ status'[kernel_mem_pages + UserSlot(held[d])] = MEM_USED
      OBVIOUS
    <2>2. UserBlockOK(held[d])
      BY <2>1 DEF UserInv
    <2> QED BY <2>1, <2>2 DEF UserBlockOK, UserSlot
  <1>2. \A c, d \in Callers : c # d /\ UserHeld(c)' /\ UserHeld(d)' =>
            held'[c].addr # held'[d].addr
    BY DEF UserInv
  <1> QED BY <1>1, <1>2 DEF UserInv

\* A user palloc of at most one page keeps UserInv: the byte it marks was
\* not used, so that it stands for no other block.
LEMMA UserPallocStep ==
    ASSUME OnePageUserRequests, TypeOK, UserInv, NEW c \in Callers,
           NEW size \in Requests[ZONE_USER], palloc(c, ZONE_USER, size)
    PROVE  UserInv'
  <1> DEFINE i == FirstRunEnd(ZONE_USER, 1)
             ret == IF i = 0 THEN AddrSize - 1 ELSE i - 1
             new == [zone |-> ZONE_USER, addr |-> ret, size |-> size]
  <1> USE ZoneFacts
  <1>1. size \in Nat /\ size <= PAGE_SIZE
    BY SizeAssumption DEF Zones, OnePageUserRequests
  <1>2. RunEnds(ZONE_USER, PageCount(size)) # {}
    BY DEF palloc
  <1>3. PageCount(size) = 1
    <2>1. size # 0
      BY <1>2, NoPage DEF RunEnds
    <2> QED BY <1>1, <2>1, OnePage
  <1>4. /\ i \in 0 .. user_mem_pages - 1
        /\ status[kernel_mem_pages + i] # MEM_USED
        /\ head_ptr(ZONE_USER, i) = i
        /\ PallocResult(ZONE_USER, i, 1) = ret
    BY <1>2, <1>3, UserPalloc
  <1>5. ZoneBase(ZONE_USER) = kernel_mem_pages
    BY DEF ZoneBase, ZONE_USER, ZONE_KERNEL
  <1>6. \A p \in Pages :
            status'[p] = IF p = kernel_mem_pages + i
                         THEN MEM_USED ELSE status[p]
    BY <1>3, <1>4, <1>5 DEF palloc
  <1>7. held' = IF ret = NULL THEN held ELSE [held EXCEPT ![c] = new]
    BY <1>3, <1>4 DEF palloc
  <1>8. ret \in 0 .. AddrSize - 1 /\ UserSlot(new) = i
    BY <1>4, QuarterAssumption DEF UserSlot, AddrSize, KERNEL_BASE
  <1>9. held[c] = None
    BY DEF palloc
  <1> HIDE DEF i
  <1>10. \A d \in Callers : UserHeld(d) =>
            /\ status'[kernel_mem_pages + UserSlot(held[d])] = MEM_USED
            /\ held[d].addr # ret
    <2> SUFFICES ASSUME NEW d \in Callers, UserHeld(d)
                 PROVE  /\ status'[kernel_mem_pages + UserSlot(held[d])]
                              = MEM_USED
                        /\ held[d].addr # ret
      OBVIOUS
    <2>1. /\ UserBlockOK(held[d])
          /\ kernel_mem_pages + UserSlot(held[d]) \in Pages
          /\ UserSlot(held[d]) \in Nat
      BY UserBlockFacts
    <2>2. UserSlot(held[d]) # i
      BY <1>4, <2>1 DEF UserBlockOK
    <2>3. held[d].addr # ret
      BY <1>8, <2>2 DEF UserSlot
    <2>4. status'[kernel_mem_pages + UserSlot(held[d])] = MEM_USED
      BY <1>6, <2>1 DEF UserBlockOK
    <2> QED BY <2>3, <2>4
  <1>11. CASE ret = NULL
    <2>1. held' = held
      BY <1>7, <1>11
    <2> QED BY <1>10, <2>1, UserKept DEF UserHeld, Holds
  <1>12. CASE ret # NULL
    <2>1. \A d \in Callers : held'[d] = IF d = c THEN new ELSE held[d]
      BY <1>7, <1>12 DEF TypeOK
    <2> HIDE DEF ret
    <2>2. \A d \in Callers : d # c /\ UserHeld(d)' =>
              UserHeld(d) /\ held'[d] = held[d]
      BY <2>1 DEF UserHeld, Holds
    <2>3. UserBlockOK(held[c])'
      <3>1. kernel_mem_pages + i \in Pages
        BY <1>4 DEF Pages
      <3>2. status'[kernel_mem_pages + i] = MEM_USED
        BY <1>6, <3>1
      <3>3. held'[c] = new
        BY <2>1
      <3> QED BY <1>1, <1>3, <1>4, <1>8, <3>2, <3>3 DEF UserBlockOK, UserSlot
    <2>4. \A d \in Callers : UserHeld(d)' => UserBlockOK(held[d])'
      <3> SUFFICES ASSUME NEW d \in Callers, UserHeld(d)', d # c
                   PROVE  UserBlockOK(held[d])'
        BY <2>3
      <3>1. UserHeld(d) /\ held'[d] = held[d] /\ UserBlockOK(held[d])
        BY <2>2 DEF UserInv
      <3> QED BY <1>10, <3>1 DEF UserBlockOK, UserSlot
    <2>5. \A d, e \in Callers : d # e /\ UserHeld(d)' /\ UserHeld(e)' =>
              held'[d].addr # held'[e].addr
      BY <1>10, <2>1, <2>2 DEF UserInv
    <2> QED BY <2>4, <2>5 DEF UserInv
  <1> QED BY <1>11, <1>12

\* UserInv is inductive, together with KernelInv.
LEMMA UserInvStep ==
    ASSUME OnePageUserRequests, KernelInv, UserInv, [Next]_vars
    PROVE  UserInv'
  <1>1. TypeOK
    BY DEF KernelInv
  <1>2. ASSUME NEW c \in Callers, NEW size \in Requests[ZONE_KERNEL],
               palloc(c, ZONE_KERNEL, size)
        PROVE  UserInv'
    <2>1. \A d \in Callers :
              \/ held'[d] = held[d]
              \/ held'[d].zone = ZONE_KERNEL
      BY <1>1, <1>2 DEF palloc, TypeOK
    <2>2. \A d \in Callers : UserHeld(d)' =>
              UserHeld(d) /\ held'[d] = held[d]
      BY <2>1 DEF UserHeld, Holds, ZONE_USER, ZONE_KERNEL
    <2>3. \A p \in Pages : status[p] = MEM_USED => status'[p] = MEM_USED
      BY <1>2 DEF palloc
    <2>4. \A d \in Callers : UserHeld(d) =>
              status'[kernel_mem_pages + UserSlot(held[d])] = MEM_USED
      BY <1>1, <2>3, UserBlockFacts DEF UserBlockOK
    <2> QED BY <1>1, <2>2, <2>4, UserKept
  <1>3. ASSUME NEW c \in Callers, pfree(c)
        PROVE  UserInv'
    <2>1. \A d \in Callers : held'[d] = IF d = c THEN None ELSE held[d]
      BY <1>1, <1>3 DEF pfree, TypeOK
    <2>2. \A d \in Callers : UserHeld(d)' =>
              UserHeld(d) /\ held'[d] = held[d] /\ d # c
      BY <2>1 DEF UserHeld, Holds
    <2>3. ASSUME NEW d \in Callers, UserHeld(d), d # c
          PROVE  status'[kernel_mem_pages + UserSlot(held[d])] = MEM_USED
      <3> DEFINE q == kernel_mem_pages + UserSlot(held[d])
      <3>1. q \in Pages /\ status[q] = MEM_USED
        BY <1>1, <2>3, UserBlockFacts DEF UserBlockOK
      <3>2. q \notin FreeIndexes(held[c])
        <4>1. held[c] \in Block /\ Holds(c)
          BY <1>1, <1>3 DEF pfree, TypeOK, Holds
        <4>2. CASE held[c].zone = ZONE_KERNEL
          BY <3>1, <4>1, <4>2, KernelFreeOutside DEF KernelHeld
        <4>3. CASE held[c].zone = ZONE_USER
          <5>1. UserHeld(c)
            BY <4>1, <4>3 DEF UserHeld
          <5>2. held[c].addr # held[d].addr
            BY <2>3, <5>1 DEF UserInv
          <5>3. held[c].addr \in 0 .. AddrSize - 1
                /\ held[d].addr \in 0 .. AddrSize - 1
            BY <1>1, <2>3, <5>1, UserBlockFacts
          <5>4. UserSlot(held[c]) # UserSlot(held[d])
            BY <5>2, <5>3, QuarterAssumption DEF UserSlot, AddrSize
          <5>5. UserSlot(held[c]) \in Nat /\ UserSlot(held[d]) \in Nat
            BY <1>1, <2>3, <5>1, UserBlockFacts
          <5>6. q # kernel_mem_pages + UserSlot(held[c])
            BY <5>4, <5>5, ZoneFacts
          <5> QED BY <1>1, <3>1, <5>1, <5>6, UserFreeOwnSlot
        <4> QED BY <4>1, <4>2, <4>3 DEF Block, Zones
      <3> QED BY <1>3, <3>1, <3>2 DEF pfree
    <2> QED BY <1>1, <2>2, <2>3, UserKept
  <1>4. ASSUME UNCHANGED vars PROVE UserInv'
    <2>1. \A d \in Callers : UserHeld(d)' =>
              UserHeld(d) /\ held'[d] = held[d] /\ UserBlockOK(held[d])
      BY <1>4 DEF vars, UserHeld, Holds, UserInv
    <2> QED BY <1>1, <1>4, <2>1, UserKept DEF vars, UserBlockOK
  <1> QED
    BY <1>1, <1>2, <1>3, <1>4, UserPallocStep DEF Next, Zones, palloc_fails

\* UserInv is an invariant of the specification.
LEMMA UserInvAlways ==
    ASSUME OnePageUserRequests PROVE Spec => []UserInv
  <1>1. Init => UserInv
    BY DEF Init, UserInv, UserHeld, Holds
  <1>2. KernelInv /\ UserInv /\ [Next]_vars => UserInv'
    BY UserInvStep
  <1> QED BY <1>1, <1>2, KernelInvAlways, PTL DEF Spec

\* The bytes that stand for a block in hand, as the two invariants give them.
LEMMA SlotsOfBlocks ==
    ASSUME KernelInv, UserInv, NEW c \in Callers, Holds(c),
           NEW p \in Slots(held[c])
    PROVE  p \in Pages /\ status[p] = MEM_USED
  <1> DEFINE b == held[c]
             n == PageCount(b.size)
  <1>1. b \in Block
    BY DEF KernelInv, TypeOK, Holds
  <1>2. b.zone \in Zones /\ b.addr \in 0 .. AddrSize - 1 /\ b.size \in Nat
    BY <1>1 DEF Block, AnyAddr
  <1>3. n \in Nat
    BY <1>2, PageCountNat
  <1>4. AddrSize \in Nat \ {0}
    BY QuarterAssumption DEF AddrSize
  <1>5. PICK j \in 0 .. n - 1 :
            p = ZoneBase(b.zone) + ((ZonePage(b) + 1 + j) % AddrSize)
    BY DEF Slots
  <1>6. CASE b.zone = ZONE_KERNEL
    <2>1. KernelBlockOK(b)
      BY <1>6 DEF KernelInv, KernelBlocksOK, KernelHeld
    <2>2. ZonePage(b) = b.addr - KERNEL_BASE
      BY <1>2, <1>6, <2>1, ZoneFacts, QuarterAssumption
      DEF ZonePage, lin2phy, KernelBlockOK, KERNEL_BASE, AddrSize
    <2> DEFINE q == b.addr - KERNEL_BASE + 1 + j
    <2>3. /\ q \in 0 .. kernel_mem_pages - 1 /\ q \in 0 .. AddrSize - 1
          /\ status[q] = MEM_USED
      BY <1>2, <1>3, <2>1, ZoneFacts, QuarterAssumption
      DEF KernelBlockOK, KERNEL_BASE, AddrSize
    <2>4. q % AddrSize = q
      BY <1>4, <2>3, ModSmall
    <2>5. p = q
      BY <1>5, <1>6, <2>2, <2>3, <2>4 DEF ZoneBase
    <2> QED BY <2>3, <2>5, ZoneFacts DEF Pages
  <1>7. CASE b.zone = ZONE_USER
    <2>1. UserHeld(c) /\ TypeOK
      BY <1>7 DEF UserHeld, KernelInv
    <2>2. UserBlockOK(b) /\ kernel_mem_pages + UserSlot(b) \in Pages
      BY <2>1, UserBlockFacts
    <2>3. j = 0
      BY <2>2 DEF UserBlockOK
    <2>4. ZoneBase(b.zone) = kernel_mem_pages /\ ZonePage(b) = b.addr
      BY <1>7 DEF ZoneBase, ZonePage, ZONE_USER, ZONE_KERNEL
    <2>5. (b.addr + 1) % AddrSize = UserSlot(b)
      <3>1. CASE b.addr = AddrSize - 1
        <4>1. (b.addr + 1) % AddrSize = 0
          BY <1>4, <3>1
        <4> QED BY <3>1, <4>1 DEF UserSlot
      <3>2. CASE b.addr # AddrSize - 1
        <4>1. b.addr + 1 \in 0 .. AddrSize - 1
          BY <1>2, <1>4, <3>2
        <4> QED BY <1>4, <3>2, <4>1, ModSmall DEF UserSlot
      <3> QED BY <3>1, <3>2
    <2>6. p = kernel_mem_pages + UserSlot(b)
      <3>1. ZonePage(b) + 1 + j = b.addr + 1
        BY <1>2, <2>3, <2>4
      <3> QED BY <1>5, <2>4, <2>5, <3>1
    <2> QED BY <2>2, <2>6 DEF UserBlockOK
  <1> QED BY <1>2, <1>6, <1>7 DEF Zones

\* If no user request exceeds a page, the bytemap tracks the blocks: the
\* bytes of a block in hand are marked, whatever the other callers allocate
\* and free.
THEOREM BytemapCorrect ==
    ASSUME OnePageUserRequests PROVE Spec => []BytemapTracksBlocks
  <1>1. KernelInv /\ UserInv => BytemapTracksBlocks
    BY SlotsOfBlocks DEF BytemapTracksBlocks
  <1> QED BY <1>1, KernelInvAlways, UserInvAlways, PTL

\* No address of a block wraps around: the pages its owner sees.
LEMMA PagesOfBlocks ==
    ASSUME KernelInv, UserInv, NEW c \in Callers, Holds(c),
           NEW p \in BlockPages(held[c])
    PROVE  p \in held[c].addr .. held[c].addr + PageCount(held[c].size) - 1
  <1> DEFINE b == held[c]
             n == PageCount(b.size)
  <1>1. b \in Block
    BY DEF KernelInv, TypeOK, Holds
  <1>2. b.zone \in Zones /\ b.addr \in 0 .. AddrSize - 1 /\ b.size \in Nat
    BY <1>1 DEF Block, AnyAddr
  <1>3. n \in Nat
    BY <1>2, PageCountNat
  <1>4. AddrSize \in Nat \ {0}
    BY QuarterAssumption DEF AddrSize
  <1>5. PICK j \in 0 .. n - 1 : p = (b.addr + j) % AddrSize
    BY DEF BlockPages
  <1>6. b.addr + j \in 0 .. AddrSize - 1
    <2>1. CASE b.zone = ZONE_KERNEL
      <3>1. KernelBlockOK(b)
        BY <2>1 DEF KernelInv, KernelBlocksOK, KernelHeld
      <3> QED
        BY <1>2, <1>3, <3>1, ZoneFacts, QuarterAssumption
        DEF KernelBlockOK, KERNEL_BASE, AddrSize
    <2>2. CASE b.zone = ZONE_USER
      <3>1. n = 1
        BY <2>2 DEF UserInv, UserHeld, UserBlockOK
      <3> QED BY <1>2, <3>1
    <2> QED BY <1>2, <2>1, <2>2 DEF Zones
  <1>7. p = b.addr + j
    BY <1>4, <1>5, <1>6, ModSmall
  <1> QED BY <1>2, <1>3, <1>7

\* If no user request exceeds a page, no page is handed out twice: two
\* blocks of one zone that are in hand at the same time share no page.
THEOREM NoDoubleAllocation ==
    ASSUME OnePageUserRequests PROVE Spec => []BlocksDisjoint
  <1>1. ASSUME KernelInv, UserInv, NEW c \in Callers, NEW d \in Callers,
               c # d, Holds(c), Holds(d), held[c].zone = held[d].zone,
               NEW p \in BlockPages(held[c]), p \in BlockPages(held[d])
        PROVE  FALSE
    <2> USE <1>1
    <2>1. held[c] \in Block /\ held[d] \in Block
      BY DEF KernelInv, TypeOK, Holds
    <2>2. /\ held[c].zone \in Zones
          /\ held[c].addr \in Nat /\ held[c].size \in Nat
          /\ held[d].addr \in Nat /\ held[d].size \in Nat
      BY <2>1, QuarterAssumption DEF Block, AnyAddr, AddrSize
    <2>3. PageCount(held[c].size) \in Nat /\ PageCount(held[d].size) \in Nat
      BY <2>2, PageCountNat
    <2>4. /\ p \in held[c].addr
                     .. held[c].addr + PageCount(held[c].size) - 1
          /\ p \in held[d].addr
                     .. held[d].addr + PageCount(held[d].size) - 1
      BY PagesOfBlocks
    <2>5. CASE held[c].zone = ZONE_KERNEL
      <3>1. \/ held[c].addr + PageCount(held[c].size) <= held[d].addr
            \/ held[d].addr + PageCount(held[d].size) <= held[c].addr
        BY <2>5 DEF KernelInv, KernelBlocksApart, KernelHeld
      <3> QED BY <2>2, <2>3, <2>4, <3>1
    <2>6. CASE held[c].zone = ZONE_USER
      <3>1. /\ held[c].addr # held[d].addr
            /\ PageCount(held[c].size) = 1 /\ PageCount(held[d].size) = 1
        BY <2>6 DEF UserInv, UserHeld, UserBlockOK
      <3> QED BY <2>2, <2>4, <3>1
    <2> QED BY <2>2, <2>5, <2>6 DEF Zones
  <1>2. KernelInv /\ UserInv => BlocksDisjoint
    BY <1>1 DEF BlocksDisjoint
  <1> QED BY <1>2, KernelInvAlways, UserInvAlways, PTL

\* The loop of pfree over a user block of one whole page: it starts at 1 and
\* FreeCount is 2, so that it passes the one byte that stands for the block.
LEMMA WholePageFree ==
    ASSUME PAGE_SIZE > 1, TypeOK, UserInv, NEW c \in Callers, UserHeld(c),
           held[c].size % PAGE_SIZE = 0, held[c].addr # AddrSize - 1
    PROVE  /\ FreeIndexes(held[c]) = {kernel_mem_pages + held[c].addr + 1}
           /\ Slots(held[c]) = {kernel_mem_pages + held[c].addr + 1}
           /\ kernel_mem_pages + held[c].addr + 1 \in Pages
           /\ status[kernel_mem_pages + held[c].addr + 1] = MEM_USED
  <1> DEFINE b == held[c]
  <1>1. /\ b.addr \in 0 .. AddrSize - 1 /\ b.size \in Nat
        /\ UserBlockOK(b) /\ kernel_mem_pages + UserSlot(b) \in Pages
    BY UserBlockFacts
  <1>2. PAGE_SIZE \in Nat \ {0, 1}
    BY SizeAssumption
  <1>3. AddrSize \in Nat \ {0} /\ kernel_mem_pages \in Nat
    BY QuarterAssumption, ZoneFacts DEF AddrSize
  <1>4. ZoneBase(b.zone) = kernel_mem_pages /\ ZonePage(b) = b.addr
    BY DEF UserHeld, ZoneBase, ZonePage, ZONE_USER, ZONE_KERNEL
  <1>5. UserSlot(b) = b.addr + 1
    BY DEF UserSlot
  <1>6. FreeIndexes(b) = {kernel_mem_pages + b.addr + 1}
    <2>1. b.size # 0
      BY <1>1, NoPage DEF UserBlockOK
    <2>2. b.size = PAGE_SIZE
      <3> SUFFICES ASSUME b.size < PAGE_SIZE PROVE FALSE
        BY <1>1, <1>2 DEF UserBlockOK
      <3>1. b.size % PAGE_SIZE = b.size
        BY <1>1, <1>2, ModSmall
      <3> QED BY <2>1, <3>1
    <2>3. b.size \div PAGE_SIZE = 1
      BY <1>2, <2>2
    <2>4. 1 % PAGE_SIZE = 1
      BY <1>2, ModSmall
    <2>5. FreeCount(b.size) = 2
      BY <2>3, <2>4 DEF FreeCount
    <2>6. 1 .. FreeCount(b.size) - 1 = {1}
      BY <2>5
    <2> QED BY <1>4, <2>6 DEF FreeIndexes
  <1>7. Slots(b) = {kernel_mem_pages + b.addr + 1}
    <2>1. 0 .. PageCount(b.size) - 1 = {0}
      BY <1>1 DEF UserBlockOK
    <2>2. b.addr + 1 + 0 \in 0 .. AddrSize - 1
      BY <1>1, <1>3
    <2>3. (b.addr + 1 + 0) % AddrSize = b.addr + 1
      BY <1>1, <1>3, <2>2, ModSmall
    <2>4. Slots(b) = {kernel_mem_pages + ((b.addr + 1 + 0) % AddrSize)}
      BY <1>4, <2>1 DEF Slots
    <2> QED BY <1>1, <1>3, <2>3, <2>4
  <1>8. kernel_mem_pages + (b.addr + 1) = kernel_mem_pages + b.addr + 1
    BY <1>1, <1>3
  <1> QED BY <1>1, <1>5, <1>6, <1>7, <1>8 DEF UserBlockOK

\* If no user request exceeds a page, pfree undoes palloc in the user zone: of
\* a whole page it clears exactly the byte palloc marked, whatever happened in
\* between, and it writes nothing outside the bytemap.  The counts of its loop
\* need pages of more than one byte.
THEOREM UserFreesAreExact ==
    ASSUME OnePageUserRequests, PAGE_SIZE > 1 PROVE Spec => UserFreeIsExact
  <1> DEFINE Exact(c) == /\ {p \in Pages : status'[p] # status[p]}
                               = Slots(held[c])
                         /\ stray' = stray
             Freed(c) == /\ Holds(c) /\ held'[c] = None
                         /\ held[c].zone = ZONE_USER
                         /\ held[c].size % PAGE_SIZE = 0
                         /\ held[c].addr # AddrSize - 1
             A == \A c \in Callers : Freed(c) => Exact(c)
  <1>1. ASSUME TypeOK, UserInv, [Next]_vars, NEW c \in Callers, Freed(c)
        PROVE  Exact(c)
    <2> USE <1>1
    <2>1. pfree(c)
      <3>1. ~ UNCHANGED vars
        BY DEF vars, Holds
      <3>2. ASSUME NEW d \in Callers, NEW z \in Zones,
                   NEW size \in Requests[z],
                   palloc(d, z, size) \/ palloc_fails(d, z, size)
            PROVE  FALSE
        <4>1. held[d] = None /\ d # c
          BY <3>2 DEF palloc, palloc_fails, Holds
        <4>2. held'[c] = held[c]
          BY <3>2, <4>1 DEF palloc, palloc_fails, vars, TypeOK
        <4> QED BY <4>2 DEF Holds
      <3>3. ASSUME NEW d \in Callers, pfree(d), d # c PROVE FALSE
        <4>1. held'[c] = held[c]
          BY <3>3 DEF pfree, TypeOK
        <4> QED BY <4>1 DEF Holds
      <3> QED BY <3>1, <3>2, <3>3 DEF Next
    <2> DEFINE q == kernel_mem_pages + held[c].addr + 1
    <2>2. /\ FreeIndexes(held[c]) = {q} /\ Slots(held[c]) = {q}
          /\ q \in Pages /\ status[q] = MEM_USED
      BY WholePageFree DEF UserHeld
    <2> HIDE DEF q
    <2>3. \A p \in Pages :
              status'[p] = IF p = q THEN MEM_UNUSED ELSE status[p]
      BY <2>1, <2>2 DEF pfree
    <2>4. {p \in Pages : status'[p] # status[p]} = {q}
      BY <2>2, <2>3 DEF MEM_USED, MEM_UNUSED
    <2>5. stray' = stray
      BY <2>1, <2>2 DEF pfree, TypeOK
    <2> QED BY <2>2, <2>4, <2>5
  <1>2. TypeOK /\ UserInv /\ [Next]_vars => [A]_vars
    BY <1>1
  <1>3. KernelInv => TypeOK
    BY DEF KernelInv
  <1>4. Spec => [][A]_vars
    BY <1>2, <1>3, KernelInvAlways, UserInvAlways, PTL DEF Spec
  <1> QED BY <1>4 DEF UserFreeIsExact

=============================================================================
