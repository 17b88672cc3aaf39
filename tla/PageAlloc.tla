------------------------------ MODULE PageAlloc ------------------------------
(***************************************************************************)
(* The page allocator of mm/buddy.c: a byte per physical page says whether *)
(* the page is used.  The bytemap lies behind the kernel image; the bytes  *)
(* of the kernel zone come first and those of the user zone follow, so a   *)
(* zone is an interval of one array.                                       *)
(*                                                                         *)
(* Addresses are page numbers (an address shifted right by 12), modulo the *)
(* number of pages of the 32-bit address space.  A caller is whoever holds *)
(* the result of one palloc: it asks when it holds nothing and may give    *)
(* the block back, with the size it asked for.                             *)
(***************************************************************************)
EXTENDS AddrMap, FiniteSets

CONSTANTS
    TotalMem,       \* memory in KB, the argument of page_init
    KernelEnd,      \* physical byte address of _kernel_end
    PAGE_SIZE,      \* bytes in a page
    Requests,       \* Requests[zone]: the sizes in bytes callers ask for
    Callers,        \* who may hold a block
    None            \* what a caller without a block holds

VARIABLES
    status,         \* the bytemap: status[p] for every physical page p
    held,           \* held[c]: the block the last palloc gave caller c
    stray           \* whether pfree wrote a byte outside the bytemap

vars == <<status, held, stray>>

MEM_UNUSED == 1
MEM_USED == 2
ZONE_KERNEL == 1
ZONE_USER == 2
Zones == {ZONE_KERNEL, ZONE_USER}

-----------------------------------------------------------------------------
(* page_init: the two zones and the reserved pages.                        *)

kernel_mem_pages == TotalMem \div 16
user_mem_pages == (TotalMem \div 16) * 3
Pages == 0 .. kernel_mem_pages + user_mem_pages - 1

\* The physical address of the first byte behind the bytemap.
memmap_end == KernelEnd + kernel_mem_pages + user_mem_pages

kernel_reserved_pages == (memmap_end \div PAGE_SIZE) + 1

ZoneBase(z) == IF z = ZONE_KERNEL THEN 0 ELSE kernel_mem_pages
ZoneLen(z) == IF z = ZONE_KERNEL THEN kernel_mem_pages ELSE user_mem_pages

ASSUME SizeAssumption ==
    /\ TotalMem \in Nat
    /\ KernelEnd \in Nat
    /\ PAGE_SIZE \in Nat \ {0}
    /\ Requests \in [Zones -> SUBSET Nat]

\* The kernel, its bytemap and one page more fit into the kernel zone.
ASSUME ReservedAssumption == kernel_reserved_pages <= kernel_mem_pages

\* At most 3 GB of memory: page numbers stay below that of KERNEL_BASE.
ASSUME MemoryAssumption == kernel_mem_pages + user_mem_pages <= KERNEL_BASE

Block == [zone : Zones, addr : AnyAddr, size : Nat]

ASSUME NoneAssumption == None \notin Block

\* mutant: the page the bytemap ends in is not reserved
page_init_short ==
    status = [p \in Pages |->
                IF p < kernel_reserved_pages - 1 THEN MEM_USED ELSE MEM_UNUSED]

page_init ==
    status = [p \in Pages |->
                IF p < kernel_reserved_pages THEN MEM_USED ELSE MEM_UNUSED]

-----------------------------------------------------------------------------
(* palloc                                                                  *)

\* The number of pages a request of size bytes takes, rounded up.
PageCount(size) ==
    (size \div PAGE_SIZE) + (IF size % PAGE_SIZE # 0 THEN 1 ELSE 0)

Used(z, i) == status[ZoneBase(z) + i] = MEM_USED

\* The loop stops at the first index that ends a run of n unused pages.  A
\* request of no page never stops it: curr_size wraps below zero.
RunEnds(z, n) ==
    {i \in 0 .. ZoneLen(z) - 1 :
        /\ n > 0
        /\ n <= i + 1
        /\ \A j \in i - n + 1 .. i : ~ Used(z, j)}

FirstRunEnd(z, n) ==
    CHOOSE i \in RunEnds(z, n) : \A j \in RunEnds(z, n) : i <= j

\* mutant: head_ptr is not advanced over used pages
head_ptr_stuck(z, i) == 0

\* head_ptr steps once for every used page passed, not past the whole run
\* that was too short.
head_ptr(z, i) == Cardinality({j \in 0 .. i : Used(z, j)})

\* mutant: the page before the zone is not taken modulo the address space
PallocResult_signed(z, i, n) ==
    IF z = ZONE_KERNEL THEN phy2lin((i - n) % AddrSize) ELSE i - n

\* index - size is the page before the run; in the user zone it is relative
\* to the zone.
PallocResult(z, i, n) ==
    IF z = ZONE_KERNEL THEN phy2lin((i - n) % AddrSize)
                       ELSE (i - n) % AddrSize

\* palloc succeeds: the pages at head_ptr are marked, and the caller holds
\* the block unless its address happens to be the null pointer.
palloc(c, z, size) ==
    LET n == PageCount(size)
        i == FirstRunEnd(z, n)
        first == ZoneBase(z) + head_ptr(z, i)
        ret == PallocResult(z, i, n)
    IN  /\ held[c] = None
        /\ RunEnds(z, n) # {}
        /\ status' = [p \in Pages |->
                        IF p \in first .. first + n - 1
                        THEN MEM_USED ELSE status[p]]
        /\ held' = IF ret = NULL THEN held
                   ELSE [held EXCEPT ![c] =
                            [zone |-> z, addr |-> ret, size |-> size]]
        /\ UNCHANGED stray

\* palloc returns NULL: no run is long enough.
palloc_fails(c, z, size) ==
    /\ held[c] = None
    /\ RunEnds(z, PageCount(size)) = {}
    /\ UNCHANGED vars

-----------------------------------------------------------------------------
(* pfree                                                                   *)

\* pfree tests the remainder after the division.
FreeCount(len) ==
    LET q == len \div PAGE_SIZE
    IN  q + (IF q % PAGE_SIZE # 0 THEN 1 ELSE 0)

\* mutant: the loop starts at the block's own page number
FreeIndexes_from_0(b) ==
    {ZoneBase(b.zone) + b.addr + i : i \in 0 .. FreeCount(b.size) - 2}

\* mutant: the kernel zone's linear address is taken back to a page number
FreeIndexes_lin2phy(b) ==
    LET a == IF b.zone = ZONE_KERNEL THEN lin2phy(b.addr) ELSE b.addr
    IN  {ZoneBase(b.zone) + a + i : i \in 1 .. FreeCount(b.size) - 1}

\* Where pfree writes, relative to the bytemap: the loop starts at 1, and a
\* kernel address is not taken back to a physical one.
FreeIndexes(b) ==
    {ZoneBase(b.zone) + b.addr + i : i \in 1 .. FreeCount(b.size) - 1}

pfree(c) ==
    /\ held[c] # None
    /\ status' = [p \in Pages |->
                    IF p \in FreeIndexes(held[c])
                    THEN MEM_UNUSED ELSE status[p]]
    /\ stray' = (stray \/ \E p \in FreeIndexes(held[c]) : p \notin Pages)
    /\ held' = [held EXCEPT ![c] = None]

-----------------------------------------------------------------------------
Init ==
    /\ page_init
    /\ held = [c \in Callers |-> None]
    /\ stray = FALSE

Next ==
    \E c \in Callers :
        \/ \E z \in Zones : \E size \in Requests[z] :
              palloc(c, z, size) \/ palloc_fails(c, z, size)
        \/ pfree(c)

Spec == Init /\ [][Next]_vars

-----------------------------------------------------------------------------
(* Properties                                                              *)

TypeOK ==
    /\ status \in [Pages -> {MEM_UNUSED, MEM_USED}]
    /\ held \in [Callers -> Block \cup {None}]
    /\ stray \in BOOLEAN

Holds(c) == held[c] # None

\* The pages a block's owner may use, as it sees them.
BlockPages(b) == {(b.addr + j) % AddrSize : j \in 0 .. PageCount(b.size) - 1}

\* The block's first page as a page number of its zone.
ZonePage(b) == IF b.zone = ZONE_KERNEL THEN lin2phy(b.addr) ELSE b.addr

\* The bytes that stand for a block: those behind its own pages' bytes.
Slots(b) ==
    {ZoneBase(b.zone) + ((ZonePage(b) + 1 + j) % AddrSize) :
        j \in 0 .. PageCount(b.size) - 1}

\* No page belongs to two callers: palloc never hands out a page of a block
\* that is still held, whatever was freed in between.
BlocksDisjoint ==
    \A c, d \in Callers :
        /\ c # d /\ Holds(c) /\ Holds(d)
        /\ held[c].zone = held[d].zone
        => BlockPages(held[c]) \cap BlockPages(held[d]) = {}

\* The bytes palloc marked for a block stay MEM_USED while it is held: the
\* pages head_ptr marks are the ones the returned address stands for, and
\* pfree of another block does not clear them.
BytemapTracksBlocks ==
    \A c \in Callers : Holds(c) =>
        \A p \in Slots(held[c]) : p \in Pages /\ status[p] = MEM_USED

\* A kernel block lies above the kernel image and the bytemap, except that
\* it may include the last reserved page (palloc returns the page before
\* the run it marks).
KernelBlocksAboveImage ==
    \A c \in Callers : Holds(c) /\ held[c].zone = ZONE_KERNEL =>
        lin2phy(held[c].addr) \in kernel_reserved_pages - 1
                                    .. kernel_mem_pages - 1

\* The used pages of the kernel zone are a prefix of it: nothing is ever
\* freed there, so that the search for a run never meets a hole.
KernelUsedIsPrefix ==
    \E m \in kernel_reserved_pages .. kernel_mem_pages :
        \A p \in 0 .. kernel_mem_pages - 1 :
            status[p] = MEM_USED <=> p < m

\* pfree gives no kernel page back: the linear address it is passed, not
\* taken back to a physical one, indexes behind the bytemap.
KernelPagesNeverReclaimed ==
    [][\A p \in 0 .. kernel_mem_pages - 1 :
          status[p] = MEM_USED => status'[p] = MEM_USED]_vars

\* pfree of a user block of whole pages clears exactly the bytes palloc
\* marked for it: the loop that starts at 1 and the extra page of FreeCount
\* undo the page palloc is short of.  The block at the very top of the
\* address space, which the first user page's number wraps to, is the
\* exception.  Nothing is written outside the bytemap, not even for the last
\* block of the zone.
UserFreeIsExact ==
    [][\A c \in Callers :
          /\ Holds(c) /\ held'[c] = None
          /\ held[c].zone = ZONE_USER
          /\ held[c].size % PAGE_SIZE = 0
          /\ held[c].addr # AddrSize - 1
          => /\ {p \in Pages : status'[p] # status[p]} = Slots(held[c])
             /\ stray' = stray]_vars

\* What the comment in buddy.c, "build physical mem track bytemap", says of
\* a new block: its pages were unused before.  The code refutes it.
NewBlocksWereUnused ==
    [][\A c \in Callers :
          /\ ~ Holds(c) /\ held'[c] # None
          /\ held'[c].zone = ZONE_KERNEL
          => \A p \in BlockPages(held'[c]) :
                status[lin2phy(p)] = MEM_UNUSED]_vars

\* What the comment in buddy.h, "user zone returns a physical address", says
\* of a user block: its pages lie in the user zone's physical memory, which
\* begins behind the kernel's.  The code refutes it.
UserBlocksArePhysical ==
    \A c \in Callers : Holds(c) /\ held[c].zone = ZONE_USER =>
        BlockPages(held[c]) \subseteq
            kernel_mem_pages .. kernel_mem_pages + user_mem_pages - 1

=============================================================================
