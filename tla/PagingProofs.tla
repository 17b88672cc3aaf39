---------------------------- MODULE PagingProofs -----------------------------
(***************************************************************************)
(* Proofs about paging for every size of the tables, every supply of       *)
(* frames for them and all calls for pages of the user half: the kernel's  *)
(* half of the address space stays what it was at boot, and the mapping    *)
(* operations change the translations they were called for and no others.  *)
(***************************************************************************)
EXTENDS Paging, TLAPS

-----------------------------------------------------------------------------
(* Arithmetic                                                              *)

\* Division with remainder.
LEMMA DivMod ==
  ASSUME NEW a \in Nat, NEW n \in Nat \ {0}
  PROVE  a \div n \in Nat /\ a % n \in 0 .. n - 1 /\ a = n * (a \div n) + (a % n)
  <1>1. a \div n \in Nat
    OBVIOUS
  <1>2. a % n \in 0 .. n - 1
    OBVIOUS
  <1>3. a = n * (a \div n) + (a % n)
    OBVIOUS
  <1> QED BY <1>1, <1>2, <1>3

\* Quotient and remainder are unique.
LEMMA DivUnique ==
  ASSUME NEW n \in Nat \ {0}, NEW q \in Nat, NEW r \in 0 .. n - 1
  PROVE  (n * q + r) \div n = q /\ (n * q + r) % n = r
  <1> DEFINE a == n * q + r
             k == a \div n
             s == a % n
  <1>1. k \in Nat /\ s \in 0 .. n - 1 /\ a = n * k + s /\ a \in Nat
    OBVIOUS
  <1> HIDE DEF k, s
  <1>2. k = q
    <2>1. CASE k < q
      <3>1. n * (q - k) >= n
        BY <2>1, <1>1
      <3>2. n * (q - k) = n * q - n * k
        BY <1>1
      <3> QED BY <1>1, <3>1, <3>2
    <2>2. CASE k > q
      <3>1. n * (k - q) >= n
        BY <2>2, <1>1
      <3>2. n * (k - q) = n * k - n * q
        BY <1>1
      <3> QED BY <1>1, <3>1, <3>2
    <2> QED BY <2>1, <2>2, <1>1
  <1>3. s = r
    BY <1>1, <1>2
  <1> QED BY <1>2, <1>3 DEF k, s

\* Division keeps the order with respect to multiples of the divisor.
LEMMA DivMono ==
  ASSUME NEW n \in Nat \ {0}, NEW a \in Nat, NEW h \in Nat
  PROVE  (a >= n * h => a \div n >= h) /\ (a < n * h => a \div n < h)
  <1> DEFINE k == a \div n
             s == a % n
  <1>1. k \in Nat /\ s \in 0 .. n - 1 /\ a = n * k + s
    BY DivMod
  <1> HIDE DEF k, s
  <1>2. ASSUME a >= n * h, k < h
        PROVE  FALSE
    <2>1. n * (h - k) >= n
      BY <1>2, <1>1
    <2>2. n * (h - k) = n * h - n * k
      BY <1>1
    <2> QED BY <1>1, <1>2, <2>1, <2>2
  <1>3. ASSUME a < n * h, k >= h
        PROVE  FALSE
    <2>1. n * (k - h) >= 0
      BY <1>3, <1>1
    <2>2. n * (k - h) = n * k - n * h
      BY <1>1
    <2> QED BY <1>1, <1>3, <2>1, <2>2
  <1> QED BY <1>1, <1>2, <1>3 DEF k

\* A directory has 4 * Part entries, and each quarter of the address space has
\* Part of them.
Part == Entries \div 4
Half == 2 * Part
Slot == 0 .. Entries - 1

\* The quarters of the address space begin at directory entries.
LEMMA Layout ==
  /\ Entries \in Nat \ {0} /\ Part \in Nat \ {0} /\ Quarter \in Nat \ {0}
  /\ Entries = 4 * Part
  /\ Quarter = Entries * Part
  /\ AddrSize = Entries * Entries
  /\ 2 * Quarter = Entries * Half
  /\ KERNEL_BASE = Entries * (3 * Part)
  <1>1. Entries \in Nat /\ Quarter \in Nat \ {0} /\ Entries * Entries = 4 * Quarter
    BY PagingAssumption, QuarterAssumption DEF AddrSize
  <1>2. Entries # 0
    BY <1>1
  <1>3. Part \in Nat /\ Entries = 4 * Part
    BY <1>1, PagingAssumption DEF Part
  <1>4. Entries * Entries = 4 * (Entries * Part)
    BY <1>1, <1>3
  <1>5. Quarter = Entries * Part
    <2> DEFINE x == Entries * Part
    <2>1. x \in Nat
      BY <1>1, <1>3
    <2> HIDE DEF x
    <2>2. 4 * x = 4 * Quarter
      BY <1>1, <1>4 DEF x
    <2>3. x = Quarter
      BY <2>1, <2>2, <1>1
    <2> QED BY <2>3 DEF x
  <1>6. 2 * Quarter = Entries * Half /\ KERNEL_BASE = Entries * (3 * Part)
    BY <1>1, <1>3, <1>5 DEF Half, KERNEL_BASE
  <1> QED BY <1>1, <1>2, <1>3, <1>5, <1>6 DEF AddrSize

\* A linear page is the entry of a directory and an entry below it.
LEMMA Split ==
  ASSUME NEW lin \in AnyAddr
  PROVE  /\ lin \in Nat
         /\ lin \div Entries \in Slot
         /\ lin % Entries \in Slot
         /\ lin = Entries * (lin \div Entries) + (lin % Entries)
         /\ lin < 2 * Quarter <=> lin \div Entries < Half
         /\ lin < KERNEL_BASE <=> lin \div Entries < 3 * Part
  <1>1. lin \in Nat /\ lin < Entries * Entries
    BY Layout DEF AnyAddr
  <1>2. /\ lin \div Entries \in Nat /\ lin % Entries \in Slot
        /\ lin = Entries * (lin \div Entries) + (lin % Entries)
    BY <1>1, Layout, DivMod DEF Slot
  <1>3. lin \div Entries < Entries
    BY <1>1, Layout, DivMono
  <1>4. /\ lin < Entries * Half <=> lin \div Entries < Half
        /\ lin < Entries * (3 * Part) <=> lin \div Entries < 3 * Part
    <2>1. Half \in Nat /\ 3 * Part \in Nat
      BY Layout DEF Half
    <2>2. /\ lin >= Entries * Half => lin \div Entries >= Half
          /\ lin < Entries * Half => lin \div Entries < Half
          /\ lin >= Entries * (3 * Part) => lin \div Entries >= 3 * Part
          /\ lin < Entries * (3 * Part) => lin \div Entries < 3 * Part
      BY <1>1, <2>1, Layout, DivMono
    <2> QED BY <1>1, <1>2, <2>1, <2>2, Layout
  <1> QED BY <1>1, <1>2, <1>3, <1>4, Layout DEF Slot

\* Two pages with the same entry and the same entry below it are the same.
LEMMA SplitUnique ==
  ASSUME NEW a \in AnyAddr, NEW b \in AnyAddr,
         a \div Entries = b \div Entries, a % Entries = b % Entries
  PROVE  a = b
  BY Split

\* Where the index of the directory entry is a multiple of four, the mask that
\* is too wide does no harm.
LEMMA OwnEntryIndex ==
  ASSUME NEW virt \in AnyAddr, OwnEntry(virt)
  PROVE  /\ pte_index(virt) \div Entries = 0
         /\ pte_index(virt) % Entries = virt % Entries
  <1> DEFINE i == virt \div Entries
             r == virt % Entries
             j == i \div 4
  <1>1. i \in Slot /\ r \in Slot /\ virt = Entries * i + r
    BY Split
  <1>2. i \in Nat /\ j \in Nat /\ i = 4 * j
    BY <1>1, Layout DEF OwnEntry, pde_index, Slot
  <1> HIDE DEF i, r, j
  <1>3. Entries * i = (4 * Entries) * j
    BY <1>2, Layout
  <1>4. 4 * Entries \in Nat \ {0} /\ r \in 0 .. 4 * Entries - 1
    BY <1>1, Layout DEF Slot
  <1>5. virt = (4 * Entries) * j + r
    BY <1>1, <1>3
  <1>6. virt % (4 * Entries) = r
    BY <1>2, <1>4, <1>5, DivUnique
  <1>7. r \div Entries = 0 /\ r % Entries = r
    <2>1. Entries * 0 + r = r
      BY <1>1, Layout DEF Slot
    <2> QED BY <2>1, <1>1, Layout, DivUnique, SMTT(30) DEF Slot
  <1> QED BY <1>6, <1>7 DEF pte_index, r

\* The indices map_page computes stay inside a page behind the table.
LEMMA IndexInside ==
  ASSUME NEW virt \in AnyAddr
  PROVE  pte_index(virt) % Entries \in Slot
  <1>1. pte_index(virt) \in Nat
    BY Split, Layout DEF pte_index
  <1> QED BY <1>1, Layout, DivMod DEF Slot

-----------------------------------------------------------------------------
(* The inductive invariant                                                 *)

Directories == [Slot -> [present : BOOLEAN, pse : BOOLEAN, addr : AnyAddr]]
PageTables == [Slot -> [present : BOOLEAN, addr : AnyAddr]]

\* The entries of the upper half are the ones of boot.
UpperKept(d) == \A i \in Slot : i >= Half => d[i] = BootDirectory[i]

\* The tables are in frames palloc had for them.
Typed(t) == DOMAIN t \subseteq TableFrames /\ \A f \in DOMAIN t : t[f] \in PageTables

\* A directory entry in use points to a table that no other one points to.
HasTable(d, i) == d[i].present /\ ~ d[i].pse
TablesApart(d, t) ==
    /\ \A i \in Slot : HasTable(d, i) => d[i].addr \in DOMAIN t
    /\ \A i, j \in Slot : HasTable(d, i) /\ HasTable(d, j) /\ i # j => d[i].addr # d[j].addr

DirectoryOK(d, t) == d \in Directories /\ UpperKept(d) /\ Typed(t) /\ TablesApart(d, t)

PagingInv ==
    /\ DirectoryOK(pd, tables)
    /\ fault \in {"none", "page_fault", "overwrite"}

\* The calls are for pages of the user half.
UserCalls == Virts \subseteq 0 .. 2 * Quarter - 1

\* The type invariant, in the terms of this module.
LEMMA InvTyped == PagingInv => TypeOK
  BY DEF PagingInv, DirectoryOK, TypeOK, Directories, Typed, PageTables, Slot

\* The entries at boot are 4 MB pages in the upper half and none below.
LEMMA BootEntries ==
  ASSUME NEW i \in Slot
  PROVE  /\ i >= 3 * Part => BootDirectory[i] = HugePde(i * Entries - KERNEL_BASE)
                             /\ i * Entries - KERNEL_BASE \in AnyAddr
         /\ i >= Half /\ i < 3 * Part =>
               BootDirectory[i] = HugePde(i * Entries + Quarter)
               /\ i * Entries + Quarter \in AnyAddr
         /\ i < Half => BootDirectory[i] = Zero
  <1> DEFINE a == i * Entries
  <1>1. i \in Nat /\ i < Entries /\ a \in Nat
    BY Layout DEF Slot
  <1>2. a = Entries * i
    BY <1>1, Layout
  <1>3. (Entries * i + 0) \div Entries = i
    BY <1>1, Layout, DivUnique
  <1>4. a \div Entries = i
    BY <1>1, <1>2, <1>3, Layout
  <1>5. a + Entries <= AddrSize
    <2>1. Entries * (Entries - 1 - i) >= 0
      BY <1>1, Layout
    <2>2. Entries * (Entries - 1 - i) = Entries * Entries - Entries - Entries * i
      BY <1>1, Layout
    <2> QED BY <1>1, <1>2, <2>1, <2>2, Layout
  <1>6. a \in AnyAddr
    BY <1>1, <1>5, Layout DEF AnyAddr, AddrSize
  <1>7. /\ a < 2 * Quarter <=> i < Half
        /\ a < KERNEL_BASE <=> i < 3 * Part
    BY <1>4, <1>6, Split
  <1>8. BootDirectory[i] = IF a >= KERNEL_BASE THEN HugePde(a - KERNEL_BASE)
                           ELSE IF a >= 2 * Quarter THEN HugePde(a + Quarter)
                           ELSE Zero
    BY DEF BootDirectory, Slot
  <1>9. Half \in Nat /\ 3 * Part \in Nat /\ Half < 3 * Part
    BY Layout DEF Half
  <1> HIDE DEF a
  <1>10. CASE i >= 3 * Part
    <2>1. a >= KERNEL_BASE /\ a - KERNEL_BASE \in AnyAddr
      BY <1>1, <1>6, <1>7, <1>10, <1>9, Layout DEF AnyAddr, KERNEL_BASE, AddrSize
    <2> QED BY <1>1, <1>8, <1>9, <1>10, <2>1 DEF a
  <1>11. CASE i >= Half /\ i < 3 * Part
    <2>1. a >= 2 * Quarter /\ ~ (a >= KERNEL_BASE) /\ a + Quarter \in AnyAddr
      BY <1>1, <1>6, <1>7, <1>11, <1>9, Layout DEF AnyAddr, KERNEL_BASE, AddrSize
    <2> QED BY <1>1, <1>8, <1>9, <1>11, <2>1 DEF a
  <1>12. CASE i < Half
    <2>1. ~ (a >= 2 * Quarter) /\ ~ (a >= KERNEL_BASE)
      BY <1>1, <1>6, <1>7, <1>12, <1>9, Layout DEF AnyAddr, KERNEL_BASE, AddrSize
    <2> QED BY <1>1, <1>8, <1>9, <1>12, <2>1 DEF a
  <1> QED BY <1>1, <1>9, <1>10, <1>11, <1>12

\* The processor's walk and lin2phy agree on the upper half.
LEMMA WalkUpper ==
  ASSUME NEW d, NEW t, UpperKept(d), NEW lin \in 2 * Quarter .. AddrSize - 1
  PROVE  Walk(d, t, lin) = lin2phy(lin)
  <1> DEFINE i == lin \div Entries
             r == lin % Entries
  <1>1. lin \in AnyAddr /\ lin >= 2 * Quarter
    BY Layout DEF AnyAddr, AddrSize
  <1>2. i \in Slot /\ r \in Slot /\ lin = Entries * i + r
    BY <1>1, Split
  <1>3. i >= Half
    BY <1>1, <1>2, Split, Layout DEF Half, Slot, AnyAddr
  <1>4. d[i] = BootDirectory[i]
    BY <1>2, <1>3 DEF UpperKept
  <1>5. i * Entries = Entries * i /\ i * Entries \in Nat /\ r \in Nat /\ i \in Nat
    BY <1>2, Layout DEF Slot
  <1>6. CASE i >= 3 * Part
    <2>1. d[i] = HugePde(i * Entries - KERNEL_BASE)
      BY <1>2, <1>4, <1>6, BootEntries
    <2>2. lin >= KERNEL_BASE
      BY <1>1, <1>2, <1>6, Split, Layout DEF Slot, AnyAddr, KERNEL_BASE
    <2>3. Walk(d, t, lin) = (i * Entries - KERNEL_BASE) + r
      BY <2>1 DEF Walk, HugePde
    <2>4. KERNEL_BASE \in Int
      BY QuarterAssumption DEF KERNEL_BASE
    <2>5. (i * Entries - KERNEL_BASE) + r = (i * Entries + r) - KERNEL_BASE
      BY <1>5, <2>4
    <2> QED BY <1>2, <1>5, <2>2, <2>3, <2>5 DEF lin2phy
  <1>7. CASE i < 3 * Part
    <2>1. d[i] = HugePde(i * Entries + Quarter)
      BY <1>2, <1>3, <1>4, <1>7, BootEntries
    <2>2. ~ (lin >= KERNEL_BASE)
      BY <1>1, <1>2, <1>7, Split, Layout DEF Slot, AnyAddr, KERNEL_BASE
    <2>3. Walk(d, t, lin) = (i * Entries + Quarter) + r
      BY <2>1 DEF Walk, HugePde
    <2>4. (i * Entries + Quarter) + r = lin + Quarter
      BY <1>2, <1>5, Layout
    <2> QED BY <1>1, <2>2, <2>3, <2>4 DEF lin2phy
  <1> QED BY <1>2, <1>6, <1>7, Layout DEF Slot

\* phy2lin undoes lin2phy on the upper half and has no address for the two
\* quarters that are not mapped there.
LEMMA MapsInverse ==
  /\ \A lin \in 2 * Quarter .. AddrSize - 1 : phy2lin(lin2phy(lin)) = lin
  /\ \A phy \in Quarter .. KERNEL_BASE - 1 : phy2lin(phy) = NULL
  <1>1. ASSUME NEW lin \in 2 * Quarter .. AddrSize - 1
        PROVE  phy2lin(lin2phy(lin)) = lin
    <2>1. CASE lin >= KERNEL_BASE
      <3>1. lin2phy(lin) = lin - KERNEL_BASE /\ lin - KERNEL_BASE <= Quarter
            /\ (lin - KERNEL_BASE) + KERNEL_BASE = lin /\ lin \in 0 .. AddrSize - 1
        BY <2>1, QuarterAssumption DEF lin2phy, KERNEL_BASE, AddrSize
      <3>2. lin % AddrSize = lin
        BY <3>1, QuarterAssumption DEF AddrSize
      <3> QED BY <3>1, <3>2 DEF phy2lin
    <2>2. CASE ~ (lin >= KERNEL_BASE)
      BY <2>2, QuarterAssumption DEF phy2lin, lin2phy, KERNEL_BASE, AddrSize
    <2> QED BY <2>1, <2>2
  <1>2. ASSUME NEW phy \in Quarter .. KERNEL_BASE - 1
        PROVE  phy2lin(phy) = NULL
    <2>1. CASE phy = Quarter
      <3>1. phy <= Quarter /\ phy + KERNEL_BASE = AddrSize
        BY <2>1, QuarterAssumption DEF KERNEL_BASE, AddrSize
      <3>2. AddrSize % AddrSize = 0
        BY QuarterAssumption DEF AddrSize
      <3> QED BY <3>1, <3>2 DEF phy2lin, NULL
    <2>2. CASE phy # Quarter
      BY <2>2, QuarterAssumption DEF phy2lin, KERNEL_BASE, NULL
    <2> QED BY <2>1, <2>2
  <1> QED BY <1>1, <1>2

\* With the invariant the kernel's half is mapped as mm/mmap.c computes it.
LEMMA InvSound == PagingInv => MapSound
  BY InvTyped, WalkUpper, MapsInverse
     DEF PagingInv, DirectoryOK, MapSound, AddressMapHolds, Mapped

\* head.s and arch_init leave a directory without tables.
LEMMA PagingInvInit == Init => PagingInv
  <1> SUFFICES ASSUME Init
               PROVE  PagingInv
    OBVIOUS
  <1>1. ASSUME NEW i \in Slot
        PROVE  /\ BootDirectory[i] \in [present : BOOLEAN, pse : BOOLEAN, addr : AnyAddr]
               /\ ~ HasTable(BootDirectory, i)
    <2>1. 0 \in AnyAddr
      BY QuarterAssumption DEF AnyAddr, AddrSize
    <2>2. BootDirectory[i] = Zero \/ \E a \in AnyAddr : BootDirectory[i] = HugePde(a)
      <3>1. CASE i >= 3 * Part
        BY <3>1, BootEntries
      <3>2. CASE i >= Half /\ i < 3 * Part
        BY <3>2, BootEntries
      <3>3. CASE i < Half
        BY <3>3, BootEntries
      <3> QED BY <3>1, <3>2, <3>3, Layout DEF Half, Slot
    <2>3. CASE BootDirectory[i] = Zero
      BY <2>1, <2>3 DEF Zero, HasTable
    <2>4. ASSUME NEW a \in AnyAddr, BootDirectory[i] = HugePde(a)
          PROVE  /\ BootDirectory[i] \in [present : BOOLEAN, pse : BOOLEAN, addr : AnyAddr]
                 /\ ~ HasTable(BootDirectory, i)
      BY <2>4 DEF HugePde, HasTable
    <2> QED BY <2>2, <2>3, <2>4
  <1>2. BootDirectory \in Directories
    <2>1. BootDirectory = [i \in Slot |-> BootDirectory[i]]
      BY DEF BootDirectory, Slot
    <2> QED BY <1>1, <2>1 DEF Directories
  <1>3. pd = BootDirectory /\ DOMAIN tables = {} /\ fault = "none"
    BY DEF Init
  <1> QED BY <1>1, <1>2, <1>3 DEF PagingInv, DirectoryOK, UpperKept, Typed, TablesApart

-----------------------------------------------------------------------------
(* Changes of a directory and of its tables                                *)

\* An entry of the user half may become a 4 MB page or none.
LEMMA SetDirectoryEntry ==
  ASSUME NEW d, NEW t, DirectoryOK(d, t), NEW i \in Slot, i < Half,
         NEW x \in [present : BOOLEAN, pse : BOOLEAN, addr : AnyAddr],
         x.present => x.pse
  PROVE  /\ DirectoryOK([d EXCEPT ![i] = x], t)
         /\ \A lin \in AnyAddr : lin \div Entries # i =>
               Walk([d EXCEPT ![i] = x], t, lin) = Walk(d, t, lin)
  <1> DEFINE c == [d EXCEPT ![i] = x]
  <1>1. d \in Directories /\ c \in Directories /\ c[i] = x
        /\ \A j \in Slot : j # i => c[j] = d[j]
    BY DEF DirectoryOK, Directories
  <1> HIDE DEF c
  <1>2. UpperKept(c)
    BY <1>1, Layout DEF DirectoryOK, UpperKept, Half, Slot
  <1>3. ~ HasTable(c, i) /\ \A j \in Slot : j # i => (HasTable(c, j) <=> HasTable(d, j))
    BY <1>1 DEF HasTable
  <1>4. TablesApart(c, t)
    BY <1>1, <1>3 DEF DirectoryOK, TablesApart
  <1>5. DirectoryOK(c, t)
    BY <1>1, <1>2, <1>4 DEF DirectoryOK
  <1>6. \A lin \in AnyAddr : lin \div Entries # i => Walk(c, t, lin) = Walk(d, t, lin)
    BY <1>1, Split DEF Walk
  <1> QED BY <1>5, <1>6 DEF c

ZeroTable == [e \in 0 .. Entries - 1 |-> ZeroPte]
WithTable(t, f) == [g \in DOMAIN t \cup {f} |-> IF g = f THEN ZeroTable ELSE t[g]]

\* An entry of the user half that is not in use may get an empty table from a
\* frame that holds none.  No page is mapped by that.
LEMMA AddTable ==
  ASSUME NEW d, NEW t, DirectoryOK(d, t), NEW i \in Slot, i < Half,
         ~ d[i].present, NEW f \in TableFrames \ DOMAIN t
  PROVE  /\ DirectoryOK([d EXCEPT ![i] = Pde(f)], WithTable(t, f))
         /\ \A lin \in AnyAddr :
               Walk([d EXCEPT ![i] = Pde(f)], WithTable(t, f), lin) = Walk(d, t, lin)
  <1> DEFINE c == [d EXCEPT ![i] = Pde(f)]
             u == WithTable(t, f)
  <1>1. Pde(f) \in [present : BOOLEAN, pse : BOOLEAN, addr : AnyAddr] /\ 0 \in AnyAddr
    BY PagingAssumption, QuarterAssumption DEF Pde, AnyAddr, AddrSize
  <1>2. d \in Directories /\ c \in Directories /\ c[i] = Pde(f)
        /\ \A j \in Slot : j # i => c[j] = d[j]
    BY <1>1 DEF DirectoryOK, Directories
  <1>3. ZeroTable \in PageTables /\ \A e \in Slot : ~ ZeroTable[e].present
    BY <1>1 DEF ZeroTable, PageTables, ZeroPte, Slot
  <1>4. DOMAIN u = DOMAIN t \cup {f} /\ u[f] = ZeroTable
        /\ \A g \in DOMAIN t : u[g] = t[g]
    BY DEF WithTable
  <1> HIDE DEF c, u
  <1>5. Typed(u)
    BY <1>3, <1>4 DEF DirectoryOK, Typed
  <1>6. UpperKept(c)
    BY <1>2, Layout DEF DirectoryOK, UpperKept, Half, Slot
  <1>7. \A j \in Slot : j # i => (HasTable(c, j) <=> HasTable(d, j)) /\ c[j].addr = d[j].addr
    BY <1>2 DEF HasTable
  <1>8. c[i].addr = f /\ c[i].present /\ ~ c[i].pse
    BY <1>2 DEF Pde
  <1>9. TablesApart(c, u)
    <2>1. \A j \in Slot : j # i /\ HasTable(c, j) => c[j].addr \in DOMAIN t
      BY <1>7 DEF DirectoryOK, TablesApart
    <2>2. \A j \in Slot : HasTable(c, j) => c[j].addr \in DOMAIN u
      BY <1>4, <1>8, <2>1
    <2>3. ASSUME NEW j \in Slot, NEW k \in Slot, HasTable(c, j), HasTable(c, k), j # k
          PROVE  c[j].addr # c[k].addr
      <3>1. CASE j = i
        BY <3>1, <2>3, <2>1, <1>8
      <3>2. CASE k = i
        BY <3>2, <2>3, <2>1, <1>8
      <3>3. CASE j # i /\ k # i
        BY <3>3, <2>3, <1>7 DEF DirectoryOK, TablesApart
      <3> QED BY <3>1, <3>2, <3>3
    <2> QED BY <2>2, <2>3 DEF TablesApart
  <1>10. DirectoryOK(c, u)
    BY <1>2, <1>5, <1>6, <1>9 DEF DirectoryOK
  <1>11. ASSUME NEW lin \in AnyAddr
         PROVE  Walk(c, u, lin) = Walk(d, t, lin)
    <2>1. lin \div Entries \in Slot /\ lin % Entries \in Slot
      BY Split
    <2>2. CASE lin \div Entries = i
      BY <2>1, <2>2, <1>3, <1>4, <1>8 DEF Walk
    <2>3. CASE lin \div Entries # i
      <3>1. c[lin \div Entries] = d[lin \div Entries]
        BY <2>1, <2>3, <1>2
      <3>2. HasTable(d, lin \div Entries) => d[lin \div Entries].addr \in DOMAIN t
        BY <2>1 DEF DirectoryOK, TablesApart
      <3> QED BY <3>1, <3>2, <1>4 DEF Walk, HasTable
    <2> QED BY <2>2, <2>3
  <1> QED BY <1>10, <1>11 DEF c, u

\* Entry e of the table in frame f is that of page lin.
EntryOf(d, lin, f, e) ==
    HasTable(d, lin \div Entries) /\ d[lin \div Entries].addr = f /\ lin % Entries = e

Put(t, f, e, p) == [t EXCEPT ![f][e] = p]

\* Writing an entry of a table changes the translation of at most the page
\* that the table's directory entry and the index in the table make up.
LEMMA WriteEntry ==
  ASSUME NEW d, NEW t, DirectoryOK(d, t), NEW f \in DOMAIN t, NEW e \in Slot,
         NEW p \in [present : BOOLEAN, addr : AnyAddr]
  PROVE  /\ DirectoryOK(d, Put(t, f, e, p))
         /\ \A lin \in AnyAddr : EntryOf(d, lin, f, e) =>
               /\ Walk(d, Put(t, f, e, p), lin) =
                     IF p.present THEN p.addr ELSE Unmapped
               /\ Walk(d, t, lin) = IF t[f][e].present THEN t[f][e].addr ELSE Unmapped
         /\ \A lin \in AnyAddr : ~ EntryOf(d, lin, f, e) =>
               Walk(d, Put(t, f, e, p), lin) = Walk(d, t, lin)
  <1> DEFINE u == Put(t, f, e, p)
  <1>1. t[f] \in PageTables
    BY DEF DirectoryOK, Typed
  <1>2. DOMAIN u = DOMAIN t /\ u[f] = [t[f] EXCEPT ![e] = p]
        /\ \A g \in DOMAIN t : g # f => u[g] = t[g]
    BY DEF Put
  <1> HIDE DEF u
  <1>3. u[f] \in PageTables /\ u[f][e] = p /\ \A k \in Slot : k # e => u[f][k] = t[f][k]
    BY <1>1, <1>2 DEF PageTables
  <1>4. DirectoryOK(d, u)
    BY <1>2, <1>3 DEF DirectoryOK, Typed, TablesApart
  <1>5. ASSUME NEW lin \in AnyAddr, EntryOf(d, lin, f, e)
        PROVE  /\ Walk(d, u, lin) = IF p.present THEN p.addr ELSE Unmapped
               /\ Walk(d, t, lin) = IF t[f][e].present THEN t[f][e].addr ELSE Unmapped
    BY <1>2, <1>3, <1>5 DEF Walk, HasTable, EntryOf
  <1>6. ASSUME NEW lin \in AnyAddr, ~ EntryOf(d, lin, f, e)
        PROVE  Walk(d, u, lin) = Walk(d, t, lin)
    BY <1>2, <1>3, <1>6, Split DEF Walk, HasTable, EntryOf
  <1> QED BY <1>4, <1>5, <1>6 DEF u

-----------------------------------------------------------------------------
(* Invariance                                                              *)

\* The second half of map_page keeps the invariant.
LEMMA SetEntryInv ==
  ASSUME PagingInv, NEW d, NEW t, DirectoryOK(d, t), NEW base,
         NEW virt \in AnyAddr, NEW phy \in AnyAddr, SetEntry(d, t, base, virt, phy)
  PROVE  PagingInv'
  <1> DEFINE f == Walk(d, t, base + (pte_index(virt) \div Entries))
             e == pte_index(virt) % Entries
  <1>1. e \in Slot
    BY IndexInside
  <1>2. \/ UNCHANGED <<pd, tables>>
        \/ pd' = d /\ tables' = t
        \/ f \in DOMAIN t /\ pd' = d /\ tables' = [t EXCEPT ![f][e] = Pte(phy)]
    BY DEF SetEntry, Crash, Returns
  <1>3. fault' \in {"none", "page_fault", "overwrite"}
    BY DEF SetEntry, Crash, Returns, PagingInv
  <1>4. Pte(phy) \in [present : BOOLEAN, addr : AnyAddr]
    BY DEF Pte
  <1> HIDE DEF f, e
  <1>5. DirectoryOK(pd', tables')
    BY <1>1, <1>2, <1>4, WriteEntry DEF PagingInv, Put
  <1> QED BY <1>3, <1>5 DEF PagingInv

\* A page of the user half is below one of the first entries of the directory.
LEMMA UserPage ==
  ASSUME UserCalls, NEW virt \in Virts
  PROVE  /\ virt \in AnyAddr
         /\ pde_index(virt) \in Slot /\ pde_index(virt) < Half
  <1>1. virt \in AnyAddr /\ virt < 2 * Quarter
    BY PagingAssumption, QuarterAssumption DEF UserCalls
  <1> QED BY <1>1, Split DEF pde_index

\* The first page of the 4 MB that map_huge_page maps.
LEMMA HugeAddress ==
  ASSUME NEW phy \in AnyAddr
  PROVE  (phy \div Entries) * Entries \in AnyAddr
  <1>1. /\ phy \div Entries \in Nat /\ phy % Entries \in Nat /\ phy \in Nat
        /\ phy = Entries * (phy \div Entries) + (phy % Entries)
    BY Split DEF Slot
  <1>2. /\ (phy \div Entries) * Entries = Entries * (phy \div Entries)
        /\ Entries * (phy \div Entries) \in Nat
    BY <1>1, Layout
  <1>3. Entries * (phy \div Entries) <= phy
    BY <1>1, <1>2
  <1> QED BY <1>1, <1>2, <1>3, Layout DEF AnyAddr, AddrSize

\* map_huge_page keeps the invariant.
LEMMA MapHugeInv ==
  ASSUME UserCalls, PagingInv, NEW virt \in Virts, NEW phy \in Phys,
         map_huge_page(phy, virt)
  PROVE  PagingInv'
  <1> DEFINE i == pde_index(virt)
             x == HugePde((phy \div Entries) * Entries)
  <1>1. i \in Slot /\ i < Half
    BY UserPage
  <1>2. x \in [present : BOOLEAN, pse : BOOLEAN, addr : AnyAddr] /\ (x.present => x.pse)
    BY PagingAssumption, HugeAddress DEF HugePde
  <1>3. fault' = fault
    BY DEF map_huge_page, Returns
  <1>4. tables' = tables /\ (pd' = pd \/ pd' = [pd EXCEPT ![i] = x])
    BY DEF map_huge_page
  <1> HIDE DEF i, x
  <1>5. DirectoryOK(pd', tables')
    BY <1>1, <1>2, <1>4, SetDirectoryEntry DEF PagingInv
  <1> QED BY <1>3, <1>5 DEF PagingInv

\* map_page keeps the invariant.
LEMMA MapInv ==
  ASSUME UserCalls, PagingInv, NEW virt \in Virts, NEW phy \in Phys,
         map_page(phy, virt)
  PROVE  PagingInv'
  <1> DEFINE i == pde_index(virt)
  <1>1. i \in Slot /\ i < Half /\ virt \in AnyAddr /\ phy \in AnyAddr
    BY UserPage, PagingAssumption
  <1>2. CASE UNCHANGED <<pd, tables>> /\ Returns("map_page", virt, phy, -1)
    BY <1>2 DEF Returns, PagingInv
  <1>3. CASE Crash("page_fault", virt, phy)
    BY <1>3 DEF Crash, PagingInv
  <1>4. ASSUME ~ pd[i].present, NEW f \in TableFrames \ DOMAIN tables,
               SetEntry([pd EXCEPT ![i] = Pde(f)], WithTable(tables, f),
                        f + KERNEL_BASE, virt, phy)
        PROVE  PagingInv'
    <2>1. DirectoryOK([pd EXCEPT ![i] = Pde(f)], WithTable(tables, f))
      BY <1>1, <1>4, AddTable DEF PagingInv
    <2> QED BY <1>1, <1>4, <2>1, SetEntryInv
  <1>5. CASE SetEntry(pd, tables, pd[i].addr, virt, phy)
    <2>1. DirectoryOK(pd, tables)
      BY DEF PagingInv
    <2> QED BY <1>1, <1>5, <2>1, SetEntryInv
  <1> QED BY <1>2, <1>3, <1>4, <1>5 DEF map_page, WithTable, ZeroTable

\* What unmap_page finds and does for a page in a table: the entry it clears
\* is in a table or nowhere, and the directory entry stays or is dropped.
LEMMA UnmapInv ==
  ASSUME UserCalls, PagingInv, NEW virt \in Virts, unmap_page(virt)
  PROVE  PagingInv'
  <1> DEFINE i == pde_index(virt)
             f == pd[i].addr
             g == f + (pte_index(virt) \div Entries)
             e == pte_index(virt) % Entries
             cleared == [tables EXCEPT ![g][e].present = FALSE]
             dropped == [pd EXCEPT ![i].present = FALSE]
  <1>1. i \in Slot /\ i < Half /\ e \in Slot
    BY UserPage, IndexInside
  <1>2. fault' = fault
    BY DEF unmap_page, Returns
  <1>3. /\ pd' = pd \/ pd' = dropped
        /\ tables' = tables \/ tables' = cleared
    BY DEF unmap_page
  <1>4. DirectoryOK(pd, cleared)
    <2>1. CASE g \in DOMAIN tables
      <3>1. tables[g] \in PageTables
        BY <2>1 DEF PagingInv, DirectoryOK, Typed
      <3> DEFINE p == [tables[g][e] EXCEPT !.present = FALSE]
      <3>2. p \in [present : BOOLEAN, addr : AnyAddr]
        BY <1>1, <3>1 DEF PageTables
      <3> HIDE DEF i, f, g, e
      <3>3. cleared = [tables EXCEPT ![g][e] = p]
        BY <2>1, <3>1, <1>1 DEF PageTables
      <3> HIDE DEF cleared, p
      <3> QED BY <1>1, <2>1, <3>2, <3>3, WriteEntry DEF PagingInv, Put
    <2>2. CASE g \notin DOMAIN tables
      <3> HIDE DEF i, f, g, e
      <3>1. DOMAIN cleared = DOMAIN tables /\ \A h \in DOMAIN tables : cleared[h] = tables[h]
        BY <2>2
      <3> HIDE DEF cleared
      <3> QED BY <3>1 DEF PagingInv, DirectoryOK, Typed, TablesApart
    <2> QED BY <2>1, <2>2
  <1> HIDE DEF cleared
  <1>5. DirectoryOK(pd, tables')
    BY <1>3, <1>4 DEF PagingInv
  <1>6. DirectoryOK(pd', tables')
    <2> DEFINE x == [pd[i] EXCEPT !.present = FALSE]
    <2> HIDE DEF i
    <2>1. x \in [present : BOOLEAN, pse : BOOLEAN, addr : AnyAddr] /\ (x.present => x.pse)
      BY <1>1 DEF PagingInv, DirectoryOK, Directories
    <2>2. dropped = [pd EXCEPT ![i] = x]
      OBVIOUS
    <2> HIDE DEF dropped, x
    <2> QED BY <1>1, <1>3, <1>5, <2>1, <2>2, SetDirectoryEntry
  <1> QED BY <1>2, <1>6 DEF PagingInv

\* The invariant is inductive as long as the calls are for the user half.
LEMMA PagingInvNext ==
  ASSUME UserCalls
  PROVE  PagingInv /\ [Next]_vars => PagingInv'
  <1> SUFFICES ASSUME PagingInv, [Next]_vars
               PROVE  PagingInv'
    OBVIOUS
  <1>1. CASE UNCHANGED vars
    BY <1>1 DEF vars, PagingInv
  <1> QED BY <1>1, MapHugeInv, MapInv, UnmapInv DEF Next, Panic

\* The invariant holds as long as the calls are for the user half.
LEMMA PagingInvHolds ==
  ASSUME UserCalls
  PROVE  Spec => []PagingInv
  BY PagingInvInit, PagingInvNext, PTL DEF Spec

\* Whatever pages of the user half are mapped and unmapped, in every order,
\* the processor's walk of the kernel's half is what lin2phy and phy2lin of
\* mm/mmap.c compute, and directory and tables are well formed.
THEOREM PagingMapSound ==
  ASSUME UserCalls
  PROVE  Spec => []MapSound
  BY PagingInvHolds, InvSound, PTL

-----------------------------------------------------------------------------
(* What the operations change                                              *)

\* What MapMaps says of a step.
MapsItsPage ==
    last'.ret = 0 /\ FoundEntry =>
        Walk(pd', tables', last'.virt) =
           IF last'.op = "map_page" THEN last'.phy
           ELSE (last'.phy \div Entries) * Entries + (last'.virt % Entries)

StepIsRight == MapIsLocal /\ UnmapIsLocal /\ MapsItsPage

\* A mapping call that fails and leaves the directory and the tables alone.
LEMMA RefusalIsRight ==
  ASSUME UNCHANGED <<pd, tables>>, last'.op # "unmap_page", last'.ret # 0
  PROVE  StepIsRight
  <1>1. \A virt : ~ Changed(virt)
    BY DEF Changed, Mapped
  <1> QED BY <1>1 DEF StepIsRight, MapIsLocal, UnmapIsLocal, MapsItsPage

\* map_huge_page.
LEMMA MapHugeIsRight ==
  ASSUME UserCalls, PagingInv, NEW virt \in Virts, NEW phy \in Phys,
         map_huge_page(phy, virt)
  PROVE  StepIsRight
  <1> DEFINE i == pde_index(virt)
             x == HugePde((phy \div Entries) * Entries)
  <1>1. i \in Slot /\ i < Half /\ virt \in AnyAddr
    BY UserPage
  <1>2. x \in [present : BOOLEAN, pse : BOOLEAN, addr : AnyAddr] /\ (x.present => x.pse)
    BY PagingAssumption, HugeAddress DEF HugePde
  <1>3. CASE pd[i].present
    <2>1. UNCHANGED <<pd, tables>> /\ last'.op # "unmap_page" /\ last'.ret # 0
      BY <1>3 DEF map_huge_page, Returns
    <2> QED BY <2>1, RefusalIsRight
  <1>4. CASE ~ pd[i].present
    <2>1. /\ pd' = [pd EXCEPT ![i] = x] /\ tables' = tables
          /\ last' = [op |-> "map_huge_page", virt |-> virt, phy |-> phy, ret |-> 0]
      BY <1>4 DEF map_huge_page, Returns
    <2>2. pd'[i] = x
      BY <1>1, <2>1 DEF PagingInv, DirectoryOK, Directories
    <2>3. Walk(pd', tables', virt) = (phy \div Entries) * Entries + (virt % Entries)
      BY <2>2 DEF Walk, HugePde, pde_index
    <2>4. \A lin \in AnyAddr : pde_index(lin) # i => ~ Changed(lin)
      <3> HIDE DEF x, i
      <3>1. DirectoryOK(pd, tables) /\ (x.present => x.pse)
        BY <1>2 DEF PagingInv
      <3>2. \A lin \in AnyAddr : lin \div Entries # i =>
               Walk([pd EXCEPT ![i] = x], tables, lin) = Walk(pd, tables, lin)
        BY <1>1, <1>2, <3>1, SetDirectoryEntry, Zenon
      <3>3. \A lin \in AnyAddr : lin \div Entries # i =>
               Walk(pd', tables', lin) = Walk(pd, tables, lin)
        BY <1>2, <2>1, <3>2, Zenon
      <3> QED BY <3>3 DEF Changed, Mapped, pde_index
    <2>5. \A lin \in AnyAddr : pde_index(lin) = i => Mapped(lin) = Unmapped
      BY <1>4 DEF Mapped, Walk, pde_index
    <2>6. MapIsLocal
      BY <2>1, <2>4, <2>5 DEF MapIsLocal
    <2> QED BY <2>1, <2>3, <2>6 DEF StepIsRight, UnmapIsLocal, MapsItsPage
  <1> QED BY <1>3, <1>4

\* map_page has found the table of the page's directory entry and writes the
\* page's entry there, or refuses.
LEMMA SetEntryIsRight ==
  ASSUME PagingInv, NEW d, NEW t, DirectoryOK(d, t), NEW base,
         NEW virt \in AnyAddr, NEW phy \in AnyAddr, OwnEntry(virt),
         SetEntry(d, t, base, virt, phy),
         HasTable(d, pde_index(virt)),
         base \in Int, Walk(d, t, base) = d[pde_index(virt)].addr,
         \A lin \in AnyAddr : Walk(d, t, lin) = Walk(pd, tables, lin)
  PROVE  StepIsRight
  <1> DEFINE i == pde_index(virt)
             f == d[i].addr
             e == virt % Entries
  <1>1. i \in Slot /\ e \in Slot
    BY Split DEF pde_index
  <1>2. f \in DOMAIN t
    BY <1>1 DEF DirectoryOK, TablesApart
  <1>3. /\ pte_index(virt) \div Entries = 0
        /\ pte_index(virt) % Entries = e
    BY OwnEntryIndex
  <1>4. Walk(d, t, base + (pte_index(virt) \div Entries)) = f
    <2>1. base + 0 = base
      OBVIOUS
    <2> QED BY <1>3, <2>1
  <1>5. \/ Crash("page_fault", virt, phy)
        \/ Crash("overwrite", virt, phy)
        \/ t[f][e].present /\ pd' = d /\ tables' = t /\ Returns("map_page", virt, phy, -1)
        \/ /\ ~ t[f][e].present
           /\ pd' = d /\ tables' = [t EXCEPT ![f][e] = Pte(phy)]
           /\ Returns("map_page", virt, phy, 0)
    BY <1>3, <1>4 DEF SetEntry
  <1>6. CASE Crash("page_fault", virt, phy) \/ Crash("overwrite", virt, phy)
    BY <1>6, RefusalIsRight DEF Crash
  <1>7. CASE pd' = d /\ tables' = t /\ Returns("map_page", virt, phy, -1)
    <2>1. \A lin \in AnyAddr : ~ Changed(lin)
      BY <1>7 DEF Changed, Mapped
    <2>2. last' = [op |-> "map_page", virt |-> virt, phy |-> phy, ret |-> -1]
      BY <1>7 DEF Returns
    <2> QED BY <2>1, <2>2 DEF StepIsRight, MapIsLocal, UnmapIsLocal, MapsItsPage
  <1>8. CASE /\ ~ t[f][e].present
             /\ pd' = d /\ tables' = [t EXCEPT ![f][e] = Pte(phy)]
             /\ Returns("map_page", virt, phy, 0)
    <2>1. last' = [op |-> "map_page", virt |-> virt, phy |-> phy, ret |-> 0]
      BY <1>8 DEF Returns
    <2>2. Pte(phy) \in [present : BOOLEAN, addr : AnyAddr] /\ Pte(phy).present /\ Pte(phy).addr = phy
      BY DEF Pte
    <2> HIDE DEF e, f, i
    <2>3. /\ \A lin \in AnyAddr : EntryOf(d, lin, f, e) =>
                /\ Walk(pd', tables', lin) = phy
                /\ Walk(d, t, lin) = Unmapped
          /\ \A lin \in AnyAddr : ~ EntryOf(d, lin, f, e) =>
                Walk(pd', tables', lin) = Walk(d, t, lin)
      <3> DEFINE p == Pte(phy)
      <3>1. p \in [present : BOOLEAN, addr : AnyAddr] /\ p.present /\ p.addr = phy
        BY <2>2
      <3>2. pd' = d /\ tables' = Put(t, f, e, p) /\ ~ t[f][e].present
        BY <1>8 DEF Put
      <3> HIDE DEF p
      <3>3. /\ \A lin \in AnyAddr : EntryOf(d, lin, f, e) =>
                  /\ Walk(d, Put(t, f, e, p), lin) =
                        IF p.present THEN p.addr ELSE Unmapped
                  /\ Walk(d, t, lin) = IF t[f][e].present THEN t[f][e].addr ELSE Unmapped
            /\ \A lin \in AnyAddr : ~ EntryOf(d, lin, f, e) =>
                  Walk(d, Put(t, f, e, p), lin) = Walk(d, t, lin)
        BY <1>1, <1>2, <3>1, WriteEntry
      <3> QED BY <3>1, <3>2, <3>3
    <2>4. Walk(pd', tables', virt) = phy
      <3>1. EntryOf(d, virt, f, e)
        BY DEF EntryOf, e, f, i, pde_index
      <3> QED BY <2>3, <3>1
    <2>5. ASSUME NEW lin \in AnyAddr, Changed(lin)
          PROVE  Mapped(lin) = Unmapped /\ lin = virt
      <3>1. Walk(pd', tables', lin) # Walk(d, t, lin)
        BY <2>5 DEF Changed, Mapped
      <3>2. /\ HasTable(d, lin \div Entries)
            /\ d[lin \div Entries].addr = f
            /\ lin % Entries = e
            /\ Walk(d, t, lin) = Unmapped
        BY <2>3, <3>1 DEF EntryOf
      <3>3. lin \div Entries = virt \div Entries
        BY <3>2, Split DEF DirectoryOK, TablesApart, f, i, pde_index
      <3>4. lin = virt
        BY <3>2, <3>3, SplitUnique DEF e
      <3> QED BY <3>2, <3>4 DEF Mapped
    <2> QED BY <2>1, <2>4, <2>5 DEF StepIsRight, MapIsLocal, UnmapIsLocal, MapsItsPage
  <1> QED BY <1>5, <1>6, <1>7, <1>8

\* The second half of map_page reports for the page map_page was called with.
LEMMA SetEntryLast ==
  ASSUME NEW d, NEW t, NEW base, NEW virt, NEW phy, SetEntry(d, t, base, virt, phy)
  PROVE  last'.op = "map_page" /\ last'.virt = virt
  BY DEF SetEntry, Returns, Crash

\* map_page.
LEMMA MapIsRight ==
  ASSUME UserCalls, PagingInv, NEW virt \in Virts, NEW phy \in Phys,
         map_page(phy, virt)
  PROVE  StepIsRight
  <1> DEFINE i == pde_index(virt)
  <1>1. i \in Slot /\ i < Half /\ virt \in AnyAddr /\ phy \in AnyAddr
    BY UserPage, PagingAssumption
  <1>2. last'.op = "map_page" /\ last'.virt = virt
    <2>1. CASE Returns("map_page", virt, phy, -1)
      BY <2>1 DEF Returns
    <2>2. CASE Crash("page_fault", virt, phy)
      BY <2>2 DEF Crash
    <2>3. ASSUME NEW d, NEW t, NEW base, SetEntry(d, t, base, virt, phy)
          PROVE  last'.op = "map_page" /\ last'.virt = virt
      BY <2>3, SetEntryLast
    <2> QED BY <2>1, <2>2, <2>3, Zenon DEF map_page
  <1>3. CASE ~ FoundEntry
    BY <1>2, <1>3 DEF StepIsRight, MapIsLocal, UnmapIsLocal, MapsItsPage
  <1>4. CASE FoundEntry
    <2>1. OwnEntry(virt) /\ FindsTable(virt)
      BY <1>2, <1>4 DEF FoundEntry
    <2>2. CASE UNCHANGED <<pd, tables>> /\ Returns("map_page", virt, phy, -1)
      BY <2>2, RefusalIsRight DEF Returns
    <2>3. CASE Crash("page_fault", virt, phy)
      BY <2>3, RefusalIsRight DEF Crash
    <2>4. ASSUME ~ pd[i].present, NEW f \in TableFrames \ DOMAIN tables,
                 SetEntry([pd EXCEPT ![i] = Pde(f)], WithTable(tables, f),
                          f + KERNEL_BASE, virt, phy)
          PROVE  StepIsRight
      <3> DEFINE d == [pd EXCEPT ![i] = Pde(f)]
                 t == WithTable(tables, f)
                 base == f + KERNEL_BASE
      <3>1. /\ DirectoryOK(d, t)
            /\ \A lin \in AnyAddr : Walk(d, t, lin) = Walk(pd, tables, lin)
        BY <1>1, <2>4, AddTable DEF PagingInv
      <3>2. d[i] = Pde(f)
        BY <1>1 DEF PagingInv, DirectoryOK, Directories
      <3>3. HasTable(d, i) /\ d[i].addr = f
        BY <3>2 DEF HasTable, Pde
      <3>4. f \in 1 .. Quarter - 1
        BY PagingAssumption
      <3>5. base \in 2 * Quarter .. AddrSize - 1 /\ lin2phy(base) = f /\ base \in Int
        BY <3>4, QuarterAssumption DEF KERNEL_BASE, AddrSize, lin2phy
      <3>6. UpperKept(d)
        BY <3>1 DEF DirectoryOK
      <3> HIDE DEF d, t, base
      <3>7. Walk(d, t, base) = d[i].addr
        BY <3>3, <3>5, <3>6, WalkUpper
      <3>8. SetEntry(d, t, base, virt, phy)
        BY <2>4 DEF d, t, base
      <3> QED BY <1>1, <2>1, <3>1, <3>3, <3>5, <3>7, <3>8, SetEntryIsRight
    <2>5. CASE ~ pd[i].pse /\ pd[i].present /\ SetEntry(pd, tables, pd[i].addr, virt, phy)
      <3>1. HasTable(pd, i)
        BY <2>5 DEF HasTable
      <3>2. Walk(pd, tables, pd[i].addr) = pd[i].addr
        BY <2>1, <2>5 DEF FindsTable, Mapped
      <3>3. pd[i].addr \in Int /\ DirectoryOK(pd, tables)
        BY <1>1 DEF PagingInv, DirectoryOK, Directories, AnyAddr
      <3> QED BY <1>1, <2>1, <2>5, <3>1, <3>2, <3>3, SetEntryIsRight
    <2> QED BY <2>2, <2>3, <2>4, <2>5 DEF map_page, WithTable, ZeroTable
  <1> QED BY <1>3, <1>4

\* unmap_page.
LEMMA UnmapIsRight ==
  ASSUME UserCalls, PagingInv, NEW virt \in Virts, unmap_page(virt)
  PROVE  StepIsRight
  <1> DEFINE i == pde_index(virt)
             f == pd[i].addr
             e == virt % Entries
             dropped == [pd EXCEPT ![i].present = FALSE]
             x == [pd[i] EXCEPT !.present = FALSE]
  <1>1. i \in Slot /\ i < Half /\ e \in Slot /\ virt \in AnyAddr
    BY UserPage, Split
  <1>2. last' = [op |-> "unmap_page", virt |-> virt, phy |-> 0, ret |-> 0]
    BY SMTT(30) DEF unmap_page, Returns
  <1>3. pd[i].present
    BY DEF unmap_page, Mapped, Walk, pde_index
  <1>4. /\ x \in [present : BOOLEAN, pse : BOOLEAN, addr : AnyAddr]
        /\ ~ x.present /\ dropped = [pd EXCEPT ![i] = x]
    BY <1>1 DEF PagingInv, DirectoryOK, Directories
  <1>5. MapIsLocal /\ MapsItsPage
    BY <1>2 DEF MapIsLocal, MapsItsPage, FoundEntry
  <1>6. CASE ~ OwnEntry(virt)
    BY <1>2, <1>5, <1>6 DEF StepIsRight, UnmapIsLocal
  <1>7. CASE pd[i].pse
    <2>1. pd' = dropped /\ tables' = tables
      BY <1>7 DEF unmap_page
    <2>2. pd'[i] = x
      BY <1>1, <1>4, <2>1 DEF PagingInv, DirectoryOK, Directories
    <2>3. Walk(pd', tables', virt) = Unmapped
      BY <1>4, <2>2 DEF Walk, pde_index
    <2>4. \A lin \in AnyAddr : pde_index(lin) # i => ~ Changed(lin)
      <3> HIDE DEF x, dropped, i
      <3>1. DirectoryOK(pd, tables) /\ (x.present => x.pse)
        BY <1>4 DEF PagingInv
      <3>2. \A lin \in AnyAddr : lin \div Entries # i =>
               Walk([pd EXCEPT ![i] = x], tables, lin) = Walk(pd, tables, lin)
        BY <1>1, <1>4, <3>1, SetDirectoryEntry, Zenon
      <3>3. \A lin \in AnyAddr : lin \div Entries # i =>
               Walk(pd', tables', lin) = Walk(pd, tables, lin)
        BY <1>4, <2>1, <3>2, Zenon
      <3> QED BY <3>3 DEF Changed, Mapped, pde_index
    <2>5. UnmapIsLocal
      BY <1>2, <1>7, <2>3, <2>4 DEF UnmapIsLocal
    <2> QED BY <1>5, <2>5 DEF StepIsRight
  <1>8. CASE OwnEntry(virt) /\ ~ pd[i].pse
    <2> DEFINE cleared == [tables EXCEPT ![f][e] = [tables[f][e] EXCEPT !.present = FALSE]]
               p == [tables[f][e] EXCEPT !.present = FALSE]
    <2>1. HasTable(pd, i) /\ f \in DOMAIN tables /\ tables[f] \in PageTables /\ f \in Int
      BY <1>1, <1>3, <1>8
         DEF HasTable, PagingInv, DirectoryOK, TablesApart, Typed, Directories, AnyAddr
    <2>2. f + (pte_index(virt) \div Entries) = f /\ pte_index(virt) % Entries = e
      BY <1>1, <1>8, <2>1, OwnEntryIndex
    <2>3. /\ tables' = [tables EXCEPT ![f][e].present = FALSE]
          /\ pd' = IF TableEmpty([tables EXCEPT ![f][e].present = FALSE][f]) THEN dropped ELSE pd
      BY <1>8, <2>2 DEF unmap_page
    <2>4. [tables EXCEPT ![f][e].present = FALSE] = cleared
      BY <1>1, <2>1 DEF PageTables
    <2>5. p \in [present : BOOLEAN, addr : AnyAddr] /\ ~ p.present
      BY <1>1, <2>1 DEF PageTables
    <2>6. tables' = cleared /\ pd' = IF TableEmpty(cleared[f]) THEN dropped ELSE pd
      BY <2>3, <2>4
    <2>7. cleared = Put(tables, f, e, p) /\ cleared[f] = [tables[f] EXCEPT ![e] = p]
      BY <2>1 DEF Put
    <2>8. DOMAIN cleared[f] = Slot
      BY <2>1, <2>7 DEF PageTables
    <2> HIDE DEF e, f, i, p, cleared, dropped, x
    <2>9. /\ \A lin \in AnyAddr : EntryOf(pd, lin, f, e) => Walk(pd, cleared, lin) = Unmapped
          /\ \A lin \in AnyAddr : ~ EntryOf(pd, lin, f, e) =>
                Walk(pd, cleared, lin) = Walk(pd, tables, lin)
      <3>1. DirectoryOK(pd, tables)
        BY DEF PagingInv
      <3>2. /\ \A lin \in AnyAddr : EntryOf(pd, lin, f, e) =>
                  Walk(pd, Put(tables, f, e, p), lin) =
                     IF p.present THEN p.addr ELSE Unmapped
            /\ \A lin \in AnyAddr : ~ EntryOf(pd, lin, f, e) =>
                  Walk(pd, Put(tables, f, e, p), lin) = Walk(pd, tables, lin)
        BY <1>1, <2>1, <2>5, <3>1, WriteEntry
      <3> QED BY <2>5, <2>7, <3>2
    <2>10. Walk(pd, cleared, virt) = Unmapped
      <3>1. EntryOf(pd, virt, f, e)
        BY <2>1 DEF EntryOf, e, f, i, pde_index
      <3> QED BY <1>1, <2>9, <3>1
    <2>11. ASSUME NEW lin \in AnyAddr, Walk(pd, cleared, lin) # Walk(pd, tables, lin)
           PROVE  lin = virt
      <3>1. HasTable(pd, lin \div Entries) /\ pd[lin \div Entries].addr = f /\ lin % Entries = e
        BY <2>9, <2>11 DEF EntryOf
      <3>2. lin \div Entries = virt \div Entries
        BY <1>1, <2>1, <3>1, Split DEF PagingInv, DirectoryOK, TablesApart, f, i, pde_index
      <3> QED BY <1>1, <3>1, <3>2, SplitUnique DEF e
    <2>12. \A lin \in AnyAddr : Walk(pd', tables', lin) = Walk(pd, cleared, lin)
      <3>1. CASE ~ TableEmpty(cleared[f])
        BY <3>1, <2>6
      <3>2. CASE TableEmpty(cleared[f])
        <4> TAKE lin \in AnyAddr
        <4>1. pd' = [pd EXCEPT ![i] = x] /\ tables' = cleared
          BY <3>2, <2>6, <1>4
        <4>2. CASE lin \div Entries = i
          <5>1. pd'[i] = x
            BY <1>1, <4>1 DEF PagingInv, DirectoryOK, Directories
          <5>2. Walk(pd', tables', lin) = Unmapped
            BY <1>4, <4>2, <5>1 DEF Walk
          <5>3. ~ cleared[f][lin % Entries].present
            BY <3>2, <2>8, Split DEF TableEmpty
          <5>4. Walk(pd, cleared, lin) = Unmapped
            BY <2>1, <4>2, <5>3 DEF Walk, HasTable, f
          <5> QED BY <5>2, <5>4
        <4>3. CASE lin \div Entries # i
          <5>1. pd'[lin \div Entries] = pd[lin \div Entries]
            BY <4>1, <4>3, Split DEF PagingInv, DirectoryOK, Directories
          <5> QED BY <4>1, <5>1 DEF Walk
        <4> QED BY <4>2, <4>3
      <3> QED BY <3>1, <3>2
    <2>13. UnmapIsLocal
      BY <1>1, <1>2, <2>10, <2>11, <2>12 DEF UnmapIsLocal, Changed, Mapped
    <2> QED BY <1>5, <2>13 DEF StepIsRight
  <1> QED BY <1>6, <1>7, <1>8

\* Every step but a stuttering one is right.
LEMMA NextIsRight ==
  ASSUME UserCalls, PagingInv, [Next]_vars
  PROVE  StepIsRight \/ UNCHANGED vars
  BY MapHugeIsRight, MapIsRight, UnmapIsRight DEF Next, Panic

\* A mapping call that reports success and finds its table maps the page it
\* was asked for to the physical page it was given.
THEOREM PagingMapMaps ==
  ASSUME UserCalls
  PROVE  Spec => MapMaps
  <1>1. PagingInv /\ [Next]_vars =>
          [last' # last /\ last'.ret = 0 /\ FoundEntry =>
             Walk(pd', tables', last'.virt) =
                IF last'.op = "map_page" THEN last'.phy
                ELSE (last'.phy \div Entries) * Entries + (last'.virt % Entries)]_vars
    BY NextIsRight DEF StepIsRight, MapsItsPage
  <1> QED BY <1>1, PagingInvHolds, PTL DEF Spec, MapMaps

\* Every mapping call that finds its table and every call of unmap_page for
\* such a page changes the translations it was called for and no others.
THEOREM PagingChangesOnlyItsOwn ==
  ASSUME UserCalls
  PROVE  Spec => ChangesOnlyItsOwn
  <1>1. PagingInv /\ [Next]_vars => [MapIsLocal /\ UnmapIsLocal]_vars
    BY NextIsRight DEF StepIsRight
  <1> QED BY <1>1, PagingInvHolds, PTL DEF Spec, ChangesOnlyItsOwn
=============================================================================
