------------------------------- MODULE Paging -------------------------------
(***************************************************************************)
(* The page directory and the page tables: what head.s and arch_init set   *)
(* up, and map_page, map_huge_page and unmap_page of mm/mmap.c.            *)
(*                                                                         *)
(* Addresses are page numbers.  A page directory or table is a page of     *)
(* Entries entries, so that the address space has Entries^2 pages (1024^2  *)
(* in the code); the page directory is page 0.  An entry keeps what the    *)
(* code branches on and where it points to; permissions are left out.      *)
(*                                                                         *)
(* Of physical memory only the directory and the page tables are modelled. *)
(* An access to an unmapped address ends in do_page_fault, which never     *)
(* returns, and nothing is modelled behind a write into any other memory;  *)
(* these are the values of fault.                                          *)
(***************************************************************************)
EXTENDS AddrMap, FiniteSets

CONSTANTS
    Entries,        \* entries of a directory or table
    TableFrames,    \* the physical pages palloc has left for tables
    Virts,          \* linear pages the operations are called with
    Phys            \* physical pages the operations are called with

VARIABLES
    pd,             \* the page directory
    tables,         \* tables[f]: the page table in physical page f
    fault,          \* what ended the execution
    last            \* the last operation and what it returned

vars == <<pd, tables, fault, last>>

ASSUME PagingAssumption ==
    /\ Entries \in Nat /\ Entries * Entries = AddrSize
    /\ Entries % 4 = 0
    /\ TableFrames \subseteq 1 .. Quarter - 1
    /\ Virts \subseteq AnyAddr
    /\ Phys \subseteq AnyAddr

Unmapped == -1

Zero == [present |-> FALSE, pse |-> FALSE, addr |-> 0]
Pte(f) == [present |-> TRUE, addr |-> f]
ZeroPte == [present |-> FALSE, addr |-> 0]
Pde(f) == [present |-> TRUE, pse |-> FALSE, addr |-> f]
\* The address of a 4 MB page is a page number too, that of its first page.
HugePde(f) == [present |-> TRUE, pse |-> TRUE, addr |-> f]

-----------------------------------------------------------------------------
(* Boot                                                                    *)

\* head.s maps the kernel's quarter to physical memory from 0 on and clears
\* the rest; arch_init maps the quarter below to the uppermost physical one.
BootDirectory ==
    [i \in 0 .. Entries - 1 |->
        IF i * Entries >= KERNEL_BASE THEN HugePde(i * Entries - KERNEL_BASE)
        ELSE IF i * Entries >= 2 * Quarter THEN HugePde(i * Entries + Quarter)
        ELSE Zero]

-----------------------------------------------------------------------------
(* The processor's page walk                                               *)

Walk(d, t, lin) ==
    LET pde == d[lin \div Entries]
    IN  IF ~ pde.present THEN Unmapped
        ELSE IF pde.pse THEN pde.addr + (lin % Entries)
        ELSE IF pde.addr \notin DOMAIN t THEN Unmapped
        ELSE LET pte == t[pde.addr][lin % Entries]
             IN  IF pte.present THEN pte.addr ELSE Unmapped

Mapped(lin) == Walk(pd, tables, lin)

-----------------------------------------------------------------------------
(* Steps common to the operations                                          *)

pde_index(virt) == virt \div Entries

\* mutant: the address is shifted by a bit too many
pte_index_shift(virt) == (virt \div 2) % (4 * Entries)

\* The mask is four times as wide as a table has entries.
pte_index(virt) == virt % (4 * Entries)

\* map_page does not return.
Crash(how, virt, phy) ==
    /\ fault' = how
    /\ last' = [op |-> "map_page", virt |-> virt, phy |-> phy, ret |-> -2]
    /\ UNCHANGED <<pd, tables>>

Returns(op, virt, phy, ret) ==
    /\ last' = [op |-> op, virt |-> virt, phy |-> phy, ret |-> ret]
    /\ UNCHANGED fault

\* map_page has found a table at linear page base and sets its entry, unless
\* that is present: the entry may lie in another page than base, and that
\* page in memory that is no page table.
SetEntry(d, t, base, virt, phy) ==
    LET lin == base + (pte_index(virt) \div Entries)
        f == Walk(d, t, lin)
        e == pte_index(virt) % Entries
    IN  \/ /\ f = Unmapped
           /\ Crash("page_fault", virt, phy)
        \/ /\ f \in DOMAIN t
           /\ ~ t[f][e].present
           /\ pd' = d
           /\ tables' = [t EXCEPT ![f][e] = Pte(phy)]
           /\ Returns("map_page", virt, phy, 0)
        \/ /\ f \in DOMAIN t
           /\ t[f][e].present
           /\ pd' = d /\ tables' = t
           /\ Returns("map_page", virt, phy, -1)
        \/ /\ f # Unmapped /\ f \notin DOMAIN t
           /\ Crash("overwrite", virt, phy)

-----------------------------------------------------------------------------
(* The operations                                                          *)

Running == fault = "none"

map_huge_page(phy, virt) ==
    /\ Running
    /\ IF pd[pde_index(virt)].present
       THEN /\ UNCHANGED <<pd, tables>>
            /\ Returns("map_huge_page", virt, phy, -1)
       ELSE /\ pd' = [pd EXCEPT ![pde_index(virt)] =
                        HugePde((phy \div Entries) * Entries)]
            /\ UNCHANGED tables
            /\ Returns("map_huge_page", virt, phy, 0)

\* The table palloc gives is reached through the kernel's quarter, a table
\* that is there already through its physical address.
map_page(phy, virt) ==
    LET i == pde_index(virt)
        free == TableFrames \ DOMAIN tables
    IN  /\ Running
        /\ \/ /\ pd[i].pse
              /\ UNCHANGED <<pd, tables>>
              /\ Returns("map_page", virt, phy, -1)
           \/ /\ ~ pd[i].pse /\ ~ pd[i].present
              /\ free = {}
              /\ Crash("page_fault", virt, phy)
           \/ /\ ~ pd[i].pse /\ ~ pd[i].present
              /\ \E f \in free :
                    SetEntry([pd EXCEPT ![i] = Pde(f)],
                             [g \in DOMAIN tables \cup {f} |->
                                IF g = f
                                THEN [e \in 0 .. Entries - 1 |-> ZeroPte]
                                ELSE tables[g]],
                             f + KERNEL_BASE, virt, phy)
           \/ /\ ~ pd[i].pse /\ pd[i].present
              /\ SetEntry(pd, tables, pd[i].addr, virt, phy)

\* mutant: the directory entry is dropped with the first page
TableEmpty_always(table) == TRUE

TableEmpty(table) == \A e \in DOMAIN table : ~ table[e].present

\* unmap_page, called for a page that is mapped.  The entry it clears may be
\* in another page than the table, but then it is in one map_page has written
\* to before.  The pfree of the table gives nothing back.
unmap_page(virt) ==
    LET i == pde_index(virt)
        f == pd[i].addr
        g == f + (pte_index(virt) \div Entries)
        e == pte_index(virt) % Entries
        cleared == [tables EXCEPT ![g][e].present = FALSE]
    IN  /\ Running
        /\ Mapped(virt) # Unmapped
        /\ \/ /\ pd[i].pse
              /\ pd' = [pd EXCEPT ![i].present = FALSE]
              /\ UNCHANGED tables
              /\ Returns("unmap_page", virt, 0, 0)
           \/ /\ ~ pd[i].pse
              /\ tables' = cleared
              /\ pd' = IF TableEmpty(cleared[f])
                       THEN [pd EXCEPT ![i].present = FALSE] ELSE pd
              /\ Returns("unmap_page", virt, 0, 0)

\* do_page_fault: the kernel prints and stays in a loop.
Panic == ~ Running /\ UNCHANGED vars

-----------------------------------------------------------------------------
Init ==
    /\ pd = BootDirectory
    /\ tables = [f \in {} |-> {}]
    /\ fault = "none"
    /\ last = [op |-> "arch_init", virt |-> 0, phy |-> 0, ret |-> 0]

Next ==
    \/ \E virt \in Virts, phy \in Phys :
          map_huge_page(phy, virt) \/ map_page(phy, virt)
    \/ \E virt \in Virts : unmap_page(virt)
    \/ Panic

Spec == Init /\ [][Next]_vars

-----------------------------------------------------------------------------
(* Properties                                                              *)

TypeOK ==
    /\ pd \in [0 .. Entries - 1 ->
                  [present : BOOLEAN, pse : BOOLEAN, addr : AnyAddr]]
    /\ DOMAIN tables \subseteq TableFrames
    /\ \A f \in DOMAIN tables :
          tables[f] \in [0 .. Entries - 1 -> [present : BOOLEAN, addr : AnyAddr]]
    /\ fault \in {"none", "page_fault", "overwrite"}

\* lin2phy tells the truth about the upper half of the address space
\* whatever user pages are mapped and unmapped, and phy2lin undoes it: what
\* mm/mmap.c computes is what head.s and arch_init have mapped.  phy2lin has
\* no address for the two quarters in between, not even for the page at
\* 0x40000000, where the comparison is off by one but the sum wraps to NULL.
AddressMapHolds ==
    /\ \A lin \in 2 * Quarter .. AddrSize - 1 :
          /\ Mapped(lin) = lin2phy(lin)
          /\ phy2lin(lin2phy(lin)) = lin
    /\ \A phy \in Quarter .. KERNEL_BASE - 1 : phy2lin(phy) = NULL

\* The kernel's own half of the address space stays what head.s and arch_init
\* have made it.
MapSound == TypeOK /\ AddressMapHolds

Changed(virt) == Mapped(virt)' # Mapped(virt)

\* A page below a directory entry whose index is a multiple of four: there the
\* operations look for the page's own entry.  Other pages are entered into the
\* page behind their table, which may be the table of another directory entry.
OwnEntry(virt) == pde_index(virt) % 4 = 0

\* map_page finds the table of the page: a new one through the kernel's
\* quarter, and one that is there already at its physical address only if that
\* is mapped to itself.  Mapped to another table, that one is written to.
FindsTable(virt) ==
    LET pde == pd[pde_index(virt)]
    IN  pde.present /\ ~ pde.pse => Mapped(pde.addr) = pde.addr

\* The last call is one of map_huge_page, or of map_page where that finds the
\* entry of its page.
FoundEntry ==
    \/ last'.op = "map_huge_page"
    \/ last'.op = "map_page" /\ OwnEntry(last'.virt) /\ FindsTable(last'.virt)

\* A mapping call changes the translation of no page but its own, and only
\* if that had none and the call reports success: the page for map_page, the
\* 4 MB for map_huge_page.  This holds also between calls for pages that are
\* entered into foreign tables.
MapIsLocal ==
    FoundEntry =>
        \A virt \in AnyAddr : Changed(virt) =>
           /\ last'.ret = 0
           /\ Mapped(virt) = Unmapped
           /\ IF last'.op = "map_page" THEN virt = last'.virt
              ELSE pde_index(virt) = pde_index(last'.virt)

\* A mapping call that reports success maps the page it was asked for, with
\* the same exceptions for map_page.
MapMaps ==
    [][last' # last /\ last'.ret = 0 /\ FoundEntry =>
          Walk(pd', tables', last'.virt) =
             IF last'.op = "map_page" THEN last'.phy
             ELSE (last'.phy \div Entries) * Entries
                    + (last'.virt % Entries)]_vars

\* unmap_page takes away the translation of its page, with a 4 MB page that
\* of its neighbours there too, and of no other.
UnmapIsLocal ==
    last'.op = "unmap_page" /\ last'.ret = 0 /\ last' # last /\ OwnEntry(last'.virt) =>
        /\ Walk(pd', tables', last'.virt) = Unmapped
        /\ \A virt \in AnyAddr : Changed(virt) =>
              \/ virt = last'.virt
              \/ /\ pd[pde_index(last'.virt)].pse
                 /\ pde_index(virt) = pde_index(last'.virt)

\* map_page, map_huge_page and unmap_page change the translations they were
\* called for, in every order and over the tables they share.
ChangesOnlyItsOwn == [][MapIsLocal /\ UnmapIsLocal]_vars

\* What the comment "already mapped 4MB page" says of map_page's refusal.
\* unmap_page of a 4 MB page leaves the bit map_page looks at.
RefusedOnlyIfMapped ==
    [][last'.op = "map_page" /\ last'.ret = -1 /\ last' # last =>
          pd[pde_index(last'.virt)].present]_vars

\* What the comment "already mapped page" says of map_page: a page that is
\* mapped already is met with a refusal.  Instead its table is looked for at
\* a physical address.
RemapIsRefused ==
    fault = "page_fault" => Mapped(last.virt) = Unmapped
=============================================================================
