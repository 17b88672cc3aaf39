-------------------------------- MODULE Acpi --------------------------------
(***************************************************************************)
(* acpi_init of kernel/acpi.c: the search for the RSDP in steps of 16      *)
(* bytes, the checks of it and of the RSDT, and the walk over the entries  *)
(* of the MADT for the address of the IOAPIC.                              *)
(*                                                                         *)
(* The firmware is what the walk tells apart: in which paragraph the RSDP  *)
(* is, which tests the tables pass, their signatures and addresses, and    *)
(* the entries of the MADT byte by byte.  An address is its upper byte.    *)
(* The index i of the walk is not initialized by the code and begins       *)
(* anywhere.                                                               *)
(***************************************************************************)
EXTENDS Integers, Sequences, SequencesExt

CONSTANTS
    NrParagraphs,   \* paragraphs between RSDP_LO and RSDP_HI
    Addresses,      \* where the RSDT may be
    Rsdts,          \* what it may point to: sequences of tables
    Entries,        \* MADTs: sequences of entries
    Starts          \* what i may hold at the beginning

VARIABLES
    at,             \* where acpi_init is
    firm,           \* the firmware
    para,           \* the paragraph p points to
    i,              \* the index of the walk, from 0
    start,          \* history: what i was at the beginning
    ioapic_addr     \* NULL in .bss

acpiVars == <<at, firm, para, i, start, ioapic_addr>>

\* The translation of addresses, of one byte here.
Quarter == 64
Memory == INSTANCE AddrMap

\* The type of an IOAPIC's entry, and where the address is in it.
IOAPIC == 1
AddrOffset == 4

\* length - sizeof(xsdt_header_t) still counts lapic_addr and flags.
Excess == 8

ASSUME AcpiAssumption ==
    /\ NrParagraphs \in Nat /\ Starts \subseteq Nat
    /\ Addresses \subseteq Memory!AnyAddr
    /\ Rsdts \subseteq Seq([signature : {"APIC", "HPET"}, address : Addresses])
    /\ Entries \subseteq Seq(Seq(Nat))
    \* the type and the length of an entry come first, and an IOAPIC's has
    \* the address
    /\ \A es \in Entries : \A e \in Range(es) :
          /\ Len(e) >= 2 /\ e[2] = Len(e)
          /\ e[1] = IOAPIC => Len(e) > AddrOffset

\* A paragraph behind the last one stands for no RSDP; what is there may pass
\* the tests all the same.
Firmware ==
    [rsdp : 1 .. NrParagraphs + 1, sum : BOOLEAN, revision : {0, 2},
     rsdt_address : Addresses, rsdt_sum : BOOLEAN, tables : Rsdts, madt : Entries]

AcpiInit ==
    /\ at = "search"
    /\ firm \in Firmware
    /\ para = 1
    /\ start \in Starts
    /\ i = start
    /\ ioapic_addr = Memory!NULL

Step(from, to) == at = from /\ at' = to

search_rsdp ==
    /\ at = "search" /\ para <= NrParagraphs /\ para # firm.rsdp
    /\ para' = para + 1
    /\ UNCHANGED <<at, firm, i, start, ioapic_addr>>

\* acpi_checksum and the revision, of whatever the search ended at.
RsdpAccepted == firm.sum /\ firm.revision = 0

check_rsdp ==
    /\ para > NrParagraphs \/ para = firm.rsdp
    /\ Step("search", IF RsdpAccepted THEN "rsdt" ELSE "panic")
    /\ UNCHANGED <<firm, para, i, start, ioapic_addr>>

\* The upper half of the linear addresses is mapped, the first GB of memory in
\* its upper quarter and the last one of physical addresses below it.  NULL is
\* not in it, so what phy2lin cannot translate is a fault when it is used.
Mapped(lin) == lin >= 2 * Quarter

\* What find_xsdt reads the signature of a table from.  It adds 0xC0000000 twice,
\* once times the size of a header, which is a multiple of 2^32.
SignatureAt(table) == (table.address + Memory!KERNEL_BASE) % Memory!AddrSize

\* A table is found, and can be used: its signature and those of the tables
\* before it can be read, and so can its translated address.  Otherwise there is
\* a fault in find_xsdt, or at the fields of NULL.
find_xsdt(signature) ==
    \E k \in DOMAIN firm.tables :
        /\ firm.tables[k].signature = signature
        /\ \A j \in 1 .. k : Mapped(SignatureAt(firm.tables[j]))
        /\ Mapped(Memory!phy2lin(firm.tables[k].address))

\* The checksum of the RSDT, with its length from where it is said to be.
RsdtAccepted == Mapped(Memory!phy2lin(firm.rsdt_address)) /\ firm.rsdt_sum

check_rsdt ==
    /\ Step("rsdt", IF RsdtAccepted /\ find_xsdt("APIC") THEN "walk" ELSE "panic")
    /\ UNCHANGED <<firm, para, i, start, ioapic_addr>>

\* The bytes of the entries.  Behind them is the next table, whatever it is:
\* zeros here, which end nothing and lead nowhere.
Bytes == FlattenSeq(firm.madt)
Byte(k) == IF k < Len(Bytes) THEN Bytes[k + 1] ELSE 0
Limit == Len(Bytes) + Excess

\* mutant: the length is read from the third byte
walk_madt_third ==
    \/ /\ at = "walk" /\ i < Limit /\ Byte(i) # IOAPIC
       /\ i' = i + Byte(i + 2)
       /\ UNCHANGED <<at, firm, para, start, ioapic_addr>>
    \/ /\ i < Limit /\ Byte(i) = IOAPIC
       /\ Step("walk", "hpet")
       /\ ioapic_addr' = Memory!phy2lin(Byte(i + AddrOffset))
       /\ UNCHANGED <<firm, para, i, start>>
    \/ /\ i >= Limit
       /\ Step("walk", "hpet")
       /\ UNCHANGED <<firm, para, i, start, ioapic_addr>>

\* One round of the loop over the entries.
walk_madt ==
    \/ /\ at = "walk" /\ i < Limit /\ Byte(i) # IOAPIC
       /\ i' = i + Byte(i + 1)
       /\ UNCHANGED <<at, firm, para, start, ioapic_addr>>
    \/ /\ i < Limit /\ Byte(i) = IOAPIC
       /\ Step("walk", "hpet")
       /\ ioapic_addr' = Memory!phy2lin(Byte(i + AddrOffset))
       /\ UNCHANGED <<firm, para, i, start>>
    \/ /\ i >= Limit
       /\ Step("walk", "hpet")
       /\ UNCHANGED <<firm, para, i, start, ioapic_addr>>

\* The HPET's table is used without a look at what find_xsdt returned.
read_hpet ==
    /\ Step("hpet", IF find_xsdt("HPET") THEN "done" ELSE "panic")
    /\ UNCHANGED <<firm, para, i, start, ioapic_addr>>

acpi_init == search_rsdp \/ check_rsdp \/ check_rsdt \/ walk_madt \/ read_hpet

AcpiNext == acpi_init \/ (at \in {"done", "panic"} /\ UNCHANGED acpiVars)

AcpiSpec == AcpiInit /\ [][AcpiNext]_acpiVars /\ WF_acpiVars(acpi_init)

-----------------------------------------------------------------------------

\* Where the k-th entry begins.
Begins(k) == Len(FlattenSeq(SubSeq(firm.madt, 1, k - 1)))

IoapicEntries == {k \in DOMAIN firm.madt : firm.madt[k][1] = IOAPIC}

\* The entry whose beginning i was given, and an IOAPIC's at or behind it.
Proper(k) ==
    /\ start = Begins(k)
    /\ \E e \in IoapicEntries : e >= k

(* If the walk begins at an entry it finds the first IOAPIC that comes,     *)
(* whatever the bytes inside the entries before it look like.  With an i    *)
(* that happens to begin elsewhere it may take any byte for a type.         *)
IoapicIsFirst ==
    \A k \in DOMAIN firm.madt :
        at \in {"hpet", "done"} /\ Proper(k) =>
            LET first == CHOOSE e \in IoapicEntries :
                            e >= k /\ \A f \in IoapicEntries : f >= k => e <= f
            IN  ioapic_addr = Memory!phy2lin(firm.madt[first][AddrOffset + 1])

(* The walk ends if it begins at an entry and an IOAPIC comes.  Without one *)
(* it goes on behind the table, and an entry of length zero keeps it there. *)
AcpiEnds ==
    (\E k \in DOMAIN firm.madt : Proper(k)) ~> at \in {"done", "panic"}
=============================================================================
