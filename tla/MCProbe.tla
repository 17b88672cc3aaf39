------------------------------- MODULE MCProbe -------------------------------
(***************************************************************************)
(* What kmain finds out about the machine: acpi_init, called by arch_init, *)
(* then pci_init, and the drives if block_init is called.  A panic of the  *)
(* first is the end.                                                       *)
(***************************************************************************)
EXTENDS Ata, Acpi

ThreeSlots == 1 .. 3

\* Entries of processors, whose id may look like the type of an IOAPIC, of an
\* IOAPIC, and of interrupt sources, in some orders.
Processor == <<0, 4, 1, 1>>
Ioapic(addr) == <<1, 6, 2, 1, addr, 0>>
Source == <<2, 3, 1>>

SomeMadts ==
    {<<Processor, Ioapic(254)>>, <<Source, Processor, Ioapic(254), Ioapic(7)>>,
     <<Ioapic(254), Source>>, <<Processor, Source>>}

\* In the memory the kernel maps, and between it and the mmio.
Near == 7
Far == 100
SomeAddresses == {Near, Far}

Table(signature, address) == [signature |-> signature, address |-> address]

SomeRsdts ==
    {<<>>, <<Table("HPET", Near)>>, <<Table("APIC", Near), Table("HPET", Near)>>,
     <<Table("HPET", Near), Table("APIC", Near)>>,
     <<Table("HPET", Far), Table("APIC", Near)>>,
     <<Table("APIC", Near), Table("HPET", Far)>>}

\* The bus is looked at on one machine only.
ProbeInit ==
    /\ AcpiInit
    /\ AtaInit
    /\ \/ config = [s \in Slots |-> Absent]
       \/ start = 0 /\ firm = [rsdp |-> 1, sum |-> TRUE, revision |-> 0,
                              rsdt_address |-> Near, rsdt_sum |-> TRUE,
                              tables |-> <<Table("APIC", Near), Table("HPET", Near)>>,
                              madt |-> <<Ioapic(254), Source>>]

ProbeVars == <<allVars, acpiVars>>

acpi_part == acpi_init /\ UNCHANGED allVars
ata_part == at = "done" /\ ataStep /\ UNCHANGED acpiVars
drive_part == settle /\ UNCHANGED acpiVars

ProbeNext ==
    \/ acpi_part
    \/ at = "done" /\ PciNext /\ pc = "off" /\ UNCHANGED <<acpiVars, ataVars>>
    \/ ata_part
    \/ drive_part
    \/ (pc = "done" \/ at = "panic") /\ UNCHANGED ProbeVars

ProbeSpec ==
    /\ ProbeInit /\ [][ProbeNext]_ProbeVars
    /\ WF_ProbeVars(acpi_part) /\ WF_ProbeVars(ata_part) /\ WF_ProbeVars(drive_part)

\* The boot does not hang while it looks at the machine: acpi_init ends with
\* every table of the kind AcpiEnds names, and identify_ata with every drive.
ProbingEnds == AcpiEnds /\ IdentifyEnds
=============================================================================
