--------------------------------- MODULE Irq ---------------------------------
(***************************************************************************)
(* The way of an interrupt from a pin of the IOAPIC over the local APIC to *)
(* a gate of the IDT, as kernel/cpu.c, kernel/apic.c, serial.c, time.c and *)
(* ata.c set it up while kmain boots, with the pins raised at any time.    *)
(*                                                                         *)
(* A gate is known by the kind of the handler behind it: every exception   *)
(* handler of kernel/interrupt.c panics, and so does the one for vectors   *)
(* nobody has asked for.  The calls of kmain that touch neither the IDT    *)
(* nor the IOAPIC (mm_init, pci_init, fs_init, devmem_init, tty_init) are  *)
(* left out.  block_init is commented out in kmain; block says whether it  *)
(* is called.                                                              *)
(***************************************************************************)
EXTENDS Integers, FiniteSetsExt

CONSTANTS
    NrPins,         \* the redirection entries serial_init goes through, 24
    NrVectors,      \* entries of idt
    RaisingPins,    \* the pins with a device that raises them
    BlockInit       \* the values block may have

VARIABLES
    stage,          \* the step kmain takes next, or "running" or "panic"
    next_pin,       \* the loop variable of serial_init
    features,       \* which of the features that check_cpu asks for the CPU has
    block,          \* block_init is called
    idt,            \* idt[v]: the handler behind the gate of vector v
    redir,          \* redir[p]: the vector of pin p, or Masked
    irr,            \* the vectors the local APIC was asked to deliver
    isr,            \* the vectors being served: delivered and no EOI yet
    conflict        \* history: a pin was raised with an exception's vector

irqVars == <<stage, next_pin, features, block, idt, redir, irr, isr, conflict>>

PIT_PIN == 2
PIT_VECTOR == 32
PRIM_CHNN_IRQ == 14
PRIM_CHNN_VEC == 33
SCND_CHNN_IRQ == 15
SCND_CHNN_VEC == 34

ASSUME IrqAssumption ==
    /\ NrPins \in Nat /\ NrPins > SCND_CHNN_IRQ
    /\ NrVectors \in Nat /\ NrVectors > SCND_CHNN_VEC
    /\ RaisingPins \subseteq 0 .. NrPins - 1
    /\ BlockInit \subseteq BOOLEAN

Pins == 0 .. NrPins - 1
Vectors == 0 .. NrVectors - 1
Masked == -1

\* The features with a star in cpuid_feat_d; cpuid_feat_c has none.
Mandatory == {"pse", "msr", "pae", "apic"}

Handlers == {"none", "exception", "reserved", "pit_int", "ata_int"}

-----------------------------------------------------------------------------
(* The steps of kmain, in the order of stage                               *)

\* idt is in .bss, and an IOAPIC masks its pins when it is reset.
IrqInit ==
    /\ stage = "check_cpu"
    /\ next_pin = 0
    /\ features \in SUBSET Mandatory
    /\ block \in BlockInit
    /\ idt = [v \in Vectors |-> "none"]
    /\ redir = [p \in Pins |-> Masked]
    /\ irr = {}
    /\ isr = {}
    /\ conflict = FALSE

Goto(from, to) == stage = from /\ stage' = to

check_cpu ==
    /\ Goto("check_cpu", IF Mandatory \subseteq features THEN "arch_init" ELSE "panic")
    /\ UNCHANGED <<next_pin, features, block, idt, redir, irr, isr, conflict>>

\* set_int_gate and set_system_gate, for the vectors of vs.
set_gates(vs, handler) == idt' = [v \in Vectors |-> IF v \in vs THEN handler ELSE idt[v]]

\* acpi_init, called here, is in Acpi.  After apic_init, which turns the PIC off
\* and the local APIC on, an interrupt comes by the pins of the IOAPIC only.
arch_init ==
    /\ Goto("arch_init", IF block THEN "block_init" ELSE "serial_init")
    /\ idt' = [v \in Vectors |-> IF v <= 14 THEN "exception" ELSE "reserved"]
    /\ UNCHANGED <<next_pin, features, block, redir, irr, isr, conflict>>

\* vs: a function from some pins to their vectors.
ioapic_enable(vs) ==
    redir' = [p \in Pins |-> IF p \in DOMAIN vs THEN vs[p] ELSE redir[p]]

\* ata_init, with a drive on any of the two channels.
block_init ==
    /\ Goto("block_init", "serial_init")
    /\ \E found \in SUBSET {PRIM_CHNN_IRQ, SCND_CHNN_IRQ} :
          LET vector == [p \in found |->
                            IF p = PRIM_CHNN_IRQ THEN PRIM_CHNN_VEC ELSE SCND_CHNN_VEC]
          IN  /\ set_gates({vector[p] : p \in found}, "ata_int")
              /\ ioapic_enable(vector)
    /\ UNCHANGED <<next_pin, features, block, irr, isr, conflict>>

\* One round of the loop over the pins; all of them get an exception's vector.
serial_init ==
    /\ Goto("serial_init", IF next_pin = NrPins - 1 THEN "pit_init" ELSE "serial_init")
    /\ ioapic_enable([p \in {next_pin} |-> next_pin % 14])
    /\ next_pin' = IF next_pin = NrPins - 1 THEN 0 ELSE next_pin + 1
    /\ UNCHANGED <<features, block, idt, irr, isr, conflict>>

\* mutant: the gate is set for another vector
pit_init_other_gate ==
    /\ Goto("pit_init", "sched_init")
    /\ set_gates({PIT_VECTOR + 1}, "pit_int")
    /\ ioapic_enable([p \in {PIT_PIN} |-> PIT_VECTOR])
    /\ UNCHANGED <<next_pin, features, block, irr, isr, conflict>>

pit_init ==
    /\ Goto("pit_init", "sched_init")
    /\ set_gates({PIT_VECTOR}, "pit_int")
    /\ ioapic_enable([p \in {PIT_PIN} |-> PIT_VECTOR])
    /\ UNCHANGED <<next_pin, features, block, irr, isr, conflict>>

-----------------------------------------------------------------------------
(* The hardware                                                            *)

\* A pin is raised and the IOAPIC sends its vector.  Whether a local APIC
\* takes one below 16, which is illegal, depends on the machine.
raise(p) ==
    /\ redir[p] # Masked
    /\ \/ irr' = irr \cup {redir[p]} /\ conflict' = (conflict \/ redir[p] <= 14)
       \/ redir[p] < 16 /\ UNCHANGED <<irr, conflict>>
    /\ UNCHANGED <<stage, next_pin, features, block, idt, redir, isr>>

Class(v) == v \div 16

\* The vectors the local APIC delivers next: the highest one, if its class is
\* above those being served.
Deliverable ==
    {v \in irr : v = Max(irr) /\ \A s \in isr : Class(v) > Class(s)}

\* mutant: the write to the EOI register is missing
eoi_apic_missing(served) == served

\* eoi_apic ends the service of the highest vector being served.
eoi_apic(served) == served \ {Max(served)}
=============================================================================
