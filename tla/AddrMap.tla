------------------------------- MODULE AddrMap -------------------------------
(***************************************************************************)
(* The fixed correspondence between physical and linear addresses that     *)
(* head.s and arch_init set up and that mm/mmap.c computes.  Addresses are *)
(* numbers below 4 * Quarter and arithmetic wraps there, as it does at     *)
(* 2^32 in the code: Quarter stands for 0x40000000.  The unit is left      *)
(* open; the allocator uses pages, so that there Quarter is 0x40000.       *)
(***************************************************************************)
EXTENDS Integers

CONSTANT Quarter

ASSUME QuarterAssumption == Quarter \in Nat \ {0}

AddrSize == 4 * Quarter
AnyAddr == 0 .. AddrSize - 1

\* The null pointer is the address 0.
NULL == 0

\* 0xC0000000: where the kernel's quarter of the linear space begins.
KERNEL_BASE == 3 * Quarter

\* mutant: the constant of the mmio branch applied in the wrong direction
phy2lin_mmio_up(phy) ==
    IF phy <= Quarter THEN (phy + KERNEL_BASE) % AddrSize
    ELSE IF phy >= KERNEL_BASE THEN (phy + Quarter) % AddrSize
    ELSE NULL

phy2lin(phy) ==
    IF phy <= Quarter THEN (phy + KERNEL_BASE) % AddrSize   \* kernel space
    ELSE IF phy >= KERNEL_BASE THEN phy - Quarter           \* mmio
    ELSE NULL

lin2phy(lin) ==
    IF lin >= KERNEL_BASE THEN lin - KERNEL_BASE            \* kernel space
    ELSE IF lin >= 2 * Quarter THEN lin + Quarter           \* mmio
    ELSE NULL
=============================================================================
