------------------------------- MODULE Devmem --------------------------------
(***************************************************************************)
(* The memory device of drivers/char/devmem.c.  Reading the minor device   *)
(* MEM goes through a window of memory and PORT through the ports, a byte  *)
(* a call, with pointers that all callers share.  port_ptr is a signed     *)
(* integer of PortBits bits, 16 in the code.                               *)
(***************************************************************************)
EXTENDS Integers

CONSTANTS
    MEM_DEV_LO,     \* the window, up to and without MEM_DEV_HI
    MEM_DEV_HI,
    PortBits,
    Bytes           \* bytes that may be read

VARIABLES
    mem_ptr,
    port_ptr,
    swept           \* history: what MEM and PORT have read since their LO

memVars == <<mem_ptr, port_ptr, swept>>

ASSUME DevmemAssumption ==
    /\ MEM_DEV_LO \in Nat \ {0} /\ MEM_DEV_HI \in Nat /\ MEM_DEV_LO < MEM_DEV_HI
    /\ PortBits \in Nat \ {0}
    /\ Bytes \subseteq 0 .. 255

PORT_DEV_LO == 0
PORT_DEV_HI == 2 ^ PortBits - 1

MINOR_DEVMEM_MEM == 1
MINOR_DEVMEM_NULL == 2
MINOR_DEVMEM_PORT == 3
MINOR_DEVMEM_FULL == 4

Minors == {MINOR_DEVMEM_MEM, MINOR_DEVMEM_NULL, MINOR_DEVMEM_PORT, MINOR_DEVMEM_FULL}

EPERM == 1
ENOSPC == 28

Lo == [mem |-> MEM_DEV_LO, port |-> PORT_DEV_LO]
Window == [mem |-> MEM_DEV_LO .. MEM_DEV_HI - 1, port |-> 0 .. 2 ^ PortBits - 1]

\* The pointers are in .bss.
MemInit ==
    /\ mem_ptr = 0
    /\ port_ptr = 0
    /\ swept = [w \in {"mem", "port"} |-> {}]

\* devmem_init without the registration.
devmem_init ==
    /\ mem_ptr' = MEM_DEV_LO
    /\ port_ptr' = PORT_DEV_LO
    /\ UNCHANGED swept

\* mutant: port_ptr is unsigned
to_short_unsigned(v) == v % 2 ^ PortBits

\* An int stored in a short.
to_short(v) ==
    LET low == v % 2 ^ PortBits
    IN  IF low >= 2 ^ (PortBits - 1) THEN low - 2 ^ PortBits ELSE low

\* A byte returned as a signed char.
to_char(b) == IF b >= 128 THEN b - 256 ELSE b

Sweep(w, place) ==
    swept' = [swept EXCEPT ![w] = IF place = Lo[w] THEN {place} ELSE @ \cup {place}]

\* What devmem_read returns.  A byte of 128 or more is negative, like an error.
\* Since port_ptr is a short it never is as large as PORT_DEV_HI.
devmem_read(minor, code) ==
    CASE minor = MINOR_DEVMEM_MEM ->
           /\ \E b \in Bytes : code = to_char(b)
           /\ mem_ptr' = IF mem_ptr + 1 >= MEM_DEV_HI THEN MEM_DEV_LO ELSE mem_ptr + 1
           /\ Sweep("mem", mem_ptr)
           /\ UNCHANGED port_ptr
      [] minor = MINOR_DEVMEM_PORT ->
           /\ \E b \in Bytes : code = to_char(b)
           /\ LET next == to_short(port_ptr + 1)
              IN  port_ptr' = IF next >= PORT_DEV_HI THEN PORT_DEV_LO ELSE next
           /\ Sweep("port", port_ptr % 2 ^ PortBits)
           /\ UNCHANGED mem_ptr
      [] OTHER -> code = 0 /\ UNCHANGED memVars

devmem_write(minor, code) ==
    /\ code = IF minor = MINOR_DEVMEM_FULL THEN -ENOSPC ELSE -EPERM
    /\ UNCHANGED memVars

MemReplies == {to_char(b) : b \in Bytes} \cup {0, -EPERM, -ENOSPC}

\* What the other parts of the kernel do with the device: char_init registers
\* it, once, and no call gets here before.
MemNext ==
    \/ mem_ptr = 0 /\ devmem_init
    \/ mem_ptr # 0 /\ \E minor \in Minors, code \in MemReplies :
                        devmem_read(minor, code) \/ devmem_write(minor, code)

MemSpec == MemInit /\ [][MemNext]_memVars

-----------------------------------------------------------------------------

\* A sweep begins anew.
Restarts(w) == swept[w] # {} /\ swept'[w] # swept[w] /\ swept'[w] = {Lo[w]}

(* Whoever reads MEM or PORT byte after byte gets every address of the      *)
(* window and every port, the last one included, before the first comes     *)
(* again, and nothing else.                                                 *)
ReadsSweep ==
    [][\A w \in {"mem", "port"} :
          /\ swept'[w] \subseteq Window[w]
          /\ Restarts(w) => swept[w] = Window[w]]_memVars
=============================================================================
