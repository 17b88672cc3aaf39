--------------------------------- MODULE Pci ---------------------------------
(***************************************************************************)
(* drivers/pci.c: the scan of the configuration space into a list of       *)
(* lib/list.c, and the searches that go through the list with a callback   *)
(* and static variables.  A slot stands for a bus, device and function, in *)
(* the order of the scan; of its registers only the class and subclass     *)
(* matter, as one value.                                                   *)
(***************************************************************************)
EXTENDS List, FiniteSetsExt

CONSTANTS
    NrSlots,        \* the functions that are probed; the first is 0:0.0
    Classes,        \* class and subclass of a device
    Absent,         \* vendor 0xFFFF
    BufSizes        \* the sizes callers of get_device_by_class pass

VARIABLES
    config,         \* config[s]: the class of the device in slot s, or Absent
    scan,           \* the slot pci_init probes next, 0 before it was called
    swap1,          \* what callback1 found
    index_swap,     \* how many devices callback2 stored
    buf,            \* the caller's buffer
    reply           \* the last search and its result

pciVars == <<config, scan, swap1, index_swap, buf, reply>>

Slots == 1 .. NrSlots

ASSUME PciAssumption ==
    /\ NrSlots \in Nat \ {0} /\ Slots \subseteq Payloads
    /\ Absent \notin Classes
    /\ BufSizes \subseteq Nat

NoReply == [search |-> "none", key |-> 0, found |-> NIL, count |-> 0]

PciInit ==
    /\ ListInit
    /\ config \in [Slots -> Classes \cup {Absent}]
    /\ scan = 0
    /\ swap1 = NIL
    /\ index_swap = 0
    /\ buf = NIL
    /\ reply = NoReply

check_device(s) == config[s] # Absent

\* The beginning of pci_init: without a device 0:0.0 there is no PCI.
pci_probe ==
    /\ scan = 0
    /\ scan' = IF check_device(1) THEN 1 ELSE NrSlots + 1
    /\ UNCHANGED <<listVars, config, swap1, index_swap, buf, reply>>

classfy_device(s) == \E t \in Tasks : list_insert(t, s)

\* One round of the loop of pci_init.
pci_init ==
    /\ scan \in Slots
    /\ scan' = scan + 1
    /\ IF check_device(scan) THEN classfy_device(scan) ELSE UNCHANGED listVars
    /\ UNCHANGED <<config, swap1, index_swap, buf, reply>>

Scanned == scan = NrSlots + 1

\* list_iter with a callback that stops at the devices of stop: the device it
\* stopped at, or NULL.
found_by_iter(stop) ==
    LET seen == Visits(stop)
    IN  IF seen # <<>> /\ seen[Len(seen)] \in stop THEN seen[Len(seen)] ELSE NIL

\* mutant: swap1 is not reset
get_device_by_id_stale(s) ==
    /\ swap1' = IF found_by_iter({s}) = NIL THEN swap1 ELSE s
    /\ reply' = [search |-> "id", key |-> s, found |-> swap1',
                 count |-> IF swap1' = NIL THEN 0 ELSE 1]
    /\ UNCHANGED <<config, scan, index_swap, buf>>

get_device_by_id(s) ==
    /\ swap1' = found_by_iter({s})
    /\ reply' = [search |-> "id", key |-> s, found |-> swap1',
                 count |-> IF swap1' = NIL THEN 0 ELSE 1]
    /\ UNCHANGED <<config, scan, index_swap, buf>>

\* callback2 stores a device and stops the iteration: with index_swap still 0
\* there is room in a buffer of any size, and buf[1] is never written.
get_device_by_class(c, bufsz) ==
    LET dev == found_by_iter({s \in Slots : config[s] = c})
        stored == dev # NIL /\ (bufsz = 0 \/ bufsz > 0)
    IN  /\ index_swap' = IF stored THEN 1 ELSE 0
        /\ buf' = IF stored THEN dev ELSE buf
        /\ reply' = [search |-> "class", key |-> c, found |-> buf', count |-> index_swap']
        /\ UNCHANGED <<config, scan, swap1>>

search ==
    /\ Scanned
    /\ \/ \E s \in Slots : get_device_by_id(s)
       \/ \E c \in Classes, bufsz \in BufSizes : get_device_by_class(c, bufsz)
    /\ UNCHANGED listVars

PciNext == pci_probe \/ pci_init \/ search

-----------------------------------------------------------------------------
(* Properties                                                              *)

\* The devices the scan can find: none without 0:0.0.
Found == {s \in Slots : config[s] # Absent /\ config[1] # Absent}

\* A search by bus, device and function finds the device exactly if there is
\* one: no device was lost between the scan and the list, and nothing is left
\* of the searches before.
FoundById ==
    reply.search = "id" =>
        reply.found = IF reply.key \in Found THEN reply.key ELSE NIL

\* A search by class finds one device of the class if there is any, however
\* large the buffer is.  New nodes come behind the head, so it is the device
\* 0:0.0 or else the one that was scanned last.
FoundByClass ==
    reply.search = "class" =>
        LET matches == {s \in Found : config[s] = reply.key}
        IN  /\ reply.count = IF matches = {} THEN 0 ELSE 1
            /\ matches # {} => reply.found = IF 1 \in matches THEN 1 ELSE Max(matches)

\* The searches find what was scanned, in any order of calls.
SearchesFind == FoundById /\ FoundByClass
=============================================================================
