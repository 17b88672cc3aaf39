--------------------------------- MODULE Ata ---------------------------------
(***************************************************************************)
(* ata_init of drivers/block/ata.c after pci_init: every drive is asked to *)
(* identify itself, by a loop that reads the status register up to three   *)
(* times a round while the drive changes it.  Then the IDE controller is   *)
(* looked for.  The routing of the two interrupts is in Irq; the transfer  *)
(* that ata_init starts at its end is left out.                            *)
(***************************************************************************)
EXTENDS Pci

CONSTANTS
    NrDrives,       \* the drives asked, 4
    IDE             \* the class of an IDE controller

VARIABLES
    pc,             \* the read of the status register that comes next
    drive,          \* the drive being identified
    kind,           \* kind[d]: what is there
    status,         \* the status register
    valid,          \* ata_device_list[d].valid
    bus_master      \* the controller whose bar gives bus_master_port[0]

ataVars == <<pc, drive, kind, status, valid, bus_master>>
allVars == <<listVars, pciVars, ataVars>>

ASSUME AtaAssumption == NrDrives \in Nat /\ IDE \in Classes

Drives == 1 .. NrDrives
\* A packet device aborts the command; nothing drives the lines of a
\* floating bus.
Kinds == {"absent", "floating", "disk", "packet"}

AtaInit ==
    /\ PciInit
    /\ pc = "off"
    /\ drive = 1
    /\ kind = [d \in Drives |-> "absent"]
    /\ status = {}
    /\ valid = [d \in Drives |-> FALSE]
    /\ bus_master = NIL

\* block_init, which follows pci_init in kmain, calls ata_init: it is the first
\* to search the list.
ata_init ==
    /\ pc = "off" /\ Scanned /\ reply = NoReply
    /\ pc' = "select"
    /\ UNCHANGED <<listVars, pciVars, drive, kind, status, valid, bus_master>>

\* identify_ata up to the command.
select ==
    /\ pc = "select" /\ drive \in Drives
    /\ \E k \in Kinds :
          /\ kind' = [kind EXCEPT ![drive] = k]
          /\ status' = CASE k = "absent" -> {}
                         [] k = "floating" -> {"BSY", "REDY", "ERR"}
                         [] OTHER -> {"BSY"}
    /\ pc' = "present"
    /\ UNCHANGED <<listVars, pciVars, drive, valid, bus_master>>

\* The end of identify_ata with or without a drive.
verdict(ok) ==
    /\ valid' = [valid EXCEPT ![drive] = ok]
    /\ drive' = drive + 1
    /\ pc' = "select"

go(to) == pc' = to /\ UNCHANGED <<valid, drive>>

\* mutant: the ready bit is not waited for
poll_no_ready ==
    \/ pc = "present" /\ IF status = {} THEN verdict(FALSE) ELSE go("err")
    \/ pc = "err" /\ IF "ERR" \in status THEN verdict(FALSE) ELSE go("bsy")
    \/ pc = "bsy" /\ IF "BSY" \notin status THEN go("redy") ELSE verdict(FALSE)
    \/ pc = "redy" /\ IF "REDY" \in status THEN verdict(TRUE) ELSE go("err")

\* mutant: an error is not looked at
poll_no_err ==
    \/ pc = "present" /\ IF status = {} THEN verdict(FALSE) ELSE go("err")
    \/ pc = "err" /\ go("bsy")
    \/ pc = "bsy" /\ IF "BSY" \notin status THEN go("redy") ELSE go("err")
    \/ pc = "redy" /\ IF "REDY" \in status THEN verdict(TRUE) ELSE go("err")

\* One read of the status register, and what identify_ata does with it.
poll ==
    \/ pc = "present" /\ IF status = {} THEN verdict(FALSE) ELSE go("err")
    \/ pc = "err" /\ IF "ERR" \in status THEN verdict(FALSE) ELSE go("bsy")
    \/ pc = "bsy" /\ IF "BSY" \notin status THEN go("redy") ELSE go("err")
    \/ pc = "redy" /\ IF "REDY" \in status THEN verdict(TRUE) ELSE go("err")

identify_ata == poll /\ UNCHANGED <<listVars, pciVars, kind, status, bus_master>>

\* The drive has carried out the command, or has aborted it.
settle ==
    /\ status = {"BSY"}
    /\ status' = IF kind[drive] = "packet" THEN {"REDY", "ERR"} ELSE {"REDY"}
    /\ UNCHANGED <<listVars, pciVars, pc, drive, kind, valid, bus_master>>

\* The search for the controller; bus_master_port keeps its 0 without one.
find_controller ==
    /\ pc = "select" /\ drive > NrDrives
    /\ get_device_by_class(IDE, 2)
    /\ bus_master' = IF index_swap' >= 1 THEN buf' ELSE bus_master
    /\ pc' = "done"
    /\ UNCHANGED <<listVars, drive, kind, status, valid>>

ataStep == ata_init \/ select \/ identify_ata \/ find_controller

\* Without block_init, as kmain is, the list is there for other users.
AtaNext ==
    \/ PciNext /\ pc = "off" /\ UNCHANGED ataVars
    \/ ataStep
    \/ settle
    \/ pc = "done" /\ UNCHANGED allVars

\* The kernel goes on with ata_init, and a drive ends a command it was given.
AtaSpec == AtaInit /\ [][AtaNext]_allVars /\ WF_allVars(ataStep) /\ WF_allVars(settle)

-----------------------------------------------------------------------------
(* Properties                                                              *)

\* The verdict on a drive is right whenever the drive changes its status in
\* the three reads of a round: a disk is valid and an empty place is not.  A
\* packet device may be taken for a disk, when it aborts the command between
\* the read for ERR and the read for BSY.
DrivesIdentified ==
    \A d \in Drives : d < drive =>
        /\ kind[d] = "disk" => valid[d]
        /\ valid[d] => kind[d] \in {"disk", "packet"}

\* The loop that polls the status register ends for every drive.
IdentifyEnds == pc # "off" ~> pc = "done"
=============================================================================
