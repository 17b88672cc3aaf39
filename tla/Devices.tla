------------------------------- MODULE Devices -------------------------------
(***************************************************************************)
(* The device tables with the drivers behind them: the character devices   *)
(* of Chardev, with devmem and the terminal, and the block devices of      *)
(* drivers/block/blkdev.c, a second tree.                                  *)
(***************************************************************************)
EXTENDS Chardev, Devmem

CONSTANTS
    BlockDrivers,   \* drivers that may be registered for block devices
    Codes           \* what handlers that are not modelled may return

VARIABLES
    bheap, broot, bgiven    \* the tree blkdev_root and what was stored there

Block == INSTANCE Bst WITH heap <- bheap, root <- broot, given <- bgiven,
                           Data <- BlockDrivers

blkVars == <<bheap, broot, bgiven>>
devicesVars == <<devVars, memVars, blkVars>>

MAJOR_MEM == 1

Devmem == [name |-> "devmem", ops |-> {"read", "write"}]

\* The memory device is one of the drivers, under one of the majors, the only
\* one with its handlers, and no driver is NULL.
ASSUME DevicesAssumption ==
    /\ MAJOR_MEM \in Ids /\ Devmem \in Data /\ Nothing \notin BlockDrivers
    /\ \A d \in Data : d.name = "devmem" => d = Devmem

Ops == {"read", "write", "ioctl"}

DevicesInit == DevInit /\ MemInit /\ Block!BstInit

\* devmem_init of char_init: once.
register_devmem ==
    /\ mem_ptr = 0
    /\ creat_cdev(MAJOR_MEM, Devmem)
    /\ devmem_init
    /\ UNCHANGED blkVars

register_char(major, driver) ==
    /\ driver # Devmem
    /\ creat_cdev(major, driver)
    /\ UNCHANGED <<memVars, blkVars>>

\* The handler that was found is called.  tty_write ends without a return
\* value on most of its paths: its code is anything.
called(driver, op, minor, code) ==
    CASE driver = "none" -> code = -ENODEV /\ UNCHANGED memVars
      [] driver = "devmem" /\ op = "read" -> devmem_read(minor, code)
      [] driver = "devmem" /\ op = "write" -> devmem_write(minor, code)
      [] OTHER -> code \in Codes /\ UNCHANGED memVars

Replies ==
    Codes \cup MemReplies \cup {-ENODEV}

char_call(op, major, minor) ==
    /\ LET driver == dispatch(op, major)
       IN  \E code \in Replies :
              /\ called(driver, op, minor, code)
              /\ answer("char", op, major, driver, code)
    /\ UNCHANGED <<heap, root, given, blkVars>>

cread(major, minor) == char_call("read", major, minor)
cwrite(major, minor) == char_call("write", major, minor)
cioctl(major, minor) == char_call("ioctl", major, minor)

creat_bdev(major, driver) ==
    /\ Block!bst_insert(major, driver)
    /\ lastCall' = NoCall
    /\ UNCHANGED <<heap, root, given, memVars>>

\* mutant: the device is looked for among the character devices
bdispatch_char(op, major) == handler(op, bst_search(heap, root, major))

\* The driver bread, bwrite or bioctl call for major.
bdispatch(op, major) == handler(op, Block!bst_search(bheap, broot, major))

block_call(op, major) ==
    /\ LET driver == bdispatch(op, major)
       IN  \E code \in Replies :
              /\ code \in IF driver = "none" THEN {-ENODEV} ELSE Codes
              /\ answer("block", op, major, driver, code)
    /\ UNCHANGED <<heap, root, given, memVars, blkVars>>

bread(major) == block_call("read", major)
bwrite(major) == block_call("write", major)
bioctl(major) == block_call("ioctl", major)

DevicesNext ==
    \/ register_devmem
    \/ \E major \in Ids :
        \/ \E driver \in Data : register_char(major, driver)
        \/ \E driver \in BlockDrivers : creat_bdev(major, driver)
        \/ \E minor \in Minors : cread(major, minor) \/ cwrite(major, minor)
                                 \/ cioctl(major, minor)
        \/ bread(major) \/ bwrite(major) \/ bioctl(major)

DevicesSpec == DevicesInit /\ [][DevicesNext]_devicesVars

-----------------------------------------------------------------------------

(* A call on a device reaches the handler of the driver that is registered  *)
(* for its major in its own table, and -ENODEV means that there is none,    *)
(* while at most two drivers are registered there; a block device and a     *)
(* character device may have the same major.  creat_cdev and creat_bdev     *)
(* ignore what bst_insert returns, so nothing else would tell of a lost     *)
(* device.                                                                  *)
CallsReachTheirDevice == Reaches("char", given) /\ Reaches("block", bgiven)
=============================================================================
