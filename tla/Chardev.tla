------------------------------ MODULE Chardev -------------------------------
(***************************************************************************)
(* The table of character devices of drivers/char/chardev.c: a tree of     *)
(* lib/bst.c from major numbers to the handlers a driver registered.  A    *)
(* driver is its name and the set of its handlers that are not NULL; what  *)
(* its handlers do is the matter of the module that composes them.         *)
(***************************************************************************)
EXTENDS Bst

VARIABLE
    lastCall        \* the last call on a device and what came of it

devVars == <<heap, root, given, lastCall>>

\* From include/errno.h.
ENODEV == 19

NoCall == [table |-> "none"]

DevInit == BstInit /\ lastCall = NoCall

\* What bst_insert returns is not looked at: a major that is taken keeps its
\* device.
creat_cdev(major, driver) ==
    /\ bst_insert(major, driver)
    /\ lastCall' = NoCall

\* The driver whose handler for op is called for the device dev that a search
\* found; without one the call returns -ENODEV.
handler(op, dev) ==
    IF dev # Nothing /\ op \in dev.ops THEN dev.name ELSE "none"

\* cread, cwrite and cioctl: the driver called for major.
dispatch(op, major) == handler(op, bst_search(heap, root, major))

answer(table, op, major, driver, code) ==
    lastCall' = [table |-> table, op |-> op, major |-> major, driver |-> driver,
                 code |-> code]

-----------------------------------------------------------------------------

\* What the callers of table expect: a call reaches only a handler of the
\* driver its own major was registered with, and if at most two drivers are
\* registered it does reach it.
Reaches(table, g) ==
    lastCall.table = table =>
        LET dev == g[lastCall.major]
            registered == {id \in DOMAIN g : g[id] # Nothing}
            offered == dev # Nothing /\ lastCall.op \in dev.ops
            expected == IF offered THEN dev.name ELSE "none"
        IN  /\ lastCall.driver \in {"none", expected}
            /\ Cardinality(registered) <= 2 => lastCall.driver = expected
=============================================================================
