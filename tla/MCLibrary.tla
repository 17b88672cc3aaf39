------------------------------ MODULE MCLibrary ------------------------------
(***************************************************************************)
(* The data structures of lib/ and the conversions of printk, which share  *)
(* no state.  A behaviour is about one of them, and the others stay as     *)
(* they are at the beginning.                                              *)
(***************************************************************************)
EXTENDS BstDelete, List, Fifo, Printk, Strings

CONSTANT Parts
VARIABLE part

FourAddresses == 1 .. 4

\* Every format of up to three characters; c stands for any character that has
\* no meaning.
ShortFormats ==
    UNION {[1 .. n -> {"%", "d", "u", "x", "X", "p", "s", "3", "c"}] : n \in 1 .. 3}

\* Strings with and without percent signs.
SomeStrings == {<<"c">>, <<"c", "%">>, <<"%", "s">>, <<"%", "%">>}

LibraryInit ==
    /\ part \in Parts
    /\ BstInit
    /\ ListInit
    /\ FifoInit
    /\ part # "fifo" => data = [i \in Index |-> Zero]
    /\ PrintkInit
    /\ part # "printk" => format = <<"c">>
    /\ StringsInit
    /\ part # "strings" => mem = [a \in Where |-> Terminator]

LibraryNext ==
    \/ /\ part = "bst" /\ BstNext
       /\ UNCHANGED <<part, listVars, fifoVars, printkVars, stringVars>>
    \/ /\ part = "list" /\ ListNext
       /\ UNCHANGED <<part, bstVars, fifoVars, printkVars, stringVars>>
    \/ /\ part = "fifo" /\ FifoNext
       /\ UNCHANGED <<part, bstVars, listVars, printkVars, stringVars>>
    \/ /\ part = "printk" /\ printk
       /\ UNCHANGED <<part, bstVars, listVars, fifoVars, stringVars>>
    \/ /\ part = "strings" /\ StringsNext
       /\ UNCHANGED <<part, bstVars, listVars, fifoVars, printkVars>>

LibrarySpec ==
    LibraryInit /\ [][LibraryNext]_<<part, bstVars, listVars, fifoVars, printkVars, stringVars>>
=============================================================================
