-------------------------------- MODULE Fifo ---------------------------------
(***************************************************************************)
(* The ring buffer of lib/fifo.c.  The pointers start and end are indexes  *)
(* of elements; no element is kept free to tell a full buffer from an      *)
(* empty one, and dirty tells an empty one from a fresh one.               *)
(***************************************************************************)
EXTENDS Integers, Sequences

CONSTANTS
    size,           \* the arguments of alloc_fifo, in bytes
    data_size,
    Values,         \* elements
    Zero            \* the element memset makes

VARIABLES
    data,           \* the elements of the buffer
    start,          \* the next element to be taken
    end,            \* the next element to be written
    dirty,          \* 1 once something was written
    misused,        \* history: a full buffer was written or a fresh one read
    reply           \* the last operation, what it returned and the element

fifoVars == <<data, start, end, dirty, misused, reply>>

\* alloc_fifo rounds size up to whole elements.
rounded ==
    IF size % data_size # 0 THEN size + (data_size - (size % data_size)) ELSE size

Slots == rounded \div data_size

\* The last conjunct follows from the first and is stated for the proofs.
ASSUME FifoAssumption ==
    /\ size \in Nat \ {0} /\ data_size \in Nat \ {0}
    /\ Zero \in Values
    /\ Slots \in Nat \ {0}

Index == 0 .. Slots - 1

\* The memory palloc returns holds anything.
alloc_fifo ==
    /\ data \in [Index -> Values]
    /\ start = 0
    /\ end = 0
    /\ dirty = 0

FifoInit ==
    /\ alloc_fifo
    /\ misused = FALSE
    /\ reply = [op |-> "none", code |-> 0, value |-> Zero]

\* A pointer moves on to the next element, from the last to the first.
step(p) == IF p + 1 >= Slots THEN 0 ELSE p + 1

\* How many elements lie between start and end.
Held == IF end >= start THEN end - start ELSE end - start + Slots

\* mutant: the pointer moves before the element is stored
fifo_enqueue_late(v) ==
    /\ dirty' = 1
    /\ data' = [data EXCEPT ![step(end)] = v]
    /\ end' = step(end)
    /\ reply' = [op |-> "put", code |-> IF end + 1 >= Slots THEN -1 ELSE 0, value |-> v]
    /\ misused' = (misused \/ Held = Slots - 1)
    /\ UNCHANGED start

\* The element is stored whether there is room or not; -1 says that the end
\* of the buffer was reached.
fifo_enqueue(v) ==
    /\ dirty' = 1
    /\ data' = [data EXCEPT ![end] = v]
    /\ end' = step(end)
    /\ reply' = [op |-> "put", code |-> IF end + 1 >= Slots THEN -1 ELSE 0, value |-> v]
    /\ misused' = (misused \/ Held = Slots - 1)
    /\ UNCHANGED start

fifo_dequeue ==
    /\ IF start = end /\ dirty = 1
       THEN /\ reply' = [op |-> "take", code |-> -1, value |-> Zero]
            /\ UNCHANGED start
       ELSE /\ reply' = [op |-> "take", code |-> 0, value |-> data[start]]
            /\ start' = step(start)
    /\ misused' = (misused \/ dirty = 0)
    /\ UNCHANGED <<data, end, dirty>>

FifoNext == (\E v \in Values : fifo_enqueue(v)) \/ fifo_dequeue

FifoSpec == FifoInit /\ [][FifoNext]_fifoVars

-----------------------------------------------------------------------------
(* Properties                                                              *)

FifoTypeOK ==
    /\ data \in [Index -> Values]
    /\ start \in Index /\ end \in Index
    /\ dirty \in {0, 1}
    /\ misused \in BOOLEAN
    /\ reply \in [op : {"none", "put", "take"}, code : {0, -1}, value : Values]

\* The position of the i-th element.
Position(i) == IF start + i - 1 >= Slots THEN start + i - 1 - Slots ELSE start + i - 1

Contents == [i \in 1 .. Held |-> data[Position(i)]]

Q == INSTANCE Queue WITH
        Capacity <- Slots - 1,
        queue <- IF misused THEN <<>> ELSE Contents,
        used <- dirty = 1,
        lost <- misused

\* The buffer is a first-in first-out queue for one element less than it has
\* room for, wherever start and end are when they pass the end of the buffer.
\* The element too many makes it look empty, and a read before the first write
\* makes it look full: from then on nothing is promised.
FifoIsQueue == Q!QueueSpec
=============================================================================
