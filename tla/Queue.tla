-------------------------------- MODULE Queue --------------------------------
(***************************************************************************)
(* What the byte queue promises: first in, first out, for Capacity         *)
(* elements.  Nothing is promised any more once an element was put into a  *)
(* full queue, or one was asked for before the first was put.              *)
(***************************************************************************)
EXTENDS Integers, Sequences

CONSTANTS Capacity, Values, Zero

VARIABLES
    queue,          \* the elements, the oldest first
    used,           \* something was put
    lost,           \* the queue was misused
    reply           \* the last operation and its result

queueVars == <<queue, used, lost, reply>>

Reply(op, code, value) == [op |-> op, code |-> code, value |-> value]

QueueInit ==
    /\ queue = <<>> /\ used = FALSE /\ lost = FALSE
    /\ reply = Reply("none", 0, Zero)

\* The code tells nothing: an element that is put may be answered with -1.
Put(v) ==
    /\ ~ lost /\ Len(queue) < Capacity
    /\ queue' = Append(queue, v)
    /\ used' = TRUE
    /\ \E code \in {0, -1} : reply' = Reply("put", code, v)
    /\ UNCHANGED lost

Take ==
    /\ ~ lost /\ queue # <<>>
    /\ queue' = Tail(queue)
    /\ reply' = Reply("take", 0, Head(queue))
    /\ UNCHANGED <<used, lost>>

TakeNothing ==
    /\ ~ lost /\ queue = <<>> /\ used
    /\ reply' = Reply("take", -1, Zero)
    /\ UNCHANGED <<queue, used, lost>>

Misuse ==
    /\ Len(queue) = Capacity \/ ~ used
    /\ lost' = TRUE

Unspecified == lost /\ lost'

QueueNext == (\E v \in Values : Put(v)) \/ Take \/ TakeNothing \/ Misuse \/ Unspecified

QueueSpec == QueueInit /\ [][QueueNext]_queueVars
=============================================================================
