-------------------------------- MODULE Ring --------------------------------
(***************************************************************************)
(* What the circular list promises its user: a sequence that begins with   *)
(* the element head points to.  Once that element has been deleted nothing *)
(* is promised any more.                                                   *)
(***************************************************************************)
EXTENDS Integers, Sequences, SequencesExt

CONSTANT Data       \* the elements

VARIABLES
    ring,           \* the elements, the head's first
    visited,        \* what the last iteration passed to its callback
    lost            \* the head's element was deleted

RingInit == ring = <<>> /\ visited = <<>> /\ lost = FALSE

\* A new element comes second, or first if there is none.
Insert(d) ==
    /\ ~ lost
    /\ ring' = InsertAt(ring, IF ring = <<>> THEN 1 ELSE 2, d)
    /\ UNCHANGED <<visited, lost>>

Delete(i) ==
    /\ i > 1 /\ ring' = RemoveAt(ring, i)
    /\ UNCHANGED <<visited, lost>>

\* The elements up to the first one that the callback stops at.
UpTo(stop) ==
    LET stops == {i \in DOMAIN ring : ring[i] \in stop}
    IN  IF stops = {} THEN ring
        ELSE SubSeq(ring, 1, CHOOSE i \in stops : \A j \in stops : i <= j)

Visit(stop) ==
    /\ ~ lost /\ visited' = UpTo(stop)
    /\ UNCHANGED <<ring, lost>>

DeleteHead ==
    /\ ring # <<>>
    /\ lost' = TRUE /\ ring' = <<>>
    /\ UNCHANGED visited

Unspecified == lost /\ UNCHANGED <<ring, lost>>

RingNext ==
    \/ \E d \in Data : Insert(d)
    \/ \E i \in DOMAIN ring : Delete(i)
    \/ \E stop \in SUBSET Data : Visit(stop)
    \/ DeleteHead
    \/ Unspecified

RingSpec == RingInit /\ [][RingNext]_<<ring, visited, lost>>
=============================================================================
