-------------------------------- MODULE List --------------------------------
(***************************************************************************)
(* The circular doubly linked list of lib/list.c, which holds the mount    *)
(* points and the PCI devices.  A node is an address from Addr; kmalloc    *)
(* gives any that is not in use, the one that was freed last included.     *)
(* list_delete goes on writing to a node after it has freed it, so it is   *)
(* two steps, between which the other tasks may run.                       *)
(***************************************************************************)
EXTENDS Integers, Sequences, FiniteSets

CONSTANTS
    Addr,           \* addresses of nodes
    Payloads,       \* what is stored
    NoData,         \* the NULL that list_delete leaves in data
    Tasks           \* the callers

VARIABLES
    node,           \* memory: the fields at each address
    live,           \* the addresses that are allocated
    head,           \* the caller's pointer
    clearing,       \* clearing[t]: the node task t has freed and will clear
    visited,        \* the data of the nodes the last list_iter called back
    fault           \* a NULL was followed

listVars == <<node, live, head, clearing, visited, fault>>

ASSUME ListAssumption == Addr \subseteq Nat \ {0} /\ IsFiniteSet(Addr) /\ NoData \notin Payloads

\* NULL
NIL == 0

Cleared == [prev |-> NIL, next |-> NIL, data |-> NoData]

ListInit ==
    /\ node = [n \in Addr |-> Cleared]
    /\ live = {}
    /\ head = NIL
    /\ clearing = [t \in Tasks |-> NIL]
    /\ visited = <<>>
    /\ fault = FALSE

Ready(t) == ~ fault /\ clearing[t] = NIL

\* mutant: the node behind the new one keeps pointing to the head
linked_one_way(n, d) ==
    [node EXCEPT ![n] = [prev |-> head, next |-> node[head].next, data |-> d],
                 ![head].next = n]

\* The memory after the new node n was linked behind the head.
linked(n, d) ==
    LET second == node[head].next
        new == [node EXCEPT ![n] = [prev |-> head, next |-> second, data |-> d]]
    IN  [new EXCEPT ![second].prev = n, ![head].next = n]

\* A head that was deleted is followed all the same: its next is NULL, and
\* the state is left as it was when the kernel panics.
list_insert(t, d) ==
    /\ Ready(t)
    /\ \E n \in Addr \ live :
          \/ /\ head = NIL
             /\ node' = [node EXCEPT ![n] = [prev |-> n, next |-> n, data |-> d]]
             /\ head' = n
             /\ live' = live \cup {n}
             /\ UNCHANGED fault
          \/ /\ head # NIL /\ n # head /\ node[head].next # NIL
             /\ node' = linked(n, d)
             /\ live' = live \cup {n}
             /\ UNCHANGED <<head, fault>>
          \/ /\ head # NIL /\ (n = head \/ node[head].next = NIL)
             /\ fault' = TRUE
             /\ UNCHANGED <<node, live, head>>
    /\ UNCHANGED <<clearing, visited>>

\* The memory after n was taken out.
unlinked(n) ==
    LET p == node[n].prev
        s == node[n].next
    IN  IF NIL \in {p, s} THEN node
        ELSE [[node EXCEPT ![p].next = s] EXCEPT ![s].prev = p]

\* list_delete up to kfree; head is not the concern of this function.
list_delete(t, n) ==
    /\ Ready(t) /\ n \in live
    /\ node' = unlinked(n)
    /\ live' = live \ {n}
    /\ clearing' = [clearing EXCEPT ![t] = n]
    /\ UNCHANGED <<head, visited, fault>>

\* The rest of list_delete.
clear(t) ==
    /\ clearing[t] # NIL
    /\ node' = [node EXCEPT ![clearing[t]] = Cleared]
    /\ clearing' = [clearing EXCEPT ![t] = NIL]
    /\ UNCHANGED <<live, head, visited, fault>>

\* The nodes met when next is followed from head.
At ==
    LET at[k \in 0 .. Cardinality(Addr)] ==
            IF k = 0 THEN head
            ELSE IF at[k - 1] = NIL THEN NIL ELSE node[at[k - 1]].next
    IN  at

\* Where list_iter ends when no callback stops it: at NULL or at the head.
Ends == LET at == At IN {k \in 1 .. Cardinality(Addr) : at[k] \in {NIL, head}}

\* The data of the nodes list_iter goes through.
Elements ==
    LET at == At
        ends == Ends
        length == IF head = NIL THEN 0 ELSE CHOOSE k \in ends : \A j \in ends : k <= j
    IN  [i \in 1 .. length |-> node[at[i - 1]].data]

\* mutant: the element that stops the iteration is not passed on
Visits_before(stop) ==
    LET all == Elements
        stops == {i \in DOMAIN all : all[i] \in stop}
    IN  IF stops = {} THEN all
        ELSE SubSeq(all, 1, (CHOOSE i \in stops : \A j \in stops : i <= j) - 1)

\* What the callbacks see that return nonzero for the data of stop.
Visits(stop) ==
    LET all == Elements
        stops == {i \in DOMAIN all : all[i] \in stop}
    IN  IF stops = {} THEN all
        ELSE SubSeq(all, 1, CHOOSE i \in stops : \A j \in stops : i <= j)

list_iter(t, stop) ==
    /\ Ready(t)
    /\ visited' = Visits(stop)
    /\ UNCHANGED <<node, live, head, clearing, fault>>

Stopped == fault /\ UNCHANGED listVars

ListNext ==
    \/ \E t \in Tasks :
        \/ \E d \in Payloads : list_insert(t, d)
        \/ \E n \in Addr : list_delete(t, n)
        \/ clear(t)
        \/ \E stop \in SUBSET Payloads : list_iter(t, stop)
    \/ Stopped

ListSpec == ListInit /\ [][ListNext]_listVars

-----------------------------------------------------------------------------
(* Properties                                                              *)

\* The node head points to was deleted: list_delete does not know of head.
Dangling == head # NIL /\ head \notin live

\* The links of the nodes in use agree in both directions and never lead to
\* a node that was freed, through every order of insertions and deletions and
\* reuse of memory, also when the head is the node that was deleted.
LinksAgree ==
    \A n \in live :
        ~ fault => /\ node[n].next \in live /\ node[node[n].next].prev = n
                   /\ node[n].prev \in live /\ node[node[n].prev].next = n

\* list_iter comes to an end, and a NULL is followed only after the head's
\* node was deleted.
OnlyHeadDeletionHurts ==
    /\ \A t \in Tasks : Ready(t) /\ head # NIL => Ends # {}
    /\ fault => Dangling

\* The list is circular and can be walked.
ListSound == LinksAgree /\ OnlyHeadDeletionHurts

R == INSTANCE Ring WITH
        Data <- Payloads,
        ring <- IF Dangling THEN <<>> ELSE Elements,
        lost <- Dangling

\* The linked nodes implement the sequence of Ring: insertion behind the head,
\* deletion of any element but the head's, iteration from the head on.
ListImplementsRing == R!RingSpec
=============================================================================
