-------------------------------- MODULE Bst ---------------------------------
(***************************************************************************)
(* The search tree of lib/bst.c, which holds the character devices, the    *)
(* block devices, the file-system drivers and the open files.              *)
(*                                                                         *)
(* A node is the position in heap of the record kmalloc returned for it,   *)
(* 0 is NULL.  The nodes are kept as linked by the code, so a subtree that *)
(* a rotation unlinks is still in heap but no longer below root.  parent   *)
(* is written and never read: it is left out.  So is the space of a node   *)
(* that was freed.                                                         *)
(*                                                                         *)
(* This module is what the kernel uses, insertion and search; deletion is  *)
(* in BstDelete.                                                           *)
(***************************************************************************)
EXTENDS Integers, Sequences, SequencesExt, FiniteSets

CONSTANTS
    Ids,            \* the ids in use
    Data,           \* what can be stored under an id
    Nothing,        \* the NULL a search returns
    MaxNodes        \* bound on the nodes ever allocated

VARIABLES
    heap,           \* the nodes allocated so far
    root,           \* the caller's root pointer
    given           \* what the callers stored last under each id, or nothing

bstVars == <<heap, root, given>>

ASSUME BstAssumption ==
    Ids \subseteq Nat /\ MaxNodes \in Nat /\ Nothing \notin Data

NULL == 0
\* A pointer to the caller's data where a node is expected.
Wild == -1

Nodes == 1..Len(heap)

-----------------------------------------------------------------------------
(* Heights and rotations, on a heap h                                      *)

height(h, p) == IF p = NULL THEN -1 ELSE h[p].height

higher(a, b) == IF a > b THEN a ELSE b

update_height(h, p) ==
    [h EXCEPT ![p].height = higher(height(h, h[p].child1), height(h, h[p].child2)) + 1]

balance_factor(h, p) ==
    IF p = NULL THEN 0 ELSE height(h, h[p].child1) - height(h, h[p].child2)

\* Each rotation yields the new heap; the new top, x or y, is h[p].child1 or
\* h[p].child2 of the old one.
rotate_right(h, y) ==
    LET x == h[y].child1
    IN  update_height(update_height(
            [h EXCEPT ![x].child2 = y, ![y].child1 = h[x].child2], y), x)

\* mutant: the node that goes down is not measured
rotate_left_one_height(h, x) ==
    LET y == h[x].child2
    IN  update_height([h EXCEPT ![y].child1 = x, ![x].child2 = h[y].child1], y)

rotate_left(h, x) ==
    LET y == h[x].child2
    IN  update_height(update_height(
            [h EXCEPT ![y].child1 = x, ![x].child2 = h[y].child1], x), y)

\* balance(p): the heap and the pointer it returns.
balance(h, p) ==
    LET bf == balance_factor(h, p)
        l == h[p].child1
        r == h[p].child2
        hl == [rotate_left(h, l) EXCEPT ![p].child1 = h[l].child2]
        hr == [rotate_right(h, r) EXCEPT ![p].child2 = h[r].child1]
        h1 == IF bf > 1 /\ balance_factor(h, l) < 0 THEN hl
              ELSE IF bf < -1 /\ balance_factor(h, r) > 0 THEN hr ELSE h
    IN  CASE bf > 1  -> [heap |-> rotate_right(h1, p), top |-> h1[p].child1]
          [] bf < -1 -> [heap |-> rotate_left(h1, p), top |-> h1[p].child2]
          [] OTHER   -> [heap |-> h, top |-> p]

-----------------------------------------------------------------------------
(* Search and insertion                                                    *)

\* The pointer the search for id follows at node q, and the heap in which it
\* leads to n; none is followed at the node that has the id.
next(h, q, id) ==
    IF id = h[q].id THEN NULL ELSE IF id < h[q].id THEN h[q].child1 ELSE h[q].child2

\* mutant: nodes are linked on the side they are not looked for
link_reversed(h, q, id, n) ==
    IF id < h[q].id THEN [h EXCEPT ![q].child2 = n] ELSE [h EXCEPT ![q].child1 = n]

link(h, q, id, n) ==
    IF id < h[q].id THEN [h EXCEPT ![q].child1 = n] ELSE [h EXCEPT ![q].child2 = n]

\* One node more on the way ps from p down to id.
onward(h, p, id, ps) ==
    LET q == IF ps = <<>> THEN p ELSE next(h, Last(ps), id)
    IN  IF q \in {NULL, Wild} THEN ps ELSE Append(ps, q)

\* The nodes compared with id on the way down from p, the last one with
\* that id if there is one.
path(h, p, id) ==
    LET way[k \in 0 .. Len(h)] ==
            IF k = 0 THEN <<>> ELSE onward(h, p, id, way[k - 1])
    IN  way[Len(h)]

bst_search(h, r, id) ==
    LET ps == path(h, r, id)
    IN  IF ps # <<>> /\ h[Last(ps)].id = id THEN h[Last(ps)].data ELSE Nothing

\* On the way back every ancestor is measured and balanced.  What balance
\* returns is passed up, and no caller stores it.
settle(h, ancestors) ==
    LET settled[k \in 0 .. Len(ancestors)] ==
            IF k = 0 THEN h
            ELSE LET p == ancestors[Len(ancestors) + 1 - k]
                 IN  balance(update_height(settled[k - 1], p), p).heap
    IN  settled[Len(ancestors)]

fresh(id, d) == [id |-> id, data |-> d, child1 |-> NULL, child2 |-> NULL, height |-> 0]

\* mutant: equal ids go to the right
insert_duplicates(h, r, id, d) ==
    LET ps == path(h, r, id)
        n == Len(h) + 1
        h1 == Append(h, fresh(id, d))
    IN  IF ps = <<>> THEN [heap |-> h1, root |-> n]
        ELSE [heap |-> settle(link(h1, Last(ps), id, n), ps), root |-> r]

\* bst_insert(&r, d, id): nothing is stored for an id that is found, but its
\* ancestors are balanced all the same.
insert(h, r, id, d) ==
    LET ps == path(h, r, id)
        n == Len(h) + 1
        h1 == Append(h, fresh(id, d))
    IN  CASE ps = <<>> -> [heap |-> h1, root |-> n]
          [] ps # <<>> /\ h[Last(ps)].id = id ->
               [heap |-> settle(h, Front(ps)), root |-> r]
          [] OTHER ->
               [heap |-> settle(link(h1, Last(ps), id, n), ps), root |-> r]

-----------------------------------------------------------------------------

BstInit ==
    /\ heap = <<>>
    /\ root = NULL
    /\ given = [i \in Ids |-> Nothing]

bst_insert(id, d) ==
    /\ Len(heap) < MaxNodes
    /\ LET r == insert(heap, root, id, d)
       IN  /\ heap' = r.heap
           /\ root' = r.root
           /\ given' = IF Len(r.heap) > Len(heap)
                       THEN [given EXCEPT ![id] = d] ELSE given

Insert == \E id \in Ids, d \in Data : bst_insert(id, d)

\* The kernel only ever inserts and searches.
InsertSpec == BstInit /\ [][Insert]_bstVars

-----------------------------------------------------------------------------

Pointers == {NULL, Wild} \cup Nodes

TypeOK ==
    /\ heap \in Seq([id : Ids, data : Data, child1 : Pointers, child2 : Pointers,
                     height : Nat])
    /\ Len(heap) <= MaxNodes
    /\ root \in Pointers
    /\ given \in [Ids -> Data \cup {Nothing}]

\* The pointers below a node, through which an operation may go.
children(h, p) == IF p \in {NULL, Wild} THEN {} ELSE {h[p].child1, h[p].child2} \ {NULL}

\* What p leads to, with p itself.
reachable(h, p) ==
    LET within[k \in 0 .. Len(h)] ==
            IF k = 0 THEN {p} \ {NULL}
            ELSE LET ps == within[k - 1] IN ps \cup UNION {children(h, q) : q \in ps}
    IN  within[Len(h)]

InTree == reachable(heap, root)

\* No pointer below root leads to a caller's data.
Intact == Wild \notin InTree

(* Every node below root is where a search looks for it: the ids in the     *)
(* left subtree of a node are smaller and those in the right one larger,    *)
(* whatever the rotations of earlier insertions and deletions did, until    *)
(* bst_delete has put a data pointer into the tree.                         *)
Ordered ==
    \A p \in InTree :
        /\ \A q \in reachable(heap, heap[p].child1) : heap[q].id < heap[p].id
        /\ \A q \in reachable(heap, heap[p].child2) : heap[q].id > heap[p].id

(* The heights of the nodes below root are exact, so balance makes its      *)
(* decisions on true heights, although rotations leave nodes out that were  *)
(* there when heights were taken.                                           *)
Measured ==
    \A p \in InTree :
        heap[p].height = higher(height(heap, heap[p].child1),
                                height(heap, heap[p].child2)) + 1

(* What is left below root is a search tree with true heights.              *)
WellFormed == TypeOK /\ (Intact => Ordered /\ Measured)

(* bst_search never returns stale or foreign data: what it finds under an   *)
(* id is what was stored there last, also when the id was unlinked and      *)
(* inserted again, and what bst_delete took out stays out.                  *)
SearchIsSound ==
    Intact =>
    \A id \in Ids : bst_search(heap, root, id) \in {Nothing, given[id]}

(* The subtrees of a node below root differ by at most one in height, as    *)
(* those of an AVL tree do.  A rotation takes a part of the tree away, and  *)
(* the nodes above may be left with a difference of two.                    *)
Balanced == \A p \in InTree : balance_factor(heap, p) \in -1..1

Stored == {id \in Ids : given[id] # Nothing}

Known(h, r) == {id \in Ids : bst_search(h, r, id) # Nothing}

\* The nodes an insertion linked anew although they had been linked: those a
\* rotation moved.
Rotates ==
    \E p \in Nodes, child \in {"child1", "child2"} :
        heap[p][child] # NULL /\ heap'[p][child] # heap[p][child]

(* An insertion that needs no rotation loses nothing: every id that was     *)
(* found still is, and so is the new one.                                   *)
InsertionKeeps ==
    [][Len(heap') > Len(heap) /\ ~ Rotates =>
          Known(heap', root') = Known(heap, root) \cup {heap'[Len(heap')].id}]_bstVars

(* Every id that was inserted is found: what the tree is for.  A rotation   *)
(* at root or below loses the node that comes to the top.                   *)
InsertedIsFound == \A id \in Stored : bst_search(heap, root, id) = given[id]
=============================================================================
