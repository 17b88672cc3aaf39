----------------------------- MODULE BstDelete ------------------------------
(***************************************************************************)
(* bst_delete of lib/bst.c, which nothing in the kernel calls.             *)
(***************************************************************************)
EXTENDS Bst

RECURSIVE min_value_node(_, _)
min_value_node(h, p) ==
    IF h[p].child1 = NULL THEN p ELSE min_value_node(h, h[p].child1)

\* The result of bst_delete as a pointer: the data of a node, or NULL.
as_pointer(p) == IF p = NULL THEN NULL ELSE Wild

\* __bst_delete(&p, id): the heap, the value left in the pointer p and the
\* pointer returned.  A Wild pointer is not followed.
RECURSIVE delete(_, _, _)
delete(h, p, id) ==
    IF p \in {NULL, Wild} THEN [heap |-> h, root |-> p, top |-> p]
    ELSE
    LET node == h[p]
        \* child = bst_delete(&child, i)
        below(g, child, i) ==
            LET d == delete(g, g[p][child], i)
            IN  [d.heap EXCEPT ![p][child] = as_pointer(d.top)]
        \* nothing is modelled behind a height read through a Wild pointer
        finish(g) ==
            IF Wild \in {g[p].child1, g[p].child2}
            THEN [heap |-> g, root |-> p, top |-> p]
            ELSE LET b == balance(update_height(g, p), p)
                 IN  [heap |-> b.heap, root |-> p, top |-> b.top]
        \* temp, put in place of the deleted node, is balanced in its stead
        replace(temp) ==
            IF temp = NULL THEN [heap |-> h, root |-> NULL, top |-> NULL]
            ELSE LET b == balance(update_height(h, temp), temp)
                 IN  [heap |-> b.heap, root |-> temp, top |-> b.top]
    IN  CASE id < node.id -> finish(below(h, "child1", id))
          [] id > node.id -> finish(below(h, "child2", id))
          [] id = node.id /\ node.child1 = NULL -> replace(node.child2)
          [] id = node.id /\ node.child1 # NULL /\ node.child2 = NULL ->
               replace(node.child1)
          [] OTHER ->
               LET temp == min_value_node(h, node.child2)
               IN  finish(below([h EXCEPT ![p].id = h[temp].id, ![p].data = h[temp].data],
                                "child2", h[temp].id))

-----------------------------------------------------------------------------

\* A Wild pointer below root is the end of what is modelled: the operations
\* that follow read a caller's data as a node.
bst_delete(id) ==
    /\ Wild \notin InTree
    /\ LET r == delete(heap, root, id)
       IN  heap' = r.heap /\ root' = r.root
    /\ given' = [given EXCEPT ![id] = Nothing]

Delete == \E id \in Ids : bst_delete(id)

BstNext == (Wild \notin InTree /\ Insert) \/ Delete

BstSpec == BstInit /\ [][BstNext]_bstVars
=============================================================================
