----------------------------- MODULE ListProofs ------------------------------
(***************************************************************************)
(* Proofs about the circular list of lib/list.c, for every memory and one  *)
(* caller: it stays a circle that can be walked, and implements the        *)
(* sequence of module Ring.  Then what rests on the list: the searches for *)
(* PCI devices find what the scan found, and ata_init tells the drives     *)
(* apart.  In the end acpi_init, which runs before them, and its walk over *)
(* the entries of the MADT.                                                *)
(***************************************************************************)
EXTENDS Ata, Acpi, SequenceTheorems, Induction

-----------------------------------------------------------------------------
(* The circular list: its inductive invariant                              *)

ListNodes == [prev : Addr \cup {NIL}, next : Addr \cup {NIL}, data : Payloads \cup {NoData}]

\* In the memory mem, the links of the nodes in use stay among them and agree.
Circles(mem, used) ==
    \A n \in used : /\ mem[n].next \in used /\ mem[mem[n].next].prev = n
                    /\ mem[n].prev \in used /\ mem[mem[n].prev].next = n

\* The caller t clears no node in use.  A head whose node was deleted is
\* about to be cleared or has been, so that its next is NULL.
ListInv(t) ==
    /\ node \in [Addr -> ListNodes] /\ live \subseteq Addr
    /\ head \in Addr \cup {NIL} /\ fault \in BOOLEAN
    /\ DOMAIN clearing = {t} /\ clearing[t] \in Addr \cup {NIL}
    /\ clearing[t] \notin live
    /\ Circles(node, live)
    /\ Dangling => clearing[t] = head \/ node[head].next = NIL
    /\ fault => Dangling

\* One pointer is written.
LEMMA NextSet ==
  ASSUME NEW mem \in [Addr -> ListNodes], NEW m \in Addr, NEW v \in Addr \cup {NIL}
  PROVE  LET new == [mem EXCEPT ![m].next = v]
         IN  /\ new \in [Addr -> ListNodes]
             /\ \A q \in Addr : /\ new[q].next = IF q = m THEN v ELSE mem[q].next
                                /\ new[q].prev = mem[q].prev
                                /\ new[q].data = mem[q].data
  BY DEF ListNodes

LEMMA PrevSet ==
  ASSUME NEW mem \in [Addr -> ListNodes], NEW m \in Addr, NEW v \in Addr \cup {NIL}
  PROVE  LET new == [mem EXCEPT ![m].prev = v]
         IN  /\ new \in [Addr -> ListNodes]
             /\ \A q \in Addr : /\ new[q].prev = IF q = m THEN v ELSE mem[q].prev
                                /\ new[q].next = mem[q].next
                                /\ new[q].data = mem[q].data
  BY DEF ListNodes

LEMMA NodeSet ==
  ASSUME NEW mem \in [Addr -> ListNodes], NEW m \in Addr,
         NEW u \in Addr \cup {NIL}, NEW v \in Addr \cup {NIL}, NEW d \in Payloads \cup {NoData}
  PROVE  LET new == [mem EXCEPT ![m] = [prev |-> u, next |-> v, data |-> d]]
         IN  /\ new \in [Addr -> ListNodes]
             /\ \A q \in Addr : /\ new[q].prev = IF q = m THEN u ELSE mem[q].prev
                                /\ new[q].next = IF q = m THEN v ELSE mem[q].next
                                /\ new[q].data = IF q = m THEN d ELSE mem[q].data
  BY DEF ListNodes

\* A node behind the head joins the circle.
LEMMA LinkedCircles ==
  ASSUME NEW d \in Payloads, NEW n \in Addr, n \notin live,
         node \in [Addr -> ListNodes], live \subseteq Addr, head \in live,
         Circles(node, live)
  PROVE  /\ linked(n, d) \in [Addr -> ListNodes] /\ Circles(linked(n, d), live \cup {n})
         /\ \A q \in Addr :
               /\ linked(n, d)[q].next = IF q = head THEN n
                                         ELSE IF q = n THEN node[head].next ELSE node[q].next
               /\ linked(n, d)[q].data = IF q = n THEN d ELSE node[q].data
  <1> DEFINE second == node[head].next
             a == [node EXCEPT ![n] = [prev |-> head, next |-> second, data |-> d]]
             b == [a EXCEPT ![second].prev = n]
             c == [b EXCEPT ![head].next = n]
  <1>1. second \in live /\ second \in Addr /\ head \in Addr /\ n # head /\ n # second
    BY DEF Circles
  <1>2. /\ a \in [Addr -> ListNodes]
        /\ \A q \in Addr : /\ a[q].prev = IF q = n THEN head ELSE node[q].prev
                           /\ a[q].next = IF q = n THEN second ELSE node[q].next
                           /\ a[q].data = IF q = n THEN d ELSE node[q].data
    <2> HIDE DEF second
    <2> QED BY <1>1, NodeSet
  <1>3. linked(n, d) = c
    BY DEF linked
  <1> HIDE DEF a, second
  <1>4. /\ b \in [Addr -> ListNodes]
        /\ \A q \in Addr : /\ b[q].prev = IF q = second THEN n ELSE a[q].prev
                           /\ b[q].next = a[q].next
                           /\ b[q].data = a[q].data
    BY <1>1, <1>2, PrevSet
  <1> HIDE DEF b
  <1>5. /\ c \in [Addr -> ListNodes]
        /\ \A q \in Addr : /\ c[q].next = IF q = head THEN n ELSE b[q].next
                           /\ c[q].prev = b[q].prev
                           /\ c[q].data = b[q].data
    BY <1>1, <1>4, NextSet
  <1> HIDE DEF c
  <1>6. \A q \in Addr :
           /\ c[q].next = IF q = head THEN n ELSE IF q = n THEN second ELSE node[q].next
           /\ c[q].prev = IF q = second THEN n ELSE IF q = n THEN head ELSE node[q].prev
           /\ c[q].data = IF q = n THEN d ELSE node[q].data
    BY <1>2, <1>4, <1>5
  <1>7. ASSUME NEW q \in live \cup {n}
        PROVE  /\ c[q].next \in live \cup {n} /\ c[c[q].next].prev = q
               /\ c[q].prev \in live \cup {n} /\ c[c[q].prev].next = q
    <2>1. CASE q = n
      BY <1>1, <1>6, <2>1
    <2>2. CASE q # n
      <3>1. /\ q \in live /\ q \in Addr
            /\ node[q].next \in live /\ node[node[q].next].prev = q /\ node[q].next \in Addr
            /\ node[q].prev \in live /\ node[node[q].prev].next = q /\ node[q].prev \in Addr
        BY <2>2 DEF Circles
      <3>2. q = second <=> node[q].prev = head
        <4>1. node[second].prev = head
          BY DEF Circles, second
        <4> QED BY <3>1, <4>1 DEF second
      <3>3. c[q].next \in live \cup {n} /\ c[c[q].next].prev = q
        <4>1. CASE q = head
          BY <1>1, <1>6, <3>1, <4>1
        <4>2. CASE q # head
          <5>1. c[q].next = node[q].next
            BY <1>6, <2>2, <3>1, <4>2
          <5>2. node[q].next # second /\ node[q].next # n
            BY <1>1, <3>1, <4>2 DEF Circles, second
          <5> QED BY <1>6, <3>1, <5>1, <5>2
        <4> QED BY <4>1, <4>2
      <3>4. c[q].prev \in live \cup {n} /\ c[c[q].prev].next = q
        <4>1. CASE q = second
          BY <1>1, <1>6, <3>1, <4>1
        <4>2. CASE q # second
          <5>1. c[q].prev = node[q].prev
            BY <1>6, <2>2, <3>1, <4>2
          <5>2. node[q].prev # head /\ node[q].prev # n
            BY <3>1, <3>2, <4>2
          <5> QED BY <1>6, <3>1, <5>1, <5>2
        <4> QED BY <4>1, <4>2
      <3> QED BY <3>3, <3>4
    <2> QED BY <2>1, <2>2
  <1> QED BY <1>3, <1>5, <1>6, <1>7 DEF Circles, second

\* A node leaves the circle, the head's node too.
LEMMA UnlinkedCircles ==
  ASSUME NEW n \in live, node \in [Addr -> ListNodes], live \subseteq Addr,
         Circles(node, live)
  PROVE  /\ unlinked(n) \in [Addr -> ListNodes] /\ Circles(unlinked(n), live \ {n})
         /\ \A q \in Addr :
               /\ unlinked(n)[q].next = IF q = node[n].prev THEN node[n].next ELSE node[q].next
               /\ unlinked(n)[q].data = node[q].data
  <1> DEFINE p == node[n].prev
             s == node[n].next
             a == [node EXCEPT ![p].next = s]
             b == [a EXCEPT ![s].prev = p]
  <1>1. /\ p \in live /\ s \in live /\ p \in Addr /\ s \in Addr
        /\ node[p].next = n /\ node[s].prev = n
    BY DEF Circles
  <1>2. unlinked(n) = b
    <2>1. NIL \notin {p, s}
      BY <1>1, ListAssumption DEF NIL
    <2> QED BY <2>1 DEF unlinked
  <1> HIDE DEF p, s
  <1>3. /\ a \in [Addr -> ListNodes]
        /\ \A q \in Addr : /\ a[q].next = IF q = p THEN s ELSE node[q].next
                           /\ a[q].prev = node[q].prev
                           /\ a[q].data = node[q].data
    BY <1>1, NextSet
  <1> HIDE DEF a
  <1>4. /\ b \in [Addr -> ListNodes]
        /\ \A q \in Addr : /\ b[q].prev = IF q = s THEN p ELSE a[q].prev
                           /\ b[q].next = a[q].next
                           /\ b[q].data = a[q].data
    BY <1>1, <1>3, PrevSet
  <1> HIDE DEF b
  <1>5. \A q \in Addr : /\ b[q].next = IF q = p THEN s ELSE node[q].next
                        /\ b[q].prev = IF q = s THEN p ELSE node[q].prev
                        /\ b[q].data = node[q].data
    BY <1>3, <1>4
  <1>6. ASSUME NEW q \in live \ {n}
        PROVE  /\ b[q].next \in live \ {n} /\ b[b[q].next].prev = q
               /\ b[q].prev \in live \ {n} /\ b[b[q].prev].next = q
    <2>1. /\ q \in Addr /\ q # n
          /\ node[q].next \in live /\ node[node[q].next].prev = q /\ node[q].next \in Addr
          /\ node[q].prev \in live /\ node[node[q].prev].next = q /\ node[q].prev \in Addr
      BY DEF Circles
    <2>2. (q = p <=> node[q].next = n) /\ (q = s <=> node[q].prev = n)
      BY <1>1, <2>1 DEF p, s
    <2>3. CASE q = p
      <3>1. s # n
        BY <1>1, <2>1, <2>3 DEF s, p
      <3>2. b[q].next = s /\ b[s].prev = p
        BY <1>1, <1>5, <2>1, <2>3
      <3>3. CASE q = s
        BY <1>1, <1>5, <2>1, <2>3, <3>1, <3>2, <3>3
      <3>4. CASE q # s
        <4>1. b[q].prev = node[q].prev /\ node[q].prev # n
          BY <1>5, <2>1, <2>2, <3>4
        <4>2. node[q].prev # p
          BY <1>1, <2>1, <2>3
        <4> QED BY <1>1, <1>5, <2>1, <2>3, <3>1, <3>2, <4>1, <4>2
      <3> QED BY <3>3, <3>4
    <2>4. CASE q # p
      <3>1. b[q].next = node[q].next /\ node[q].next # n
        BY <1>5, <2>1, <2>2, <2>4
      <3>2. node[q].next # s
        BY <1>1, <2>1
      <3>3. b[q].next \in live \ {n} /\ b[b[q].next].prev = q
        BY <1>5, <2>1, <3>1, <3>2
      <3>4. CASE q = s
        <4>1. b[q].prev = p /\ b[p].next = s
          BY <1>1, <1>5, <2>1, <3>4
        <4>2. p # n
          BY <1>1, <2>1, <3>4 DEF p, s
        <4> QED BY <1>1, <3>3, <3>4, <4>1, <4>2
      <3>5. CASE q # s
        <4>1. b[q].prev = node[q].prev /\ node[q].prev # n
          BY <1>5, <2>1, <2>2, <3>5
        <4>2. node[q].prev # p
          BY <1>1, <2>1
        <4> QED BY <1>5, <2>1, <3>3, <4>1, <4>2
      <3> QED BY <3>4, <3>5
    <2> QED BY <2>3, <2>4
  <1> QED BY <1>2, <1>4, <1>5, <1>6 DEF Circles, p, s

-----------------------------------------------------------------------------
(* The circular list: the invariant is kept                                *)

LEMMA ListBegins ==
  ASSUME NEW t, Tasks = {t}
  PROVE  ListInit => ListInv(t)
  <1> SUFFICES ASSUME ListInit PROVE ListInv(t)
    OBVIOUS
  <1>1. /\ node = [n \in Addr |-> Cleared] /\ live = {} /\ head = NIL /\ fault = FALSE
        /\ clearing = [u \in {t} |-> NIL]
    BY DEF ListInit
  <1>2. Cleared \in ListNodes
    BY DEF Cleared, ListNodes
  <1>3. node \in [Addr -> ListNodes]
    BY <1>1, <1>2
  <1>4. DOMAIN clearing = {t} /\ clearing[t] = NIL
    BY <1>1
  <1> QED BY <1>1, <1>3, <1>4 DEF ListInv, Circles, Dangling

LEMMA InsertKeeps ==
  ASSUME NEW t, ListInv(t), NEW d \in Payloads, list_insert(t, d)
  PROVE  ListInv(t)'
  <1>1. /\ node \in [Addr -> ListNodes] /\ live \subseteq Addr
        /\ head \in Addr \cup {NIL} /\ ~ fault /\ NIL \notin Addr
        /\ DOMAIN clearing = {t} /\ clearing[t] = NIL /\ Circles(node, live)
        /\ Dangling => node[head].next = NIL
    BY ListAssumption DEF ListInv, list_insert, Ready, Dangling, NIL
  <1>2. clearing' = clearing
    BY DEF list_insert
  <1>3. PICK n \in Addr \ live :
          \/ /\ head = NIL
             /\ node' = [node EXCEPT ![n] = [prev |-> n, next |-> n, data |-> d]]
             /\ head' = n
             /\ live' = live \cup {n}
             /\ UNCHANGED fault
          \/ /\ head # NIL /\ n # head /\ node[head].next # NIL
             /\ node' = linked(n, d)
             /\ live' = live \cup {n}
             /\ UNCHANGED <<head, fault>>
          \/ /\ head # NIL /\ (n = head \/ node[head].next = NIL)
             /\ fault' = TRUE
             /\ UNCHANGED <<node, live, head>>
    BY DEF list_insert
  <1>4. CASE head = NIL
    <2>1. /\ node' = [node EXCEPT ![n] = [prev |-> n, next |-> n, data |-> d]]
          /\ head' = n /\ live' = live \cup {n} /\ fault' = fault
      BY <1>3, <1>4
    <2>2. /\ node' \in [Addr -> ListNodes]
          /\ \A q \in Addr : /\ node'[q].prev = IF q = n THEN n ELSE node[q].prev
                             /\ node'[q].next = IF q = n THEN n ELSE node[q].next
      BY <1>1, <2>1, NodeSet
    <2>3. Circles(node', live')
      <3>1. ASSUME NEW q \in live \cup {n}
            PROVE  /\ node'[q].next \in live \cup {n} /\ node'[node'[q].next].prev = q
                   /\ node'[q].prev \in live \cup {n} /\ node'[node'[q].prev].next = q
        <4>1. CASE q = n
          BY <2>2, <4>1
        <4>2. CASE q # n
          <5>1. /\ q \in Addr /\ q \in live
                /\ node[q].next \in live /\ node[node[q].next].prev = q
                /\ node[q].prev \in live /\ node[node[q].prev].next = q
            BY <1>1, <4>2 DEF Circles
          <5>2. node'[q].next = node[q].next /\ node'[q].prev = node[q].prev
            BY <2>2, <4>2, <5>1
          <5> QED BY <1>1, <2>2, <5>1, <5>2
        <4> QED BY <4>1, <4>2
      <3> QED BY <2>1, <3>1 DEF Circles
    <2> QED BY <1>1, <1>2, <2>1, <2>2, <2>3 DEF ListInv, Dangling
  <1>5. CASE head # NIL /\ n # head /\ node[head].next # NIL
    <2>1. node' = linked(n, d) /\ live' = live \cup {n} /\ head' = head /\ fault' = fault
      BY <1>3, <1>5
    <2>2. head \in live
      BY <1>1, <1>5 DEF Dangling
    <2>3. node' \in [Addr -> ListNodes] /\ Circles(node', live')
      BY <1>1, <2>1, <2>2, LinkedCircles
    <2> QED BY <1>1, <1>2, <2>1, <2>2, <2>3 DEF ListInv, Dangling
  <1>6. CASE head # NIL /\ (n = head \/ node[head].next = NIL)
    <2>1. fault' = TRUE /\ UNCHANGED <<node, live, head>>
      BY <1>3, <1>6
    <2>2. head \notin live
      BY <1>1, <1>6 DEF Circles
    <2> QED BY <1>1, <1>2, <1>6, <2>1, <2>2 DEF ListInv, Dangling
  <1> QED BY <1>4, <1>5, <1>6

LEMMA DeleteKeeps ==
  ASSUME NEW t, ListInv(t), NEW n, list_delete(t, n)
  PROVE  ListInv(t)'
  <1>1. /\ node \in [Addr -> ListNodes] /\ live \subseteq Addr /\ n \in live
        /\ head \in Addr \cup {NIL} /\ ~ fault
        /\ DOMAIN clearing = {t} /\ clearing[t] = NIL /\ Circles(node, live)
        /\ Dangling => clearing[t] = head \/ node[head].next = NIL
    BY DEF ListInv, list_delete, Ready
  <1>2. /\ node' = unlinked(n) /\ live' = live \ {n} /\ head' = head /\ fault' = fault
        /\ clearing' = [clearing EXCEPT ![t] = n]
    BY DEF list_delete
  <1>3. /\ node' \in [Addr -> ListNodes] /\ Circles(node', live')
        /\ \A q \in Addr \ live : node'[q].next = node[q].next
    <2>1. node[n].prev \in live
      BY <1>1 DEF Circles
    <2> QED BY <1>1, <1>2, <2>1, UnlinkedCircles
  <1>4. clearing'[t] = n /\ DOMAIN clearing' = {t}
    BY <1>1, <1>2
  <1>5. Dangling' => clearing'[t] = head \/ node'[head].next = NIL
    <2> SUFFICES ASSUME head # NIL, head \notin live \ {n}, head # n
                 PROVE  node'[head].next = NIL
      BY <1>2, <1>4 DEF Dangling
    <2>1. head \in Addr \ live /\ Dangling
      BY <1>1 DEF Dangling
    <2> QED BY <1>1, <1>3, <2>1
  <1> QED BY <1>1, <1>2, <1>3, <1>4, <1>5 DEF ListInv

LEMMA ClearKeeps ==
  ASSUME NEW t, ListInv(t), clear(t)
  PROVE  ListInv(t)'
  <1> DEFINE c == clearing[t]
  <1>1. /\ node \in [Addr -> ListNodes] /\ live \subseteq Addr /\ c \in Addr /\ c \notin live
        /\ DOMAIN clearing = {t} /\ Circles(node, live) /\ NIL \notin Addr
        /\ Dangling => clearing[t] = head \/ node[head].next = NIL
    BY ListAssumption DEF ListInv, clear, NIL
  <1>2. /\ node' = [node EXCEPT ![c] = Cleared] /\ clearing' = [clearing EXCEPT ![t] = NIL]
        /\ live' = live /\ head' = head /\ fault' = fault
    BY DEF clear
  <1>3. clearing'[t] = NIL /\ DOMAIN clearing' = {t}
    BY <1>1, <1>2
  <1> HIDE DEF c
  <1>4. /\ node' \in [Addr -> ListNodes] /\ node'[c].next = NIL
        /\ \A q \in Addr : q # c => node'[q] = node[q]
    BY <1>1, <1>2 DEF Cleared, ListNodes
  <1>5. \A q \in live : node'[q] = node[q]
    BY <1>1, <1>4
  <1>6. Circles(node', live)
    BY <1>1, <1>5 DEF Circles
  <1>7. Dangling => node'[head].next = NIL
    <2> SUFFICES ASSUME Dangling PROVE node'[head].next = NIL
      OBVIOUS
    <2>1. head \in Addr
      BY DEF Dangling, ListInv
    <2>2. head = c \/ node[head].next = NIL
      BY <1>1 DEF c
    <2> QED BY <1>4, <2>1, <2>2
  <1>8. Dangling' <=> Dangling
    BY <1>2 DEF Dangling
  <1>9. NIL \notin live
    BY <1>1
  <1> QED BY <1>1, <1>2, <1>3, <1>4, <1>6, <1>7, <1>8, <1>9 DEF ListInv

LEMMA ListStep ==
  ASSUME NEW t, Tasks = {t}, ListInv(t), [ListNext]_listVars
  PROVE  ListInv(t)'
  <1>1. ASSUME UNCHANGED <<node, live, head, clearing, fault>>
        PROVE  ListInv(t)'
    BY <1>1 DEF ListInv, Dangling
  <1>2. ASSUME NEW stop, list_iter(t, stop)
        PROVE  UNCHANGED <<node, live, head, clearing, fault>>
    BY <1>2 DEF list_iter
  <1>3. (UNCHANGED listVars \/ Stopped) => UNCHANGED <<node, live, head, clearing, fault>>
    BY DEF listVars, Stopped
  <1> QED BY <1>1, <1>2, <1>3, InsertKeeps, DeleteKeeps, ClearKeeps DEF ListNext

-----------------------------------------------------------------------------
(* The circular list: the walk                                             *)

\* The walk of list_iter, node by node.
LEMMA WalkIs ==
  ASSUME NEW t, ListInv(t)
  PROVE  /\ Cardinality(Addr) \in Nat
         /\ At \in [0 .. Cardinality(Addr) -> Addr \cup {NIL}]
         /\ At[0] = head
         /\ \A k \in 1 .. Cardinality(Addr) :
               At[k] = IF At[k - 1] = NIL THEN NIL ELSE node[At[k - 1]].next
  <1> DEFINE N == Cardinality(Addr)
             S == Addr \cup {NIL}
             after(n) == IF n = NIL THEN NIL ELSE node[n].next
             body(f, k) == IF k = 0 THEN head ELSE after(f[k - 1])
             g == [r \in Nat \X S |-> after(r[2])]
  <1>1. N \in Nat
    BY ListAssumption, FS_CardinalityType
  <1>2. head \in S /\ node \in [Addr -> ListNodes]
    BY DEF ListInv
  <1>3. \A n \in S : after(n) \in S
    BY <1>2 DEF ListNodes
  <1>4. At = CHOOSE f : f = [k \in 0 .. N |-> body(f, k)]
    BY DEF At
  <1> HIDE DEF N, S, after
  <1>5. g \in [Nat \X S -> S]
    <2>1. \A r \in Nat \X S : r[2] \in S
      OBVIOUS
    <2> QED BY <1>3, <2>1
  <1>6. PICK f \in [0 .. N -> S] : Iterates(f, head, g, N)
    <2> HIDE DEF g
    <2> QED BY <1>1, <1>2, <1>5, LoopRuns
  <1>7. \A k \in 0 .. N : f[k] = body(f, k)
    <2> SUFFICES ASSUME NEW k \in 0 .. N PROVE f[k] = body(f, k)
      OBVIOUS
    <2>1. CASE k = 0
      BY <1>6, <2>1 DEF Iterates
    <2>2. CASE k # 0
      <3>1. k \in 1 .. N /\ k - 1 \in 0 .. N /\ k \in Nat
        BY <1>1, <2>2
      <3>2. f[k] = g[<<k, f[k - 1]>>] /\ f[k - 1] \in S
        BY <1>6, <3>1 DEF Iterates
      <3>3. g[<<k, f[k - 1]>>] = after(f[k - 1])
        BY <3>1, <3>2
      <3> QED BY <2>2, <3>2, <3>3
    <2> QED BY <2>1, <2>2
  <1> HIDE DEF g
  <1>8. At = [k \in 0 .. N |-> body(At, k)]
    <2> HIDE DEF body
    <2>1. f = [k \in 0 .. N |-> body(f, k)]
      BY <1>6, <1>7
    <2>2. \E h : h = [k \in 0 .. N |-> body(h, k)]
      BY <2>1
    <2> QED BY <1>4, <2>2
  <1>9. \A k \in 0 .. N : At[k] = body(At, k)
    <2> HIDE DEF body
    <2> QED BY <1>8
  <1> DEFINE T == {k \in 0 .. N : At[k] # f[k]}
  <1>10. T = {}
    <2> SUFFICES ASSUME T # {} PROVE FALSE
      OBVIOUS
    <2>1. PICK k \in T : \A y \in T : k <= y
      <3>1. T \in SUBSET Nat
        BY <1>1
      <3> HIDE DEF T
      <3> QED BY <3>1, LeastNat
    <2>2. k \in 0 .. N /\ At[k] # f[k]
      BY <2>1
    <2>3. k # 0
      BY <1>7, <1>9, <2>2
    <2>4. k - 1 \in 0 .. N /\ ~ (k <= k - 1)
      BY <1>1, <2>2, <2>3
    <2>5. At[k - 1] = f[k - 1]
      BY <2>1, <2>4
    <2> QED BY <1>7, <1>9, <2>2, <2>5
  <1>11. \A k \in 0 .. N : At[k] \in S
    BY <1>6, <1>10
  <1>12. At \in [0 .. N -> S]
    <2> HIDE DEF body
    <2>1. DOMAIN At = 0 .. N /\ At = [k \in DOMAIN At |-> At[k]]
      BY <1>8, <1>9
    <2> QED BY <1>11, <2>1
  <1>13. At[0] = head
    BY <1>1, <1>9
  <1>14. ASSUME NEW k \in 1 .. N
         PROVE  At[k] = after(At[k - 1])
    <2>1. k \in 0 .. N /\ k # 0
      BY <1>1
    <2> QED BY <1>9, <2>1
  <1> QED BY <1>1, <1>12, <1>13, <1>14 DEF N, S, after

\* A walk that begins in the circle comes back to the head, since the links
\* of the nodes in use agree.
LEMMA WalkReturns ==
  ASSUME NEW t, ListInv(t), head \in live
  PROVE  Ends # {}
  <1> DEFINE N == Cardinality(Addr)
             pos == At
  <1>1. /\ N \in Nat /\ pos \in [0 .. N -> Addr \cup {NIL}] /\ pos[0] = head
        /\ \A k \in 1 .. N : pos[k] = IF pos[k - 1] = NIL THEN NIL ELSE node[pos[k - 1]].next
    BY WalkIs
  <1>2. Ends = {k \in 1 .. N : pos[k] \in {NIL, head}}
    BY DEF Ends
  <1>3. head \in live /\ head # NIL /\ live \subseteq Addr /\ Circles(node, live)
    BY ListAssumption DEF ListInv, NIL
  <1>4. \A a \in Addr : a # NIL
    BY ListAssumption DEF NIL
  <1> HIDE DEF N, pos
  <1> SUFFICES ASSUME \A k \in 1 .. N : pos[k] # NIL /\ pos[k] # head
               PROVE  FALSE
    BY <1>2
  <1>5. ASSUME NEW k \in 1 .. N
        PROVE  k \in 0 .. N /\ k - 1 \in 0 .. N /\ pos[k] = node[pos[k - 1]].next
    <2>1. k - 1 \in 0 .. N /\ k \in 0 .. N /\ (k - 1 = 0 \/ k - 1 \in 1 .. N)
      BY <1>1
    <2>2. pos[k - 1] # NIL
      BY <1>1, <2>1
    <2> QED BY <1>1, <2>1, <2>2
  <1> DEFINE T == {k \in 0 .. N : pos[k] \notin live}
  <1>6. T = {}
    <2> SUFFICES ASSUME T # {} PROVE FALSE
      OBVIOUS
    <2>1. PICK k \in T : \A y \in T : k <= y
      <3>1. T \in SUBSET Nat
        BY <1>1
      <3> HIDE DEF T
      <3> QED BY <3>1, LeastNat
    <2>2. k \in 0 .. N /\ pos[k] \notin live
      BY <2>1
    <2>3. k # 0
      BY <1>1, <1>3, <2>2
    <2>4. k \in 1 .. N /\ k - 1 \in 0 .. N /\ ~ (k <= k - 1)
      BY <1>1, <2>2, <2>3
    <2>5. pos[k - 1] \in live
      BY <2>1, <2>4
    <2> QED BY <1>3, <1>5, <2>2, <2>4, <2>5 DEF Circles
  <1>7. \A k \in 0 .. N : pos[k] \in live
    BY <1>6
  <1> DEFINE U == {x \in 0 .. N : \E y \in 0 .. N : x < y /\ pos[x] = pos[y]}
  <1>8. U # {}
    <2>1. IsFiniteSet(0 .. N) /\ Cardinality(0 .. N) = N + 1
      <3>1. 0 \in Int /\ N + 1 \in Nat /\ 0 + (N + 1) - 1 = N
        BY <1>1
      <3>2. /\ IsFiniteSet(0 .. 0 + (N + 1) - 1)
            /\ Cardinality(0 .. 0 + (N + 1) - 1) = N + 1
        BY <3>1, IntervalSize
      <3> QED BY <3>1, <3>2
    <2>2. IsFiniteSet(Addr) /\ Cardinality(Addr) < Cardinality(0 .. N)
      BY <1>1, <2>1, ListAssumption DEF N
    <2>3. pos \in [0 .. N -> Addr]
      BY <1>1, <1>3, <1>7
    <2>4. PICK x, y \in 0 .. N : x # y /\ pos[x] = pos[y]
      BY <2>1, <2>2, <2>3, FS_PigeonHole
    <2>5. x < y \/ y < x
      BY <1>1, <2>4
    <2> QED BY <2>4, <2>5
  <1>9. PICK x \in U : \A z \in U : x <= z
    <2>1. U \in SUBSET Nat
      BY <1>1
    <2> HIDE DEF U
    <2> QED BY <1>8, <2>1, LeastNat
  <1>10. x \in 0 .. N
    BY <1>9
  <1>11. PICK y \in 0 .. N : x < y /\ pos[x] = pos[y]
    BY <1>9
  <1>12. y \in 1 .. N
    BY <1>1, <1>10, <1>11
  <1>13. x # 0
    BY <1>1, <1>11, <1>12
  <1>14. x \in 1 .. N /\ ~ (x <= x - 1) /\ x - 1 < y - 1
    BY <1>1, <1>10, <1>11, <1>13
  <1>15. /\ x - 1 \in 0 .. N /\ pos[x] = node[pos[x - 1]].next
         /\ y - 1 \in 0 .. N /\ pos[y] = node[pos[y - 1]].next
    BY <1>5, <1>12, <1>14
  <1>16. node[pos[x]].prev = pos[x - 1] /\ node[pos[y]].prev = pos[y - 1]
    BY <1>3, <1>7, <1>15 DEF Circles
  <1>17. x - 1 \in U
    BY <1>11, <1>14, <1>15, <1>16
  <1> QED BY <1>9, <1>14, <1>17

\* The walk ends at the head it began with, or behind the head that was
\* deleted.
LEMMA WalkEnds ==
  ASSUME NEW t, ListInv(t), clearing[t] = NIL, head # NIL
  PROVE  Ends # {}
  <1> DEFINE N == Cardinality(Addr)
             pos == At
  <1>1. /\ N \in Nat /\ pos[0] = head
        /\ \A k \in 1 .. N : pos[k] = IF pos[k - 1] = NIL THEN NIL ELSE node[pos[k - 1]].next
    BY WalkIs
  <1>2. Ends = {k \in 1 .. N : pos[k] \in {NIL, head}}
    BY DEF Ends
  <1>3. head \in Addr /\ (Dangling => node[head].next = NIL)
    BY DEF ListInv, Dangling
  <1>4. N >= 1
    <2>1. N # 0
      BY <1>3, ListAssumption, FS_EmptySet
    <2> QED BY <1>1, <2>1
  <1> HIDE DEF N, pos
  <1>5. CASE Dangling
    <2>1. 1 \in 1 .. N /\ 1 - 1 = 0
      BY <1>1, <1>4
    <2>2. pos[1] = NIL
      BY <1>1, <1>3, <1>5, <2>1
    <2> QED BY <1>2, <2>1, <2>2
  <1>6. CASE ~ Dangling
    BY <1>6, WalkReturns DEF Dangling
  <1> QED BY <1>5, <1>6

\* Through every order of list_insert and list_delete, with every reuse of
\* freed memory and with lists of every length, the links of the nodes in use
\* agree and stay among them, list_iter ends, and a NULL pointer is followed
\* only after the head's node was deleted.  For one caller: two of them can
\* meet between the two halves of list_delete.
THEOREM ListIsSound ==
  ASSUME NEW t, Tasks = {t}
  PROVE  ListSpec => []ListSound
  <1>1. ListInit => ListInv(t)
    BY ListBegins
  <1>2. ListInv(t) /\ [ListNext]_listVars => ListInv(t)'
    BY ListStep
  <1>3. ListInv(t) => ListSound
    <2> SUFFICES ASSUME ListInv(t) PROVE ListSound
      OBVIOUS
    <2>1. LinksAgree
      BY DEF ListInv, Circles, LinksAgree
    <2>2. fault => Dangling
      BY DEF ListInv
    <2>3. ASSUME NEW u \in Tasks, Ready(u), head # NIL
          PROVE  Ends # {}
      BY <2>3, WalkEnds DEF Ready
    <2> QED BY <2>1, <2>2, <2>3 DEF ListSound, OnlyHeadDeletionHurts
  <1> QED BY <1>1, <1>2, <1>3, PTL DEF ListSpec

-----------------------------------------------------------------------------
(* The circular list: it implements Ring                                   *)

\* r is s with the element d in the second place.
LEMMA SecondPut ==
  ASSUME NEW S, NEW s \in Seq(S), NEW m \in Nat \ {0}, Len(s) = m, NEW d \in S,
         NEW r \in Seq(S), Len(r) = m + 1, r[1] = s[1], r[2] = d,
         \A w \in 3 .. m + 1 : r[w] = s[w - 1]
  PROVE  r = SubSeq(s, 1, 2 - 1) \o <<d>> \o SubSeq(s, 2, Len(s))
  <1> DEFINE a == SubSeq(s, 1, 2 - 1)
             b == SubSeq(s, 2, m)
             one == <<d>>
             c == a \o one
  <1>1. \A w \in 1 .. m : s[w] \in S
    BY LenProperties
  <1>2. a \in Seq(S) /\ Len(a) = 1 /\ a[1] = s[1]
    BY <1>1, SubSeqProperties
  <1>3. b \in Seq(S) /\ Len(b) = m - 1 /\ \A w \in 1 .. m - 1 : b[w] = s[w + 1]
    <2>1. (IF 2 <= m THEN m - 2 + 1 ELSE 0) = m - 1 /\ m - 2 + 1 = m - 1
      OBVIOUS
    <2>2. \A w \in 2 .. m : s[w] \in S
      BY <1>1
    <2>3. /\ b \in Seq(S) /\ Len(b) = IF 2 <= m THEN m - 2 + 1 ELSE 0
          /\ \A w \in 1 .. m - 2 + 1 : b[w] = s[2 + w - 1]
      BY <2>2, SubSeqProperties
    <2>4. \A w \in 1 .. m - 1 : b[w] = s[w + 1]
      <3>1. \A w \in 1 .. m - 1 : 2 + w - 1 = w + 1
        OBVIOUS
      <3> QED BY <2>1, <2>3, <3>1
    <2> QED BY <2>1, <2>3, <2>4
  <1>4. one \in Seq(S) /\ Len(one) = 1 /\ one[1] = d
    OBVIOUS
  <1> HIDE DEF a, b, one
  <1>5. c \in Seq(S) /\ Len(c) = 2 /\ c[1] = s[1] /\ c[2] = d
    <2>1. /\ c \in Seq(S) /\ Len(c) = Len(a) + Len(one)
          /\ \A w \in 1 .. Len(a) + Len(one) :
                c[w] = IF w <= Len(a) THEN a[w] ELSE one[w - Len(a)]
      BY <1>2, <1>4, ConcatProperties
    <2> HIDE DEF c
    <2>2. Len(c) = 2 /\ \A w \in 1 .. 2 : c[w] = IF w <= 1 THEN a[w] ELSE one[w - 1]
      BY <1>2, <1>4, <2>1
    <2>3. c[1] = a[1] /\ c[2] = one[2 - 1] /\ 2 - 1 = 1
      BY <2>2
    <2> QED BY <1>2, <1>4, <2>1, <2>2, <2>3
  <1> HIDE DEF c
  <1> DEFINE e == c \o b
  <1>6. /\ e \in Seq(S) /\ Len(e) = m + 1
        /\ \A w \in 1 .. m + 1 : e[w] = IF w <= 2 THEN c[w] ELSE b[w - 2]
    <2>1. 2 + (m - 1) = m + 1
      OBVIOUS
    <2>2. /\ e \in Seq(S) /\ Len(e) = Len(c) + Len(b)
          /\ \A w \in 1 .. Len(c) + Len(b) :
                e[w] = IF w <= Len(c) THEN c[w] ELSE b[w - Len(c)]
      BY <1>3, <1>5, ConcatProperties
    <2> HIDE DEF e
    <2> QED BY <1>3, <1>5, <2>1, <2>2
  <1> HIDE DEF e
  <1>7. ASSUME NEW w \in 1 .. m + 1
        PROVE  r[w] = e[w]
    <2>1. CASE w = 1
      <3>1. e[1] = c[1]
        BY <1>6
      <3> QED BY <1>5, <2>1, <3>1
    <2>2. CASE w = 2
      <3>1. e[2] = c[2]
        BY <1>6
      <3> QED BY <1>5, <2>2, <3>1
    <2>3. CASE w > 2
      <3>1. w \in 3 .. m + 1 /\ w - 2 \in 1 .. m - 1 /\ w - 2 + 1 = w - 1 /\ ~ (w <= 2)
        BY <2>3
      <3>2. e[w] = b[w - 2]
        BY <1>6, <3>1
      <3> QED BY <1>3, <3>1, <3>2
    <2> QED BY <2>1, <2>2, <2>3
  <1>8. r = e
    BY <1>6, <1>7, SeqEqual
  <1> QED BY <1>8 DEF a, b, c, e, one

\* r is s without its element j.
LEMMA OneTaken ==
  ASSUME NEW S, NEW s \in Seq(S), NEW j \in 1 .. Len(s), NEW r \in Seq(S),
         Len(r) = Len(s) - 1, \A w \in 1 .. Len(r) : r[w] = IF w < j THEN s[w] ELSE s[w + 1]
  PROVE  r = SubSeq(s, 1, j - 1) \o SubSeq(s, j + 1, Len(s))
  <1> DEFINE m == Len(s)
             a == SubSeq(s, 1, j - 1)
             b == SubSeq(s, j + 1, m)
  <1>1. m \in Nat /\ (\A w \in 1 .. m : s[w] \in S) /\ j \in 1 .. m
    BY LenProperties
  <1>2. a \in Seq(S) /\ Len(a) = j - 1 /\ \A w \in 1 .. j - 1 : a[w] = s[w]
    <2>1. (IF 1 <= j - 1 THEN j - 1 - 1 + 1 ELSE 0) = j - 1 /\ j - 1 - 1 + 1 = j - 1
      BY <1>1
    <2>2. /\ a \in Seq(S) /\ Len(a) = IF 1 <= j - 1 THEN j - 1 - 1 + 1 ELSE 0
          /\ \A w \in 1 .. j - 1 - 1 + 1 : a[w] = s[1 + w - 1]
      BY <1>1, SubSeqProperties
    <2>3. \A w \in 1 .. j - 1 : a[w] = s[w]
      <3>1. \A w \in 1 .. j - 1 : 1 + w - 1 = w
        OBVIOUS
      <3> QED BY <2>1, <2>2, <3>1
    <2> QED BY <2>1, <2>2, <2>3
  <1>3. b \in Seq(S) /\ Len(b) = m - j /\ \A w \in 1 .. m - j : b[w] = s[j + w]
    <2>1. (IF j + 1 <= m THEN m - (j + 1) + 1 ELSE 0) = m - j /\ m - (j + 1) + 1 = m - j
      BY <1>1
    <2>2. /\ b \in Seq(S) /\ Len(b) = IF j + 1 <= m THEN m - (j + 1) + 1 ELSE 0
          /\ \A w \in 1 .. m - (j + 1) + 1 : b[w] = s[j + 1 + w - 1]
      BY <1>1, SubSeqProperties
    <2>3. \A w \in 1 .. m - j : b[w] = s[j + w]
      <3>1. \A w \in 1 .. m - j : j + 1 + w - 1 = j + w
        BY <1>1
      <3> QED BY <2>1, <2>2, <3>1
    <2> QED BY <2>1, <2>2, <2>3
  <1> HIDE DEF a, b, m
  <1>6. /\ a \o b \in Seq(S) /\ Len(a \o b) = m - 1
        /\ \A w \in 1 .. m - 1 : (a \o b)[w] = IF w <= j - 1 THEN a[w] ELSE b[w - (j - 1)]
    <2>1. (j - 1) + (m - j) = m - 1
      BY <1>1
    <2> QED BY <1>2, <1>3, <2>1, ConcatProperties
  <1>7. ASSUME NEW w \in 1 .. m - 1
        PROVE  r[w] = (a \o b)[w]
    <2>1. CASE w < j
      <3>1. w <= j - 1 /\ w \in 1 .. j - 1
        BY <1>1, <2>1
      <3> QED BY <1>2, <1>6, <2>1, <3>1 DEF m
    <2>2. CASE ~ (w < j)
      <3>1. ~ (w <= j - 1) /\ w - (j - 1) \in 1 .. m - j /\ j + (w - (j - 1)) = w + 1
        BY <1>1, <2>2
      <3> QED BY <1>3, <1>6, <2>2, <3>1 DEF m
    <2> QED BY <2>1, <2>2
  <1>8. r = a \o b
    BY <1>6, <1>7, SeqEqual DEF m
  <1> QED BY <1>8 DEF a, b, m
\* In the memory mem, the nodes from h on once around the circle, and h again.
Lap(mem, used, h, c, m) ==
    /\ m \in Nat \ {0} /\ c \in [0 .. m -> used]
    /\ c[0] = h /\ c[m] = h
    /\ \A k \in 1 .. m : c[k] = mem[c[k - 1]].next
    /\ \A k \in 1 .. m - 1 : c[k] # h

\* The circle of the head has all nodes in use.
Whole(mem, used, h) ==
    \E m \in Nat \ {0} : \E c \in [0 .. m -> used] :
        /\ Lap(mem, used, h, c, m)
        /\ \A n \in used : \E k \in 0 .. m - 1 : c[k] = n

RingInv(t) ==
    /\ ListInv(t)
    /\ head = NIL => live = {}
    /\ head \in live => Whole(node, live, head)

\* The walk of list_iter goes along the lap.
LEMMA LapIsWalk ==
  ASSUME NEW t, ListInv(t), NEW m, NEW c, Lap(node, live, head, c, m)
  PROVE  m <= Cardinality(Addr) /\ \A k \in 0 .. m : At[k] = c[k]
  <1> DEFINE N == Cardinality(Addr)
             pos == At
             T == {k \in 0 .. m : k <= N /\ pos[k] # c[k]}
  <1>1. /\ N \in Nat /\ pos[0] = head
        /\ \A k \in 1 .. N : pos[k] = IF pos[k - 1] = NIL THEN NIL ELSE node[pos[k - 1]].next
    BY WalkIs
  <1>2. /\ m \in Nat \ {0} /\ c[0] = head /\ c[m] = head
        /\ \A k \in 0 .. m : c[k] \in live
        /\ \A k \in 1 .. m : c[k] = node[c[k - 1]].next
        /\ \A k \in 1 .. m - 1 : c[k] # head
    BY DEF Lap
  <1>3. \A n \in live : n # NIL
    BY ListAssumption DEF ListInv, NIL
  <1>4. Ends = {k \in 1 .. N : pos[k] \in {NIL, head}}
    BY DEF Ends
  <1>5. head \in live
    <2>1. 0 \in 0 .. m
      BY <1>2
    <2> QED BY <1>2, <2>1
  <1>6. Ends # {}
    BY <1>5, WalkReturns
  <1> HIDE DEF N, pos
  <1>7. T = {}
    <2> SUFFICES ASSUME T # {} PROVE FALSE
      OBVIOUS
    <2>1. PICK k \in T : \A y \in T : k <= y
      <3>1. T \in SUBSET Nat
        BY <1>2
      <3> HIDE DEF T
      <3> QED BY <3>1, LeastNat
    <2>2. k \in 0 .. m /\ k <= N /\ pos[k] # c[k]
      BY <2>1
    <2>3. k # 0
      BY <1>1, <1>2, <2>2
    <2>4. k \in 1 .. m /\ k \in 1 .. N /\ k - 1 \in 0 .. m /\ k - 1 <= N /\ ~ (k <= k - 1)
      BY <1>1, <1>2, <2>2, <2>3
    <2>5. pos[k - 1] = c[k - 1]
      BY <2>1, <2>4
    <2> QED BY <1>1, <1>2, <1>3, <2>2, <2>4, <2>5
  <1>8. m <= N
    <2> SUFFICES ASSUME ~ (m <= N) PROVE FALSE
      OBVIOUS
    <2>1. PICK k \in 1 .. N : pos[k] \in {NIL, head}
      BY <1>4, <1>6
    <2>2. k \in 0 .. m /\ k \in 1 .. m - 1 /\ k <= N
      BY <1>1, <1>2, <2>1
    <2>3. pos[k] = c[k]
      BY <1>7, <2>2
    <2> QED BY <1>2, <1>3, <2>1, <2>2, <2>3
  <1>9. \A k \in 0 .. m : pos[k] = c[k]
    BY <1>1, <1>2, <1>7, <1>8
  <1> QED BY <1>8, <1>9 DEF N, pos

\* The data list_iter goes through are those of the lap.
LEMMA ElementsAre ==
  ASSUME NEW t, NEW m, NEW c
  PROVE  ListInv(t) /\ Lap(node, live, head, c, m) =>
            Elements = [w \in 1 .. m |-> node[c[w - 1]].data]
  <1> SUFFICES ASSUME ListInv(t), Lap(node, live, head, c, m)
               PROVE  Elements = [w \in 1 .. m |-> node[c[w - 1]].data]
    OBVIOUS
  <1> DEFINE N == Cardinality(Addr)
             pos == At
             length == IF head = NIL THEN 0 ELSE CHOOSE k \in Ends : \A j \in Ends : k <= j
  <1>1. m <= N /\ (\A k \in 0 .. m : pos[k] = c[k]) /\ N \in Nat
    BY LapIsWalk, WalkIs
  <1>2. /\ m \in Nat \ {0} /\ c[0] = head /\ c[m] = head
        /\ \A k \in 0 .. m : c[k] \in live
        /\ \A k \in 1 .. m - 1 : c[k] # head
    BY DEF Lap
  <1>3. \A n \in live : n # NIL
    BY ListAssumption DEF ListInv, NIL
  <1>4. Ends = {k \in 1 .. N : pos[k] \in {NIL, head}}
    BY DEF Ends
  <1>5. Elements = [w \in 1 .. length |-> node[pos[w - 1]].data]
    BY DEF Elements
  <1> HIDE DEF N, pos
  <1>6. head # NIL
    <2>1. 0 \in 0 .. m
      BY <1>2
    <2> QED BY <1>2, <1>3, <2>1
  <1>7. m \in Ends /\ \A j \in Ends : m <= j
    <2>1. m \in 1 .. N /\ m \in 0 .. m
      BY <1>1, <1>2
    <2>2. m \in Ends
      BY <1>1, <1>2, <1>4, <2>1
    <2>3. ASSUME NEW j \in Ends, ~ (m <= j) PROVE FALSE
      <3>1. j \in 1 .. N /\ pos[j] \in {NIL, head}
        BY <1>4
      <3>2. j \in 0 .. m /\ j \in 1 .. m - 1
        BY <1>1, <1>2, <2>3, <3>1
      <3> QED BY <1>1, <1>2, <1>3, <3>1, <3>2
    <2> QED BY <2>2, <2>3
  <1>8. \A k \in Ends : k \in Int
    BY <1>4
  <1>9. length = m
    <2> DEFINE least == CHOOSE k \in Ends : \A j \in Ends : k <= j
    <2>1. least \in Ends /\ \A j \in Ends : least <= j
      BY <1>7
    <2> HIDE DEF least
    <2>2. least <= m /\ m <= least /\ least \in Int /\ m \in Int
      BY <1>7, <1>8, <2>1
    <2>3. least = m
      BY <2>2
    <2> QED BY <1>6, <2>3 DEF least
  <1> HIDE DEF length
  <1>10. \A w \in 1 .. m : pos[w - 1] = c[w - 1]
    <2>1. \A w \in 1 .. m : w - 1 \in 0 .. m
      BY <1>2
    <2> QED BY <1>1, <2>1
  <1> QED BY <1>5, <1>9, <1>10

\* The same after a step.
LEMMA ElementsBecome ==
  ASSUME NEW t, NEW m, NEW c
  PROVE  ListInv(t)' /\ Lap(node', live', head', c, m) =>
            Elements' = [w \in 1 .. m |-> node'[c[w - 1]].data]
  <1>1. ListInv(t) /\ Lap(node, live, head, c, m) =>
            Elements = [w \in 1 .. m |-> node[c[w - 1]].data]
    BY ElementsAre
  <1>2. (ListInv(t) /\ Lap(node, live, head, c, m) =>
            Elements = [w \in 1 .. m |-> node[c[w - 1]].data])'
    BY <1>1, PTL
  <1> QED BY <1>2

\* A lap meets no node twice.
LEMMA LapIsOnce ==
  ASSUME NEW t, ListInv(t), NEW m, NEW c, Lap(node, live, head, c, m),
         NEW x \in 0 .. m - 1, NEW y \in 0 .. m - 1, c[x] = c[y]
  PROVE  x = y
  <1> DEFINE U == {w \in 0 .. m - 1 : \E j \in 0 .. m - 1 : w < j /\ c[w] = c[j]}
  <1>1. /\ m \in Nat \ {0} /\ c[0] = head
        /\ \A k \in 0 .. m : c[k] \in live
        /\ \A k \in 1 .. m : c[k] = node[c[k - 1]].next
        /\ \A k \in 1 .. m - 1 : c[k] # head
    BY DEF Lap
  <1>2. \A n \in live : node[node[n].next].prev = n
    BY DEF ListInv, Circles
  <1>3. U = {}
    <2> SUFFICES ASSUME U # {} PROVE FALSE
      OBVIOUS
    <2>1. PICK w \in U : \A z \in U : w <= z
      <3>1. U \in SUBSET Nat
        BY <1>1
      <3> HIDE DEF U
      <3> QED BY <3>1, LeastNat
    <2>2. w \in 0 .. m - 1
      BY <2>1
    <2>3. PICK j \in 0 .. m - 1 : w < j /\ c[w] = c[j]
      BY <2>1
    <2>4. j \in 1 .. m - 1 /\ j \in 1 .. m
      BY <1>1, <2>2, <2>3
    <2>5. w # 0
      BY <1>1, <2>3, <2>4
    <2>6. /\ w \in 1 .. m /\ w - 1 \in 0 .. m /\ j - 1 \in 0 .. m
          /\ w - 1 \in 0 .. m - 1 /\ j - 1 \in 0 .. m - 1 /\ w - 1 < j - 1
          /\ ~ (w <= w - 1)
      BY <1>1, <2>2, <2>3, <2>5
    <2>7. node[c[w]].prev = c[w - 1] /\ node[c[j]].prev = c[j - 1]
      BY <1>1, <1>2, <2>4, <2>6
    <2>8. w - 1 \in U
      BY <2>3, <2>6, <2>7
    <2> QED BY <2>1, <2>6, <2>8
  <1>4. ~ (x < y) /\ ~ (y < x) /\ x \in Int /\ y \in Int
    BY <1>1, <1>3
  <1> QED BY <1>4

\* Without a head there are no elements.
LEMMA NoElements == head = NIL => Elements = <<>>
  <1> SUFFICES ASSUME head = NIL PROVE Elements = <<>>
    OBVIOUS
  <1>1. Elements = [w \in 1 .. 0 |-> node[At[w - 1]].data]
    BY DEF Elements
  <1>2. 1 .. 0 = {}
    OBVIOUS
  <1> QED BY <1>1, <1>2

\* The elements are a sequence of data as long as the lap.
LEMMA ElementsTyped ==
  ASSUME NEW t, ListInv(t), NEW m, NEW c, Lap(node, live, head, c, m)
  PROVE  /\ m \in Nat \ {0} /\ Elements \in Seq(Payloads \cup {NoData}) /\ Len(Elements) = m
         /\ \A w \in 1 .. m : Elements[w] = node[c[w - 1]].data
  <1>1. Elements = [w \in 1 .. m |-> node[c[w - 1]].data]
    BY ElementsAre
  <1>2. m \in Nat \ {0} /\ \A w \in 1 .. m : c[w - 1] \in Addr
    <2>1. m \in Nat \ {0} /\ c \in [0 .. m -> live] /\ live \subseteq Addr
      BY DEF Lap, ListInv
    <2>2. \A w \in 1 .. m : w - 1 \in 0 .. m
      BY <2>1
    <2> QED BY <2>1, <2>2
  <1>3. \A w \in 1 .. m : node[c[w - 1]].data \in Payloads \cup {NoData}
    BY <1>2 DEF ListInv, ListNodes
  <1> QED BY <1>1, <1>2, <1>3

\* A lap that meets every node.
LEMMA WholeBy ==
  ASSUME NEW mem, NEW used, NEW h, NEW m \in Nat \ {0}, NEW c,
         Lap(mem, used, h, c, m), \A n \in used : \E k \in 0 .. m - 1 : c[k] = n
  PROVE  Whole(mem, used, h)
  <1>1. c \in [0 .. m -> used]
    BY DEF Lap
  <1> QED BY <1>1 DEF Whole

\* What an insertion is in Ring.
LEMMA RingInsert ==
  ASSUME NEW d, ~ Dangling, ~ Dangling', visited' = visited,
         NEW w, w = IF Elements = <<>> THEN 1 ELSE 2,
         Elements' = SubSeq(Elements, 1, w - 1) \o <<d>> \o SubSeq(Elements, w, Len(Elements))
  PROVE  R!Insert(d)
  <1>1. (IF Dangling THEN <<>> ELSE Elements) = Elements
    OBVIOUS
  <1>2. (IF Dangling THEN <<>> ELSE Elements)' = Elements'
    OBVIOUS
  <1>3. Dangling' = Dangling
    BY DEF Dangling
  <1>4. Elements' = R!InsertAt(Elements, w, d)
    BY DEF R!InsertAt
  <1> QED BY <1>1, <1>2, <1>3, <1>4, Zenon DEF R!Insert

\* The first node is linked to itself.
LEMMA FirstInsert ==
  ASSUME NEW t, RingInv(t), ListInv(t)', NEW d \in Payloads, NEW n \in Addr, head = NIL,
         node' = [node EXCEPT ![n] = [prev |-> n, next |-> n, data |-> d]],
         head' = n, live' = live \cup {n}, visited' = visited
  PROVE  RingInv(t)' /\ R!Insert(d)
  <1> DEFINE c == [k \in 0 .. 1 |-> n]
  <1>1. live = {} /\ NIL \notin Addr /\ node \in [Addr -> ListNodes]
    BY ListAssumption DEF RingInv, ListInv, NIL
  <1>2. node'[n].next = n /\ node'[n].data = d
    BY <1>1
  <1>3. Lap(node', live', head', c, 1)
    BY <1>1, <1>2, SMTT(30) DEF Lap
  <1>4. Elements' = [w \in 1 .. 1 |-> node'[c[w - 1]].data]
    <2> HIDE DEF c
    <2> QED BY <1>3, ElementsBecome, ZenonT(30)
  <1>5. Elements' = <<d>>
    <2>1. \A w \in 1 .. 1 : c[w - 1] = n
      OBVIOUS
    <2> HIDE DEF c
    <2>2. Elements' = [w \in 1 .. 1 |-> d]
      BY <1>2, <1>4, <2>1
    <2> QED BY <2>2
  <1>6. Whole(node', live', head')
    <2>1. \A q \in live' : \E k \in 0 .. 1 - 1 : c[k] = q
      BY <1>1
    <2>2. 1 \in Nat \ {0}
      OBVIOUS
    <2> HIDE DEF c
    <2> QED BY <1>3, <2>1, <2>2, WholeBy
  <1>7. RingInv(t)'
    BY <1>1, <1>6 DEF RingInv
  <1>8. ~ Dangling /\ ~ Dangling' /\ Elements = <<>>
    BY <1>1, NoElements DEF Dangling
  <1>9. <<d>> = SubSeq(<<>>, 1, 1 - 1) \o <<d>> \o SubSeq(<<>>, 1, Len(<<>>))
    <2>1. SubSeq(<<>>, 1, 1 - 1) = <<>> /\ SubSeq(<<>>, 1, Len(<<>>)) = <<>>
      OBVIOUS
    <2>2. <<>> \o <<d>> \o <<>> = <<d>>
      OBVIOUS
    <2> QED BY <2>1, <2>2
  <1>10. R!Insert(d)
    BY <1>5, <1>8, <1>9, RingInsert
  <1> QED BY <1>7, <1>10

\* A node linked behind the head is the second element.
LEMMA LaterInsert ==
  ASSUME NEW t, RingInv(t), ListInv(t)', NEW d \in Payloads, NEW n \in Addr \ live,
         head \in live, node' = linked(n, d), head' = head, live' = live \cup {n},
         visited' = visited
  PROVE  RingInv(t)' /\ R!Insert(d)
  <1>1. /\ NIL \notin Addr /\ node \in [Addr -> ListNodes] /\ live \subseteq Addr
        /\ ListInv(t) /\ Circles(node, live)
    BY ListAssumption DEF RingInv, ListInv, NIL
  <1>16. PICK m \in Nat \ {0} : \E c \in [0 .. m -> live] :
           /\ Lap(node, live, head, c, m)
           /\ \A q \in live : \E k \in 0 .. m - 1 : c[k] = q
    BY DEF RingInv, Whole
  <1>2. PICK c \in [0 .. m -> live] :
           /\ Lap(node, live, head, c, m)
           /\ \A q \in live : \E k \in 0 .. m - 1 : c[k] = q
    BY <1>16
  <1>3. /\ \A k \in 0 .. m : c[k] \in live /\ c[k] \in Addr /\ c[k] # n
        /\ c[0] = head /\ c[m] = head
        /\ \A k \in 1 .. m : c[k] = node[c[k - 1]].next
        /\ \A k \in 1 .. m - 1 : c[k] # head
    BY <1>1, <1>2 DEF Lap
  <1>4. \A q \in Addr :
           /\ node'[q].next = IF q = head THEN n
                              ELSE IF q = n THEN node[head].next ELSE node[q].next
           /\ node'[q].data = IF q = n THEN d ELSE node[q].data
    <2>1. n \in Addr /\ n \notin live
      OBVIOUS
    <2>2. \A q \in Addr :
             /\ linked(n, d)[q].next = IF q = head THEN n
                                       ELSE IF q = n THEN node[head].next ELSE node[q].next
             /\ linked(n, d)[q].data = IF q = n THEN d ELSE node[q].data
      BY <1>1, <2>1, LinkedCircles
    <2> QED BY <2>2
  <1> DEFINE b == [k \in 0 .. m + 1 |-> IF k = 0 THEN head ELSE IF k = 1 THEN n ELSE c[k - 1]]
  <1>5. /\ b[0] = head /\ b[1] = n /\ \A k \in 2 .. m + 1 : b[k] = c[k - 1]
        /\ b \in [0 .. m + 1 -> live']
    <2>1. 0 \in 0 .. m + 1 /\ 1 \in 0 .. m + 1
      OBVIOUS
    <2>2. \A k \in 2 .. m + 1 : k \in 0 .. m + 1 /\ k # 0 /\ k # 1 /\ k - 1 \in 0 .. m
      OBVIOUS
    <2>3. \A k \in 0 .. m + 1 : k = 0 \/ k = 1 \/ k \in 2 .. m + 1
      OBVIOUS
    <2>4. \A k \in 0 .. m + 1 : b[k] \in live'
      BY <1>3, <2>2, <2>3
    <2> QED BY <2>1, <2>2, <2>4
  <1> HIDE DEF b
  <1>6. Lap(node', live', head', b, m + 1)
    <2>1. m + 1 \in Nat \ {0} /\ m + 1 \in 2 .. m + 1 /\ m + 1 - 1 = m
      OBVIOUS
    <2>2. b[m + 1] = head
      BY <1>3, <1>5, <2>1
    <2>3. ASSUME NEW k \in 1 .. m + 1
          PROVE  b[k] = node'[b[k - 1]].next
      <3>1. CASE k = 1
        BY <1>1, <1>4, <1>5, <3>1
      <3>2. CASE k = 2
        <4>1. b[2] = c[1] /\ 2 - 1 = 1 /\ 1 \in 1 .. m /\ 1 - 1 = 0
          BY <1>5, <3>2
        <4>2. c[1] = node[head].next
          BY <1>3, <4>1
        <4>3. node'[n].next = node[head].next
          BY <1>4
        <4> QED BY <1>5, <3>2, <4>1, <4>2, <4>3
      <3>3. CASE k > 2
        <4>1. /\ k \in 2 .. m + 1 /\ k - 1 \in 2 .. m + 1 /\ k - 1 \in 1 .. m
              /\ k - 1 - 1 \in 1 .. m - 1 /\ k - 1 - 1 \in 0 .. m
          BY <3>3
        <4>2. b[k] = c[k - 1] /\ b[k - 1] = c[k - 1 - 1]
          BY <1>5, <4>1
        <4>3. c[k - 1] = node[c[k - 1 - 1]].next
          BY <1>3, <4>1
        <4>4. c[k - 1 - 1] # head /\ c[k - 1 - 1] # n /\ c[k - 1 - 1] \in Addr
          BY <1>3, <4>1
        <4> QED BY <1>4, <4>2, <4>3, <4>4
      <3> QED BY <3>1, <3>2, <3>3
    <2>4. ASSUME NEW k \in 1 .. m + 1 - 1
          PROVE  b[k] # head
      <3>1. CASE k = 1
        BY <1>5, <3>1
      <3>2. CASE k # 1
        <4>1. k \in 2 .. m + 1 /\ k - 1 \in 1 .. m - 1
          BY <3>2
        <4> QED BY <1>3, <1>5, <4>1
      <3> QED BY <3>1, <3>2
    <2> QED BY <1>5, <2>1, <2>2, <2>3, <2>4 DEF Lap
  <1>7. Whole(node', live', head')
    <2>1. ASSUME NEW q \in live'
          PROVE  \E k \in 0 .. m + 1 - 1 : b[k] = q
      <3>1. CASE q = n
        BY <1>5, <3>1
      <3>2. CASE q # n
        <4>1. PICK k \in 0 .. m - 1 : c[k] = q
          BY <1>2, <3>2
        <4>2. CASE k = 0
          BY <1>3, <1>5, <4>1, <4>2
        <4>3. CASE k # 0
          <5>1. k + 1 \in 2 .. m + 1 /\ k + 1 \in 0 .. m + 1 - 1 /\ k + 1 - 1 = k
            BY <4>3
          <5>2. b[k + 1] = c[k]
            BY <1>5, <5>1
          <5> QED BY <4>1, <5>1, <5>2
        <4> QED BY <4>2, <4>3
      <3> QED BY <3>1, <3>2
    <2>2. m + 1 \in Nat \ {0}
      OBVIOUS
    <2> DEFINE last == m + 1
    <2>3. /\ last \in Nat \ {0} /\ Lap(node', live', head', b, last)
          /\ \A q \in live' : \E k \in 0 .. last - 1 : b[k] = q
      BY <1>6, <2>1, <2>2
    <2> HIDE DEF last
    <2> QED BY <2>3, WholeBy
  <1>8. RingInv(t)'
    BY <1>1, <1>7 DEF RingInv
  <1> DEFINE S == Payloads \cup {NoData}
             s == Elements
             r == Elements'
  <1>9. s \in Seq(S) /\ Len(s) = m /\ \A w \in 1 .. m : s[w] = node[c[w - 1]].data
    BY <1>1, <1>2, ElementsTyped
  <1>10. r = [w \in 1 .. m + 1 |-> node'[b[w - 1]].data]
    BY <1>6, ElementsBecome
  <1>11. /\ r[1] = node[head].data /\ r[2] = d /\ s[1] = node[head].data
         /\ \A w \in 3 .. m + 1 : r[w] = s[w - 1]
    <2>1. /\ 1 \in 1 .. m + 1 /\ 1 \in 1 .. m /\ 2 \in 1 .. m + 1 /\ 1 - 1 = 0 /\ 2 - 1 = 1
      OBVIOUS
    <2>2. r[1] = node'[b[0]].data /\ r[2] = node'[b[1]].data
      BY <1>10, <2>1
    <2>3. s[1] = node[c[0]].data
      BY <1>9, <2>1
    <2>4. ASSUME NEW w \in 3 .. m + 1
          PROVE  r[w] = s[w - 1]
      <3>1. /\ w \in 1 .. m + 1 /\ w - 1 \in 1 .. m /\ w - 1 \in 2 .. m + 1
            /\ w - 1 - 1 \in 0 .. m
        OBVIOUS
      <3>2. r[w] = node'[b[w - 1]].data /\ s[w - 1] = node[c[w - 1 - 1]].data
        BY <1>9, <1>10, <3>1
      <3>3. b[w - 1] = c[w - 1 - 1] /\ c[w - 1 - 1] # n /\ c[w - 1 - 1] \in Addr
        BY <1>3, <1>5, <3>1
      <3> QED BY <1>4, <3>2, <3>3
    <2> QED BY <1>1, <1>3, <1>4, <1>5, <2>2, <2>3, <2>4
  <1>12. r \in Seq(S) /\ Len(r) = m + 1
    <2>1. \A w \in 1 .. m + 1 : r[w] \in S
      <3>1. \A w \in 1 .. m + 1 : w = 1 \/ w = 2 \/ (w \in 3 .. m + 1 /\ w - 1 \in 1 .. m)
        OBVIOUS
      <3>2. \A w \in 1 .. m : s[w] \in S
        BY <1>9
      <3>3. 1 \in 1 .. m
        OBVIOUS
      <3> HIDE DEF r, s
      <3> QED BY <1>11, <3>1, <3>2, <3>3
    <2> HIDE DEF S
    <2>2. r \in [1 .. m + 1 -> S]
      BY <1>10, <2>1
    <2> HIDE DEF r
    <2> QED BY <2>2
  <1>13. r = SubSeq(s, 1, 2 - 1) \o <<d>> \o SubSeq(s, 2, Len(s))
    <2> d \in S
      OBVIOUS
    <2> HIDE DEF S, r, s
    <2> QED BY <1>9, <1>11, <1>12, SecondPut
  <1>14. s # <<>>
    <2> HIDE DEF s
    <2> QED BY <1>9
  <1>15. ~ Dangling /\ ~ Dangling'
    BY <1>1 DEF Dangling
  <1>17. R!Insert(d)
    BY <1>13, <1>14, <1>15, RingInsert
  <1> QED BY <1>8, <1>17

\* What a deletion is in Ring.
LEMMA RingDelete ==
  ASSUME ~ Dangling, ~ Dangling', visited' = visited,
         NEW j \in DOMAIN Elements, j > 1,
         Elements' = SubSeq(Elements, 1, j - 1) \o SubSeq(Elements, j + 1, Len(Elements))
  PROVE  R!RingNext
  <1>1. (IF Dangling THEN <<>> ELSE Elements) = Elements
    OBVIOUS
  <1>2. (IF Dangling THEN <<>> ELSE Elements)' = Elements'
    OBVIOUS
  <1>3. Dangling' = Dangling
    BY DEF Dangling
  <1>4. Elements' = R!RemoveAt(Elements, j)
    BY DEF R!RemoveAt
  <1>5. R!Delete(j)
    BY <1>1, <1>2, <1>3, <1>4, Zenon DEF R!Delete
  <1>6. j \in DOMAIN (IF Dangling THEN <<>> ELSE Elements)
    BY <1>1
  <1> QED BY <1>5, <1>6, Zenon DEF R!RingNext

\* A node that is not the head's is taken out of the lap.
LEMMA LaterDelete ==
  ASSUME NEW t, RingInv(t), ListInv(t)', NEW n \in live, head \in live, n # head,
         node' = unlinked(n), head' = head, live' = live \ {n}, visited' = visited
  PROVE  RingInv(t)' /\ R!RingNext
  <1>1. /\ NIL \notin Addr /\ node \in [Addr -> ListNodes] /\ live \subseteq Addr
        /\ ListInv(t) /\ Circles(node, live)
    BY ListAssumption DEF RingInv, ListInv, NIL
  <1>2. PICK m \in Nat \ {0} : \E c \in [0 .. m -> live] :
           /\ Lap(node, live, head, c, m)
           /\ \A q \in live : \E k \in 0 .. m - 1 : c[k] = q
    BY DEF RingInv, Whole
  <1>3. PICK c \in [0 .. m -> live] :
           /\ Lap(node, live, head, c, m)
           /\ \A q \in live : \E k \in 0 .. m - 1 : c[k] = q
    BY <1>2
  <1>4. /\ \A k \in 0 .. m : c[k] \in live /\ c[k] \in Addr
        /\ c[0] = head /\ c[m] = head
        /\ \A k \in 1 .. m : c[k] = node[c[k - 1]].next
        /\ \A k \in 1 .. m - 1 : c[k] # head
    BY <1>1, <1>3 DEF Lap
  <1>5. PICK j \in 0 .. m - 1 : c[j] = n
    BY <1>3
  <1>6. /\ j # 0 /\ j \in 1 .. m - 1 /\ j \in 1 .. m /\ j - 1 \in 0 .. m - 1 /\ j + 1 \in 1 .. m
        /\ j \in 0 .. m /\ j - 1 \in 0 .. m /\ j + 1 - 1 = j
    BY <1>4, <1>5
  <1>7. \A k \in 0 .. m : c[k] = n => k = j
    <2> SUFFICES ASSUME NEW k \in 0 .. m, c[k] = n PROVE k = j
      OBVIOUS
    <2>1. k # m /\ k \in 0 .. m - 1
      BY <1>4
    <2> QED BY <1>1, <1>3, <1>5, <2>1, LapIsOnce
  <1>8. node[n].next = c[j + 1] /\ node[n].prev = c[j - 1]
    <2>1. c[j + 1] = node[n].next
      BY <1>4, <1>5, <1>6
    <2>2. c[j] = node[c[j - 1]].next
      BY <1>4, <1>6
    <2>3. node[node[c[j - 1]].next].prev = c[j - 1]
      BY <1>1, <1>4, <1>6 DEF Circles
    <2> QED BY <1>5, <2>1, <2>2, <2>3
  <1>9. \A q \in Addr :
           /\ node'[q].next = IF q = c[j - 1] THEN c[j + 1] ELSE node[q].next
           /\ node'[q].data = node[q].data
    <2>1. \A q \in Addr :
             /\ unlinked(n)[q].next = IF q = node[n].prev THEN node[n].next ELSE node[q].next
             /\ unlinked(n)[q].data = node[q].data
      BY <1>1, UnlinkedCircles
    <2> QED BY <1>8, <2>1
  <1> DEFINE l == m - 1
             b == [k \in 0 .. l |-> IF k < j THEN c[k] ELSE c[k + 1]]
  <1>10. /\ l \in Nat \ {0} /\ \A k \in 0 .. l : k \in 0 .. m /\ k + 1 \in 0 .. m
         /\ \A k \in 0 .. l : b[k] = IF k < j THEN c[k] ELSE c[k + 1]
    BY <1>6
  <1>11. b \in [0 .. l -> live']
    <2>1. \A k \in 0 .. l : b[k] \in live /\ b[k] # n
      <3> SUFFICES ASSUME NEW k \in 0 .. l PROVE b[k] \in live /\ b[k] # n
        OBVIOUS
      <3>1. CASE k < j
        BY <1>4, <1>7, <1>10, <3>1
      <3>2. CASE ~ (k < j)
        <4>1. k + 1 # j
          BY <1>6, <3>2
        <4> QED BY <1>4, <1>7, <1>10, <3>2, <4>1
      <3> QED BY <3>1, <3>2
    <2> QED BY <2>1
  <1> HIDE DEF b
  <1>12. Lap(node', live', head', b, l)
    <2>1. b[0] = head /\ b[l] = head
      <3>1. 0 \in 0 .. l /\ l \in 0 .. l /\ 0 < j /\ ~ (l < j) /\ l + 1 = m
        BY <1>6, <1>10
      <3> QED BY <1>4, <1>10, <3>1
    <2>2. ASSUME NEW k \in 1 .. l
          PROVE  b[k] = node'[b[k - 1]].next
      <3>1. k \in 0 .. l /\ k - 1 \in 0 .. l /\ k \in 1 .. m /\ k + 1 \in 1 .. m /\ k + 1 - 1 = k
        BY <1>10
      <3>2. k - 1 + 1 = k /\ k - 1 \in 0 .. m
        BY <3>1, <1>10
      <3>3. CASE k < j
        <4>1. b[k] = c[k] /\ b[k - 1] = c[k - 1]
          BY <1>6, <1>10, <3>1, <3>3
        <4>2. c[k - 1] # c[j - 1]
          <5>1. k - 1 \in 0 .. m - 1 /\ k - 1 # j - 1
            BY <1>6, <3>1, <3>3
          <5> QED BY <1>1, <1>3, <1>6, <5>1, LapIsOnce
        <4> QED BY <1>4, <1>9, <3>1, <3>2, <4>1, <4>2
      <3>4. CASE k = j
        <4>1. b[k] = c[j + 1] /\ b[k - 1] = c[j - 1]
          BY <1>6, <1>10, <3>1, <3>4
        <4> QED BY <1>4, <1>6, <1>9, <4>1
      <3>5. CASE k > j
        <4>1. b[k] = c[k + 1] /\ b[k - 1] = c[k]
          BY <1>6, <1>10, <3>1, <3>2, <3>5
        <4>2. c[k] # c[j - 1]
          <5>1. k \in 0 .. m - 1 /\ k # j - 1
            BY <1>6, <3>1, <3>5
          <5> QED BY <1>1, <1>3, <1>6, <5>1, LapIsOnce
        <4>3. c[k + 1] = node[c[k]].next /\ c[k] \in Addr
          BY <1>4, <1>10, <3>1
        <4> QED BY <1>9, <4>1, <4>2, <4>3
      <3> QED BY <1>6, <3>1, <3>3, <3>4, <3>5
    <2>3. ASSUME NEW k \in 1 .. l - 1
          PROVE  b[k] # head
      <3>1. k \in 0 .. l /\ k \in 1 .. m - 1 /\ k + 1 \in 1 .. m - 1
        BY <1>10
      <3> QED BY <1>4, <1>10, <3>1
    <2> HIDE DEF l
    <2> QED BY <1>10, <1>11, <2>1, <2>2, <2>3 DEF Lap
  <1>13. \A q \in live' : \E k \in 0 .. l - 1 : b[k] = q
    <2> SUFFICES ASSUME NEW q \in live' PROVE \E k \in 0 .. l - 1 : b[k] = q
      OBVIOUS
    <2>1. PICK k \in 0 .. m - 1 : c[k] = q
      BY <1>3
    <2>2. k # j
      BY <1>5, <2>1
    <2>3. CASE k < j
      <3>1. k \in 0 .. l - 1 /\ k \in 0 .. l
        BY <1>6, <2>3
      <3> QED BY <1>10, <2>1, <2>3, <3>1
    <2>4. CASE k > j
      <3>1. k - 1 \in 0 .. l - 1 /\ k - 1 \in 0 .. l /\ ~ (k - 1 < j) /\ k - 1 + 1 = k
        BY <1>6, <2>4
      <3> QED BY <1>10, <2>1, <3>1
    <2> QED BY <1>6, <2>2, <2>3, <2>4
  <1>14. RingInv(t)'
    <2>1. Whole(node', live', head')
      <3> HIDE DEF l
      <3> QED BY <1>10, <1>12, <1>13, WholeBy
    <2> QED BY <1>1, <2>1 DEF RingInv
  <1> DEFINE S == Payloads \cup {NoData}
             s == Elements
             r == Elements'
  <1>15. s \in Seq(S) /\ Len(s) = m /\ \A w \in 1 .. m : s[w] = node[c[w - 1]].data
    BY <1>1, <1>3, ElementsTyped
  <1>16. r = [w \in 1 .. l |-> node'[b[w - 1]].data]
    <2> HIDE DEF l
    <2> QED BY <1>12, ElementsBecome
  <1>17. \A w \in 1 .. l : r[w] = IF w < j + 1 THEN s[w] ELSE s[w + 1]
    <2> SUFFICES ASSUME NEW w \in 1 .. l
                 PROVE  r[w] = IF w < j + 1 THEN s[w] ELSE s[w + 1]
      OBVIOUS
    <2>1. /\ w - 1 \in 0 .. l /\ w \in 1 .. m /\ w + 1 \in 1 .. m /\ w - 1 + 1 = w
          /\ w + 1 - 1 = w /\ (w < j + 1 <=> w - 1 < j) /\ w - 1 \in 0 .. m /\ w \in 0 .. m
      BY <1>6, <1>10
    <2>2. r[w] = node'[b[w - 1]].data
      BY <1>16
    <2>3. b[w - 1] = IF w - 1 < j THEN c[w - 1] ELSE c[w]
      BY <1>10, <2>1
    <2>4. b[w - 1] \in Addr
      BY <1>4, <2>1, <2>3
    <2>5. s[w] = node[c[w - 1]].data /\ s[w + 1] = node[c[w]].data
      BY <1>15, <2>1
    <2> HIDE DEF r, s
    <2> QED BY <1>9, <2>1, <2>2, <2>3, <2>4, <2>5
  <1>18. r \in Seq(S) /\ Len(r) = l
    <2>1. \A w \in 1 .. l : r[w] \in S
      <3>1. \A w \in 1 .. l : w \in 1 .. m /\ w + 1 \in 1 .. m
        OBVIOUS
      <3>2. \A w \in 1 .. m : s[w] \in S
        BY <1>15
      <3> HIDE DEF r, s
      <3> QED BY <1>17, <3>1, <3>2, SMTT(30)
    <2> HIDE DEF S, l
    <2>2. r \in [1 .. l -> S]
      BY <1>16, <2>1, SMTT(30)
    <2> HIDE DEF r
    <2> QED BY <1>10, <2>2, SMTT(30)
  <1>19. /\ j + 1 \in 1 .. m /\ j + 1 > 1 /\ j + 1 \in DOMAIN s
         /\ r = SubSeq(s, 1, (j + 1) - 1) \o SubSeq(s, (j + 1) + 1, Len(s))
    <2> DEFINE w == j + 1
    <2>1. w \in 1 .. Len(s) /\ w > 1 /\ Len(r) = Len(s) - 1
      BY <1>6, <1>15, <1>18
    <2>2. DOMAIN s = 1 .. Len(s)
      BY <1>15
    <2>3. \A k \in 1 .. Len(r) : r[k] = IF k < w THEN s[k] ELSE s[k + 1]
      BY <1>17, <1>18
    <2> HIDE DEF S, r, s, w
    <2>4. r = SubSeq(s, 1, w - 1) \o SubSeq(s, w + 1, Len(s))
      BY <1>15, <1>18, <2>1, <2>3, OneTaken
    <2> QED BY <1>6, <2>1, <2>2, <2>4 DEF w
  <1>20. ~ Dangling /\ ~ Dangling'
    BY DEF Dangling
  <1>21. R!RingNext
    <2> DEFINE w == j + 1
    <2>1. /\ w \in DOMAIN Elements /\ w > 1
          /\ Elements' = SubSeq(Elements, 1, w - 1) \o SubSeq(Elements, w + 1, Len(Elements))
      BY <1>19
    <2> HIDE DEF w
    <2> QED BY <1>20, <2>1, RingDelete
  <1> QED BY <1>14, <1>21

\* The variables of Ring.
ringVars == <<IF Dangling THEN <<>> ELSE Elements, visited, Dangling>>

LEMMA NoElementsNext == head' = NIL => Elements' = <<>>
  <1>1. head = NIL => Elements = <<>>
    BY NoElements
  <1>2. (head = NIL => Elements = <<>>)'
    BY <1>1, PTL
  <1> QED BY <1>2

\* After the head's node was deleted nothing more is promised.
LEMMA LostStays ==
  ASSUME Dangling, Dangling'
  PROVE  R!RingNext
  <1>1. UNCHANGED (IF Dangling THEN <<>> ELSE Elements)
    OBVIOUS
  <1>2. Dangling' = Dangling
    BY DEF Dangling
  <1>3. R!Unspecified
    BY <1>1, <1>2, Zenon DEF R!Unspecified
  <1> QED BY <1>3 DEF R!RingNext

\* An insertion.
LEMMA InsertInRing ==
  ASSUME NEW t, RingInv(t), NEW d \in Payloads, list_insert(t, d)
  PROVE  RingInv(t)' /\ [R!RingNext]_ringVars
  <1>1. ListInv(t)' /\ ListInv(t) /\ visited' = visited
    BY InsertKeeps DEF RingInv, list_insert
  <1>2. PICK n \in Addr \ live :
          \/ /\ head = NIL
             /\ node' = [node EXCEPT ![n] = [prev |-> n, next |-> n, data |-> d]]
             /\ head' = n
             /\ live' = live \cup {n}
             /\ UNCHANGED fault
          \/ /\ head # NIL /\ n # head /\ node[head].next # NIL
             /\ node' = linked(n, d)
             /\ live' = live \cup {n}
             /\ UNCHANGED <<head, fault>>
          \/ /\ head # NIL /\ (n = head \/ node[head].next = NIL)
             /\ fault' = TRUE
             /\ UNCHANGED <<node, live, head>>
    BY DEF list_insert
  <1>3. clearing[t] = NIL /\ ListInv(t) /\ NIL \notin Addr
    BY <1>1, ListAssumption DEF list_insert, Ready, NIL
  <1>4. CASE head = NIL
    <2>1. RingInv(t)' /\ R!Insert(d)
      BY <1>1, <1>2, <1>4, FirstInsert
    <2> QED BY <2>1 DEF R!RingNext
  <1>5. CASE head # NIL /\ n # head /\ node[head].next # NIL
    <2>1. head \in live
      BY <1>3, <1>5 DEF ListInv, Dangling
    <2>2. RingInv(t)' /\ R!Insert(d)
      BY <1>1, <1>2, <1>5, <2>1, LaterInsert
    <2> QED BY <2>2 DEF R!RingNext
  <1>6. CASE head # NIL /\ (n = head \/ node[head].next = NIL)
    <2>1. UNCHANGED <<node, live, head>>
      BY <1>2, <1>6
    <2>2. head \notin live
      BY <1>3, <1>6 DEF ListInv, Circles
    <2>3. Dangling /\ Dangling'
      BY <1>6, <2>1, <2>2 DEF Dangling
    <2>4. RingInv(t)'
      BY <1>1, <1>6, <2>1, <2>2 DEF RingInv
    <2> QED BY <2>3, <2>4, LostStays
  <1> QED BY <1>4, <1>5, <1>6

\* A deletion: the head's node gives the list up, any other leaves it.
LEMMA DeleteInRing ==
  ASSUME NEW t, RingInv(t), NEW n, list_delete(t, n)
  PROVE  RingInv(t)' /\ [R!RingNext]_ringVars
  <1>1. /\ n \in live /\ node' = unlinked(n) /\ live' = live \ {n} /\ head' = head
        /\ visited' = visited
    BY DEF list_delete
  <1>2. ListInv(t)'
    BY DeleteKeeps DEF RingInv
  <1>3. CASE head \notin live
    <2>1. RingInv(t)'
      BY <1>1, <1>2, <1>3 DEF RingInv
    <2>2. head = NIL => live = {}
      BY DEF RingInv
    <2>3. Dangling /\ Dangling'
      BY <1>1, <1>3, <2>2 DEF Dangling
    <2> QED BY <1>1, <2>1, <2>3, LostStays
  <1>4. CASE head \in live /\ n # head
    BY <1>1, <1>2, <1>4, LaterDelete
  <1>5. CASE n = head
    <2>1. /\ ~ Dangling /\ Dangling' /\ head' \notin live'
      <3>1. head # NIL
        BY <1>1, <1>5, ListAssumption DEF RingInv, ListInv, NIL
      <3> QED BY <1>1, <1>5, <3>1 DEF Dangling
    <2>2. RingInv(t)'
      BY <1>2, <2>1 DEF RingInv, Dangling
    <2>3. Elements # <<>>
      <3>1. PICK m \in Nat \ {0} : \E c \in [0 .. m -> live] : Lap(node, live, head, c, m)
        BY <1>1, <1>5 DEF RingInv, Whole
      <3>2. PICK c \in [0 .. m -> live] : Lap(node, live, head, c, m)
        BY <3>1
      <3>3. Len(Elements) = m
        BY <3>2, ElementsTyped DEF RingInv
      <3> QED BY <3>3
    <2>4. R!DeleteHead
      <3>1. (IF Dangling THEN <<>> ELSE Elements) = Elements
        BY <2>1
      <3>2. (IF Dangling THEN <<>> ELSE Elements)' = <<>>
        BY <2>1
      <3>3. Dangling' = TRUE
        BY <2>1 DEF Dangling
      <3> QED BY <1>1, <2>3, <3>1, <3>2, <3>3, Zenon DEF R!DeleteHead
    <2> QED BY <2>2, <2>4 DEF R!RingNext
  <1> QED BY <1>1, <1>3, <1>4, <1>5

\* Clearing the node that was deleted changes no element.
LEMMA ClearInRing ==
  ASSUME NEW t, RingInv(t), clear(t)
  PROVE  RingInv(t)' /\ UNCHANGED ringVars
  <1> DEFINE a == clearing[t]
  <1>1. /\ node' = [node EXCEPT ![a] = Cleared] /\ live' = live /\ head' = head
        /\ visited' = visited
    BY DEF clear
  <1>2. ListInv(t)' /\ ListInv(t)
    BY ClearKeeps DEF RingInv
  <1>3. \A q \in live : node'[q] = node[q] /\ q \in Addr
    BY <1>1, <1>2 DEF ListInv
  <1> HIDE DEF a
  <1>4. ASSUME NEW m, NEW c, Lap(node, live, head, c, m)
        PROVE  Lap(node', live', head', c, m) /\ Elements' = Elements
    <2>1. /\ m \in Nat \ {0} /\ \A k \in 0 .. m : c[k] \in live
      BY <1>4 DEF Lap
    <2>2. \A k \in 1 .. m : k - 1 \in 0 .. m /\ c[k - 1] \in live
      BY <2>1
    <2>3. Lap(node', live', head', c, m)
      BY <1>1, <1>3, <1>4, <2>2 DEF Lap
    <2>4. /\ Elements = [w \in 1 .. m |-> node[c[w - 1]].data]
          /\ Elements' = [w \in 1 .. m |-> node'[c[w - 1]].data]
      BY <1>2, <1>4, <2>3, ElementsAre, ElementsBecome
    <2>5. Elements' = Elements
      BY <1>3, <2>2, <2>4
    <2> QED BY <2>3, <2>5
  <1>5. Dangling' = Dangling
    BY <1>1 DEF Dangling
  <1>6. CASE head \in live
    <2>1. PICK m \in Nat \ {0} : \E c \in [0 .. m -> live] :
             /\ Lap(node, live, head, c, m)
             /\ \A q \in live : \E k \in 0 .. m - 1 : c[k] = q
      BY <1>6 DEF RingInv, Whole
    <2>2. PICK c \in [0 .. m -> live] :
             /\ Lap(node, live, head, c, m)
             /\ \A q \in live : \E k \in 0 .. m - 1 : c[k] = q
      BY <2>1
    <2>3. Lap(node', live', head', c, m) /\ Elements' = Elements
      BY <1>4, <2>2
    <2>4. \A q \in live' : \E k \in 0 .. m - 1 : c[k] = q
      BY <1>1, <2>2
    <2>5. Whole(node', live', head')
      BY <2>3, <2>4, WholeBy
    <2>6. RingInv(t)'
      BY <1>1, <1>2, <1>6, <2>5 DEF RingInv
    <2> QED BY <1>1, <1>5, <2>3, <2>6 DEF ringVars
  <1>7. CASE head \notin live
    <2>1. RingInv(t)'
      BY <1>1, <1>2, <1>7 DEF RingInv
    <2>2. CASE head = NIL
      <3>1. Elements = <<>> /\ Elements' = <<>>
        BY <1>1, <2>2, NoElements, NoElementsNext
      <3> QED BY <1>1, <1>5, <2>1, <3>1 DEF ringVars
    <2>3. CASE head # NIL
      <3>1. Dangling
        BY <1>7, <2>3 DEF Dangling
      <3> QED BY <1>1, <1>5, <2>1, <3>1 DEF ringVars
    <2> QED BY <2>2, <2>3
  <1> QED BY <1>6, <1>7

\* An iteration passes the elements up to the first one that stops it.
LEMMA IterInRing ==
  ASSUME NEW t, RingInv(t), NEW stop \in SUBSET Payloads, list_iter(t, stop)
  PROVE  RingInv(t)' /\ [R!RingNext]_ringVars
  <1>1. /\ visited' = Visits(stop) /\ UNCHANGED <<node, live, head, clearing, fault>>
    BY DEF list_iter
  <1>2. RingInv(t)'
    BY <1>1 DEF RingInv, ListInv, Dangling
  <1>3. Elements' = Elements /\ Dangling' = Dangling
    BY <1>1 DEF Elements, At, Ends, Dangling
  <1>4. CASE Dangling
    BY <1>2, <1>3, <1>4, LostStays
  <1>5. CASE ~ Dangling
    <2>1. (IF Dangling THEN <<>> ELSE Elements) = Elements
      BY <1>5
    <2>2. UNCHANGED (IF Dangling THEN <<>> ELSE Elements)
      BY <1>3
    <2> DEFINE ring == IF Dangling THEN <<>> ELSE Elements
    <2>3. R!UpTo(stop) = LET stops == {w \in DOMAIN ring : ring[w] \in stop}
                         IN  IF stops = {} THEN ring
                             ELSE SubSeq(ring, 1, CHOOSE w \in stops : \A j \in stops : w <= j)
      BY DEF R!UpTo
    <2>4. ring = Elements
      BY <2>1
    <2> HIDE DEF ring
    <2>5. R!UpTo(stop) = Visits(stop)
      BY <2>3, <2>4, Zenon DEF Visits
    <2>6. visited' = R!UpTo(stop)
      BY <1>1, <2>5
    <2>7. R!Visit(stop)
      BY <1>3, <1>5, <2>2, <2>6, Zenon DEF R!Visit
    <2> QED BY <1>2, <2>7 DEF R!RingNext
  <1> QED BY <1>4, <1>5

\* Every step of the list is one of Ring, or changes nothing there.
LEMMA StepInRing ==
  ASSUME NEW t, Tasks = {t}, RingInv(t), [ListNext]_listVars
  PROVE  RingInv(t)' /\ [R!RingNext]_ringVars
  <1>1. ASSUME UNCHANGED listVars PROVE RingInv(t)' /\ UNCHANGED ringVars
    <2>1. UNCHANGED <<node, live, head, clearing, visited, fault>>
      BY <1>1 DEF listVars
    <2>2. RingInv(t)'
      BY <2>1 DEF RingInv, ListInv, Dangling
    <2>3. Elements' = Elements /\ Dangling' = Dangling
      BY <2>1 DEF Elements, At, Ends, Dangling
    <2> QED BY <2>1, <2>2, <2>3 DEF ringVars
  <1>2. Stopped => UNCHANGED listVars
    BY DEF Stopped
  <1>3. ASSUME NEW d \in Payloads, list_insert(t, d) PROVE RingInv(t)' /\ [R!RingNext]_ringVars
    BY <1>3, InsertInRing
  <1>4. ASSUME NEW n \in Addr, list_delete(t, n) PROVE RingInv(t)' /\ [R!RingNext]_ringVars
    BY <1>4, DeleteInRing
  <1>5. ASSUME clear(t) PROVE RingInv(t)' /\ [R!RingNext]_ringVars
    BY <1>5, ClearInRing
  <1>6. ASSUME NEW stop \in SUBSET Payloads, list_iter(t, stop)
        PROVE  RingInv(t)' /\ [R!RingNext]_ringVars
    BY <1>6, IterInRing
  <1> QED BY <1>1, <1>2, <1>3, <1>4, <1>5, <1>6 DEF ListNext

\* lib/list.c implements the sequence of Ring, for every set of addresses,
\* with lists of every length and every reuse of freed memory: list_insert puts
\* an element in the second place, list_delete of any node but the head's takes
\* its element out, and list_iter passes the elements from the head's on, until
\* the head's own node is deleted.  For one caller.
THEOREM ListIsRing ==
  ASSUME NEW t, Tasks = {t}
  PROVE  ListSpec => ListImplementsRing
  <1>1. ListInit => RingInv(t) /\ R!RingInit
    <2> SUFFICES ASSUME ListInit PROVE RingInv(t) /\ R!RingInit
      OBVIOUS
    <2>1. ListInv(t)
      BY ListBegins
    <2>2. head = NIL /\ live = {} /\ visited = <<>>
      BY DEF ListInit
    <2>3. Elements = <<>> /\ Dangling = FALSE
      BY <2>2, NoElements DEF Dangling
    <2>4. R!RingInit
      BY <2>2, <2>3, Zenon DEF R!RingInit
    <2> QED BY <2>1, <2>2, <2>4 DEF RingInv
  <1>2. RingInv(t) /\ [ListNext]_listVars => RingInv(t)' /\ [R!RingNext]_ringVars
    BY StepInRing
  <1>3. ListSpec => R!RingInit /\ [][R!RingNext]_ringVars
    BY <1>1, <1>2, PTL DEF ListSpec
  <1> QED BY <1>3 DEF ListImplementsRing, R!RingSpec, ringVars

-----------------------------------------------------------------------------
(* PCI: the list holds what was scanned                                    *)

\* While the head's node is there an insertion puts its element second.
LEMMA InsertSecond ==
  ASSUME NEW t, RingInv(t), ~ Dangling, Elements \in Seq(Slots),
         NEW d \in Slots, Slots \subseteq Payloads, list_insert(t, d)
  PROVE  /\ RingInv(t)' /\ ~ Dangling'
         /\ Elements = <<>> => Elements' = <<d>>
         /\ Elements # <<>> => Elements' = <<Elements[1], d>> \o Tail(Elements)
  <1>1. ListInv(t)' /\ ListInv(t) /\ visited' = visited /\ d \in Payloads
    BY InsertKeeps DEF RingInv, list_insert
  <1>2. PICK n \in Addr \ live :
          \/ /\ head = NIL
             /\ node' = [node EXCEPT ![n] = [prev |-> n, next |-> n, data |-> d]]
             /\ head' = n
             /\ live' = live \cup {n}
             /\ UNCHANGED fault
          \/ /\ head # NIL /\ n # head /\ node[head].next # NIL
             /\ node' = linked(n, d)
             /\ live' = live \cup {n}
             /\ UNCHANGED <<head, fault>>
          \/ /\ head # NIL /\ (n = head \/ node[head].next = NIL)
             /\ fault' = TRUE
             /\ UNCHANGED <<node, live, head>>
    BY DEF list_insert
  <1>3. NIL \notin Addr /\ (head # NIL => head \in live /\ node[head].next \in live)
    BY <1>1, ListAssumption DEF NIL, Dangling, ListInv, Circles
  <1>4. RingInv(t)' /\ R!Insert(d) /\ ~ Dangling'
    <2>1. CASE head = NIL
      <3>1. RingInv(t)' /\ R!Insert(d)
        BY <1>1, <1>2, <2>1, FirstInsert
      <3> QED BY <1>2, <2>1, <3>1 DEF Dangling
    <2>2. CASE head # NIL
      <3>1. n # head /\ node[head].next # NIL
        BY <1>1, <1>2, <1>3, <2>2 DEF ListInv
      <3>2. RingInv(t)' /\ R!Insert(d)
        BY <1>1, <1>2, <1>3, <2>2, <3>1, LaterInsert
      <3> QED BY <1>2, <1>3, <2>2, <3>1, <3>2 DEF Dangling
    <2> QED BY <2>1, <2>2
  <1>5. Elements' = R!InsertAt(Elements, IF Elements = <<>> THEN 1 ELSE 2, d)
    <2>1. (IF Dangling THEN <<>> ELSE Elements) = Elements
      OBVIOUS
    <2>2. (IF Dangling THEN <<>> ELSE Elements)' = Elements'
      BY <1>4
    <2> QED BY <1>4, <2>1, <2>2, Zenon DEF R!Insert
  <1> DEFINE e == Elements
  <1>6. CASE Elements = <<>>
    <2>1. Elements' = SubSeq(e, 1, 0) \o <<d>> \o SubSeq(e, 1, Len(e))
      BY <1>5, <1>6 DEF R!InsertAt
    <2>2. SubSeq(e, 1, 0) = <<>> /\ SubSeq(e, 1, Len(e)) = <<>>
      BY <1>6
    <2>3. <<>> \o <<d>> \o <<>> = <<d>>
      OBVIOUS
    <2>4. Elements' = <<d>>
      BY <2>1, <2>2, <2>3, Zenon
    <2> QED BY <1>4, <1>6, <2>4
  <1>7. CASE Elements # <<>>
    <2>1. Elements' = SubSeq(e, 1, 1) \o <<d>> \o SubSeq(e, 2, Len(e))
      BY <1>5, <1>7 DEF R!InsertAt
    <2>2. e \in Seq(Slots) /\ e # <<>>
      BY <1>7
    <2> HIDE DEF e
    <2>3. SubSeq(e, 2, Len(e)) = Tail(e)
      BY <2>2, TailIsSubSeq
    <2> DEFINE first == SubSeq(e, 1, 1)
               front == first \o <<d>>
               both == <<e[1], d>>
    <2>4. first \in Seq(Slots) /\ Len(first) = 1 /\ first[1] = e[1] /\ e[1] \in Slots
      <3>1. 1 <= Len(e) /\ \A w \in 1 .. 1 : e[w] \in Slots
        BY <2>2
      <3> QED BY <3>1, SubSeqProperties
    <2>5. front = both
      <3>1. both \in Seq(Slots) /\ Len(both) = 2 /\ both[1] = e[1] /\ both[2] = d
        BY <2>4
      <3>2. front \in Seq(Slots) /\ Len(front) = 2 /\ front[1] = e[1] /\ front[2] = d
        <4> DEFINE last == <<d>>
        <4>1. last \in Seq(Slots) /\ Len(last) = 1 /\ last[1] = d
          OBVIOUS
        <4>2. front = first \o last
          OBVIOUS
        <4> HIDE DEF first, last, front
        <4>3. /\ first \o last \in Seq(Slots) /\ Len(first \o last) = Len(first) + Len(last)
              /\ \A w \in 1 .. Len(first) + Len(last) :
                    (first \o last)[w] = IF w <= Len(first) THEN first[w] ELSE last[w - Len(first)]
          BY <2>4, <4>1, ConcatProperties
        <4>4. Len(first) = 1 /\ Len(last) = 1 /\ 1 \in 1 .. 2 /\ 2 \in 1 .. 2
          BY <2>4, <4>1
        <4> QED BY <2>4, <4>1, <4>2, <4>3, <4>4
      <3> HIDE DEF front, both
      <3>3. \A w \in 1 .. Len(front) : front[w] = both[w]
        BY <3>1, <3>2
      <3> QED BY <3>1, <3>2, <3>3, SeqEqual
    <2>6. Elements' = front \o Tail(e)
      BY <2>1, <2>3
    <2> HIDE DEF front, both
    <2>7. Elements' = both \o Tail(e)
      BY <2>5, <2>6
    <2>8. Elements' = <<e[1], d>> \o Tail(e)
      BY <2>7 DEF both
    <2> QED BY <1>4, <1>7, <2>8 DEF e
  <1> QED BY <1>6, <1>7

\* The devices found before slot s is probed.
FoundBefore(s) == {r \in Found : r < s}

\* e has each of the devices ds once: 0:0.0 first, then from the last to the
\* second.
InOrder(e, ds) ==
    /\ e \in Seq(ds)
    /\ \A s \in ds : \E w \in DOMAIN e : e[w] = s
    /\ e # <<>> => e[1] = 1
    /\ \A w, j \in DOMAIN e : 1 < w /\ w < j => e[j] < e[w]

\* The inductive invariant, with one task.
PciInv(t) ==
    /\ RingInv(t) /\ ~ Dangling
    /\ config \in [Slots -> Classes \cup {Absent}]
    /\ scan \in 0 .. NrSlots + 1
    /\ scan \in Slots => config[1] # Absent
    /\ InOrder(Elements, FoundBefore(scan))
    /\ pc # "off" => Scanned
    /\ SearchesFind

\* The device scanned next comes second, or first if it is 0:0.0.
LEMMA PutInOrder ==
  ASSUME NEW ds, NEW e, InOrder(e, ds), ds \subseteq Nat \ {0},
         NEW s \in Nat \ {0}, \A r \in ds : r < s,
         e = <<>> => s = 1, NEW f,
         e = <<>> => f = <<s>>, e # <<>> => f = <<e[1], s>> \o Tail(e)
  PROVE  InOrder(f, ds \cup {s})
  <1>1. CASE e = <<>>
    <2>1. ds = {} /\ f = <<s>> /\ s = 1
      BY <1>1 DEF InOrder
    <2> QED BY <2>1 DEF InOrder
  <1>2. CASE e # <<>>
    <2>1. e \in Seq(ds) /\ e[1] = 1 /\ Len(e) \in Nat \ {0} /\ 1 \in DOMAIN e
      BY <1>2 DEF InOrder
    <2>2. e[1] \in ds /\ s > 1
      BY <2>1
    <2> DEFINE new == ds \cup {s}
    <2>3. <<e[1], s>> \in Seq(new) /\ Tail(e) \in Seq(new) /\ Len(Tail(e)) = Len(e) - 1
      BY <1>2, <2>1, <2>2
    <2>4. \A w \in 1 .. Len(e) - 1 : Tail(e)[w] = e[w + 1]
      BY <1>2, <2>1
    <2>5. /\ f \in Seq(new) /\ Len(f) = Len(e) + 1 /\ f[1] = 1 /\ f[2] = s
          /\ \A w \in 3 .. Len(e) + 1 : f[w] = e[w - 1]
      <3> DEFINE a == <<e[1], s>>
                 b == Tail(e)
      <3>1. Len(a) = 2 /\ a[1] = 1 /\ a[2] = s /\ f = a \o b
        BY <1>2, <2>1
      <3>2. a \in Seq(new) /\ b \in Seq(new) /\ Len(b) = Len(e) - 1
        BY <2>3
      <3>3. \A w \in 1 .. Len(e) - 1 : b[w] = e[w + 1]
        BY <2>4
      <3> HIDE DEF a, b, new
      <3>4. f \in Seq(new) /\ Len(f) = Len(e) + 1 /\ f[1] = 1 /\ f[2] = s
        BY <2>1, <3>1, <3>2
      <3>5. ASSUME NEW w \in 3 .. Len(e) + 1 PROVE f[w] = e[w - 1]
        <4>1. w - 2 \in 1 .. Len(e) - 1 /\ (w - 2) + 1 = w - 1
          BY <2>1
        <4>2. f[w] = b[w - 2]
          BY <2>1, <3>1, <3>2, <4>1
        <4>3. b[w - 2] = e[(w - 2) + 1]
          BY <3>3, <4>1
        <4> QED BY <4>1, <4>2, <4>3
      <3> QED BY <3>4, <3>5
    <2>6. ASSUME NEW r \in new PROVE \E w \in DOMAIN f : f[w] = r
      <3>1. CASE r = s
        <4>1. 2 \in DOMAIN f
          BY <2>1, <2>5
        <4> QED BY <2>5, <3>1, <4>1
      <3>2. CASE r # s
        <4>1. PICK w \in DOMAIN e : e[w] = r
          BY <3>2 DEF InOrder
        <4>2. CASE w = 1
          <5>1. 1 \in DOMAIN f
            BY <2>1, <2>5
          <5> QED BY <2>1, <2>5, <4>1, <4>2, <5>1
        <4>3. CASE w # 1
          <5>1. w \in Nat /\ w + 1 \in 3 .. Len(e) + 1 /\ (w + 1) - 1 = w
            BY <2>1, <4>3
          <5>2. w + 1 \in DOMAIN f
            BY <2>1, <2>5, <5>1
          <5>3. f[w + 1] = e[w]
            BY <2>5, <5>1
          <5> QED BY <4>1, <5>2, <5>3
        <4> QED BY <4>2, <4>3
      <3> QED BY <3>1, <3>2
    <2>7. ASSUME NEW w \in DOMAIN f, NEW j \in DOMAIN f, 1 < w, w < j
          PROVE  f[j] < f[w]
      <3>1. /\ w \in 2 .. Len(e) + 1 /\ j \in 3 .. Len(e) + 1
            /\ j - 1 \in DOMAIN e /\ 1 < j - 1 /\ f[j] = e[j - 1]
        BY <2>1, <2>5, <2>7
      <3>2. CASE w = 2
        <4>1. e[j - 1] \in ds
          BY <2>1, <3>1
        <4> QED BY <2>5, <3>1, <3>2, <4>1
      <3>3. CASE w # 2
        <4>1. w - 1 \in DOMAIN e /\ 1 < w - 1 /\ w - 1 < j - 1 /\ f[w] = e[w - 1]
          BY <2>1, <2>5, <2>7, <3>1, <3>3
        <4> QED BY <3>1, <4>1 DEF InOrder
      <3> QED BY <3>2, <3>3
    <2> QED BY <2>5, <2>6, <2>7 DEF InOrder
  <1> QED BY <1>1, <1>2

\* A search ends at the first element that its callback stops at, if any.
LEMMA FoundFirst ==
  ASSUME NEW ds, Elements \in Seq(ds), NEW stop
  PROVE  \/ /\ \A w \in DOMAIN Elements : Elements[w] \notin stop
            /\ found_by_iter(stop) = NIL
         \/ \E w \in DOMAIN Elements :
               /\ Elements[w] \in stop
               /\ \A j \in DOMAIN Elements : j < w => Elements[j] \notin stop
               /\ found_by_iter(stop) = Elements[w]
  <1> DEFINE e == Elements
             stops == {w \in DOMAIN e : e[w] \in stop}
             first == CHOOSE w \in stops : \A j \in stops : w <= j
  <1>1. Visits(stop) = IF stops = {} THEN e ELSE SubSeq(e, 1, first)
    BY DEF Visits
  <1>2. e \in Seq(ds) /\ stops \subseteq DOMAIN e /\ stops \subseteq Nat
    OBVIOUS
  <1>3. \A w \in DOMAIN e : w \in stops <=> e[w] \in stop
    OBVIOUS
  <1>4. CASE stops = {}
    <2>1. Visits(stop) = e
      BY <1>1, <1>4
    <2>2. \A w \in DOMAIN e : e[w] \notin stop
      BY <1>4
    <2> HIDE DEF e
    <2>3. found_by_iter(stop) = NIL
      <3>1. e # <<>> => Len(e) \in DOMAIN e
        BY <1>2
      <3> QED BY <2>1, <2>2, <3>1 DEF found_by_iter
    <2> QED BY <2>2, <2>3 DEF e
  <1>5. CASE stops # {}
    <2>1. first \in stops /\ \A j \in stops : first <= j
      <3> HIDE DEF stops
      <3>1. \E w \in stops : \A j \in stops : w <= j
        BY <1>2, <1>5, LeastNat
      <3> QED BY <3>1
    <2> HIDE DEF first
    <2>2. Visits(stop) = SubSeq(e, 1, first)
      BY <1>1, <1>5
    <2>3. first \in DOMAIN e /\ e[first] \in stop
      BY <2>1
    <2>4. \A j \in DOMAIN e : j < first => e[j] \notin stop
      <3> SUFFICES ASSUME NEW j \in DOMAIN e, j < first, e[j] \in stop PROVE FALSE
        OBVIOUS
      <3>1. j \in stops
        OBVIOUS
      <3>2. j \in Nat /\ first \in Nat /\ first <= j
        BY <1>2, <2>1, <3>1
      <3> QED BY <3>2
    <2> HIDE DEF e, stops
    <2>5. found_by_iter(stop) = e[first]
      <3> DEFINE seen == SubSeq(e, 1, first)
      <3>1. first \in 1 .. Len(e)
        BY <1>2, <2>3
      <3>2. Len(seen) = first /\ seen # <<>> /\ seen[first] = e[first]
        BY <1>2, <3>1
      <3>3. Visits(stop) = seen
        BY <2>2
      <3> HIDE DEF seen
      <3> QED BY <2>3, <3>2, <3>3 DEF found_by_iter
    <2> QED BY <2>3, <2>4, <2>5 DEF e
  <1> QED BY <1>4, <1>5

\* Of the devices m, the first in the list is 0:0.0 or else the last scanned.
LEMMA FirstIsLast ==
  ASSUME NEW ds, ds \subseteq Nat \ {0}, NEW e, InOrder(e, ds), NEW m, m \subseteq ds,
         NEW w \in DOMAIN e, e[w] \in m, \A j \in DOMAIN e : j < w => e[j] \notin m
  PROVE  IF 1 \in m THEN e[w] = 1 ELSE \A r \in m : e[w] >= r
  <1>1. e \in Seq(ds) /\ e # <<>> /\ 1 \in DOMAIN e /\ e[1] = 1 /\ w \in Nat /\ 1 <= w
    <2>1. e \in Seq(ds)
      BY DEF InOrder
    <2> QED BY <2>1 DEF InOrder
  <1>2. \A r \in m : r \in Nat
    OBVIOUS
  <1>3. CASE 1 \in m
    BY <1>1, <1>3
  <1>4. CASE 1 \notin m
    <2>1. w # 1
      BY <1>1, <1>4
    <2>2. ASSUME NEW r \in m PROVE e[w] >= r
      <3>1. PICK j \in DOMAIN e : e[j] = r
        BY DEF InOrder
      <3>2. j \in Nat /\ w <= j
        BY <1>1, <2>2, <3>1
      <3>3. CASE w = j
        <4>1. e[w] = r /\ r \in Nat
          BY <1>2, <2>2, <3>1, <3>3
        <4> QED BY <4>1
      <3>4. CASE w # j
        <4>1. 1 < w /\ w < j
          BY <1>1, <2>1, <3>2, <3>4
        <4>2. e[j] < e[w]
          BY <4>1, <3>1 DEF InOrder
        <4>3. r \in Nat /\ e[w] \in Nat
          BY <1>2, <2>2
        <4> QED BY <3>1, <4>2, <4>3
      <3> QED BY <3>3, <3>4
    <2> QED BY <1>4, <2>2
  <1> QED BY <1>3, <1>4

\* After the scan the list has all devices.
LEMMA AllScanned ==
  ASSUME NEW t, PciInv(t), Scanned
  PROVE  InOrder(Elements, Found) /\ Found \subseteq Nat \ {0}
  <1>1. FoundBefore(scan) = Found
    BY PciAssumption DEF Scanned, FoundBefore, Found, Slots
  <1> QED BY <1>1 DEF PciInv, Found, Slots

\* A search by bus, device and function.
LEMMA IdIsFound ==
  ASSUME NEW t, PciInv(t), Scanned, NEW s \in Slots, get_device_by_id(s)
  PROVE  SearchesFind'
  <1>1. InOrder(Elements, Found) /\ Elements \in Seq(Found)
    BY AllScanned DEF InOrder
  <1>2. found_by_iter({s}) = IF s \in Found THEN s ELSE NIL
    <2>1. CASE \A w \in DOMAIN Elements : Elements[w] \notin {s}
      <3>1. s \notin Found
        BY <1>1, <2>1 DEF InOrder
      <3>2. found_by_iter({s}) = NIL
        BY <1>1, <2>1, FoundFirst
      <3> QED BY <3>1, <3>2
    <2>2. CASE ~ \A w \in DOMAIN Elements : Elements[w] \notin {s}
      <3>1. PICK w \in DOMAIN Elements :
              Elements[w] \in {s} /\ found_by_iter({s}) = Elements[w]
        BY <1>1, <2>2, FoundFirst
      <3>2. Elements[w] \in Found
        BY <1>1, <3>1
      <3> QED BY <3>1, <3>2
    <2> QED BY <2>1, <2>2
  <1>3. Found' = Found
    BY DEF get_device_by_id, Found
  <1>4. reply'.search = "id" /\ reply'.key = s /\ reply'.found = found_by_iter({s})
    BY DEF get_device_by_id
  <1> QED BY <1>2, <1>3, <1>4 DEF SearchesFind, FoundById, FoundByClass

\* A search by class.
LEMMA ClassIsFound ==
  ASSUME NEW t, PciInv(t), Scanned, NEW c \in Classes, NEW bufsz \in Nat,
         get_device_by_class(c, bufsz)
  PROVE  SearchesFind'
  <1> DEFINE stop == {s \in Slots : config[s] = c}
             matches == {s \in Found : config[s] = c}
             dev == found_by_iter(stop)
  <1>1. InOrder(Elements, Found) /\ Elements \in Seq(Found) /\ Found \subseteq Nat \ {0}
    BY AllScanned DEF InOrder
  <1>2. \A s \in Found : s \in stop <=> s \in matches
    BY DEF Found
  <1>3. \A w \in DOMAIN Elements : Elements[w] \in Found
    BY <1>1
  <1>4. /\ index_swap' = IF dev # NIL THEN 1 ELSE 0
        /\ dev # NIL => buf' = dev
        /\ reply'.search = "class" /\ reply'.key = c
        /\ reply'.found = buf' /\ reply'.count = index_swap' /\ config' = config
    BY DEF get_device_by_class
  <1>5. /\ matches = {} => dev = NIL
        /\ matches # {} => dev # NIL /\ dev = IF 1 \in matches THEN 1 ELSE Max(matches)
    <2>1. CASE \A w \in DOMAIN Elements : Elements[w] \notin stop
      <3>1. dev = NIL
        <4> HIDE DEF stop
        <4> QED BY <1>1, <2>1, FoundFirst
      <3>2. ASSUME NEW s \in matches PROVE FALSE
        <4>1. s \in Found /\ s \in stop
          BY <1>2
        <4>2. PICK w \in DOMAIN Elements : Elements[w] = s
          BY <1>1, <4>1 DEF InOrder
        <4> QED BY <2>1, <4>1, <4>2
      <3> QED BY <3>1, <3>2
    <2>2. CASE ~ \A w \in DOMAIN Elements : Elements[w] \notin stop
      <3>1. PICK w \in DOMAIN Elements :
              /\ Elements[w] \in stop
              /\ \A j \in DOMAIN Elements : j < w => Elements[j] \notin stop
              /\ dev = Elements[w]
        <4> HIDE DEF stop
        <4> QED BY <1>1, <2>2, FoundFirst
      <3>2. /\ Elements[w] \in matches
            /\ \A j \in DOMAIN Elements : j < w => Elements[j] \notin matches
        BY <1>2, <1>3, <3>1
      <3>3. matches \subseteq Found
        OBVIOUS
      <3> HIDE DEF matches, stop, dev
      <3>4. dev = IF 1 \in matches THEN 1 ELSE Max(matches)
        <4>1. Elements[w] = IF 1 \in matches THEN 1 ELSE Max(matches)
          <5> DEFINE e == Elements
                     ds == Found
          <5>1. InOrder(e, ds)
            BY <1>1
          <5>2. ds \subseteq Nat \ {0} /\ matches \subseteq ds /\ w \in DOMAIN e
            BY <1>1, <3>3
          <5>3. e[w] \in matches
            BY <3>2
          <5>4. \A j \in DOMAIN e : j < w => e[j] \notin matches
            BY <3>2
          <5> HIDE DEF e, ds
          <5>5. IF 1 \in matches THEN e[w] = 1 ELSE \A r \in matches : e[w] >= r
            BY <5>1, <5>2, <5>3, <5>4, FirstIsLast
          <5>6. CASE 1 \in matches
            BY <5>5, <5>6 DEF e
          <5>7. CASE 1 \notin matches
            <6>1. e[w] \in matches /\ (\A r \in matches : r \in Nat) /\ \A r \in matches : e[w] >= r
              BY <5>2, <5>3, <5>5, <5>7
            <6>2. \A x \in matches : (\A r \in matches : x >= r) => x = e[w]
              BY <6>1
            <6>3. e[w] = Max(matches)
              BY <6>1, <6>2 DEF Max
            <6> QED BY <5>7, <6>3 DEF e
          <5> QED BY <5>6, <5>7
        <4> QED BY <3>1, <4>1
      <3>5. dev # NIL
        BY <1>1, <1>3, <3>1 DEF NIL
      <3> QED BY <3>2, <3>4, <3>5
    <2> QED BY <2>1, <2>2
  <1>6. Found' = Found /\ {s \in Found' : config'[s] = reply'.key} = matches
    BY <1>4 DEF Found
  <1>7. FoundById'
    BY <1>4 DEF FoundById
  <1>8. FoundByClass'
    <2> HIDE DEF matches, dev
    <2> QED BY <1>4, <1>5, <1>6 DEF FoundByClass
  <1> QED BY <1>7, <1>8 DEF SearchesFind

\* At the beginning there is nothing.
LEMMA PciBegins ==
  ASSUME NEW t, Tasks = {t}, AtaInit
  PROVE  PciInv(t)
  <1>1. ListInit /\ PciInit /\ pc = "off" /\ scan = 0 /\ reply = NoReply
    BY DEF AtaInit, PciInit
  <1>2. head = NIL /\ live = {}
    BY <1>1 DEF ListInit
  <1>3. RingInv(t) /\ ~ Dangling
    BY <1>1, <1>2, ListBegins, ListAssumption DEF RingInv, Dangling, NIL
  <1>4. Elements = <<>>
    BY <1>2, NoElements
  <1>5. FoundBefore(scan) = {}
    BY <1>1 DEF FoundBefore, Found, Slots
  <1>6. InOrder(Elements, FoundBefore(scan))
    BY <1>4, <1>5 DEF InOrder
  <1>7. SearchesFind
    BY <1>1 DEF SearchesFind, FoundById, FoundByClass, NoReply
  <1>8. config \in [Slots -> Classes \cup {Absent}]
    BY <1>1 DEF PciInit
  <1> QED BY <1>1, <1>3, <1>6, <1>7, <1>8, PciAssumption DEF PciInv, Slots

\* A step that does not touch the list.
LEMMA ListUnchanged ==
  ASSUME NEW t, RingInv(t), UNCHANGED listVars
  PROVE  RingInv(t)' /\ Dangling' = Dangling /\ Elements' = Elements
  <1>1. UNCHANGED <<node, live, head, clearing, visited, fault>>
    BY DEF listVars
  <1> QED BY <1>1 DEF RingInv, ListInv, Dangling, Elements, At, Ends

\* The first probe: without a device 0:0.0 nothing is ever found.
LEMMA ProbeKeeps ==
  ASSUME NEW t, PciInv(t), pci_probe, UNCHANGED ataVars
  PROVE  PciInv(t)'
  <1>1. UNCHANGED <<listVars, config, swap1, index_swap, buf, reply, pc>>
    BY DEF pci_probe, ataVars
  <1>2. RingInv(t)' /\ ~ Dangling' /\ Elements' = Elements
    BY <1>1, ListUnchanged DEF PciInv
  <1>3. /\ scan = 0 /\ scan' = IF check_device(1) THEN 1 ELSE NrSlots + 1
        /\ config' = config /\ Found' = Found
    BY <1>1 DEF pci_probe, Found
  <1>4. FoundBefore(scan)' = FoundBefore(scan)
    <2>1. FoundBefore(scan) = {}
      BY <1>3 DEF FoundBefore, Found, Slots
    <2>2. CASE check_device(1)
      BY <1>3, <2>1, <2>2 DEF FoundBefore, Found, Slots
    <2>3. CASE ~ check_device(1)
      <3>1. Found = {}
        BY <2>3 DEF Found, check_device
      <3> QED BY <1>3, <2>1, <3>1 DEF FoundBefore
    <2> QED BY <2>2, <2>3
  <1>5. InOrder(Elements, FoundBefore(scan))'
    BY <1>2, <1>4 DEF PciInv, InOrder
  <1>6. SearchesFind'
    BY <1>1, <1>3 DEF PciInv, SearchesFind, FoundById, FoundByClass
  <1>7. scan' \in 0 .. NrSlots + 1 /\ (scan' \in Slots => config'[1] # Absent)
    BY <1>3, PciAssumption DEF check_device, Slots
  <1>8. pc' # "off" => Scanned'
    BY <1>1, <1>3, PciAssumption DEF PciInv, Scanned
  <1>9. config' \in [Slots -> Classes \cup {Absent}]
    BY <1>3 DEF PciInv
  <1> QED BY <1>2, <1>5, <1>6, <1>7, <1>8, <1>9 DEF PciInv

\* One round of the scan.
LEMMA ScanKeeps ==
  ASSUME NEW t, Tasks = {t}, PciInv(t), pci_init, UNCHANGED ataVars
  PROVE  PciInv(t)'
  <1>1. /\ scan \in Slots /\ scan' = scan + 1 /\ config[1] # Absent
        /\ UNCHANGED <<config, swap1, index_swap, buf, reply, pc>>
    BY DEF pci_init, ataVars, PciInv
  <1>2. Found' = Found
    BY <1>1 DEF Found
  <1>3. FoundBefore(scan)' = IF check_device(scan) THEN FoundBefore(scan) \cup {scan}
                                                 ELSE FoundBefore(scan)
    <2>1. \A r \in Found : r < scan + 1 <=> (r < scan \/ r = scan)
      BY <1>1 DEF Found, Slots
    <2>2. scan \in Found <=> check_device(scan)
      BY <1>1 DEF Found, check_device
    <2> QED BY <1>1, <1>2, <2>1, <2>2 DEF FoundBefore
  <1>4. RingInv(t)' /\ ~ Dangling' /\ InOrder(Elements, FoundBefore(scan))'
    <2>1. CASE check_device(scan)
      <3>1. list_insert(t, scan)
        BY <2>1 DEF pci_init, classfy_device
      <3>2. InOrder(Elements, FoundBefore(scan)) /\ FoundBefore(scan) \subseteq Slots
        BY DEF PciInv, FoundBefore, Found
      <3>3. Elements \in Seq(Slots)
        BY <3>2 DEF InOrder
      <3>4. /\ RingInv(t)' /\ ~ Dangling'
            /\ Elements = <<>> => Elements' = <<scan>>
            /\ Elements # <<>> => Elements' = <<Elements[1], scan>> \o Tail(Elements)
        BY <1>1, <3>1, <3>3, InsertSecond, PciAssumption DEF PciInv
      <3>5. Elements = <<>> => scan = 1
        <4> SUFFICES ASSUME Elements = <<>>, scan # 1 PROVE FALSE
          OBVIOUS
        <4>1. 1 \in FoundBefore(scan)
          BY <1>1, PciAssumption DEF FoundBefore, Found, Slots
        <4> QED BY <3>2, <4>1 DEF InOrder
      <3>6. /\ FoundBefore(scan) \subseteq Nat \ {0} /\ scan \in Nat \ {0}
            /\ \A r \in FoundBefore(scan) : r < scan
        BY <1>1, <3>2 DEF Slots, FoundBefore
      <3>7. InOrder(Elements', FoundBefore(scan) \cup {scan})
        <4> DEFINE ds == FoundBefore(scan)
                   e == Elements
                   f == Elements'
        <4>1. InOrder(e, ds) /\ ds \subseteq Nat \ {0} /\ \A r \in ds : r < scan
          BY <3>2, <3>6
        <4>2. /\ e = <<>> => scan = 1 /\ f = <<scan>>
              /\ e # <<>> => f = <<e[1], scan>> \o Tail(e)
          BY <3>4, <3>5
        <4> HIDE DEF ds, e, f
        <4>3. InOrder(f, ds \cup {scan})
          BY <3>6, <4>1, <4>2, PutInOrder
        <4> QED BY <4>3 DEF f, ds
      <3> QED BY <1>3, <2>1, <3>4, <3>7 DEF InOrder
    <2>2. CASE ~ check_device(scan)
      <3>1. UNCHANGED listVars
        BY <2>2 DEF pci_init
      <3>2. RingInv(t)' /\ ~ Dangling' /\ Elements' = Elements
        BY <3>1, ListUnchanged DEF PciInv
      <3> QED BY <1>3, <2>2, <3>2 DEF PciInv, InOrder
    <2> QED BY <2>1, <2>2
  <1>5. SearchesFind'
    BY <1>1, <1>2 DEF PciInv, SearchesFind, FoundById, FoundByClass
  <1>6. scan' \in 0 .. NrSlots + 1 /\ config'[1] # Absent
    BY <1>1, PciAssumption DEF Slots
  <1>7. pc' = "off"
    <2>1. ~ Scanned
      BY <1>1, PciAssumption DEF Scanned, Slots
    <2> QED BY <1>1, <2>1 DEF PciInv
  <1>8. config' \in [Slots -> Classes \cup {Absent}]
    BY <1>1 DEF PciInv
  <1> QED BY <1>4, <1>5, <1>6, <1>7, <1>8 DEF PciInv

\* A step that leaves the list and the scan alone, once the list is complete.
LEMMA SearchKeeps ==
  ASSUME NEW t, PciInv(t), Scanned, SearchesFind', UNCHANGED <<listVars, config, scan>>
  PROVE  PciInv(t)'
  <1>1. RingInv(t)' /\ ~ Dangling' /\ Elements' = Elements
    BY ListUnchanged DEF PciInv
  <1>2. FoundBefore(scan)' = FoundBefore(scan)
    BY DEF FoundBefore, Found
  <1>3. InOrder(Elements, FoundBefore(scan))'
    BY <1>1, <1>2 DEF PciInv, InOrder
  <1> QED BY <1>1, <1>3 DEF PciInv, Scanned

\* Every step keeps the invariant.
LEMMA PciStep ==
  ASSUME NEW t, Tasks = {t}, PciInv(t), [AtaNext]_allVars
  PROVE  PciInv(t)'
  <1>1. ASSUME UNCHANGED <<listVars, config, scan, reply, pc>> PROVE PciInv(t)'
    <2>1. RingInv(t)' /\ ~ Dangling' /\ Elements' = Elements
      BY <1>1, ListUnchanged DEF PciInv
    <2>2. FoundBefore(scan)' = FoundBefore(scan) /\ Found' = Found
      BY <1>1 DEF FoundBefore, Found
    <2>3. InOrder(Elements, FoundBefore(scan))'
      BY <2>1, <2>2 DEF PciInv, InOrder
    <2>4. SearchesFind'
      BY <1>1, <2>2 DEF PciInv, SearchesFind, FoundById, FoundByClass
    <2> QED BY <1>1, <2>1, <2>3, <2>4 DEF PciInv, Scanned
  <1>2. ASSUME Scanned, UNCHANGED <<listVars, config, scan, reply>> PROVE PciInv(t)'
    <2>1. SearchesFind'
      BY <1>2 DEF PciInv, SearchesFind, FoundById, FoundByClass, Found
    <2> QED BY <1>2, <2>1, SearchKeeps
  <1>3. CASE UNCHANGED allVars
    BY <1>1, <1>3 DEF allVars, pciVars, ataVars
  <1>4. CASE PciNext /\ UNCHANGED ataVars
    <2>1. CASE pci_probe
      BY <1>4, <2>1, ProbeKeeps
    <2>2. CASE pci_init
      BY <1>4, <2>2, ScanKeeps
    <2>3. CASE search
      <3>1. Scanned /\ UNCHANGED listVars
        BY <2>3 DEF search
      <3>2. ASSUME NEW s \in Slots, get_device_by_id(s) PROVE PciInv(t)'
        <4>1. SearchesFind' /\ UNCHANGED <<config, scan>>
          BY <3>1, <3>2, IdIsFound DEF get_device_by_id
        <4> QED BY <3>1, <4>1, SearchKeeps
      <3>3. ASSUME NEW c \in Classes, NEW bufsz \in BufSizes, get_device_by_class(c, bufsz)
            PROVE  PciInv(t)'
        <4>1. bufsz \in Nat
          BY PciAssumption
        <4>2. SearchesFind' /\ UNCHANGED <<config, scan>>
          BY <3>1, <3>3, <4>1, ClassIsFound DEF get_device_by_class
        <4> QED BY <3>1, <4>2, SearchKeeps
      <3> QED BY <2>3, <3>2, <3>3 DEF search
    <2> QED BY <1>4, <2>1, <2>2, <2>3 DEF PciNext
  <1>5. CASE ata_init
    BY <1>2, <1>5 DEF ata_init, pciVars
  <1>6. CASE select
    <2>1. Scanned
      BY <1>6 DEF select, PciInv
    <2> QED BY <1>2, <1>6, <2>1 DEF select, pciVars
  <1>7. CASE identify_ata
    <2>1. Scanned
      BY <1>7 DEF identify_ata, poll, PciInv
    <2> QED BY <1>2, <1>7, <2>1 DEF identify_ata, pciVars
  <1>8. CASE find_controller
    <2>1. Scanned /\ UNCHANGED listVars /\ get_device_by_class(IDE, 2)
      BY <1>8 DEF find_controller, PciInv
    <2>2. SearchesFind'
      BY <2>1, ClassIsFound, AtaAssumption
    <2>3. UNCHANGED <<config, scan>>
      BY <2>1 DEF get_device_by_class
    <2> QED BY <2>1, <2>2, <2>3, SearchKeeps
  <1>9. CASE settle
    BY <1>1, <1>9 DEF settle, pciVars
  <1> QED BY <1>3, <1>4, <1>5, <1>6, <1>7, <1>8, <1>9 DEF AtaNext, ataStep

\* get_device_by_id and get_device_by_class find what pci_init found and
\* nothing else, for every bus, in every order of calls, from any state the
\* static variables were left in: no device gets lost between the scan and
\* the list, and the first of a class is 0:0.0 or the last that was scanned.
THEOREM PciSearchesFind ==
  ASSUME NEW t, Tasks = {t}
  PROVE  AtaSpec => []SearchesFind
  <1>1. AtaInit => PciInv(t)
    BY PciBegins
  <1>2. PciInv(t) /\ [AtaNext]_allVars => PciInv(t)'
    BY PciStep
  <1>3. PciInv(t) => SearchesFind
    BY DEF PciInv
  <1> QED BY <1>1, <1>2, <1>3, PTL DEF AtaSpec

-----------------------------------------------------------------------------
(* ATA: what the polling of a drive has seen so far                        *)

\* What the status register of a drive may hold after the command.
StatusOf(k) ==
    CASE k = "absent" -> {{}}
      [] k = "floating" -> {{"BSY", "REDY", "ERR"}}
      [] k = "disk" -> {{"BSY"}, {"REDY"}}
      [] k = "packet" -> {{"BSY"}, {"REDY", "ERR"}}

\* The inductive invariant: past the check for ERR there is a drive, which has
\* not been shown to have failed.
AtaInv ==
    /\ drive \in Nat
    /\ kind \in [Drives -> Kinds] /\ valid \in [Drives -> BOOLEAN]
    /\ pc \in {"off", "select", "present", "err", "bsy", "redy", "done"}
    /\ pc \in {"present", "err", "bsy", "redy"} =>
          drive \in Drives /\ status \in StatusOf(kind[drive])
    /\ pc = "err" => kind[drive] # "absent"
    /\ pc \in {"bsy", "redy"} => kind[drive] \in {"disk", "packet"}
    /\ DrivesIdentified

\* The verdict on the drive at hand is right.
LEMMA VerdictIsRight ==
  ASSUME AtaInv, drive \in Drives, NEW ok \in BOOLEAN, verdict(ok), kind' = kind,
         kind[drive] = "disk" => ok, ok => kind[drive] \in {"disk", "packet"}
  PROVE  AtaInv'
  <1>1. /\ valid' = [valid EXCEPT ![drive] = ok] /\ drive' = drive + 1 /\ pc' = "select"
    BY DEF verdict
  <1>2. valid' \in [Drives -> BOOLEAN] /\ drive' \in Nat
    BY <1>1 DEF AtaInv
  <1>3. ASSUME NEW d \in Drives, d < drive'
        PROVE  /\ kind[d] = "disk" => valid'[d]
               /\ valid'[d] => kind[d] \in {"disk", "packet"}
    <2>1. d < drive \/ d = drive
      BY <1>1, <1>3, AtaAssumption DEF Drives
    <2> QED BY <1>1, <2>1 DEF AtaInv, DrivesIdentified
  <1> QED BY <1>1, <1>2, <1>3 DEF AtaInv, DrivesIdentified

\* Every step keeps the invariant.
LEMMA AtaStepKeeps ==
  ASSUME AtaInv, [AtaNext]_allVars
  PROVE  AtaInv'
  <1>1. CASE UNCHANGED ataVars
    BY <1>1 DEF ataVars, AtaInv, DrivesIdentified
  <1>2. CASE ata_init
    BY <1>2 DEF ata_init, AtaInv, DrivesIdentified
  <1>3. CASE select
    <2>1. PICK k \in Kinds :
            /\ kind' = [kind EXCEPT ![drive] = k]
            /\ status' = CASE k = "absent" -> {}
                           [] k = "floating" -> {"BSY", "REDY", "ERR"}
                           [] OTHER -> {"BSY"}
      BY <1>3 DEF select
    <2>2. drive \in Drives /\ pc' = "present" /\ drive' = drive /\ valid' = valid
      BY <1>3 DEF select
    <2>3. kind' \in [Drives -> Kinds] /\ kind'[drive] = k
      BY <2>1, <2>2 DEF AtaInv
    <2>4. status' \in StatusOf(k)
      BY <2>1 DEF StatusOf, Kinds
    <2>5. \A d \in Drives : d < drive => kind'[d] = kind[d]
      BY <2>1, <2>2, AtaAssumption DEF AtaInv, Drives
    <2>6. DrivesIdentified'
      BY <2>2, <2>5 DEF AtaInv, DrivesIdentified
    <2> QED BY <2>2, <2>3, <2>4, <2>6 DEF AtaInv
  <1>4. CASE identify_ata
    <2>1. poll /\ kind' = kind /\ status' = status
      BY <1>4 DEF identify_ata
    <2>2. drive \in Drives /\ status \in StatusOf(kind[drive]) /\ kind[drive] \in Kinds
      BY <2>1 DEF poll, AtaInv
    <2>3. /\ kind[drive] = "absent" => status = {}
          /\ kind[drive] = "floating" => status = {"BSY", "REDY", "ERR"}
          /\ kind[drive] = "disk" => status \in {{"BSY"}, {"REDY"}}
          /\ kind[drive] = "packet" => status \in {{"BSY"}, {"REDY", "ERR"}}
      BY <2>2 DEF StatusOf
    <2>4. ASSUME NEW ok \in BOOLEAN, verdict(ok),
                 kind[drive] = "disk" => ok, ok => kind[drive] \in {"disk", "packet"}
          PROVE  AtaInv'
      BY <2>1, <2>2, <2>4, VerdictIsRight
    <2>5. CASE pc = "present"
      <3>1. CASE status = {}
        <4>1. verdict(FALSE) /\ kind[drive] # "disk"
          BY <2>1, <2>3, <2>5, <3>1 DEF poll
        <4> QED BY <2>4, <4>1
      <3>2. CASE status # {}
        <4>1. go("err") /\ kind[drive] # "absent"
          BY <2>1, <2>3, <2>5, <3>2 DEF poll
        <4> QED BY <2>1, <2>2, <4>1 DEF AtaInv, go, DrivesIdentified
      <3> QED BY <3>1, <3>2
    <2>6. CASE pc = "err"
      <3>1. CASE "ERR" \in status
        <4>1. verdict(FALSE)
          BY <2>1, <2>6, <3>1 DEF poll
        <4>2. "ERR" \notin {"BSY"} /\ "ERR" \notin {"REDY"}
          OBVIOUS
        <4>3. kind[drive] # "disk"
          BY <2>3, <3>1, <4>2
        <4> QED BY <2>4, <4>1, <4>3
      <3>2. CASE "ERR" \notin status
        <4>1. go("bsy")
          BY <2>1, <2>6, <3>2 DEF poll
        <4>2. kind[drive] \in {"disk", "packet"}
          BY <2>2, <2>3, <2>6, <3>2 DEF AtaInv, Kinds
        <4> QED BY <2>1, <2>2, <4>1, <4>2 DEF AtaInv, go, DrivesIdentified
      <3> QED BY <3>1, <3>2
    <2>7. CASE pc = "bsy"
      <3>1. (go("redy") \/ go("err")) /\ kind[drive] \in {"disk", "packet"}
        BY <2>1, <2>7 DEF poll, AtaInv
      <3> QED BY <2>1, <2>2, <3>1 DEF AtaInv, go, DrivesIdentified
    <2>8. CASE pc = "redy"
      <3>1. kind[drive] \in {"disk", "packet"}
        BY <2>8 DEF AtaInv
      <3>2. CASE "REDY" \in status
        <4>1. verdict(TRUE)
          BY <2>1, <2>8, <3>2 DEF poll
        <4> QED BY <2>4, <3>1, <4>1
      <3>3. CASE "REDY" \notin status
        <4>1. go("err")
          BY <2>1, <2>8, <3>3 DEF poll
        <4> QED BY <2>1, <2>2, <3>1, <4>1 DEF AtaInv, go, DrivesIdentified
      <3> QED BY <3>2, <3>3
    <2> QED BY <2>1, <2>5, <2>6, <2>7, <2>8 DEF poll
  <1>5. CASE settle
    <2>1. /\ UNCHANGED <<pc, drive, kind, valid>> /\ status = {"BSY"}
          /\ status' = IF kind[drive] = "packet" THEN {"REDY", "ERR"} ELSE {"REDY"}
      BY <1>5 DEF settle
    <2>2. pc \in {"present", "err", "bsy", "redy"} => status' \in StatusOf(kind[drive])
      <3> SUFFICES ASSUME drive \in Drives, status \in StatusOf(kind[drive]),
                          kind[drive] \in Kinds
                   PROVE  status' \in StatusOf(kind[drive])
        BY DEF AtaInv
      <3>1. "BSY" \in status /\ "ERR" \notin status
        BY <2>1
      <3>2. kind[drive] \in {"disk", "packet"}
        BY <3>1 DEF StatusOf, Kinds
      <3> QED BY <2>1, <3>2 DEF StatusOf
    <2> QED BY <2>1, <2>2 DEF AtaInv, DrivesIdentified
  <1>6. CASE find_controller
    BY <1>6 DEF find_controller, AtaInv, DrivesIdentified
  <1> QED BY <1>1, <1>2, <1>3, <1>4, <1>5, <1>6 DEF AtaNext, ataStep, allVars

\* identify_ata takes every disk for a disk, and nothing but a disk or a packet
\* device, for any number of drives, whenever they change their status in the
\* reads of a round.
THEOREM AtaDrivesIdentified == AtaSpec => []DrivesIdentified
  <1>1. AtaInit => AtaInv
    BY AtaAssumption DEF AtaInit, AtaInv, DrivesIdentified, Drives, Kinds
  <1>2. AtaInv /\ [AtaNext]_allVars => AtaInv'
    BY AtaStepKeeps
  <1>3. AtaInv => DrivesIdentified
    BY DEF AtaInv
  <1> QED BY <1>1, <1>2, <1>3, PTL DEF AtaSpec

-----------------------------------------------------------------------------
(* acpi_init: the bytes of the MADT                                        *)

\* f[k] is the first k sequences of ss, one after the other.
JoinedTo(f, ss, C) ==
    /\ f \in [0 .. Len(ss) -> Seq(C)] /\ f[0] = <<>>
    /\ \A k \in 1 .. Len(ss) : f[k] = f[k - 1] \o ss[k]

LEMMA JoinsRun ==
  ASSUME NEW C, NEW ss \in Seq(Seq(C))
  PROVE  \E f : JoinedTo(f, ss, C)
  <1> DEFINE n == Len(ss)
             M == Seq(C)
             round == [r \in Nat \X M |-> IF r[1] \in 1 .. n THEN r[2] \o ss[r[1]] ELSE r[2]]
  <1>1. n \in Nat /\ \A k \in 1 .. n : ss[k] \in M
    OBVIOUS
  <1>2. \A a, b \in M : a \o b \in M
    BY ConcatProperties
  <1>3. <<>> \in M
    OBVIOUS
  <1> HIDE DEF M, n
  <1>4. round \in [Nat \X M -> M]
    BY <1>1, <1>2
  <1>5. PICK f \in [0 .. n -> M] : Iterates(f, <<>>, round, n)
    <2> HIDE DEF round
    <2> QED BY <1>1, <1>3, <1>4, LoopRuns
  <1>6. f[0] = <<>>
    BY <1>5 DEF Iterates
  <1>7. ASSUME NEW k \in 1 .. n
        PROVE  f[k] = f[k - 1] \o ss[k]
    <2>1. f[k] = round[<<k, f[k - 1]>>]
      BY <1>5 DEF Iterates
    <2>2. k \in Nat /\ f[k - 1] \in M
      BY <1>1
    <2> QED BY <2>1, <2>2
  <1> QED BY <1>5, <1>6, <1>7 DEF JoinedTo, M, n

\* FlattenSeq of the first sequences is what comes from putting them one
\* behind the other.
LEMMA FlattenIs ==
  ASSUME NEW C, NEW ss \in Seq(Seq(C)), NEW f, JoinedTo(f, ss, C), NEW j \in 0 .. Len(ss)
  PROVE  FlattenSeq(SubSeq(ss, 1, j)) = f[j]
  <1> DEFINE n == Len(ss)
             M == Seq(C)
             sub == SubSeq(ss, 1, j)
             body(g, k) == IF k = 1 THEN sub[k] ELSE g[k - 1] \o sub[k]
             S == 1 .. Len(sub)
             flat == CHOOSE g : g = [k \in S |-> body(g, k)]
  <1>1. n \in Nat /\ j \in Nat /\ j <= n /\ \A k \in 1 .. n : ss[k] \in M
    OBVIOUS
  <1>2. /\ f \in [0 .. n -> M] /\ f[0] = <<>>
        /\ \A k \in 1 .. n : f[k] = f[k - 1] \o ss[k]
    BY DEF JoinedTo
  <1>3. \A b \in M : <<>> \o b = b
    BY ConcatEmptySeq
  <1>4. /\ Len(sub) = j /\ \A k \in 1 .. j : sub[k] = ss[k]
    <2>1. 1 \in 1 .. n + 1 /\ j \in 0 .. n
      BY <1>1
    <2> HIDE DEF M
    <2> QED BY <2>1, <1>1 DEF n
  <1>5. FlattenSeq(sub) = IF Len(sub) = 0 THEN sub ELSE flat[Len(sub)]
    BY DEF FlattenSeq
  <1> SUFFICES FlattenSeq(sub) = f[j]
    OBVIOUS
  <1> HIDE DEF M, n
  <1>6. CASE j = 0
    <2>1. sub = <<>>
      BY <1>6
    <2> HIDE DEF sub, flat, S
    <2> QED BY <1>2, <1>4, <1>5, <1>6, <2>1
  <1>7. CASE j # 0
    <2>1. S = 1 .. j
      BY <1>4
    <2> HIDE DEF sub, S
    <2>2. \A k \in S : f[k] = body(f, k)
      <3> SUFFICES ASSUME NEW k \in S PROVE f[k] = body(f, k)
        OBVIOUS
      <3>1. k \in 1 .. n /\ k \in 1 .. j /\ sub[k] = ss[k] /\ ss[k] \in M
        BY <1>1, <1>4, <2>1
      <3>2. f[k] = f[k - 1] \o ss[k]
        BY <1>2, <3>1
      <3>3. CASE k = 1
        <4>1. f[k - 1] = <<>>
          BY <1>2, <3>3
        <4>2. f[k] = ss[k]
          BY <1>3, <3>1, <3>2, <4>1
        <4> QED BY <3>1, <3>3, <4>2
      <3>4. CASE k # 1
        BY <3>1, <3>2, <3>4
      <3> QED BY <3>3, <3>4
    <2>3. flat = [k \in S |-> body(flat, k)]
      <3> DEFINE h == [k \in S |-> f[k]]
      <3>1. \A k \in S : h[k] = body(h, k)
        <4> SUFFICES ASSUME NEW k \in S PROVE h[k] = body(h, k)
          OBVIOUS
        <4>1. k # 1 => k - 1 \in S
          BY <2>1, <1>1
        <4>2. h[k] = f[k] /\ (k # 1 => h[k - 1] = f[k - 1])
          BY <4>1
        <4> HIDE DEF h
        <4> QED BY <2>2, <4>2
      <3> HIDE DEF body
      <3>2. h = [k \in S |-> body(h, k)]
        BY <3>1
      <3> HIDE DEF h
      <3> QED BY <3>2
    <2> HIDE DEF flat
    <2>4. \A k \in S : flat[k] = body(flat, k)
      <3> HIDE DEF body
      <3> QED BY <2>3
    <2> DEFINE T == {k \in 0 .. j - 1 : flat[k + 1] = f[k + 1]}
    <2>5. \A k \in 0 .. j - 1 : k \in T
      <3>1. j - 1 \in Nat
        BY <1>1, <1>7
      <3>2. 0 \in T
        <4>1. 1 \in S /\ 0 \in 0 .. j - 1 /\ 0 + 1 = 1
          BY <2>1, <3>1
        <4>2. flat[1] = sub[1] /\ f[1] = sub[1]
          BY <2>2, <2>4, <4>1
        <4> QED BY <4>1, <4>2
      <3>3. ASSUME NEW k \in 0 .. (j - 1) - 1, k \in T
            PROVE  k + 1 \in T
        <4>1. /\ k + 1 \in 0 .. j - 1 /\ (k + 1) + 1 \in S /\ (k + 1) + 1 # 1
              /\ ((k + 1) + 1) - 1 = k + 1
          BY <2>1, <3>1
        <4>2. flat[k + 1] = f[k + 1]
          BY <3>3
        <4>3. /\ flat[(k + 1) + 1] = flat[k + 1] \o sub[(k + 1) + 1]
              /\ f[(k + 1) + 1] = f[k + 1] \o sub[(k + 1) + 1]
          BY <2>2, <2>4, <4>1
        <4> QED BY <4>1, <4>2, <4>3
      <3> HIDE DEF T
      <3> QED BY <3>1, <3>2, <3>3, UpTo
    <2>6. flat[j] = f[j]
      <3>1. j - 1 \in 0 .. j - 1 /\ (j - 1) + 1 = j
        BY <1>1, <1>7
      <3> QED BY <2>5, <3>1
    <2> QED BY <1>4, <1>5, <1>7, <2>6
  <1> QED BY <1>6, <1>7

\* In the sequences one after the other, the k-th begins where the first
\* k - 1 end, and the next one behind it.
LEMMA FlattenHolds ==
  ASSUME NEW C, NEW ss \in Seq(Seq(C)), NEW k \in 1 .. Len(ss)
  PROVE  LET from == Len(FlattenSeq(SubSeq(ss, 1, k - 1)))
         IN  /\ from \in Nat
             /\ Len(FlattenSeq(SubSeq(ss, 1, (k + 1) - 1))) = from + Len(ss[k])
             /\ FlattenSeq(ss) \in Seq(C)
             /\ from + Len(ss[k]) <= Len(FlattenSeq(ss))
             /\ \A m \in 1 .. Len(ss[k]) : FlattenSeq(ss)[from + m] = ss[k][m]
  <1> DEFINE n == Len(ss)
             M == Seq(C)
  <1>1. PICK f : JoinedTo(f, ss, C)
    BY JoinsRun
  <1>2. n \in Nat /\ \A j \in 1 .. n : ss[j] \in M
    OBVIOUS
  <1>3. /\ FlattenSeq(SubSeq(ss, 1, k - 1)) = f[k - 1]
        /\ FlattenSeq(SubSeq(ss, 1, (k + 1) - 1)) = f[k]
        /\ FlattenSeq(ss) = f[n]
    <2>1. k - 1 \in 0 .. n /\ (k + 1) - 1 = k /\ k \in 0 .. n /\ n \in 0 .. n
      BY <1>2
    <2>2. SubSeq(ss, 1, n) = ss
      OBVIOUS
    <2>3. \A j \in 0 .. n : FlattenSeq(SubSeq(ss, 1, j)) = f[j]
      BY <1>1, FlattenIs
    <2> HIDE DEF n
    <2> QED BY <2>1, <2>2, <2>3
  <1>4. /\ f \in [0 .. n -> M]
        /\ \A j \in 1 .. n : f[j] = f[j - 1] \o ss[j]
    BY <1>1 DEF JoinedTo
  <1>5. ASSUME NEW j \in 1 .. n
        PROVE  /\ f[j - 1] \in Seq(C) /\ ss[j] \in Seq(C)
               /\ Len(f[j]) = Len(f[j - 1]) + Len(ss[j])
               /\ \A m \in 1 .. Len(f[j - 1]) : f[j][m] = f[j - 1][m]
               /\ \A m \in 1 .. Len(ss[j]) : f[j][Len(f[j - 1]) + m] = ss[j][m]
    <2> DEFINE a == f[j - 1]
               b == ss[j]
               c == a \o b
    <2>1. a \in Seq(C) /\ b \in Seq(C) /\ f[j] = c
      <3>1. j - 1 \in 0 .. n
        BY <1>2
      <3>2. f[j - 1] \in M /\ ss[j] \in M
        <4> HIDE DEF M, n
        <4> QED BY <1>2, <1>4, <3>1
      <3> QED BY <1>4, <3>2
    <2> HIDE DEF a, b
    <2>2. /\ Len(c) = Len(a) + Len(b)
          /\ \A m \in 1 .. Len(a) + Len(b) : c[m] = IF m <= Len(a) THEN a[m] ELSE b[m - Len(a)]
      BY <2>1, ConcatProperties
    <2> HIDE DEF c
    <2>3. Len(a) \in Nat /\ Len(b) \in Nat
      BY <2>1
    <2>4. \A m \in 1 .. Len(a) : c[m] = a[m]
      BY <2>2, <2>3
    <2>5. ASSUME NEW m \in 1 .. Len(b)
          PROVE  c[Len(a) + m] = b[m]
      <3>1. /\ Len(a) + m \in 1 .. Len(a) + Len(b) /\ ~ (Len(a) + m <= Len(a))
            /\ (Len(a) + m) - Len(a) = m
        BY <2>3
      <3> QED BY <2>2, <3>1
    <2> QED BY <2>1, <2>2, <2>4, <2>5 DEF a, b
  <1> DEFINE from == Len(f[k - 1])
             s == ss[k]
             T == {d \in 0 .. n - k :
                     /\ from + Len(s) <= Len(f[k + d])
                     /\ \A m \in 1 .. Len(s) : f[k + d][from + m] = s[m]}
  <1>6. from \in Nat /\ Len(s) \in Nat /\ Len(f[k]) = from + Len(s)
    BY <1>5, LenProperties
  <1>7. \A d \in 0 .. n - k : d \in T
    <2>1. n - k \in Nat /\ k \in Nat
      BY <1>2
    <2>2. 0 \in T
      <3>1. 0 \in 0 .. n - k /\ k + 0 = k
        BY <2>1
      <3>2. \A m \in 1 .. Len(s) : f[k][from + m] = s[m]
        BY <1>5
      <3> HIDE DEF from, s
      <3>3. from + Len(s) <= Len(f[k])
        BY <1>6
      <3> QED BY <3>1, <3>2, <3>3
    <2>3. ASSUME NEW d \in 0 .. (n - k) - 1, d \in T
          PROVE  d + 1 \in T
      <3> DEFINE j == k + (d + 1)
      <3>1. d + 1 \in 0 .. n - k /\ j \in 1 .. n /\ j - 1 = k + d
        BY <1>2, <2>1
      <3>2. /\ from + Len(s) <= Len(f[j - 1])
            /\ \A m \in 1 .. Len(s) : f[j - 1][from + m] = s[m]
        BY <2>3, <3>1
      <3>3. /\ f[j - 1] \in Seq(C) /\ ss[j] \in Seq(C)
            /\ Len(f[j]) = Len(f[j - 1]) + Len(ss[j])
            /\ \A m \in 1 .. Len(f[j - 1]) : f[j][m] = f[j - 1][m]
        BY <1>5, <3>1
      <3>4. Len(f[j - 1]) \in Nat /\ Len(ss[j]) \in Nat
        BY <3>3
      <3> HIDE DEF from, s, j
      <3>5. from + Len(s) <= Len(f[j])
        <4> DEFINE p == Len(f[j - 1])
                   q == Len(ss[j])
                   z == from + Len(s)
        <4>1. p \in Nat /\ q \in Nat /\ z \in Nat /\ z <= p /\ Len(f[j]) = p + q
          BY <1>6, <3>2, <3>3, <3>4
        <4> HIDE DEF p, q, z
        <4>2. z <= Len(f[j])
          BY <4>1
        <4> QED BY <4>2 DEF z
      <3>6. ASSUME NEW m \in 1 .. Len(s)
            PROVE  f[j][from + m] = s[m]
        <4>1. from + m \in 1 .. Len(f[j - 1])
          BY <1>6, <3>2, <3>4
        <4> QED BY <3>2, <3>3, <4>1
      <3> QED BY <3>1, <3>5, <3>6 DEF j
    <2> HIDE DEF T
    <2> QED BY <2>1, <2>2, <2>3, UpTo
  <1>8. n - k \in 0 .. n - k /\ k + (n - k) = n /\ n \in 0 .. n
    BY <1>2
  <1>9. f[n] \in Seq(C)
    BY <1>4, <1>8
  <1>10. /\ from + Len(s) <= Len(f[n])
         /\ \A m \in 1 .. Len(s) : f[n][from + m] = s[m]
    BY <1>7, <1>8
  <1> QED BY <1>3, <1>6, <1>9, <1>10

-----------------------------------------------------------------------------
(* acpi_init: the walk over the entries                                    *)

\* e is the first entry of an IOAPIC from the k-th on.
FirstFrom(k, e) ==
    /\ e \in IoapicEntries /\ e >= k
    /\ \A o \in IoapicEntries : o >= k => e <= o

\* The walk that began at an entry is at one, and at none behind the first
\* IOAPIC's.
Walks(k, e) ==
    /\ at \in {"search", "rsdt"} => i = start
    /\ at = "walk" => \E o \in k .. e : i = Begins(o)
    /\ at \in {"hpet", "done"} => ioapic_addr = Memory!phy2lin(firm.madt[e][AddrOffset + 1])

AcpiInv ==
    /\ at \in {"search", "rsdt", "walk", "hpet", "done", "panic"}
    /\ firm.madt \in Entries
    /\ \A k, e \in DOMAIN firm.madt : start = Begins(k) /\ FirstFrom(k, e) => Walks(k, e)

\* What an entry looks like, and where its bytes are.
LEMMA EntryIs ==
  ASSUME firm.madt \in Entries, NEW k \in DOMAIN firm.madt
  PROVE  LET entry == firm.madt[k]
         IN  /\ DOMAIN firm.madt = 1 .. Len(firm.madt) /\ Len(firm.madt) \in Nat
             /\ Len(entry) \in Nat /\ Len(entry) >= 2 /\ entry[2] = Len(entry)
             /\ entry[1] = IOAPIC => Len(entry) > AddrOffset
             /\ Begins(k) \in Nat /\ Begins(k + 1) = Begins(k) + Len(entry)
             /\ Limit \in Nat /\ Begins(k) < Limit
             /\ \A m \in 0 .. Len(entry) - 1 : Byte(Begins(k) + m) = entry[m + 1]
  <1> DEFINE ss == firm.madt
             entry == ss[k]
  <1>1. ss \in Seq(Seq(Nat)) /\ ss \in Entries
    BY AcpiAssumption
  <1>2. /\ DOMAIN ss = 1 .. Len(ss) /\ Len(ss) \in Nat
        /\ entry \in Seq(Nat) /\ Len(entry) \in Nat /\ entry \in Range(ss)
    <2> DEFINE M == Seq(Nat)
    <2> HIDE DEF M
    <2>1. ss \in Seq(M)
      BY <1>1 DEF M
    <2> HIDE DEF ss
    <2>2. entry \in M /\ DOMAIN ss = 1 .. Len(ss) /\ Len(ss) \in Nat
      BY <2>1 DEF ss
    <2>3. entry \in Range(ss)
      BY DEF Range, ss
    <2>4. Len(entry) \in Nat
      BY <2>2, LenProperties DEF M
    <2> QED BY <2>2, <2>3, <2>4 DEF M
  <1>3. Len(entry) >= 2 /\ entry[2] = Len(entry) /\ (entry[1] = IOAPIC => Len(entry) > AddrOffset)
    BY <1>1, <1>2, AcpiAssumption
  <1> HIDE DEF ss
  <1>4. /\ Begins(k) \in Nat /\ Begins(k + 1) = Begins(k) + Len(entry)
        /\ Bytes \in Seq(Nat) /\ Begins(k) + Len(entry) <= Len(Bytes)
        /\ \A m \in 1 .. Len(entry) : Bytes[Begins(k) + m] = entry[m]
    <2>1. k \in 1 .. Len(ss)
      BY <1>2 DEF ss
    <2> DEFINE from == Len(FlattenSeq(SubSeq(ss, 1, k - 1)))
    <2>2. /\ from \in Nat
          /\ Len(FlattenSeq(SubSeq(ss, 1, (k + 1) - 1))) = from + Len(entry)
          /\ FlattenSeq(ss) \in Seq(Nat)
          /\ from + Len(entry) <= Len(FlattenSeq(ss))
          /\ \A m \in 1 .. Len(entry) : FlattenSeq(ss)[from + m] = entry[m]
      BY <1>1, <2>1, FlattenHolds
    <2> QED BY <2>2 DEF Begins, Bytes, ss
  <1>5. Len(Bytes) \in Nat
    BY <1>4
  <1>6. Limit \in Nat /\ Begins(k) < Limit
    BY <1>2, <1>3, <1>4, <1>5 DEF Limit, Excess
  <1>7. ASSUME NEW m \in 0 .. Len(entry) - 1
        PROVE  Byte(Begins(k) + m) = entry[m + 1]
    <2>1. /\ m + 1 \in 1 .. Len(entry) /\ Begins(k) + m < Len(Bytes)
          /\ (Begins(k) + m) + 1 = Begins(k) + (m + 1)
      <3> DEFINE b == Begins(k)
                 l == Len(entry)
                 u == Len(Bytes)
      <3>1. b \in Nat /\ l \in Nat /\ u \in Nat /\ b + l <= u /\ m \in 0 .. l - 1
        BY <1>2, <1>4, <1>5
      <3> HIDE DEF b, l, u
      <3>2. m + 1 \in 1 .. l /\ b + m < u /\ (b + m) + 1 = b + (m + 1)
        BY <3>1
      <3> QED BY <3>2 DEF b, l, u
    <2> QED BY <1>4, <2>1 DEF Byte
  <1> QED BY <1>2, <1>3, <1>4, <1>6, <1>7 DEF ss

LEMMA AcpiBegins == AcpiInit => AcpiInv
  BY DEF AcpiInit, AcpiInv, Walks, Firmware

\* A round of the walk goes to the next entry, or ends at the first IOAPIC.
LEMMA WalkKeeps ==
  ASSUME AcpiInv, walk_madt
  PROVE  AcpiInv'
  <1>1. /\ at = "walk" /\ firm' = firm /\ start' = start
        /\ at' \in {"walk", "hpet"}
    BY DEF walk_madt, Step, acpiVars
  <1>2. firm.madt \in Entries
    BY DEF AcpiInv
  <1> SUFFICES ASSUME NEW k \in DOMAIN firm.madt, NEW e \in DOMAIN firm.madt,
                      start = Begins(k), FirstFrom(k, e)
               PROVE  Walks(k, e)'
    BY <1>1, <1>2 DEF AcpiInv, FirstFrom, IoapicEntries, Begins
  <1>3. PICK o \in k .. e : i = Begins(o)
    BY <1>1 DEF AcpiInv, Walks
  <1>4. /\ o \in DOMAIN firm.madt /\ k \in Int /\ e \in Int /\ o \in Int /\ k <= o /\ o <= e
    <2>1. DOMAIN firm.madt = 1 .. Len(firm.madt) /\ Len(firm.madt) \in Nat
      BY <1>2, EntryIs
    <2> QED BY <2>1
  <1> DEFINE entry == firm.madt[o]
  <1>5. /\ Len(entry) \in Nat /\ Len(entry) >= 2 /\ entry[2] = Len(entry)
        /\ entry[1] = IOAPIC => Len(entry) > AddrOffset
        /\ i \in Nat /\ Begins(o + 1) = i + Len(entry)
        /\ Limit \in Nat /\ ~ (i >= Limit)
        /\ \A m \in 0 .. Len(entry) - 1 : Byte(i + m) = entry[m + 1]
    <2>1. /\ Len(entry) \in Nat /\ Len(entry) >= 2 /\ entry[2] = Len(entry)
          /\ entry[1] = IOAPIC => Len(entry) > AddrOffset
          /\ Begins(o) \in Nat /\ Begins(o + 1) = Begins(o) + Len(entry)
          /\ Limit \in Nat /\ Begins(o) < Limit
          /\ \A m \in 0 .. Len(entry) - 1 : Byte(Begins(o) + m) = entry[m + 1]
      BY <1>2, <1>4, EntryIs
    <2> HIDE DEF entry
    <2>2. ~ (Begins(o) >= Limit)
      BY <2>1
    <2> QED BY <1>3, <2>1, <2>2
  <1>6. Byte(i) = entry[1] /\ Byte(i + 1) = Len(entry)
    <2>1. 0 \in 0 .. Len(entry) - 1 /\ 1 \in 0 .. Len(entry) - 1 /\ i + 0 = i
      BY <1>5
    <2>2. Byte(i + 0) = entry[0 + 1] /\ Byte(i + 1) = entry[1 + 1]
      BY <1>5, <2>1
    <2> QED BY <1>5, <2>1, <2>2
  <1>7. o \in IoapicEntries <=> entry[1] = IOAPIC
    BY <1>4 DEF IoapicEntries
  <1>8. e \in IoapicEntries /\ (o \in IoapicEntries => e <= o)
    BY <1>4 DEF FirstFrom
  <1> HIDE DEF entry
  <1>9. CASE at' = "walk" /\ i' = i + Byte(i + 1) /\ Byte(i) # IOAPIC
    <2>1. o # e
      BY <1>6, <1>7, <1>8, <1>9
    <2>2. o + 1 \in k .. e
      BY <1>4, <2>1
    <2>3. i' = Begins(o + 1)
      BY <1>5, <1>6, <1>9
    <2>4. i' = Begins(o + 1)'
      BY <1>1, <2>3 DEF Begins
    <2> QED BY <1>9, <2>2, <2>4 DEF Walks
  <1>10. CASE /\ at' = "hpet" /\ ioapic_addr' = Memory!phy2lin(Byte(i + AddrOffset)) /\ Byte(i) = IOAPIC
    <2>1. o = e
      BY <1>4, <1>6, <1>7, <1>8, <1>10
    <2>2. AddrOffset \in 0 .. Len(entry) - 1
      BY <1>5, <1>6, <1>10 DEF AddrOffset
    <2>3. ioapic_addr' = Memory!phy2lin(firm.madt[e][AddrOffset + 1])
      BY <1>5, <1>10, <2>1, <2>2 DEF entry
    <2> QED BY <1>1, <1>10, <2>3 DEF Walks
  <1> QED BY <1>1, <1>5, <1>9, <1>10 DEF walk_madt, Step

\* No other step of acpi_init moves the index or writes the address.
LEMMA AcpiStep == AcpiInv /\ [AcpiNext]_acpiVars => AcpiInv'
  <1> SUFFICES ASSUME AcpiInv, [AcpiNext]_acpiVars
               PROVE  AcpiInv'
    OBVIOUS
  <1>1. ASSUME /\ firm' = firm /\ start' = start /\ i' = i
               /\ ioapic_addr' = ioapic_addr,
               \/ at' = at
               \/ at = "search" /\ at' \in {"rsdt", "panic"}
               \/ at = "rsdt" /\ at' \in {"walk", "panic"}
               \/ at = "hpet" /\ at' \in {"done", "panic"}
        PROVE  AcpiInv'
    <2>1. firm.madt \in Entries /\ at' \in {"search", "rsdt", "walk", "hpet", "done", "panic"}
      BY <1>1 DEF AcpiInv
    <2> SUFFICES ASSUME NEW k \in DOMAIN firm.madt, NEW e \in DOMAIN firm.madt,
                        start = Begins(k), FirstFrom(k, e)
                 PROVE  Walks(k, e)'
      BY <1>1, <2>1 DEF AcpiInv, FirstFrom, IoapicEntries, Begins
    <2>2. Walks(k, e)
      BY DEF AcpiInv
    <2>3. k \in k .. e
      <3>1. DOMAIN firm.madt = 1 .. Len(firm.madt) /\ Len(firm.madt) \in Nat
        BY <2>1, EntryIs
      <3> QED BY <3>1 DEF FirstFrom
    <2>4. \A o : Begins(o)' = Begins(o)
      BY <1>1 DEF Begins
    <2> QED BY <1>1, <2>2, <2>3, <2>4 DEF Walks
  <1>2. CASE UNCHANGED acpiVars
    BY <1>1, <1>2 DEF acpiVars
  <1>3. CASE search_rsdp
    BY <1>1, <1>3 DEF search_rsdp
  <1>4. CASE check_rsdp
    BY <1>1, <1>4 DEF check_rsdp, Step
  <1>5. CASE check_rsdt
    BY <1>1, <1>5 DEF check_rsdt, Step
  <1>6. CASE walk_madt
    BY <1>6, WalkKeeps
  <1>7. CASE read_hpet
    BY <1>1, <1>7 DEF read_hpet, Step
  <1> QED BY <1>2, <1>3, <1>4, <1>5, <1>6, <1>7 DEF AcpiNext, acpi_init

\* A walk that begins at an entry takes the address from the first IOAPIC
\* that comes, for every table and whatever its entries hold.
THEOREM AcpiIoapicIsFirst == AcpiSpec => []IoapicIsFirst
  <1>1. AcpiInv => IoapicIsFirst
    <2> SUFFICES ASSUME AcpiInv, NEW k \in DOMAIN firm.madt, at \in {"hpet", "done"}, Proper(k)
                 PROVE  LET first == CHOOSE e \in IoapicEntries :
                                e >= k /\ \A f \in IoapicEntries : f >= k => e <= f
                        IN  ioapic_addr = Memory!phy2lin(firm.madt[first][AddrOffset + 1])
      BY DEF IoapicIsFirst
    <2>1. DOMAIN firm.madt = 1 .. Len(firm.madt) /\ Len(firm.madt) \in Nat
      BY EntryIs DEF AcpiInv
    <2> DEFINE T == {e \in IoapicEntries : e >= k}
    <2>2. \E e \in T : \A f \in T : e <= f
      <3>1. T \in SUBSET Nat /\ T # {}
        BY <2>1 DEF IoapicEntries, Proper
      <3> HIDE DEF T
      <3> QED BY <3>1, LeastNat
    <2>3. \E e \in IoapicEntries : e >= k /\ \A f \in IoapicEntries : f >= k => e <= f
      BY <2>2
    <2> DEFINE first == CHOOSE e \in IoapicEntries :
                           e >= k /\ \A f \in IoapicEntries : f >= k => e <= f
    <2>4. first \in IoapicEntries /\ first >= k /\ \A f \in IoapicEntries : f >= k => first <= f
      BY <2>3
    <2> HIDE DEF first
    <2>5. FirstFrom(k, first) /\ first \in DOMAIN firm.madt
      BY <2>4 DEF FirstFrom, IoapicEntries
    <2>6. Walks(k, first)
      BY <2>5 DEF AcpiInv, Proper
    <2> QED BY <2>6 DEF Walks, first
  <1> QED BY <1>1, AcpiBegins, AcpiStep, PTL DEF AcpiSpec
=============================================================================
