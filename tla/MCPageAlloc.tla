----------------------------- MODULE MCPageAlloc -----------------------------
(* Instances of PageAlloc: 4 kernel and 12 user pages, the first one       *)
(* reserved, in an address space of 64 pages.                              *)
EXTENDS PageAlloc, TLC

\* Kernel requests of one and two pages and of no byte at all, user requests
\* of at most one page: of a whole one, and of a part of one.
OnePageUser == (ZONE_KERNEL :> {0, 4096, 5000}) @@ (ZONE_USER :> {1, 4096})

\* User requests of one and of two pages.
TwoPageUser == (ZONE_KERNEL :> {}) @@ (ZONE_USER :> {4096, 8192})

OnlyKernel == (ZONE_KERNEL :> {4096}) @@ (ZONE_USER :> {})

Sym == Permutations(Callers)
=============================================================================
