------------------------------- MODULE MCSlab -------------------------------
(* Instances of Slab with slabs of 256 bytes, hence 8 classes: 6 caches    *)
(* fit into a slab of kmem_kmem, 3 objects of 64 bytes and 5 of 32 into    *)
(* one of theirs, and one of 128.                                          *)
EXTENDS Slab

\* 31 and 32 lie on both sides of a class boundary, 0 is the smallest
\* request and 200 too large.
SmallSizes == {0, 31, 32, 200}

\* Objects of the 64-byte cache.
MediumSizes == {33, 64}

\* The 128-byte cache, whose slabs hold one object.
LargeSizes == {100}

LimitSizes == {100, 128}
=============================================================================
