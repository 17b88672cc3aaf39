------------------------------ MODULE MCKernel ------------------------------
(* The kernel with its one task, init.                                     *)
EXTENDS Kernel

OnlyInit == <<"init">>
=============================================================================
