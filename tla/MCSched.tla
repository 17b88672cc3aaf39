------------------------------- MODULE MCSched -------------------------------
(* Instances of Sched.                                                     *)
EXTENDS Sched

\* A full task table.
ThreeTasks == <<"init", "a", "b">>
=============================================================================
