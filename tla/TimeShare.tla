------------------------------ MODULE TimeShare ------------------------------
(***************************************************************************)
(* What the scheduler promises: every task has a processor of its own.     *)
(* Only the context of the task that runs changes, and passing the         *)
(* processor on changes no context at all.                                 *)
(***************************************************************************)
EXTENDS Integers

CONSTANTS
    NrTasks,        \* the tasks are 0 .. NrTasks - 1
    Context,        \* what a task's context may be
    Start           \* Start[t]: the context task t begins with

VARIABLES
    run,            \* the task that runs; -1 while the kernel boots
    context         \* context[t]: what task t sees in its processor

Tasks == 0 .. NrTasks - 1

Init ==
    /\ run = -1
    /\ context = Start

\* The running task executes instructions.
Execute ==
    /\ run # -1
    /\ \E c \in Context : context' = [context EXCEPT ![run] = c]
    /\ UNCHANGED run

\* The processor goes to the next task in turn, from the boot code to some
\* task.
Pass ==
    /\ run' = IF run = -1 THEN 1 % NrTasks ELSE (run + 1) % NrTasks
    /\ UNCHANGED context

Next == Execute \/ Pass

Safety == Init /\ [][Next]_<<run, context>>

Spec == Safety /\ WF_<<run, context>>(Pass)
=============================================================================
