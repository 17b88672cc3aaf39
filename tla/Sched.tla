-------------------------------- MODULE Sched --------------------------------
(***************************************************************************)
(* The round-robin scheduler of kernel/sched.c and the timer interrupt of  *)
(* kernel/isr.s and kernel/time.c that drives it.                          *)
(*                                                                         *)
(* The processor is four values: eip, the interrupt flag, the general      *)
(* registers and esp.  A code address is the function it belongs to and a  *)
(* position in it; esp is the stack it points into, the boot stack or that *)
(* of a task, and the interrupt frame on a stack is one cell of memory     *)
(* (eip and flags).  The registers are one value.                          *)
(*                                                                         *)
(* sched_init creates the tasks of Entries.  In the kernel as it is, that  *)
(* is the one task init; new_tss has no other caller.                      *)
(***************************************************************************)
EXTENDS Integers, Sequences

CONSTANTS
    MAX_TASK,       \* entries of tss_list
    Entries,        \* the entry points of the tasks, in order of creation
    NrPositions,    \* positions in a function
    Registers       \* values of the registers; 0 is what memset leaves

VARIABLES
    tss_list,       \* the task table
    curr_index,     \* index of the task that was given the processor
    curr_task,      \* the same as a pointer, NULL before the first tick
    esp_swap,       \* the stack with the interrupt frame to return through
    frame,          \* frame[s]: the interrupt frame on stack s
    cpu             \* the processor

vars == <<tss_list, curr_index, curr_task, esp_swap, frame, cpu>>

NrTasks == Len(Entries)
Index == 0 .. MAX_TASK - 1

ASSUME SchedAssumption ==
    /\ MAX_TASK \in Nat /\ NrTasks \in 1 .. MAX_TASK
    /\ NrPositions \in Nat \ {0}
    /\ 0 \in Registers

NULL == -1
Boot == -2
Stacks == Index \cup {Boot}

Code == {"kmain"} \cup {Entries[i] : i \in DOMAIN Entries}
Eip == Code \X (0 .. NrPositions - 1)
Frame == [eip : Eip, intr : BOOLEAN]

Status == {"UNUSED", "RUNNABLE", "RUNNING", "NEW"}

-----------------------------------------------------------------------------
(* sched_init                                                              *)

NoFrame == [eip |-> <<"kmain", 0>>, intr |-> FALSE]

UnusedTss ==
    [pid |-> 0, status |-> "UNUSED", int_stack |-> NoFrame,
     generic_stack |-> 0, kernel_stack |-> NULL]

\* mutant: the flags of a new task have interrupts off
new_tss_masked(i) ==
    [pid |-> i + 1, status |-> "NEW",
     int_stack |-> [eip |-> <<Entries[i + 1], 0>>, intr |-> FALSE],
     generic_stack |-> 0, kernel_stack |-> i]

\* The i-th call of new_tss; eflags 0x282 has the interrupt flag set.  The
\* page palloc gives is the task's stack.
new_tss(i) ==
    [pid |-> i + 1, status |-> "NEW",
     int_stack |-> [eip |-> <<Entries[i + 1], 0>>, intr |-> TRUE],
     generic_stack |-> 0, kernel_stack |-> i]

sched_init == [i \in Index |-> IF i < NrTasks THEN new_tss(i) ELSE UnusedTss]

-----------------------------------------------------------------------------
(* do_sched                                                                *)

\* mutant: the table may be run through to its end
NextIndex_no_pid(i) == IF i + 1 > MAX_TASK - 1 THEN 0 ELSE i + 1

NextIndex(i) ==
    IF i + 1 > MAX_TASK - 1 \/ tss_list[i + 1].pid = 0 THEN 0 ELSE i + 1

\* mutant: the registers are not saved
save_to_no_generic(tss, w) ==
    [tss EXCEPT !.int_stack = w.frame[w.esp_swap],
                !.kernel_stack = w.esp_swap,
                !.status = "RUNNABLE"]

\* mutant: the interrupt frame is not saved
save_to_no_frame(tss, w) ==
    [tss EXCEPT !.generic_stack = w.regs,
                !.kernel_stack = w.esp_swap,
                !.status = "RUNNABLE"]

\* w: the registers on the worker stack, the memory and esp_swap while
\* do_sched works on them.
save_to(tss, w) ==
    [tss EXCEPT !.int_stack = w.frame[w.esp_swap],
                !.generic_stack = w.regs,
                !.kernel_stack = w.esp_swap,
                !.status = "RUNNABLE"]

\* The frame is written where esp_swap points, on the stack of the task that
\* was interrupted, before esp_swap moves to that of the next one.
switch_to(tss, w) ==
    [frame |-> [w.frame EXCEPT ![w.esp_swap] = tss.int_stack],
     regs |-> tss.generic_stack,
     esp_swap |-> tss.kernel_stack]

switch_to_new(tss, w) ==
    [frame |-> [w.frame EXCEPT ![tss.kernel_stack] = tss.int_stack],
     regs |-> tss.generic_stack,
     esp_swap |-> tss.kernel_stack]

SavesLast(tss) == tss.status # "NEW"

\* The second half of do_sched.
Dispatch(tss, w) ==
    CASE tss.status = "NEW" -> switch_to_new(tss, w)
      [] tss.status = "RUNNABLE" -> switch_to(tss, w)
      [] OTHER -> w

\* The timer interrupt: pit_int stores esp, sched_int pushes the registers
\* on the worker stack, do_pit_int calls do_sched, and iret returns through
\* the frame esp_swap then points to.
pit_int ==
    LET last == curr_index
        next == NextIndex(last)
        entered == [frame |-> [frame EXCEPT ![cpu.esp] =
                                 [eip |-> cpu.eip, intr |-> cpu.intr]],
                    regs |-> cpu.regs,
                    esp_swap |-> cpu.esp]
        saved == IF SavesLast(tss_list[last])
                 THEN [tss_list EXCEPT ![last] = save_to(@, entered)]
                 ELSE tss_list
        left == Dispatch(saved[next], entered)
    IN  /\ cpu.intr
        /\ curr_index' = next
        /\ curr_task' = next
        /\ tss_list' = [saved EXCEPT ![next].status = "RUNNING",
                                     ![next].kernel_stack =
                                        IF saved[next].status = "NEW"
                                        THEN left.esp_swap ELSE @]
        /\ esp_swap' = left.esp_swap
        /\ frame' = left.frame
        /\ cpu' = [eip |-> left.frame[left.esp_swap].eip,
                   intr |-> left.frame[left.esp_swap].intr,
                   regs |-> left.regs,
                   esp |-> left.esp_swap]

\* The processor executes an instruction of whatever function eip is in.
Execute ==
    /\ \E r \in Registers :
          cpu' = [cpu EXCEPT !.eip[2] = (@ + 1) % NrPositions, !.regs = r]
    /\ UNCHANGED <<tss_list, curr_index, curr_task, esp_swap, frame>>

-----------------------------------------------------------------------------
\* kmain has called sched_init and then turned interrupts on.
Init ==
    /\ tss_list = sched_init
    /\ curr_index = 0
    /\ curr_task = NULL
    /\ esp_swap = Boot
    /\ frame = [s \in Stacks |-> NoFrame]
    /\ cpu = [eip |-> <<"kmain", 0>>, intr |-> TRUE, regs |-> 0, esp |-> Boot]

Next == pit_int \/ Execute

\* The PIT raises its interrupt again and again, and do_pit_int acknowledges
\* each one.
Spec == Init /\ [][Next]_vars /\ WF_vars(pit_int)

-----------------------------------------------------------------------------
(* Properties                                                              *)

TypeOK ==
    /\ tss_list \in [Index -> [pid : 0 .. MAX_TASK, status : Status,
                               int_stack : Frame, generic_stack : Registers,
                               kernel_stack : Index \cup {NULL, Boot}]]
    /\ curr_index \in Index
    /\ curr_task \in Index \cup {NULL}
    /\ esp_swap \in Stacks
    /\ frame \in [Stacks -> Frame]
    /\ cpu \in [eip : Eip, intr : BOOLEAN, regs : Registers, esp : Stacks]

\* Once the first tick has come, exactly the task curr_task points to is
\* RUNNING, the processor is on that task's stack, and tasks that have not
\* run yet have not been saved over.
OneRunning ==
    curr_task # NULL =>
        /\ curr_task = curr_index
        /\ \A i \in Index :
              tss_list[i].status = "RUNNING" <=> i = curr_task
        /\ cpu.esp = curr_task
        /\ \A i \in Index : tss_list[i].status = "NEW" =>
              tss_list[i].int_stack = new_tss(i).int_stack

\* The task table and the processor agree on who runs.
TasksSound == TypeOK /\ OneRunning

\* What a task sees in its processor, apart from eip: the registers, and
\* the stack it runs on.
RegsOf(i) ==
    IF curr_task = i THEN [regs |-> cpu.regs, esp |-> cpu.esp]
    ELSE [regs |-> tss_list[i].generic_stack, esp |-> tss_list[i].kernel_stack]

SharedRegs ==
    INSTANCE TimeShare WITH
        Context <- [regs : Registers, esp : Stacks],
        Start <- [i \in 0 .. NrTasks - 1 |-> [regs |-> 0, esp |-> i]],
        run <- curr_task,
        context <- [i \in 0 .. NrTasks - 1 |-> RegsOf(i)]

\* do_sched implements time sharing for any number of tasks as far as the
\* registers and the stack go: they change only while the task runs, and
\* every task has its turn again and again.
RegistersTimeShared == SharedRegs!Spec

\* All of what a task sees.
ContextOf(i) ==
    IF curr_task = i THEN cpu
    ELSE [eip |-> tss_list[i].int_stack.eip, intr |-> tss_list[i].int_stack.intr,
          regs |-> tss_list[i].generic_stack,
          esp |-> tss_list[i].kernel_stack]

\* A timer interrupt brings back exactly what was left: whatever task do_sched
\* chooses goes on where it was interrupted, a new one at its entry point.
\* True with the one task sched_init creates.  With a second one it fails,
\* because switch_to writes the frame of the next task on the stack of the
\* interrupted one.
TaskResumes == [][pit_int => cpu' = ContextOf(curr_task')]_vars

\* Every task runs again and again: the interrupt flag survives every switch
\* and the table is gone through to the last task.
EveryTaskRuns ==
    \A i \in 0 .. NrTasks - 1 : []<>(tss_list[i].status = "RUNNING")
=============================================================================
