---------------------------- MODULE KernelProofs -----------------------------
(***************************************************************************)
(* Proofs about the scheduler, and about the kernel as it boots and runs   *)
(* with the scheduler in it, for every number of tasks, pins and vectors   *)
(* and every set of devices.                                               *)
(*                                                                         *)
(* The scheduler: the task table and the processor agree on who runs, the  *)
(* registers and the stack are shared as TimeShare says, and one task      *)
(* alone is resumed exactly where it was interrupted.                      *)
(*                                                                         *)
(* The kernel: all that from the first instruction of kmain on; no         *)
(* interrupt meets a gate nobody has set, a panic is the end, and no       *)
(* interrupt that returned holds back the timer's.                         *)
(***************************************************************************)
EXTENDS Kernel, TLAPS

-----------------------------------------------------------------------------
(* The scheduler: its inductive invariant                                  *)

\* The tasks are the first entries of the table, each has its own stack for
\* good, and one that has not run yet is as new_tss left it.
Created ==
    \A i \in Index :
        /\ tss_list[i].pid = IF i < NrTasks THEN i + 1 ELSE 0
        /\ tss_list[i].status = "UNUSED" <=> i >= NrTasks
        /\ i < NrTasks => tss_list[i].kernel_stack = i
        /\ tss_list[i].status = "NEW" => /\ tss_list[i].int_stack = new_tss(i).int_stack
                                         /\ tss_list[i].generic_stack = 0

\* Before the first tick no task has run and the processor is on the boot
\* stack; after it the processor is on the stack of the one RUNNING task.
Placed ==
    /\ curr_index < NrTasks
    /\ IF curr_task = NULL
       THEN /\ curr_index = 0
            /\ cpu.esp = Boot
            /\ \A i \in Index : tss_list[i].status \in {"NEW", "UNUSED"}
       ELSE /\ curr_task = curr_index
            /\ cpu.esp = curr_task
            /\ \A i \in Index : tss_list[i].status = "RUNNING" <=> i = curr_task

SchedInv == TypeOK /\ Created /\ Placed

-----------------------------------------------------------------------------
(* What a timer interrupt does, in terms of the table                      *)

\* There is a task in the table, and the table has room for the tasks.
LEMMA TasksFit == /\ NrTasks \in Nat /\ 0 < NrTasks /\ NrTasks <= MAX_TASK
                  /\ MAX_TASK \in Nat
                  /\ 0 \in Index
                  /\ \A i \in Index : i \in Int /\ i >= 0 /\ i # NULL /\ i # Boot
                  /\ \A i \in Nat : i < NrTasks => i \in Index
  BY SchedAssumption DEF Index, NULL, Boot

\* do_sched takes the task after the last one, and the first after the last.
LEMMA NextIndexIs ==
  ASSUME SchedInv
  PROVE  /\ NextIndex(curr_index) \in Index
         /\ NextIndex(curr_index) < NrTasks
         /\ NextIndex(curr_index) =
               IF curr_index + 1 < NrTasks THEN curr_index + 1 ELSE 0
  <1>1. curr_index \in Index /\ curr_index < NrTasks
    BY DEF SchedInv, TypeOK, Placed
  <1>2. \A i \in Index : tss_list[i].pid = IF i < NrTasks THEN i + 1 ELSE 0
    BY DEF SchedInv, Created
  <1>3. CASE curr_index + 1 < NrTasks
    <2>1. curr_index + 1 \in Index /\ curr_index + 1 <= MAX_TASK - 1
      BY <1>1, <1>3, TasksFit DEF Index
    <2>2. tss_list[curr_index + 1].pid # 0
      BY <1>2, <1>3, <2>1, TasksFit
    <2> QED BY <2>1, <2>2, <1>3, TasksFit DEF NextIndex
  <1>4. CASE ~ (curr_index + 1 < NrTasks)
    <2>1. curr_index + 1 > MAX_TASK - 1 \/ tss_list[curr_index + 1].pid = 0
      <3>1. CASE curr_index + 1 \in Index
        BY <3>1, <1>2, <1>4
      <3>2. CASE curr_index + 1 \notin Index
        BY <3>2, <1>1, TasksFit DEF Index
      <3> QED BY <3>1, <3>2
    <2> QED BY <2>1, <1>4, TasksFit DEF NextIndex
  <1> QED BY <1>3, <1>4

\* The table after do_sched has saved the task that was interrupted.
Saved ==
    IF curr_task = NULL THEN tss_list
    ELSE [tss_list EXCEPT ![curr_index] =
            [@ EXCEPT !.int_stack = [eip |-> cpu.eip, intr |-> cpu.intr],
                      !.generic_stack = cpu.regs,
                      !.kernel_stack = cpu.esp,
                      !.status = "RUNNABLE"]]

\* What pit_int does when the invariant holds: the interrupted task is saved,
\* the next one becomes RUNNING with the registers and the stack it was saved
\* with, and the frame that iret goes through is the saved one of a new task
\* and of a task that follows itself.
LEMMA PitIntStep ==
  ASSUME SchedInv, pit_int
  PROVE  LET next == NextIndex(curr_index)
         IN  /\ cpu.intr
             /\ curr_index' = next /\ curr_task' = next
             /\ Saved[next].status \in {"NEW", "RUNNABLE"}
             /\ Saved[next].kernel_stack = next
             /\ tss_list' = [Saved EXCEPT ![next].status = "RUNNING"]
             /\ esp_swap' = next
             /\ frame' \in [Stacks -> Frame]
             /\ cpu' = [eip |-> frame'[next].eip, intr |-> frame'[next].intr,
                        regs |-> Saved[next].generic_stack, esp |-> next]
             /\ Saved[next].status = "NEW" \/ next = curr_task =>
                   frame'[next] = Saved[next].int_stack
  <1> DEFINE last == curr_index
             next == NextIndex(last)
             entered == [frame |-> [frame EXCEPT ![cpu.esp] =
                                      [eip |-> cpu.eip, intr |-> cpu.intr]],
                         regs |-> cpu.regs,
                         esp_swap |-> cpu.esp]
             saved == IF SavesLast(tss_list[last])
                      THEN [tss_list EXCEPT ![last] = save_to(@, entered)]
                      ELSE tss_list
             left == Dispatch(saved[next], entered)
             goal == /\ left.esp_swap = next
                     /\ left.frame \in [Stacks -> Frame]
                     /\ left.regs = Saved[next].generic_stack
                     /\ Saved[next].status = "NEW" \/ next = curr_task =>
                           left.frame[next] = Saved[next].int_stack
  <1>1. /\ cpu.intr
        /\ curr_index' = next /\ curr_task' = next
        /\ tss_list' = [saved EXCEPT ![next].status = "RUNNING",
                                     ![next].kernel_stack =
                                        IF saved[next].status = "NEW"
                                        THEN left.esp_swap ELSE @]
        /\ esp_swap' = left.esp_swap
        /\ frame' = left.frame
        /\ cpu' = [eip |-> left.frame[left.esp_swap].eip,
                   intr |-> left.frame[left.esp_swap].intr,
                   regs |-> left.regs,
                   esp |-> left.esp_swap]
    BY DEF pit_int
  <1>2. last \in Index /\ next \in Index /\ next < NrTasks /\ last < NrTasks
    BY NextIndexIs DEF SchedInv, TypeOK, Placed
  <1>3. cpu.esp \in Stacks /\ next \in Stacks
    BY <1>2 DEF SchedInv, TypeOK, Stacks
  <1>4. [eip |-> cpu.eip, intr |-> cpu.intr] \in Frame
    BY DEF SchedInv, TypeOK, Frame
  <1>5. entered.frame \in [Stacks -> Frame]
    BY <1>3, <1>4 DEF SchedInv, TypeOK
  <1>6. entered.frame[cpu.esp] = [eip |-> cpu.eip, intr |-> cpu.intr]
    BY <1>3 DEF SchedInv, TypeOK
  <1>7. SavesLast(tss_list[last]) <=> curr_task # NULL
    BY <1>2, TasksFit DEF SavesLast, SchedInv, Placed, Created
  <1>8. saved = Saved
    BY <1>6, <1>7 DEF Saved, save_to
  <1>9. /\ Saved[next].kernel_stack = next
        /\ Saved[next].status \in {"NEW", "RUNNABLE"}
        /\ Saved[next].int_stack \in Frame
        /\ Saved \in [Index -> [pid : 0 .. MAX_TASK, status : Status,
                               int_stack : Frame, generic_stack : Registers,
                               kernel_stack : Index \cup {NULL, Boot}]]
    <2>1. CASE curr_task = NULL
      BY <2>1, <1>2, TasksFit DEF Saved, SchedInv, Placed, Created, TypeOK
    <2>2. CASE curr_task # NULL
      <3>1. /\ Saved \in [Index -> [pid : 0 .. MAX_TASK, status : Status,
                               int_stack : Frame, generic_stack : Registers,
                               kernel_stack : Index \cup {NULL, Boot}]]
        <4>1. cpu.regs \in Registers /\ cpu.esp \in Index \cup {NULL, Boot}
          BY DEF SchedInv, TypeOK, Stacks
        <4>2. [tss_list[last] EXCEPT
                  !.int_stack = [eip |-> cpu.eip, intr |-> cpu.intr],
                  !.generic_stack = cpu.regs,
                  !.kernel_stack = cpu.esp,
                  !.status = "RUNNABLE"]
              \in [pid : 0 .. MAX_TASK, status : Status,
                   int_stack : Frame, generic_stack : Registers,
                   kernel_stack : Index \cup {NULL, Boot}]
          <5> HIDE DEF last
          <5> QED BY <4>1, <1>2, <1>4 DEF SchedInv, TypeOK, Status
        <4> QED BY <2>2, <4>2, <1>2 DEF Saved, SchedInv, TypeOK
      <3>2. cpu.esp = last
        BY <2>2 DEF SchedInv, Placed
      <3>3. CASE next = last
        BY <3>1, <3>2, <3>3, <2>2, <1>2, <1>4 DEF Saved, SchedInv, TypeOK
      <3>4. CASE next # last
        <4>1. Saved[next] = tss_list[next]
          BY <2>2, <3>4, <1>2 DEF Saved, SchedInv, TypeOK
        <4>2. tss_list[next].status \in Status
          BY <1>2 DEF SchedInv, TypeOK
        <4>3. tss_list[next].status # "RUNNING" /\ tss_list[next].status # "UNUSED"
          BY <2>2, <3>4, <1>2, TasksFit DEF SchedInv, Placed, Created
        <4> QED BY <3>1, <4>1, <4>2, <4>3, <1>2 DEF Status, SchedInv, Created, TypeOK
      <3> QED BY <3>3, <3>4
    <2> QED BY <2>1, <2>2
  <1>10. goal
    <2> HIDE DEF next, saved
    <2>1. CASE Saved[next].status = "NEW"
      <3>1. left = switch_to_new(Saved[next], entered)
        BY <2>1, <1>8 DEF Dispatch
      <3> HIDE DEF left
      <3>2. /\ left.esp_swap = next
            /\ left.frame = [entered.frame EXCEPT ![next] = Saved[next].int_stack]
            /\ left.regs = Saved[next].generic_stack
        BY <3>1, <1>9 DEF switch_to_new
      <3> HIDE DEF entered
      <3> QED BY <3>2, <1>3, <1>5, <1>9
    <2>2. CASE Saved[next].status = "RUNNABLE"
      <3>1. left = switch_to(Saved[next], entered)
        BY <2>2, <1>8 DEF Dispatch
      <3> HIDE DEF left
      <3>2. /\ left.esp_swap = next
            /\ left.frame = [entered.frame EXCEPT ![cpu.esp] = Saved[next].int_stack]
            /\ left.regs = Saved[next].generic_stack
        BY <3>1, <1>9 DEF switch_to
      <3>3. next = curr_task => cpu.esp = next
        BY <1>2, TasksFit DEF SchedInv, Placed
      <3> HIDE DEF left, entered
      <3> QED BY <3>2, <3>3, <1>3, <1>5, <1>9, <2>2
    <2> QED BY <2>1, <2>2, <1>9
  <1>11. tss_list' = [Saved EXCEPT ![next].status = "RUNNING"]
    <2>1. Saved[next] = [Saved[next] EXCEPT !.kernel_stack = next]
      BY <1>9, <1>2
    <2> HIDE DEF left, next, saved
    <2>2. tss_list' = [Saved EXCEPT ![next].status = "RUNNING",
                                    ![next].kernel_stack = next]
      BY <1>1, <1>8, <1>9, <1>10
    <2>3. [Saved[next] EXCEPT !.status = "RUNNING", !.kernel_stack = next]
             = [Saved[next] EXCEPT !.status = "RUNNING"]
      BY <1>9, <1>2, <2>1
    <2> QED BY <2>2, <2>3, <1>9, <1>2
  <1> HIDE DEF left, next, saved
  <1>12. /\ cpu' = [eip |-> frame'[next].eip, intr |-> frame'[next].intr,
                    regs |-> Saved[next].generic_stack, esp |-> next]
         /\ esp_swap' = next
    BY <1>1, <1>10
  <1>13. /\ cpu.intr
         /\ curr_index' = next /\ curr_task' = next
         /\ Saved[next].status \in {"NEW", "RUNNABLE"}
         /\ Saved[next].kernel_stack = next
         /\ frame' \in [Stacks -> Frame]
         /\ Saved[next].status = "NEW" \/ next = curr_task =>
               frame'[next] = Saved[next].int_stack
    BY <1>1, <1>9, <1>10
  <1> QED BY <1>11, <1>12, <1>13 DEF next

\* A new task's registers and entry point are values of their types.
LEMMA NewTssTyped ==
  ASSUME NEW i \in Index, i < NrTasks
  PROVE  new_tss(i) \in [pid : 0 .. MAX_TASK, status : Status,
                         int_stack : Frame, generic_stack : Registers,
                         kernel_stack : Index \cup {NULL, Boot}]
  <1>1. i + 1 \in DOMAIN Entries /\ i + 1 \in 0 .. MAX_TASK
    BY SchedAssumption, TasksFit DEF Index, NrTasks
  <1>2. <<Entries[i + 1], 0>> \in Eip
    BY <1>1, SchedAssumption DEF Eip, Code
  <1> QED BY <1>1, <1>2, SchedAssumption DEF new_tss, Frame, Status

-----------------------------------------------------------------------------
(* Invariance                                                              *)

\* What sched_init leaves before the first tick.
Fresh ==
    /\ TypeOK
    /\ tss_list = sched_init
    /\ curr_index = 0 /\ curr_task = NULL
    /\ cpu.esp = Boot

\* That state satisfies the invariant.
LEMMA SchedInvInit == Fresh => SchedInv
  <1> SUFFICES ASSUME Fresh
               PROVE  SchedInv
    OBVIOUS
  <1> USE DEF Fresh
  <1>1. \A i \in Index : tss_list[i] = IF i < NrTasks THEN new_tss(i) ELSE UnusedTss
    BY DEF sched_init
  <1>2. ASSUME NEW i \in Index
        PROVE  /\ tss_list[i].pid = IF i < NrTasks THEN i + 1 ELSE 0
               /\ tss_list[i].status = "UNUSED" <=> i >= NrTasks
               /\ i < NrTasks => tss_list[i].kernel_stack = i
               /\ tss_list[i].status = "NEW" =>
                     /\ tss_list[i].int_stack = new_tss(i).int_stack
                     /\ tss_list[i].generic_stack = 0
               /\ tss_list[i].status \in {"NEW", "UNUSED"}
    <2>1. CASE i < NrTasks
      <3>1. tss_list[i] = new_tss(i) /\ ~ (i >= NrTasks)
        BY <1>1, <2>1, TasksFit
      <3> QED BY <2>1, <3>1 DEF new_tss
    <2>2. CASE ~ (i < NrTasks)
      <3>1. tss_list[i] = UnusedTss /\ i >= NrTasks
        BY <1>1, <2>2, TasksFit
      <3> QED BY <2>2, <3>1 DEF UnusedTss
    <2> QED BY <2>1, <2>2
  <1>3. Created /\ \A i \in Index : tss_list[i].status \in {"NEW", "UNUSED"}
    BY <1>2 DEF Created
  <1>4. Placed
    BY <1>3, TasksFit DEF Placed
  <1> QED BY <1>3, <1>4 DEF SchedInv

\* Both the table that is all zeroes and the one of sched_init are typed.
LEMMA TablesTyped ==
  /\ UnusedTss \in [pid : 0 .. MAX_TASK, status : Status,
                    int_stack : Frame, generic_stack : Registers,
                    kernel_stack : Index \cup {NULL, Boot}]
  /\ NoFrame \in Frame
  /\ sched_init \in [Index -> [pid : 0 .. MAX_TASK, status : Status,
                               int_stack : Frame, generic_stack : Registers,
                               kernel_stack : Index \cup {NULL, Boot}]]
  <1>1. <<"kmain", 0>> \in Eip
    BY SchedAssumption DEF Eip, Code
  <1>2. NoFrame \in Frame
    BY <1>1 DEF NoFrame, Frame
  <1>3. UnusedTss \in [pid : 0 .. MAX_TASK, status : Status,
                       int_stack : Frame, generic_stack : Registers,
                       kernel_stack : Index \cup {NULL, Boot}]
    BY <1>2, SchedAssumption DEF UnusedTss, Status
  <1>4. \A i \in Index : (IF i < NrTasks THEN new_tss(i) ELSE UnusedTss)
                  \in [pid : 0 .. MAX_TASK, status : Status,
                       int_stack : Frame, generic_stack : Registers,
                       kernel_stack : Index \cup {NULL, Boot}]
    BY <1>3, NewTssTyped
  <1> QED BY <1>2, <1>3, <1>4 DEF sched_init

\* A timer interrupt preserves the invariant.
LEMMA PitIntInv ==
  ASSUME SchedInv, pit_int
  PROVE  SchedInv'
  <1> DEFINE next == NextIndex(curr_index)
             Tss == [pid : 0 .. MAX_TASK, status : Status,
                     int_stack : Frame, generic_stack : Registers,
                     kernel_stack : Index \cup {NULL, Boot}]
  <1>1. next \in Index /\ next < NrTasks /\ next # NULL /\ next \in Stacks
    BY NextIndexIs, TasksFit DEF Stacks
  <1>2. /\ curr_index' = next /\ curr_task' = next
        /\ Saved[next].status \in {"NEW", "RUNNABLE"}
        /\ Saved[next].kernel_stack = next
        /\ tss_list' = [Saved EXCEPT ![next].status = "RUNNING"]
        /\ esp_swap' = next
        /\ frame' \in [Stacks -> Frame]
        /\ cpu' = [eip |-> frame'[next].eip, intr |-> frame'[next].intr,
                   regs |-> Saved[next].generic_stack, esp |-> next]
    BY PitIntStep
  <1>3. Saved \in [Index -> Tss]
    <2>1. CASE curr_task = NULL
      BY <2>1 DEF Saved, SchedInv, TypeOK
    <2>2. CASE curr_task # NULL
      <3>1. cpu.regs \in Registers /\ cpu.esp \in Index \cup {NULL, Boot}
        BY DEF SchedInv, TypeOK, Stacks
      <3>2. curr_index \in Index /\ [eip |-> cpu.eip, intr |-> cpu.intr] \in Frame
        BY DEF SchedInv, TypeOK, Frame
      <3>3. [tss_list[curr_index] EXCEPT
                !.int_stack = [eip |-> cpu.eip, intr |-> cpu.intr],
                !.generic_stack = cpu.regs,
                !.kernel_stack = cpu.esp,
                !.status = "RUNNABLE"] \in Tss
        BY <3>1, <3>2 DEF SchedInv, TypeOK, Status
      <3> QED BY <2>2, <3>2, <3>3 DEF Saved, SchedInv, TypeOK
    <2> QED BY <2>1, <2>2
  <1>4. \A i \in Index :
          /\ Saved[i].pid = tss_list[i].pid
          /\ Saved[i].status = "UNUSED" <=> tss_list[i].status = "UNUSED"
          /\ Saved[i].status # "RUNNING"
          /\ Saved[i].status = "NEW" => Saved[i] = tss_list[i]
          /\ i < NrTasks => Saved[i].kernel_stack = i
    <2>1. CASE curr_task = NULL
      BY <2>1 DEF Saved, SchedInv, Created, Placed
    <2>2. CASE curr_task # NULL
      <3> TAKE i \in Index
      <3>1. CASE i = curr_index
        BY <2>2, <3>1 DEF Saved, SchedInv, Created, Placed, TypeOK
      <3>2. CASE i # curr_index
        <4>1. Saved[i] = tss_list[i]
          BY <2>2, <3>2 DEF Saved, SchedInv, TypeOK
        <4> QED BY <2>2, <3>2, <4>1 DEF SchedInv, Created, Placed
      <3> QED BY <3>1, <3>2
    <2> QED BY <2>1, <2>2
  <1> HIDE DEF next
  <1>5. tss_list' \in [Index -> Tss]
    BY <1>1, <1>2, <1>3 DEF Status
  <1>6. cpu' \in [eip : Eip, intr : BOOLEAN, regs : Registers, esp : Stacks]
    <2>1. frame'[next] \in Frame /\ Saved[next].generic_stack \in Registers
      BY <1>1, <1>2, <1>3
    <2> QED BY <2>1, <1>1, <1>2 DEF Frame
  <1>7. TypeOK'
    BY <1>1, <1>2, <1>5, <1>6 DEF TypeOK
  <1>8. \A i \in Index : IF i = next THEN tss_list'[i] = [Saved[i] EXCEPT !.status = "RUNNING"]
                                     ELSE tss_list'[i] = Saved[i]
    BY <1>1, <1>2, <1>3
  <1>9. Created'
    <2> SUFFICES ASSUME NEW i \in Index
                 PROVE  /\ tss_list'[i].pid = IF i < NrTasks THEN i + 1 ELSE 0
                        /\ tss_list'[i].status = "UNUSED" <=> i >= NrTasks
                        /\ i < NrTasks => tss_list'[i].kernel_stack = i
                        /\ tss_list'[i].status = "NEW" =>
                              /\ tss_list'[i].int_stack = new_tss(i).int_stack
                              /\ tss_list'[i].generic_stack = 0
      BY DEF Created, new_tss
    <2>1. /\ tss_list[i].pid = IF i < NrTasks THEN i + 1 ELSE 0
          /\ tss_list[i].status = "UNUSED" <=> i >= NrTasks
          /\ tss_list[i].status = "NEW" =>
                /\ tss_list[i].int_stack = new_tss(i).int_stack
                /\ tss_list[i].generic_stack = 0
      BY DEF SchedInv, Created
    <2>2. CASE i = next
      <3>1. /\ tss_list'[i].pid = Saved[i].pid
            /\ tss_list'[i].kernel_stack = Saved[i].kernel_stack
            /\ tss_list'[i].status = "RUNNING"
        BY <2>2, <1>3, <1>8
      <3>2. ~ (i >= NrTasks)
        BY <2>2, <1>1, TasksFit
      <3> QED BY <3>1, <3>2, <2>1, <1>4
    <2>3. CASE i # next
      <3>1. tss_list'[i] = Saved[i]
        BY <2>3, <1>8
      <3> QED BY <3>1, <2>1, <1>4
    <2> QED BY <2>2, <2>3
  <1>10. \A i \in Index : tss_list'[i].status = "RUNNING" <=> i = next
    BY <1>1, <1>3, <1>4, <1>8
  <1>11. Placed'
    BY <1>1, <1>2, <1>10 DEF Placed
  <1> QED BY <1>7, <1>9, <1>11 DEF SchedInv

\* An instruction moves eip inside its function and changes the registers; the
\* stack and the interrupt flag stay.
LEMMA ExecuteStep ==
  ASSUME TypeOK, Execute
  PROVE  /\ cpu' \in [eip : Eip, intr : BOOLEAN, regs : Registers, esp : Stacks]
         /\ cpu'.esp = cpu.esp /\ cpu'.intr = cpu.intr
         /\ UNCHANGED <<tss_list, curr_index, curr_task, esp_swap, frame>>
  <1>1. PICK r \in Registers :
          cpu' = [cpu EXCEPT !.eip[2] = (@ + 1) % NrPositions, !.regs = r]
    BY DEF Execute
  <1>2. cpu \in [eip : Eip, intr : BOOLEAN, regs : Registers, esp : Stacks]
    BY DEF TypeOK
  <1>3. PICK c \in Code, k \in 0 .. NrPositions - 1 : cpu.eip = <<c, k>>
    BY <1>2 DEF Eip
  <1>4. (k + 1) % NrPositions \in 0 .. NrPositions - 1
    BY SchedAssumption
  <1>5. [cpu.eip EXCEPT ![2] = (k + 1) % NrPositions] \in Eip
    BY <1>3, <1>4 DEF Eip
  <1>6. cpu' = [cpu EXCEPT !.eip = [cpu.eip EXCEPT ![2] = (k + 1) % NrPositions],
                           !.regs = r]
    BY <1>1, <1>2, <1>3
  <1>7. cpu' \in [eip : Eip, intr : BOOLEAN, regs : Registers, esp : Stacks]
    BY <1>2, <1>5, <1>6
  <1>8. cpu'.esp = cpu.esp /\ cpu'.intr = cpu.intr
    BY <1>2, <1>6
  <1> QED BY <1>7, <1>8 DEF Execute

\* The processor's instructions preserve the invariant.
LEMMA ExecuteInv ==
  ASSUME SchedInv, Execute
  PROVE  SchedInv'
  <1>1. TypeOK'
    BY ExecuteStep DEF SchedInv, TypeOK
  <1>2. Created'
    BY ExecuteStep DEF SchedInv, Created, new_tss
  <1>3. Placed'
    BY ExecuteStep DEF SchedInv, Placed
  <1> QED BY <1>1, <1>2, <1>3 DEF SchedInv

\* The invariant gives what the runs check.
LEMMA SchedInvSound == SchedInv => TasksSound
  BY TasksFit DEF SchedInv, TasksSound, Created, Placed, OneRunning, TypeOK

\* The invariant holds in every state of the scheduler.
LEMMA SchedInvHolds == Spec => []SchedInv
  <1>1. Init => SchedInv
    <2> SUFFICES ASSUME Init
                 PROVE  SchedInv
      OBVIOUS
    <2>1. cpu \in [eip : Eip, intr : BOOLEAN, regs : Registers, esp : Stacks]
      BY TablesTyped, SchedAssumption DEF Init, NoFrame, Frame, Stacks
    <2>2. TypeOK
      BY <2>1, TablesTyped, TasksFit DEF Init, TypeOK, Stacks
    <2> QED BY <2>2, SchedInvInit DEF Init, Fresh
  <1>2. SchedInv /\ [Next]_vars => SchedInv'
    <2> SUFFICES ASSUME SchedInv, [Next]_vars
                 PROVE  SchedInv'
      OBVIOUS
    <2>1. CASE pit_int
      BY <2>1, PitIntInv
    <2>2. CASE Execute
      BY <2>2, ExecuteInv
    <2>3. CASE UNCHANGED vars
      BY <2>3 DEF vars, SchedInv, TypeOK, Created, Placed, new_tss
    <2> QED BY <2>1, <2>2, <2>3 DEF Next
  <1> QED BY <1>1, <1>2, PTL DEF Spec

\* Whatever the number of tasks, in every state exactly the task curr_task
\* points to is RUNNING, and the processor is on its stack.
THEOREM SchedTasksSound == Spec => []TasksSound
  BY SchedInvHolds, SchedInvSound, PTL

-----------------------------------------------------------------------------
(* The registers and the stack are time-shared                             *)

\* What a task sees of its registers and its stack does not change when the
\* timer takes the processor from one task and gives it to another.
LEMMA PitIntKeepsRegs ==
  ASSUME SchedInv, pit_int, NEW i \in 0 .. NrTasks - 1
  PROVE  RegsOf(i)' = RegsOf(i)
  <1> DEFINE next == NextIndex(curr_index)
  <1>1. i \in Index /\ i # NULL /\ i < NrTasks
    BY TasksFit DEF Index
  <1>2. next \in Index /\ curr_index \in Index
    BY NextIndexIs DEF SchedInv, TypeOK
  <1>3. /\ curr_task' = next
        /\ tss_list' = [Saved EXCEPT ![next].status = "RUNNING"]
        /\ cpu'.regs = Saved[next].generic_stack /\ cpu'.esp = next
        /\ Saved[next].kernel_stack = next
    BY PitIntStep
  <1>4. RegsOf(i) = [regs |-> Saved[i].generic_stack, esp |-> Saved[i].kernel_stack]
    <2>1. CASE curr_task = NULL
      BY <2>1, <1>1 DEF RegsOf, Saved
    <2>2. CASE curr_task # NULL /\ i = curr_index
      <3>1. Saved[i].generic_stack = cpu.regs /\ Saved[i].kernel_stack = cpu.esp
        BY <2>2, <1>2 DEF Saved, SchedInv, TypeOK
      <3> QED BY <2>2, <3>1 DEF RegsOf, SchedInv, Placed
    <2>3. CASE curr_task # NULL /\ i # curr_index
      <3>1. Saved[i] = tss_list[i]
        BY <2>3, <1>1 DEF Saved, SchedInv, TypeOK
      <3> QED BY <2>3, <3>1 DEF RegsOf, SchedInv, Placed
    <2> QED BY <2>1, <2>2, <2>3
  <1>5. DOMAIN Saved = Index
    BY DEF Saved, SchedInv, TypeOK
  <1> HIDE DEF next
  <1>6. CASE i = next
    BY <1>3, <1>4, <1>6 DEF RegsOf
  <1>7. CASE i # next
    <2>1. tss_list'[i] = Saved[i]
      BY <1>1, <1>3, <1>5, <1>7
    <2> QED BY <2>1, <1>3, <1>4, <1>7 DEF RegsOf
  <1> QED BY <1>6, <1>7

\* The scheduler implements time sharing of the registers and the stack, but
\* for the fairness.
THEOREM SchedSharesRegisters == Spec => SharedRegs!Safety
  <1> DEFINE context == [i \in 0 .. NrTasks - 1 |-> RegsOf(i)]
  <1>1. Init => SharedRegs!Init
    <2> SUFFICES ASSUME Init
                 PROVE  SharedRegs!Init
      OBVIOUS
    <2>1. ASSUME NEW i \in 0 .. NrTasks - 1
          PROVE  RegsOf(i) = [regs |-> 0, esp |-> i]
      <3>1. i \in Index /\ i # NULL /\ i < NrTasks
        BY TasksFit DEF Index
      <3>2. tss_list[i] = new_tss(i)
        BY <3>1 DEF Init, sched_init
      <3> QED BY <3>1, <3>2 DEF Init, RegsOf, new_tss
    <2> QED BY <2>1 DEF SharedRegs!Init, Init, NULL
  <1>2. SchedInv /\ [Next]_vars => [SharedRegs!Next]_<<curr_task, context>>
    <2> SUFFICES ASSUME SchedInv, [Next]_vars
                 PROVE  [SharedRegs!Next]_<<curr_task, context>>
      OBVIOUS
    <2>1. CASE pit_int
      <3>1. context' = context
        BY <2>1, PitIntKeepsRegs
      <3>2. curr_task' = NextIndex(curr_index)
        BY <2>1, PitIntStep
      <3>3. curr_task' = IF curr_index + 1 < NrTasks THEN curr_index + 1 ELSE 0
        BY <3>2, NextIndexIs
      <3>4. curr_index \in Int /\ 0 <= curr_index /\ curr_index < NrTasks
        BY TasksFit DEF SchedInv, TypeOK, Placed
      <3>5. curr_task' = (curr_index + 1) % NrTasks
        <4>1. CASE curr_index + 1 < NrTasks
          BY <4>1, <3>3, <3>4, TasksFit
        <4>2. CASE ~ (curr_index + 1 < NrTasks)
          <5>1. curr_index + 1 = NrTasks
            BY <4>2, <3>4, TasksFit
          <5>2. NrTasks % NrTasks = 0
            BY TasksFit
          <5> QED BY <5>1, <5>2, <4>2, <3>3
        <4> QED BY <4>1, <4>2
      <3>6. curr_task' = IF curr_task = -1 THEN 1 % NrTasks ELSE (curr_task + 1) % NrTasks
        BY <3>5 DEF SchedInv, Placed, NULL
      <3> QED BY <3>1, <3>6 DEF SharedRegs!Next, SharedRegs!Pass
    <2>2. CASE Execute
      <3>1. /\ UNCHANGED <<tss_list, curr_task>>
            /\ cpu' \in [eip : Eip, intr : BOOLEAN, regs : Registers, esp : Stacks]
        BY <2>2, ExecuteStep DEF SchedInv
      <3>2. \A i \in 0 .. NrTasks - 1 : i # curr_task => RegsOf(i)' = RegsOf(i)
        BY <3>1 DEF RegsOf
      <3>3. CASE curr_task = NULL
        <4>1. \A i \in 0 .. NrTasks - 1 : RegsOf(i)' = RegsOf(i)
          BY <3>2, <3>3, TasksFit DEF NULL
        <4> QED BY <4>1, <3>1
      <3>4. CASE curr_task # NULL
        <4> DEFINE c == [regs |-> cpu'.regs, esp |-> cpu'.esp]
        <4>1. c \in [regs : Registers, esp : Stacks]
          BY <3>1
        <4>2. curr_task \in 0 .. NrTasks - 1
          BY <3>4, TasksFit DEF SchedInv, Placed, TypeOK
        <4>3. RegsOf(curr_task)' = c
          BY <3>1 DEF RegsOf
        <4> HIDE DEF c
        <4>4. context' = [context EXCEPT ![curr_task] = c]
          BY <3>1, <3>2, <4>2, <4>3
        <4>5. \E d \in [regs : Registers, esp : Stacks] :
                 context' = [context EXCEPT ![curr_task] = d]
          BY <4>1, <4>4, Zenon
        <4>6. SharedRegs!Execute
          BY <4>5, <3>1, <3>4, Zenon DEF SharedRegs!Execute, NULL
        <4> QED BY <4>6 DEF SharedRegs!Next
      <3> QED BY <3>3, <3>4
    <2>3. CASE UNCHANGED vars
      <3>1. \A i \in 0 .. NrTasks - 1 : RegsOf(i)' = RegsOf(i)
        BY <2>3 DEF vars, RegsOf
      <3> QED BY <2>3, <3>1 DEF vars
    <2> QED BY <2>1, <2>2, <2>3 DEF Next
  <1> QED BY <1>1, <1>2, SchedInvHolds, PTL DEF Spec, SharedRegs!Safety

-----------------------------------------------------------------------------
(* One task                                                                *)

\* With the one task that sched_init creates, do_sched gives back the whole
\* context.
LEMMA OneTaskResumes ==
  ASSUME NrTasks = 1, SchedInv, pit_int
  PROVE  cpu' = ContextOf(curr_task')
  <1>1. NextIndex(curr_index) = 0 /\ curr_index = 0
    BY NextIndexIs DEF SchedInv, Placed, TypeOK, Index
  <1>2. /\ curr_task' = 0
        /\ Saved[0].status \in {"NEW", "RUNNABLE"}
        /\ Saved[0].kernel_stack = 0
        /\ cpu' = [eip |-> frame'[0].eip, intr |-> frame'[0].intr,
                   regs |-> Saved[0].generic_stack, esp |-> 0]
        /\ Saved[0].status = "NEW" \/ 0 = curr_task =>
              frame'[0] = Saved[0].int_stack
    BY <1>1, PitIntStep
  <1>3. CASE curr_task = NULL
    <2>1. Saved = tss_list /\ tss_list[0].status \in {"NEW", "UNUSED"}
      BY <1>3, TasksFit DEF Saved, SchedInv, Placed
    <2>2. frame'[0] = tss_list[0].int_stack
      BY <2>1, <1>2
    <2> QED BY <2>1, <2>2, <1>2, <1>3 DEF ContextOf, NULL
  <1>4. CASE curr_task # NULL
    <2>1. curr_task = 0 /\ cpu.esp = 0
      BY <1>1, <1>4 DEF SchedInv, Placed
    <2>2. /\ Saved[0].int_stack = [eip |-> cpu.eip, intr |-> cpu.intr]
          /\ Saved[0].generic_stack = cpu.regs
      BY <1>1, <1>4, TasksFit DEF Saved, SchedInv, TypeOK
    <2>3. cpu' = [eip |-> cpu.eip, intr |-> cpu.intr, regs |-> cpu.regs, esp |-> cpu.esp]
      BY <2>1, <2>2, <1>2
    <2>4. cpu' = cpu
      BY <2>3 DEF SchedInv, TypeOK
    <2> QED BY <2>1, <2>4, <1>2 DEF ContextOf
  <1> QED BY <1>3, <1>4

\* The scheduler brings back what was left, if there is one task.
THEOREM OneTaskAlwaysResumes ==
  ASSUME NrTasks = 1
  PROVE  Spec => TaskResumes
  <1>1. SchedInv /\ [Next]_vars =>
           [pit_int => cpu' = ContextOf(curr_task')]_vars
    BY OneTaskResumes
  <1> QED BY <1>1, SchedInvHolds, PTL DEF Spec, TaskResumes


-----------------------------------------------------------------------------
(* The kernel: its inductive invariant                                     *)

\* The steps of kmain before sched_init.
Early == {"check_cpu", "arch_init", "block_init", "serial_init", "pit_init",
          "sched_init"}

Stages == Early \cup {"unlock_kernel", "running", "panic"}

IrqTypeOK ==
    /\ stage \in Stages
    /\ next_pin \in Pins
    /\ block \in BOOLEAN
    /\ idt \in [Vectors -> Handlers]
    /\ redir \in [Pins -> Vectors \cup {Masked}]
    /\ irr \subseteq Vectors
    /\ conflict \in BOOLEAN

\* The scheduler before sched_init: no task, and the boot stack.
Blank ==
    /\ tss_list = [i \in Index |-> UnusedTss]
    /\ curr_index = 0
    /\ curr_task = NULL
    /\ cpu.esp = Boot

\* kmain calls sched_init before it turns interrupts on, a panic may come
\* before and after, and interrupts are on in no other stage than the last.
LaunchInOrder ==
    /\ TypeOK
    /\ stage \in Early => Blank
    /\ stage \in {"unlock_kernel", "running"} => SchedInv
    /\ Blank \/ SchedInv
    /\ cpu.intr => stage = "running"

Served == {"pit_int", "ata_int"}

\* A pin that is not masked sends an exception's vector or one whose gate has
\* been set, and so was every pending vector; no pin is enabled and nothing is
\* pending before arch_init writes the whole IDT.
Routed ==
    /\ stage \in {"check_cpu", "arch_init"} =>
          /\ \A p \in Pins : redir[p] = Masked
          /\ irr = {}
    /\ \A p \in Pins : redir[p] # Masked =>
          redir[p] <= 14 \/ idt[redir[p]] \in Served
    /\ \A v \in irr : (v <= 14 /\ conflict) \/ idt[v] \in Served

\* Without block_init no gate leads to do_ata_int, and every vector that was
\* served has been acknowledged.
NothingHeldBack ==
    ~ block => /\ stage # "block_init"
               /\ \A v \in Vectors : idt[v] # "ata_int"
               /\ stage # "panic" => isr = {}

KernelInv ==
    /\ IrqTypeOK
    /\ LaunchInOrder
    /\ Routed
    /\ NothingHeldBack
    /\ PanicHasCause

-----------------------------------------------------------------------------
(* Initial states                                                          *)

\* kmain starts with no task, all pins masked and interrupts off.
LEMMA KernelInvInit == KernelInit => KernelInv
  <1> SUFFICES ASSUME KernelInit
               PROVE  KernelInv
    OBVIOUS
  <1> USE DEF KernelInit, IrqInit
  <1>1. IrqTypeOK
    <2>1. block \in BOOLEAN
      BY IrqAssumption
    <2>2. stage \in Stages /\ next_pin \in Pins /\ irr \subseteq Vectors
      BY IrqAssumption DEF Stages, Early, Pins, SCND_CHNN_IRQ
    <2>3. conflict \in BOOLEAN
      OBVIOUS
    <2>4. idt \in [Vectors -> Handlers] /\ redir \in [Pins -> Vectors \cup {Masked}]
      BY DEF Handlers
    <2> QED BY <2>1, <2>2, <2>3, <2>4 DEF IrqTypeOK
  <1>2. cpu \in [eip : Eip, intr : BOOLEAN, regs : Registers, esp : Stacks]
    BY TablesTyped, SchedAssumption DEF NoFrame, Frame, Stacks
  <1>3. TypeOK
    BY <1>2, TablesTyped, TasksFit DEF TypeOK, Stacks
  <1>4. LaunchInOrder
    BY <1>3 DEF LaunchInOrder, Blank
  <1>5. Routed
    BY DEF Routed
  <1>6. NothingHeldBack
    BY DEF NothingHeldBack
  <1>7. PanicHasCause
    BY DEF PanicHasCause
  <1> QED BY <1>1, <1>4, <1>5, <1>6, <1>7 DEF KernelInv

-----------------------------------------------------------------------------
(* One lemma per step of the kernel                                        *)

\* What the invariant says of the scheduler depends on its variables and on
\* the stage only.
LEMMA SchedUnchanged ==
  ASSUME UNCHANGED vars
  PROVE  /\ TypeOK' = TypeOK /\ SchedInv' = SchedInv /\ Blank' = Blank
         /\ cpu' = cpu
  <1>1. cpu' = cpu /\ tss_list' = tss_list /\ curr_index' = curr_index
        /\ curr_task' = curr_task /\ frame' = frame /\ esp_swap' = esp_swap
    BY DEF vars
  <1>2. TypeOK' = TypeOK
    BY <1>1 DEF TypeOK
  <1>3. Created' = Created
    BY <1>1 DEF Created, new_tss
  <1>4. Placed' = Placed
    BY <1>1 DEF Placed
  <1>5. Blank' = Blank
    BY <1>1 DEF Blank
  <1> QED BY <1>1, <1>2, <1>3, <1>4, <1>5 DEF SchedInv

\* check_cpu: the boot goes on, or ends in a panic.
LEMMA CheckCpuInv ==
  ASSUME KernelInv, UNCHANGED vars, check_cpu
  PROVE  KernelInv'
  <1> USE DEF check_cpu, Goto
  <1>1. stage = "check_cpu" /\ stage' \in {"arch_init", "panic"}
    OBVIOUS
  <1>2. UNCHANGED <<next_pin, features, block, idt, redir, irr, isr, conflict>>
    OBVIOUS
  <1>3. stage' = "panic" => ~ (Mandatory \subseteq features)
    OBVIOUS
  <1> USE DEF KernelInv
  <1>4. IrqTypeOK'
    BY <1>1, <1>2 DEF IrqTypeOK, Stages, Early
  <1>5. LaunchInOrder'
    BY <1>1, SchedUnchanged DEF LaunchInOrder, Early
  <1>6. Routed'
    BY <1>1, <1>2 DEF Routed
  <1>7. NothingHeldBack'
    BY <1>1, <1>2 DEF NothingHeldBack
  <1>8. PanicHasCause'
    BY <1>2, <1>3 DEF PanicHasCause, Mandatory
  <1> QED BY <1>4, <1>5, <1>6, <1>7, <1>8

\* A step of kmain that goes on to another stage before sched_init, keeps
\* every gate that leads to a device's handler and enables pins only for
\* exceptions' vectors and for those with such a gate.
LEMMA SetupInv ==
  ASSUME KernelInv, UNCHANGED vars,
         stage \in Early, stage' \in Early \ {"check_cpu", "arch_init"},
         UNCHANGED <<block, irr, isr, conflict, features>>,
         next_pin' \in Pins,
         idt' \in [Vectors -> Handlers],
         redir' \in [Pins -> Vectors \cup {Masked}],
         irr = {} \/ \A v \in Vectors : idt[v] \in Served => idt'[v] \in Served,
         \A p \in Pins : redir'[p] # Masked =>
             redir'[p] <= 14 \/ idt'[redir'[p]] \in Served,
         ~ block => /\ stage' # "block_init"
                    /\ \A v \in Vectors : idt'[v] # "ata_int"
  PROVE  KernelInv'
  <1> USE DEF KernelInv
  <1>1. IrqTypeOK'
    BY DEF IrqTypeOK, Stages
  <1>2. LaunchInOrder'
    BY SchedUnchanged DEF LaunchInOrder, Early
  <1>3. \A v \in irr : (v <= 14 /\ conflict) \/ idt'[v] \in Served
    BY DEF Routed, IrqTypeOK
  <1>4. Routed'
    BY <1>3 DEF Routed, Early
  <1>5. NothingHeldBack'
    BY DEF NothingHeldBack, Early
  <1>6. PanicHasCause'
    BY DEF PanicHasCause, Early
  <1> QED BY <1>1, <1>2, <1>4, <1>5, <1>6

\* The vectors and pins the drivers use are there.
LEMMA Wired == /\ PIT_PIN \in Pins /\ PRIM_CHNN_IRQ \in Pins /\ SCND_CHNN_IRQ \in Pins
               /\ PIT_VECTOR \in Vectors /\ PRIM_CHNN_VEC \in Vectors
               /\ SCND_CHNN_VEC \in Vectors
               /\ 0 .. 14 \subseteq Vectors
               /\ \A v \in Vectors : v # Masked /\ v \in Int
               /\ Masked \notin Vectors
  BY IrqAssumption DEF Pins, Vectors, PIT_PIN, PRIM_CHNN_IRQ, SCND_CHNN_IRQ, PIT_VECTOR,
     PRIM_CHNN_VEC, SCND_CHNN_VEC, Masked

\* arch_init writes the whole IDT; nothing is enabled and nothing pending.
LEMMA ArchInitInv ==
  ASSUME KernelInv, UNCHANGED vars, arch_init
  PROVE  KernelInv'
  <1> USE DEF arch_init, Goto, KernelInv
  <1>1. stage \in Early /\ stage' \in Early \ {"check_cpu", "arch_init"}
    BY DEF Early
  <1>2. UNCHANGED <<next_pin, features, block, redir, irr, isr, conflict>>
    OBVIOUS
  <1>3. /\ idt' \in [Vectors -> Handlers] /\ \A v \in Vectors : idt'[v] # "ata_int"
        /\ ~ block => stage' # "block_init"
    BY DEF Handlers
  <1>4. (\A p \in Pins : redir[p] = Masked) /\ irr = {}
    BY DEF Routed
  <1>5. next_pin' \in Pins /\ redir' \in [Pins -> Vectors \cup {Masked}]
    BY <1>2 DEF IrqTypeOK
  <1> QED BY <1>1, <1>2, <1>3, <1>4, <1>5, SetupInv

\* block_init sets the gates of the channels that have a drive before it
\* enables their pins.
LEMMA BlockInitInv ==
  ASSUME KernelInv, UNCHANGED vars, block_init
  PROVE  KernelInv'
  <1> USE DEF KernelInv
  <1>1. PICK found \in SUBSET {PRIM_CHNN_IRQ, SCND_CHNN_IRQ} :
          LET vector == [p \in found |->
                            IF p = PRIM_CHNN_IRQ THEN PRIM_CHNN_VEC ELSE SCND_CHNN_VEC]
          IN  /\ set_gates({vector[p] : p \in found}, "ata_int")
              /\ ioapic_enable(vector)
    BY DEF block_init
  <1> DEFINE vector == [p \in found |->
                           IF p = PRIM_CHNN_IRQ THEN PRIM_CHNN_VEC ELSE SCND_CHNN_VEC]
  <1>2. stage = "block_init" /\ stage' = "serial_init" /\ block
    BY DEF block_init, Goto, NothingHeldBack, IrqTypeOK
  <1>3. UNCHANGED <<next_pin, features, block, irr, isr, conflict>>
    BY DEF block_init
  <1>4. /\ DOMAIN vector = found
        /\ \A p \in found : vector[p] \in Vectors
    BY Wired
  <1>5. idt' = [v \in Vectors |-> IF v \in {vector[p] : p \in found} THEN "ata_int" ELSE idt[v]]
    BY <1>1 DEF set_gates
  <1>6. redir' = [p \in Pins |-> IF p \in found THEN vector[p] ELSE redir[p]]
    BY <1>1, <1>4 DEF ioapic_enable
  <1> HIDE DEF vector
  <1>7. idt' \in [Vectors -> Handlers] /\ redir' \in [Pins -> Vectors \cup {Masked}]
    BY <1>4, <1>5, <1>6 DEF IrqTypeOK, Handlers
  <1>8. \A v \in Vectors : idt[v] \in Served => idt'[v] \in Served
    BY <1>5 DEF Served
  <1>9. ASSUME NEW p \in Pins, redir'[p] # Masked
        PROVE  redir'[p] <= 14 \/ idt'[redir'[p]] \in Served
    <2>1. CASE p \in found
      <3>1. redir'[p] = vector[p] /\ vector[p] \in Vectors
        BY <2>1, <1>4, <1>6
      <3>2. idt'[vector[p]] = "ata_int"
        BY <2>1, <3>1, <1>5
      <3> QED BY <3>1, <3>2 DEF Served
    <2>2. CASE p \notin found
      <3>1. redir'[p] = redir[p] /\ redir[p] \in Vectors
        BY <2>2, <1>6, <1>9 DEF IrqTypeOK
      <3> QED BY <3>1, <1>8, <1>9 DEF Routed
    <2> QED BY <2>1, <2>2
  <1>10. stage \in Early /\ stage' \in Early \ {"check_cpu", "arch_init"} /\ next_pin' \in Pins
    BY <1>2, <1>3 DEF Early, IrqTypeOK
  <1> QED BY <1>2, <1>3, <1>7, <1>8, <1>9, <1>10, SetupInv

\* A round of serial_init's loop enables a pin with an exception's vector.
LEMMA SerialInitInv ==
  ASSUME KernelInv, UNCHANGED vars, serial_init
  PROVE  KernelInv'
  <1> USE DEF KernelInv
  <1>1. /\ stage \in Early /\ stage' \in Early \ {"check_cpu", "arch_init"}
        /\ stage' # "block_init"
    BY DEF serial_init, Goto, Early
  <1>2. UNCHANGED <<features, block, idt, irr, isr, conflict>>
    BY DEF serial_init
  <1>3. next_pin \in Pins /\ next_pin' \in Pins /\ next_pin % 14 \in 0 .. 14
    BY IrqAssumption DEF serial_init, IrqTypeOK, Pins
  <1>4. redir' = [p \in Pins |-> IF p = next_pin THEN next_pin % 14 ELSE redir[p]]
    BY DEF serial_init, ioapic_enable
  <1>5. redir' \in [Pins -> Vectors \cup {Masked}]
    BY <1>3, <1>4, Wired DEF IrqTypeOK
  <1>6. ASSUME NEW p \in Pins, redir'[p] # Masked
        PROVE  redir'[p] <= 14 \/ idt'[redir'[p]] \in Served
    <2>1. CASE p = next_pin
      BY <2>1, <1>3, <1>4
    <2>2. CASE p # next_pin
      <3>1. redir'[p] = redir[p] /\ idt' = idt
        BY <2>2, <1>2, <1>4
      <3> QED BY <3>1, <1>6 DEF Routed
    <2> QED BY <2>1, <2>2
  <1>7. idt' \in [Vectors -> Handlers] /\ (~ block => \A v \in Vectors : idt'[v] # "ata_int")
    BY <1>2 DEF IrqTypeOK, NothingHeldBack
  <1> QED BY <1>1, <1>2, <1>3, <1>5, <1>6, <1>7, SetupInv

\* pit_init sets the timer's gate before it enables the timer's pin.
LEMMA PitInitInv ==
  ASSUME KernelInv, UNCHANGED vars, pit_init
  PROVE  KernelInv'
  <1> USE DEF KernelInv
  <1>1. /\ stage \in Early /\ stage' \in Early \ {"check_cpu", "arch_init"}
        /\ stage' # "block_init"
    BY DEF pit_init, Goto, Early
  <1>2. UNCHANGED <<next_pin, features, block, irr, isr, conflict>>
    BY DEF pit_init
  <1>3. /\ idt' = [v \in Vectors |-> IF v = PIT_VECTOR THEN "pit_int" ELSE idt[v]]
        /\ redir' = [p \in Pins |-> IF p = PIT_PIN THEN PIT_VECTOR ELSE redir[p]]
    BY DEF pit_init, set_gates, ioapic_enable
  <1>4. idt' \in [Vectors -> Handlers] /\ redir' \in [Pins -> Vectors \cup {Masked}]
    BY <1>3, Wired DEF IrqTypeOK, Handlers
  <1>5. \A v \in Vectors : idt[v] \in Served => idt'[v] \in Served
    BY <1>3 DEF Served
  <1>6. ASSUME NEW p \in Pins, redir'[p] # Masked
        PROVE  redir'[p] <= 14 \/ idt'[redir'[p]] \in Served
    <2>1. CASE p = PIT_PIN
      BY <2>1, <1>3, Wired DEF Served
    <2>2. CASE p # PIT_PIN
      <3>1. redir'[p] = redir[p] /\ redir[p] \in Vectors
        BY <2>2, <1>3, <1>6 DEF IrqTypeOK
      <3> QED BY <3>1, <1>5, <1>6 DEF Routed
    <2> QED BY <2>1, <2>2
  <1>7. ~ block => \A v \in Vectors : idt'[v] # "ata_int"
    BY <1>3 DEF NothingHeldBack
  <1>8. next_pin' \in Pins
    BY <1>2 DEF IrqTypeOK
  <1> QED BY <1>1, <1>2, <1>4, <1>5, <1>6, <1>7, <1>8, SetupInv

\* The interrupt flag is no part of the scheduler's invariant.
LEMMA FlagInv ==
  ASSUME SchedInv, NEW b \in BOOLEAN, cpu' = [cpu EXCEPT !.intr = b],
         UNCHANGED <<tss_list, curr_index, curr_task, esp_swap, frame>>
  PROVE  SchedInv'
  <1>1. /\ cpu' \in [eip : Eip, intr : BOOLEAN, regs : Registers, esp : Stacks]
        /\ cpu'.esp = cpu.esp
    BY DEF SchedInv, TypeOK
  <1>2. TypeOK'
    BY <1>1 DEF SchedInv, TypeOK
  <1>3. Created'
    BY DEF SchedInv, Created, new_tss
  <1>4. Placed'
    BY <1>1 DEF SchedInv, Placed
  <1> QED BY <1>2, <1>3, <1>4 DEF SchedInv

\* A step between two stages before a panic that leaves the interrupt routing
\* alone keeps what the invariant says of it.
LEMMA IrqUnchanged ==
  ASSUME KernelInv, LaunchInOrder',
         UNCHANGED <<next_pin, features, block, idt, redir, irr, isr, conflict>>,
         stage \notin {"check_cpu", "arch_init", "panic"},
         stage' \in {"unlock_kernel", "running"}
  PROVE  KernelInv'
  <1> USE DEF KernelInv
  <1>1. IrqTypeOK'
    BY DEF IrqTypeOK, Stages
  <1>2. Routed'
    BY DEF Routed
  <1>3. NothingHeldBack'
    BY DEF NothingHeldBack
  <1>4. PanicHasCause'
    BY DEF PanicHasCause
  <1> QED BY <1>1, <1>2, <1>3, <1>4

\* sched_init and unlock_kernel.
LEMMA LaunchInv ==
  ASSUME KernelInv, Launch,
         UNCHANGED <<curr_index, curr_task, esp_swap, frame, jeffies,
                     next_pin, features, block, idt, redir, irr, isr, conflict>>
  PROVE  KernelInv'
  <1> USE DEF KernelInv
  <1>1. CASE Goto("sched_init", "unlock_kernel") /\ tss_list' = sched_init /\ UNCHANGED cpu
    <2>1. Blank /\ TypeOK /\ ~ cpu.intr
      BY <1>1 DEF LaunchInOrder, Goto, Early
    <2>2. TypeOK'
      BY <1>1, <2>1, TablesTyped DEF TypeOK
    <2>3. SchedInv'
      <3>1. tss_list' = sched_init /\ curr_index' = 0 /\ curr_task' = NULL /\ cpu'.esp = Boot
        BY <1>1, <2>1 DEF Blank
      <3>2. sched_init' = sched_init
        BY DEF sched_init, new_tss
      <3>3. Fresh'
        BY <3>1, <3>2, <2>2 DEF Fresh
      <3>4. (Fresh => SchedInv)'
        BY SchedInvInit, PTL
      <3> QED BY <3>3, <3>4
    <2>4. LaunchInOrder'
      BY <1>1, <2>1, <2>2, <2>3 DEF LaunchInOrder, Goto, Early
    <2>5. stage = "sched_init" /\ stage' = "unlock_kernel"
      BY <1>1 DEF Goto
    <2> QED BY <2>4, <2>5, IrqUnchanged
  <1>2. CASE /\ Goto("unlock_kernel", "running") /\ cpu' = [cpu EXCEPT !.intr = TRUE]
             /\ UNCHANGED tss_list
    <2>1. stage = "unlock_kernel" /\ stage' = "running"
      BY <1>2 DEF Goto
    <2>2. SchedInv'
      BY <1>2, <2>1, FlagInv DEF LaunchInOrder
    <2>3. LaunchInOrder'
      BY <2>1, <2>2 DEF LaunchInOrder, Early, SchedInv
    <2> QED BY <2>1, <2>3, IrqUnchanged
  <1> QED BY <1>1, <1>2 DEF Launch

\* A pin that is raised sends a vector that has a gate, or leaves a conflict.
LEMMA DeviceInv ==
  ASSUME KernelInv, NEW p \in RaisingPins, device(p)
  PROVE  KernelInv'
  <1> USE DEF KernelInv
  <1>1. UNCHANGED vars /\ redir[p] # Masked /\ p \in Pins
    BY IrqAssumption DEF device, raise, Pins
  <1>2. UNCHANGED <<stage, next_pin, features, block, idt, redir, isr>>
    BY DEF device, raise
  <1>3. LaunchInOrder'
    BY <1>1, <1>2, SchedUnchanged DEF LaunchInOrder
  <1>4. stage \notin {"check_cpu", "arch_init"}
    BY <1>1 DEF Routed
  <1>5. redir[p] \in Vectors
    BY <1>1 DEF IrqTypeOK
  <1>6. CASE irr' = irr \cup {redir[p]} /\ conflict' = (conflict \/ redir[p] <= 14)
    <2>1. IrqTypeOK'
      <3>1. conflict' \in BOOLEAN
        BY <1>6
      <3> QED BY <3>1, <1>2, <1>5, <1>6 DEF IrqTypeOK
    <2>2. /\ conflict => conflict'
          /\ redir[p] <= 14 => conflict'
      BY <1>6
    <2>3. \A v \in irr' : (v <= 14 /\ conflict') \/ idt[v] \in Served
      BY <1>1, <1>6, <2>2 DEF Routed
    <2>4. Routed'
      BY <1>2, <1>4, <2>3 DEF Routed
    <2>5. NothingHeldBack'
      BY <1>2 DEF NothingHeldBack
    <2>6. PanicHasCause'
      BY <1>2, <2>2 DEF PanicHasCause, Mandatory
    <2> QED BY <1>3, <2>1, <2>4, <2>5, <2>6
  <1>7. CASE UNCHANGED <<irr, conflict>>
    <2>1. IrqTypeOK' /\ Routed' /\ NothingHeldBack' /\ PanicHasCause'
      BY <1>2, <1>7 DEF IrqTypeOK, Routed, NothingHeldBack, PanicHasCause, Mandatory
    <2> QED BY <1>3, <2>1
  <1> QED BY <1>6, <1>7 DEF device, raise

\* An instruction touches neither the routing nor the stage.
LEMMA KernelExecuteInv ==
  ASSUME KernelInv, execute
  PROVE  KernelInv'
  <1> USE DEF KernelInv
  <1>1. stage = "running" /\ Execute /\ SchedInv
    BY DEF execute, LaunchInOrder
  <1>2. UNCHANGED irqVars
    BY DEF execute
  <1>3. SchedInv'
    BY <1>1, ExecuteInv
  <1>4. LaunchInOrder'
    BY <1>1, <1>2, <1>3 DEF irqVars, LaunchInOrder, Early, SchedInv
  <1> QED BY <1>1, <1>2, <1>4, IrqUnchanged DEF irqVars

\* The EOI of the only vector being served leaves none.
LEMMA EoiOfOne == eoi_apic({} \cup {PIT_VECTOR}) = {}
  <1>1. Max({PIT_VECTOR}) = PIT_VECTOR
    BY DEF Max, PIT_VECTOR
  <1> QED BY <1>1 DEF eoi_apic

\* An interrupt whose gate leads to a driver returns; any other one is an
\* exception's vector that a pin was directed to, and ends in a panic with
\* interrupts off.
LEMMA InterruptInv ==
  ASSUME KernelInv, interrupt
  PROVE  KernelInv'
  <1> USE DEF KernelInv
  <1>1. PICK v \in Deliverable :
          /\ cpu.intr
          /\ irr' = irr \ {v}
          /\ CASE idt[v] = "pit_int" -> do_pit_int
               [] idt[v] = "ata_int" -> do_ata_int(v)
               [] OTHER -> panic(v)
          /\ UNCHANGED <<next_pin, features, block, idt, redir, conflict>>
    BY DEF interrupt
  <1>2. stage = "running" /\ SchedInv /\ v \in irr /\ v \in Vectors
    BY <1>1 DEF LaunchInOrder, Deliverable, IrqTypeOK
  <1>3. Routed' /\ irr' \subseteq Vectors
    <2>1. stage' \in {"running", "panic"}
      BY <1>1, <1>2 DEF do_pit_int, do_ata_int, panic
    <2> QED BY <1>1, <1>2, <2>1 DEF Routed, IrqTypeOK
  <1>4. CASE idt[v] = "pit_int"
    <2>1. do_pit_int
      BY <1>1, <1>4
    <2>2. stage' = "running" /\ SchedInv'
      BY <1>2, <2>1, PitIntInv DEF do_pit_int
    <2>3. LaunchInOrder'
      BY <2>2 DEF LaunchInOrder, Early, SchedInv
    <2>4. IrqTypeOK'
      BY <1>1, <1>3, <2>2 DEF IrqTypeOK, Stages
    <2>5. NothingHeldBack'
      <3>1. ~ block => isr' = {}
        BY <1>2, <2>1, EoiOfOne DEF do_pit_int, NothingHeldBack
      <3> QED BY <1>1, <2>2, <3>1 DEF NothingHeldBack
    <2>6. PanicHasCause'
      BY <2>2 DEF PanicHasCause
    <2> QED BY <1>3, <2>3, <2>4, <2>5, <2>6
  <1>5. CASE idt[v] = "ata_int"
    <2>1. do_ata_int(v)
      BY <1>1, <1>5
    <2>2. stage' = stage /\ UNCHANGED vars
      BY <2>1 DEF do_ata_int
    <2>3. LaunchInOrder'
      BY <2>2, SchedUnchanged DEF LaunchInOrder
    <2>4. IrqTypeOK'
      BY <1>1, <1>3, <2>2 DEF IrqTypeOK
    <2>5. NothingHeldBack'
      BY <1>1, <1>2, <1>5 DEF NothingHeldBack
    <2>6. PanicHasCause'
      BY <1>2, <2>2 DEF PanicHasCause
    <2> QED BY <1>3, <2>3, <2>4, <2>5, <2>6
  <1>6. CASE idt[v] \notin Served
    <2>1. panic(v)
      BY <1>1, <1>6 DEF Served
    <2>2. conflict'
      BY <1>1, <1>2, <1>6 DEF Routed
    <2>3. stage' = "panic" /\ cpu' = [cpu EXCEPT !.intr = FALSE]
      BY <2>1 DEF panic
    <2>4. SchedInv'
      BY <1>2, <2>1, FlagInv DEF panic
    <2>5. ~ cpu'.intr
      BY <1>2, <2>3 DEF SchedInv, TypeOK
    <2>6. LaunchInOrder'
      BY <2>3, <2>4, <2>5 DEF LaunchInOrder, Early, SchedInv
    <2>7. IrqTypeOK'
      BY <1>1, <1>3, <2>3 DEF IrqTypeOK, Stages
    <2>8. NothingHeldBack'
      BY <1>1, <2>3 DEF NothingHeldBack
    <2>9. PanicHasCause'
      BY <2>2 DEF PanicHasCause
    <2> QED BY <1>3, <2>6, <2>7, <2>8, <2>9
  <1> QED BY <1>4, <1>5, <1>6 DEF Served

\* The invariant is inductive.
LEMMA KernelInvNext == KernelInv /\ [KernelNext]_kernelVars => KernelInv'
  <1> SUFFICES ASSUME KernelInv, [KernelNext]_kernelVars
               PROVE  KernelInv'
    OBVIOUS
  <1>1. CASE kmain
    BY <1>1, CheckCpuInv, ArchInitInv, BlockInitInv, SerialInitInv, PitInitInv, LaunchInv
       DEF kmain
  <1>2. CASE execute
    BY <1>2, KernelExecuteInv
  <1>3. CASE \E p \in RaisingPins : device(p)
    BY <1>3, DeviceInv
  <1>4. CASE interrupt
    BY <1>4, InterruptInv
  <1>5. CASE UNCHANGED kernelVars
    <2>1. UNCHANGED vars /\ UNCHANGED irqVars
      BY <1>5 DEF kernelVars
    <2>2. LaunchInOrder'
      BY <2>1, SchedUnchanged DEF irqVars, LaunchInOrder, KernelInv
    <2>3. IrqTypeOK' /\ Routed' /\ NothingHeldBack' /\ PanicHasCause'
      BY <2>1 DEF irqVars, KernelInv, IrqTypeOK, Routed, NothingHeldBack, PanicHasCause, Mandatory
    <2> QED BY <2>2, <2>3 DEF KernelInv
  <1> QED BY <1>1, <1>2, <1>3, <1>4, <1>5 DEF KernelNext, halted

\* The invariant holds from the first instruction of kmain on.
LEMMA KernelInvHolds == KernelSpec => []KernelInv
  BY KernelInvInit, KernelInvNext, PTL DEF KernelSpec

-----------------------------------------------------------------------------
(* The theorems                                                            *)

\* Booting or running, the task table and the processor agree on who runs:
\* the timer interrupt never finds the table without the tasks sched_init
\* creates, whatever the devices do.
THEOREM KernelTasksSound == KernelSpec => []TasksSound
  <1>1. Blank /\ TypeOK => TasksSound
    BY DEF Blank, TasksSound, OneRunning
  <1>2. KernelInv => TasksSound
    BY <1>1, SchedInvSound DEF KernelInv, LaunchInOrder
  <1> QED BY <1>2, KernelInvHolds, PTL

\* The kernel panics only on a CPU that check_cpu refuses or for a pin that
\* was raised while serial_init had it directed to an exception's vector.
THEOREM KernelPanicHasCause == KernelSpec => []PanicHasCause
  <1>1. KernelInv => PanicHasCause
    BY DEF KernelInv
  <1> QED BY <1>1, KernelInvHolds, PTL

\* After a panic no step of the kernel changes the stage, the scheduler or the
\* tick count.
THEOREM KernelPanicIsFinal == KernelSpec => PanicIsFinal
  <1>1. KernelInv /\ [KernelNext]_kernelVars =>
           [stage = "panic" => UNCHANGED <<stage, vars, jeffies>>]_kernelVars
    <2> SUFFICES ASSUME KernelInv, KernelNext, stage = "panic"
                 PROVE  UNCHANGED <<stage, vars, jeffies>>
      OBVIOUS
    <2>1. ~ cpu.intr
      BY DEF KernelInv, LaunchInOrder
    <2>2. ~ kmain
      BY DEF kmain, Launch, check_cpu, arch_init, block_init, serial_init, pit_init, Goto
    <2>3. ~ execute /\ ~ interrupt
      BY <2>1 DEF execute, interrupt
    <2>4. ASSUME NEW p \in RaisingPins, device(p)
          PROVE  UNCHANGED <<stage, vars, jeffies>>
      BY <2>4 DEF device, raise
    <2>5. CASE halted
      BY <2>5 DEF halted, kernelVars, irqVars
    <2> QED BY <2>2, <2>3, <2>4, <2>5 DEF KernelNext
  <1> QED BY <1>1, KernelInvHolds, PTL DEF KernelSpec, PanicIsFinal

\* With the one task sched_init creates, whatever interrupts come in between,
\* a timer interrupt gives back exactly the context that was left.
THEOREM KernelTaskResumes ==
  ASSUME NrTasks = 1
  PROVE  KernelSpec => TaskResumes
  <1>1. KernelInv /\ [KernelNext]_kernelVars =>
           [pit_int => cpu' = ContextOf(curr_task')]_vars
    <2> SUFFICES ASSUME KernelInv, [KernelNext]_kernelVars, pit_int
                 PROVE  cpu' = ContextOf(curr_task') \/ UNCHANGED vars
      OBVIOUS
    <2>1. cpu.intr
      BY DEF pit_int
    <2>2. SchedInv
      BY <2>1 DEF KernelInv, LaunchInOrder
    <2> QED BY <2>2, OneTaskResumes
  <1> QED BY <1>1, KernelInvHolds, PTL DEF KernelSpec, TaskResumes

\* Without block_init no vector stays in service after its handler returned,
\* so that the timer's next one is delivered: the safety part of
\* TicksKeepComing.
THEOREM NoVectorStaysInService ==
  KernelSpec => [](~ block /\ stage # "panic" => isr = {})
  <1>1. KernelInv => (~ block /\ stage # "panic" => isr = {})
    BY DEF KernelInv, NothingHeldBack
  <1> QED BY <1>1, KernelInvHolds, PTL
=============================================================================
