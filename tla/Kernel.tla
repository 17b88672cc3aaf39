------------------------------- MODULE Kernel --------------------------------
(***************************************************************************)
(* The kernel from kmain on: the boot sequence and interrupt routing of    *)
(* Irq with the scheduler of Sched behind the timer's gate.  kmain runs    *)
(* with interrupts off until unlock_kernel.                                *)
(***************************************************************************)
EXTENDS Sched, Irq

VARIABLE
    jeffies         \* counts the ticks, modulo JeffiesBound

kernelVars == <<vars, irqVars, jeffies>>

\* jeffies is an unsigned long and wraps; two values tell that it changes.
JeffiesBound == 2

KernelInit ==
    /\ IrqInit
    /\ tss_list = [i \in Index |-> UnusedTss]
    /\ curr_index = 0
    /\ curr_task = NULL
    /\ esp_swap = Boot
    /\ frame = [s \in Stacks |-> NoFrame]
    /\ cpu = [eip |-> <<"kmain", 0>>, intr |-> FALSE, regs |-> 0, esp |-> Boot]
    /\ jeffies = 0

\* The step of kmain that stage names.
Launch ==
    \/ Goto("sched_init", "unlock_kernel") /\ tss_list' = sched_init /\ UNCHANGED cpu
    \/ Goto("unlock_kernel", "running") /\ cpu' = [cpu EXCEPT !.intr = TRUE]
                                        /\ UNCHANGED tss_list

kmain ==
    \/ /\ check_cpu \/ arch_init \/ block_init \/ serial_init \/ pit_init
       /\ UNCHANGED <<vars, jeffies>>
    \/ /\ Launch
       /\ UNCHANGED <<curr_index, curr_task, esp_swap, frame, jeffies,
                      next_pin, features, block, idt, redir, irr, isr, conflict>>

\* An instruction of a task or of the loop at the end of kmain.
execute ==
    /\ stage = "running"
    /\ Execute
    /\ UNCHANGED <<irqVars, jeffies>>

\* A device raises its pin.
device(p) == raise(p) /\ UNCHANGED <<vars, jeffies>>

\* pit_int with do_pit_int: the tick is counted, do_sched runs, and the
\* interrupt is acknowledged.
do_pit_int ==
    /\ pit_int
    /\ jeffies' = (jeffies + 1) % JeffiesBound
    /\ isr' = eoi_apic(isr \cup {PIT_VECTOR})
    /\ UNCHANGED stage

\* do_ata_int returns to what it interrupted, without an EOI.
do_ata_int(v) ==
    /\ isr' = isr \cup {v}
    /\ UNCHANGED <<vars, jeffies, stage>>

\* mutant: exceptions come through trap gates and the stubs do not say cli
panic_open(v) ==
    /\ stage' = "panic"
    /\ isr' = isr \cup {v}
    /\ cpu' = [cpu EXCEPT !.intr = TRUE]
    /\ UNCHANGED <<tss_list, curr_index, curr_task, esp_swap, frame, jeffies>>

\* Every gate is an interrupt gate, those of set_system_gate too, and a stub
\* begins with cli; then comes a handler that calls panic.
panic(v) ==
    /\ stage' = "panic"
    /\ isr' = isr \cup {v}
    /\ cpu' = [cpu EXCEPT !.intr = FALSE]
    /\ UNCHANGED <<tss_list, curr_index, curr_task, esp_swap, frame, jeffies>>

interrupt ==
    \E v \in Deliverable :
        /\ cpu.intr
        /\ irr' = irr \ {v}
        /\ CASE idt[v] = "pit_int" -> do_pit_int
             [] idt[v] = "ata_int" -> do_ata_int(v)
             [] OTHER -> panic(v)
        /\ UNCHANGED <<next_pin, features, block, idt, redir, conflict>>

\* The loop at the end of panic.
halted == stage = "panic" /\ UNCHANGED kernelVars

KernelNext ==
    \/ kmain
    \/ execute
    \/ \E p \in RaisingPins : device(p)
    \/ interrupt
    \/ halted

\* kmain goes on, the PIT in its rate mode raises its pin again and again, and
\* the processor takes an interrupt that is pending.
KernelSpec ==
    /\ KernelInit /\ [][KernelNext]_kernelVars
    /\ WF_kernelVars(kmain)
    /\ WF_kernelVars(device(PIT_PIN))
    /\ WF_kernelVars(interrupt)

-----------------------------------------------------------------------------
(* Properties                                                              *)

\* The kernel panics only on a CPU it refuses, or when a pin was raised while
\* serial_init had it directed to an exception's vector.  Every other vector
\* that a pin can send has a gate of its own when interrupts are turned on:
\* do_reserved never runs.
PanicHasCause ==
    stage = "panic" => conflict \/ ~ (Mandatory \subseteq features)

\* A panic stops the machine: after it no timer tick gives the processor to a
\* task.  panic is a loop that does not turn interrupts off itself; it depends
\* on the way that led to it, from an exception or from the boot code.
PanicIsFinal ==
    [][stage = "panic" => UNCHANGED <<stage, vars, jeffies>>]_kernelVars

\* In the kernel as it boots, without block_init, ticks keep coming until a
\* panic: every interrupt that returns was acknowledged, and no vector that is
\* being served holds the timer's back.  With block_init this fails: do_ata_int
\* does not acknowledge, and its vectors are of the timer's class.
TicksKeepComing ==
    \A n \in 0 .. JeffiesBound - 1 :
        []<>(stage = "panic" \/ block \/ jeffies # n)
=============================================================================
