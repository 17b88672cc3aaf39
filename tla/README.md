# A TLA+ model of osproj

osproj is a small 32-bit x86 kernel written in C: a page allocator and a slab
allocator, paging, a timer-driven scheduler, interrupt routing, text terminals,
character and block devices, the search for PCI devices, drives and ACPI tables,
a small library and the beginnings of a virtual file system.  This directory
holds TLA+ modules that model it, TLC configurations that check them on small
instances, and TLAPS proofs for every value of the constants: about all of these
parts, every invariant and every action property that a passing run checks, under
the hypotheses the table of theorems gives.  `PROJECT.json` ties every definition to
the lines it models and lists the runs, the hazards, the findings and the theorems.

## The system

`kmain` (`kernel/main.c`) runs with interrupts off: `load_graphic` clears the
screen, `arch_init` fills the descriptor tables, maps the device quarter and
reads the ACPI tables for the interrupt controllers, `mm_init` sizes memory and starts the two
allocators, then come `pci_init`, `fs_init`, `char_init`, `pit_init` and
`sched_init`.  With `unlock_kernel` the timer takes over: the first tick leaves
the boot code for the task `init`, and nothing returns to it.

| Component | State it keeps | Operations | Talks to | What makes it correct |
|---|---|---|---|---|
| page allocator `mm/buddy.c` | a byte per page, kernel zone then user zone | `page_init`, `palloc`, `pfree` | used by slab, paging, scheduler, tty | no page belongs to two callers; the bytemap agrees with what is held |
| slab allocator `mm/slab.c` | caches, three slab lists each, a node chain per slab | `slab_init`, `kmalloc`, `kmalloc_s`, `qsmalloc`, `kfree` | `palloc`; used by tree, devices, vfs | objects apart and inside their page; lists and chains account for every object |
| paging `mm/mmap.c`, `head.s`, `arch_init` | page directory and page tables | `map_page`, `map_huge_page`, `unmap_page`, `phy2lin`, `lin2phy` | `palloc` for tables | a call changes its own translation only; `lin2phy` tells what is mapped |
| scheduler `kernel/sched.c`, `isr.s`, `time.c` | task table, `curr_index`, `esp_swap` | `sched_init`, `pit_int` with `do_sched` | interrupts everything | a task goes on where it was interrupted; every task runs again and again |
| terminals `drivers/char/tty.c` | frame buffer, cursor, colours, saved terminals, escape-sequence state | `tty_preinit`, `tty_init`, `tty_write` | written by `printk` and `cwrite` | stores stay on the screen; text before the cursor stays; terminals do not disturb each other |
| search tree `lib/bst.c` | linked nodes with heights | `bst_insert`, `bst_delete`, `bst_search` | used by devices and vfs | what was inserted is found, nothing else is |
| circular list `lib/list.c` | linked nodes, the caller's head pointer | `list_insert`, `list_delete`, `list_iter` | `kmalloc`, `kfree`; used by vfs and PCI | links agree and never lead to freed memory; iteration sees every element |
| byte queue `lib/fifo.c` | a buffer, two pointers, a flag | `alloc_fifo`, `fifo_enqueue`, `fifo_dequeue` | `palloc`; no caller yet | first in, first out |
| string functions `lib/string.c` | none | `memcpy` to `strncmp` | used everywhere | results are those of the strings, overlaps included |
| formatted output `kernel/printk.c` | the active calls | `printk` with d, u, x, X, p, s | the terminal | numbers read back; nothing but the format is read |
| character and block devices `chardev.c`, `blkdev.c` | two trees from major numbers to handlers | `creat_cdev`, `cread`, `cwrite`, `cioctl` and the same for blocks | tree, drivers | a call reaches the handler that was registered, or `-ENODEV` |
| memory and port device `devmem.c` | two pointers shared by all readers | `devmem_read`, `devmem_write` | called by `cread` and `cwrite` | a reader gets every address of the window once a round |
| CPU tables and interrupt routing `cpu.c`, `apic.c`, `serial.c`, `time.c`, `ata.c` | IDT, redirection entries, pending and served vectors | `arch_init`, `ioapic_enable`, `eoi_apic`, the stubs of `isr.s` | devices, scheduler, panic | every vector that can come has its gate; ticks keep coming |
| PCI `drivers/pci.c` | a list of devices, statics of the searches | `pci_init`, `get_device_by_id`, `get_device_by_class` | list; used by ATA | a search finds what was scanned |
| drives `drivers/block/ata.c` | which drives are there | `identify_ata`, `ata_init` | drives, PCI, IOAPIC | the boot does not hang; a disk is taken for one |
| ACPI tables `kernel/acpi.c` | addresses of the controllers | `acpi_init` | firmware | the walk ends at the first IOAPIC |
| virtual file system `fs/vfs.c` | mount points, drivers, and the statics of the lookup | `get_fs_type` under `fs_open` and `fs_mkdir`; `fs_close`, `fs_read`, `fs_write` | tree, list, `kmalloc` | a path goes to its innermost mount point with that prefix removed |
| memory size `mm/init.c` | | `mm_init` | page allocator | not modelled: the size is the constant `TotalMem` |

What is hard here: the timer interrupts at any instruction, and pins are raised
while the boot is still directing them; drives change their status between two
reads of it; the lookup of the file system, the searches of PCI and the
terminals keep the state of a call in static variables; the allocators, the tree
and the list are linked structures whose shape depends on the whole
history of calls; and many computations are right only because two deviations
cancel (`palloc` returns the page before the run and `pfree` starts its loop at
1).  `PROJECT.json` lists the hazards with their lines.

## Modules

    AddrMap   <- PageAlloc <- MCPageAlloc, PageAllocProofs
              <- Paging    <- MCPaging, PagingProofs
              <- Acpi
    Slab      <- MCSlab, SlabProofs
    Tty       <- MCTty
    Tty, Printk, Strings <- TtyProofs
    TimeShare <- Sched     <- MCSched                  (Sched implements TimeShare)
                 Sched, Irq <- Kernel <- MCKernel, KernelProofs
    Ring      <- List      <- Pci <- Ata <- ListProofs (List implements Ring)
    Queue     <- Fifo                                  (Fifo implements Queue)
    Bst       <- BstDelete, Chardev, MCBst
    Chardev, Devmem, Bst <- Devices
    Vfs, Devices         <- MCIo
    Vfs, Fifo, Devices   <- IoProofs
    BstDelete, List, Fifo, Printk, Strings <- MCLibrary
    Ata, Acpi <- MCProbe, ListProofs
    Induction <- PageAllocProofs, SlabProofs, TtyProofs, ListProofs, IoProofs

An arrow means that the right module extends or instantiates the left one.  The
MC modules define values for constants; MCLibrary, MCIo and MCProbe also put components
side by side that share no state, or that run one after the other.  Operators named after another one
with a suffix, under a comment "mutant", are plausible bugs; each property is
known to fail when the definition is replaced by its mutant.  The modules named
`...Proofs` hold the theorems and their lemmas, and `Induction` what several of
them need of the natural numbers.

* **AddrMap**: `phy2lin` and `lin2phy` over page numbers.  The address space is
  four quarters of `Quarter` pages, so that `KERNEL_BASE` is three of them.
* **PageAlloc**: `status` is the bytemap, `held[c]` what the last `palloc` gave
  caller `c`.  `palloc`'s loop is the first end of a long enough run
  (`FirstRunEnd`), together with `head_ptr`, which the code advances separately,
  once per used page.  The address it returns and the bytes it marks are
  computed independently, as in the code; so are the bytes `pfree` clears.
* **Slab**: `kmems`, `slabs` and the bag `lent` of objects that callers hold.
  A slab is its header and node array, and list pointers are positions.
  Following NULL, reading behind `quick_alloc_table`, writing outside the node
  array and searching a list that does not end are values of `fault`, behind
  which nothing happens (`do_page_fault` panics).
* **Sched**: the processor (`eip`, interrupt flag, registers, stack), the
  interrupt frame on every stack and the task table.  `pit_int` is one step,
  because interrupts are off in it; `Execute` is an instruction of whatever was
  running.  `Entries` are the tasks `sched_init` creates.  **TimeShare** is what
  a scheduler promises: only the running task's context changes, and passing the
  processor on changes none.
* **Paging**: the directory and the tables as memory, and the processor's page
  walk over them.  `map_page` reaches a new table through the kernel's quarter
  and an old one through its physical address, as the code does; `FindsTable` and
  `OwnEntry` tell the pages for which it thereby ends in the entry of their own.  What it writes
  behind a table is modelled too, since the mask of `pte_index` is four times
  too wide.
* **Tty**: the screen as a function on cells, the cursor register apart from
  `x` and `y`, the escape-sequence automaton with `atoi_comma`, and the saved
  terminals.
* **Bst**: `heap` is every node ever allocated.  The way down is `path`, and
  `settle` is the way back: every ancestor is measured and balanced, rotations
  change nodes, and nobody stores the new top.  `given[id]` is what a caller
  expects to find.  The kernel only inserts and searches; **BstDelete** adds
  `bst_delete`, which nothing calls.
* **Chardev**, **Devmem**, **Devices**: the device table on top of the tree, the
  memory device with its two pointers (`port_ptr` as a signed integer of
  `PortBits` bits) and with `MemSpec`, the order in which it is used,
  and both composed with a second tree for the block devices.
  A driver is its name and the handlers it has; handlers other than devmem's
  return any code.
* **Irq**: the boot as far as it touches the IDT and the IOAPIC, in the order of
  `kmain`, with pins raised at any time and a local APIC that delivers by
  priority class.  `block_init` is commented out in `kmain`; whether it is called
  is the constant choice `block`.  **Kernel** puts `Sched` behind the timer's
  gate, counts ticks in `jeffies`, and leads every other vector to `panic`.
* **List**: memory as a function from addresses to nodes.  `list_delete` is two
  steps, because it writes to the node after `kfree`, and an address that was
  freed may be handed out again between them.  **Ring** is the sequence it
  implements until the head's own node is deleted.
* **Fifo**: the buffer and its pointers; **Queue** is the bounded queue it
  implements until it is misused (`misused`: the last free element is filled, or
  a fresh buffer is read).
* **Printk**: the walk over a format, with a stack for the call `%s` makes, and
  the conversions digit by digit in words of `NrDigits` hexadecimal digits.
  **Strings**: the functions on a small memory, copies byte by byte.
* **Pci**: the scan into a `List` and the searches through it; **Ata**: the
  search for drives, one read of the status register a step, with drives that
  finish or abort the command between any two of them; **Acpi**: the search for
  the RSDP, the tests, the translation of the addresses of RSDT, tables and IOAPIC
  with `AddrMap` (an address is its upper byte, and what the kernel has not mapped
  is a fault), and the walk over the bytes of the MADT with an index that
  begins anywhere, since the code does not initialize it.
* **Vfs**: `get_fs_type` with every store to one of its static variables a step of
  its own, since the timer may preempt it anywhere.  The three reads of `mp_swap`
  at its end are one step.  A path is a sequence of `Tokens`.

## Runs

| Run | What it shows |
|---|---|
| `page_alloc` | 3 callers, 4 kernel and 12 user pages, every order of `palloc` and `pfree`. Blocks are disjoint, the bytemap tracks them, kernel blocks lie above the image, the kernel zone only fills up, and freeing a user block clears exactly its bytes and none outside the bytemap. User requests are for at most a page. |
| `slab_alloc` | Slabs of 256 bytes, 8 classes, up to 6 slabs. While nothing is freed objects are apart and inside their slabs (`ObjectsSound`), each slab is on one list and one slab of a cache is open (`ListsSound`), and a slab's chain is the objects that are left. |
| `slab_partial` | Violation of the comment "must in partial" of `kfree`: a slab with an object in use can be on the empty list, and `kfree` then follows NULL. |
| `kernel_boot` | The kernel as it is, from `check_cpu` on, with one task and devices on four pins, `block_init` called or not. One task is RUNNING and on its own stack (`TasksSound`); a tick brings back exactly what was interrupted; a panic comes only of a refused CPU or of a pin raised while `serial_init` had it directed to an exception's vector, and is final; without `block_init` ticks keep coming. |
| `sched_many` | A full table of three tasks: registers and stacks are time-shared (refinement of TimeShare), and every task runs again and again. |
| `paging` | 16-entry tables, two frames for tables, pages whose entry `map_page` finds and one whose entry it takes to be in the page behind the table: calls for the former change their own translations only (`ChangesOnlyItsOwn`) and do what they report (`MapMaps`), and `lin2phy` and the directory always agree (`MapSound`). |
| `tty_text` | 3 columns, 2 rows; all control characters and the commands A B D E F H J K S: the write position stays on the screen (`ScreenSound`), text before it stays, the VGA cursor follows. |
| `tty_switch` | Two terminals of 2 by 2 cells with colours, switched between any two bytes: neither disturbs the other. |
| `library` | Up to 4 nodes of 4 ids in the tree, with deletions: ordered and every height exact (`WellFormed`), a search returns nothing stale, an insertion without a rotation loses nothing. The list, with 4 addresses that are reused: links agree and iteration ends (`ListSound`), and it implements Ring. A queue of 4 elements of 3 bytes, from a size of 11: it implements Queue. Every format of up to 3 characters with every argument of 2 hexadecimal digits: numbers read back, and only two kinds of format leave the format. Every call of a string function on every memory of 4 characters. |
| `bst_in_order` | Violation of the comment "AVL tree" of `bst_insert`: after 24 insertions a node that is still in the tree has children whose heights differ by two (`Balanced`). |
| `io` | Drivers register in any order under 3 majors of two tables and are called at any time: a call reaches its own handler or `-ENODEV`, and with two drivers in a table, as in this kernel, always the handler. Reading the memory device sweeps its window and every port. File system: every absolute path of up to four tokens, one call after the other (`AbsolutePathsConverted`). |
| `probe` | `acpi_init` over firmware with and without its tables, at addresses that are mapped and that are not, and with four MADTs, then `pci_init` over every occupation of 3 slots and its searches, or `ata_init` over every pair of drives. Searches find what was scanned; disks are taken for disks; the walk takes the first IOAPIC; none of the loops hangs, as far as the machine is one `ProbingEnds` names. |

Properties with a name in `...Sound`, `WellFormed`, `SearchesFind` and
`ProbingEnds` are conjunctions of parts that the modules state and comment one by
one; the type invariants are among the parts.  The type invariant of `Fifo` is
proved instead.

**Bounds.**  They are the smallest that let the interesting cases happen.  Three
callers can leave a hole between two blocks.  A slab of 256 bytes holds 5
objects of 32 bytes, 3 of 64 and 1 of 128, and `kmem_kmem`'s first slab is full
before `slab_init` ends, so that all transitions between lists occur.  Two rows
are enough for a scroll to move text and a tab of four columns to wrap and to
scroll on three columns.  Three nodes in a row are the first rotation, and a
fourth can be one of those it unlinked, inserted again.  Two free page tables let
one directory entry lose its table while another keeps it.  `MaxSlabs`, `MaxLent`,
`MaxParam` and `MaxNodes` are guards that cut off unbounded growth.
`CHECK_DEADLOCK FALSE` is used in `Library.cfg` and `Bst.cfg` only: the tree's model
ends when `MaxNodes` nodes are allocated or a wild pointer is reachable, or its
order of insertions is at its end, and `printk`'s when it returns.

In `KernelBoot.cfg` the pins that are raised are those of the timer and the first
drive and two that keep an exception's vector; 36 vectors include all that are
used.  Four addresses let a freed node be reused beside a list of two others.
The buffer of four elements is passed around its end with every fill level.  Two
hexadecimal digits and three decimal ones make the smallest int, zero, one digit
and a full buffer occur; strings for `%s` have a percent sign in each position
that matters.  A window of two addresses and ports of two bits make both pointers
wrap, the signed one through its negative half.  Three slots let the first, the
last and a middle device be missing; the beginnings of the walk are entries,
bytes inside entries, and bytes behind the table.

**Fairness.**  `sched_many` assumes `WF_vars(pit_int)`: `pit_init` programs the PIT
as a rate generator, and `do_pit_int` sends an EOI each time, so an interrupt
comes as long as the interrupt flag is set.  `kernel_boot` assumes the parts of
this one by one: `kmain` goes on, the PIT raises its pin again and again, and the
processor takes an interrupt that can be delivered; that it can be is what
`TicksKeepComing` shows, and no device but the PIT need ever raise its pin.
`probe` assumes that the code of `acpi_init` and `ata_init` goes on and that a
drive finishes or aborts the command it was given (`settle`); which of the two,
and between which reads, is open.  A task may run through any number of
instructions between ticks.

## Proofs

Each theorem holds for every value of the constants that satisfies the named
`ASSUME`s of the module it is about, and, where one is stated, a hypothesis in the
theorem itself.  A hypothesis restricts what is asked of the code, and for each
one TLC shows what happens without it, or the text below says why it is there.
Invariants were checked by TLC on the instances of the runs before they were
proved.

| Module | Theorem | States | Hypothesis |
|---|---|---|---|
| `PageAllocProofs` | `TypeCorrect` | `[]TypeOK` | |
| | `KernelZoneHasNoHoles` | `[]KernelUsedIsPrefix` | |
| | `KernelBlocksClearOfImage` | `[]KernelBlocksAboveImage` | |
| | `KernelZoneOnlyGrows` | `KernelPagesNeverReclaimed` | |
| | `BytemapCorrect` | `[]BytemapTracksBlocks` | `OnePageUserRequests` |
| | `NoDoubleAllocation` | `[]BlocksDisjoint` | `OnePageUserRequests` |
| | `UserFreesAreExact` | `UserFreeIsExact` | `OnePageUserRequests`, `PAGE_SIZE > 1` |
| `SlabProofs` | `SlabObjectsSound` | `[]ObjectsSound` | |
| | `SlabChainIsTheRest` | `[]ChainIsTheRest` | |
| | `SlabOneOpenSlab` | `[]OneOpenSlab` | |
| | `SlabListsSound` | `[]ListsSound` | `SeveralPerSlab` |
| `KernelProofs` | `SchedTasksSound` | `[]TasksSound` of the scheduler | |
| | `SchedSharesRegisters` | the safety part of `RegistersTimeShared` | |
| | `OneTaskAlwaysResumes` | `TaskResumes` of the scheduler | `NrTasks = 1` |
| | `KernelTasksSound` | `[]TasksSound` of the kernel | |
| | `KernelPanicHasCause` | `[]PanicHasCause` | |
| | `KernelPanicIsFinal` | `PanicIsFinal` | |
| | `KernelTaskResumes` | `TaskResumes` of the kernel | `NrTasks = 1` |
| | `NoVectorStaysInService` | the safety half of `TicksKeepComing` | |
| `PagingProofs` | `PagingMapSound` | `[]MapSound` | `UserCalls` |
| | `PagingMapMaps` | `MapMaps` | `UserCalls` |
| | `PagingChangesOnlyItsOwn` | `ChangesOnlyItsOwn` | `UserCalls` |
| `TtyProofs` | `TtyTerminalsApart` | `TerminalsApart` | |
| | `TtyScreenSound` | `[]ScreenSound` | `TextOnly` |
| | `TtyTextBeforeCursorStays` | `TextBeforeCursorStays` | `TextOnly` |
| | `TtyCursorFollowsText` | `CursorFollowsText` | `TextOnly` |
| | `PrintkStaysInside` | `[]StaysInside` | |
| | `PrintkReadsBack` | `[]ReadsBack` | |
| | `StringFunctionsRight` | `StringsRight` | |
| `IoProofs` | `VfsAbsolutePathsConverted` | `[]AbsolutePathsConverted` | `Tasks = {t}` |
| | `FifoTypeCorrect` | `[]FifoTypeOK` | |
| | `FifoImplementsQueue` | `FifoIsQueue` | |
| | `DevmemReadsSweep` | `ReadsSweep` | |
| | `BstSearchIsSound` | `[]SearchIsSound` of `InsertSpec` | |
| | `BstWellFormed` | `[]WellFormed` of `InsertSpec` | |
| | `BstInsertionKeeps` | `InsertionKeeps` of `InsertSpec` | |
| | `DevicesCallsReach` | `[]CallsReachTheirDevice` | |
| `ListProofs` | `ListIsSound` | `[]ListSound` | `Tasks = {t}` |
| | `ListIsRing` | `ListImplementsRing` | `Tasks = {t}` |
| | `PciSearchesFind` | `[]SearchesFind` | `Tasks = {t}` |
| | `AtaDrivesIdentified` | `[]DrivesIdentified` | |
| | `AcpiIoapicIsFirst` | `[]IoapicIsFirst` | |

**Page allocator.**  The kernel argument rests on `KernelInv`: the used kernel
pages are a prefix (`KernelUsedIsPrefix`), blocks lie in the used part, and they
are apart.  The prefix is what makes `palloc` right: then the first run begins
exactly where `head_ptr` stands (lemma `KernelPalloc`), so that the bytes it marks
are those of the block it returns.  The prefix in turn survives because `pfree` of
a kernel block clears nothing below `kernel_mem_pages`: it uses the linear address
as an index (lemma `FreeOutsideKernelZone`).

In the user zone holes do occur, and the prefix argument fails.  For requests of
one page `head_ptr` still stands at the page found, since every page before it is
used; `UserInv` says that each block's byte is marked and no two blocks have the
same address.  The hypothesis cannot be dropped: with `Requests <- TwoPageUser`
TLC refutes `BytemapTracksBlocks`.  After a free has left a hole of one page,
`head_ptr` stops inside it and a request of two pages marks other bytes than
those of the block it returns.  `UserFreesAreExact` adds that `pfree` of a whole
page clears the one byte `palloc` marked (`WholePageFree`); pages of one byte, for
which its loop would not count to one, are excluded.

**Slab allocator.**  The theorems are about `AllocSpec`, in which nothing is
freed: `slab_partial` shows what `kfree` does.  `SlabInv` says of each slab how
many objects its cache has in it, that its chain is `free`, `free + 1` and so on
to the end of the node array, and that what was lent from it are exactly the
objects before `free`.  Without frees objects leave in the order of the array, so
the chain needs no more than a number.  The provers do not know that a power is a
product; `PowerDoubles` and its neighbours in `Induction` prove it from the
definition of `^`, and `ClassSizes` is what follows for the sizes of the classes.

For the lists, `ListsOK` adds that slabs of a cache fill up in the order of their
creation: all but the last are full, and the full list leads from each to the one
created before it, so that the walk of the model (`WalkIs`, `FullListIs`) meets
each once.  `SeveralPerSlab` is the case `UltraLargeObjects` is about: a slab with
one object goes to the full list at once and stays on the empty one.

**Scheduler and kernel.**  `SchedInv` ties the task table to the processor: the
first `NrTasks` entries have their pids, the entry `curr_index` names is RUNNING
and no other, the processor is on its stack, and before the first tick it is on
the boot stack.  The pids are what makes `do_sched` find the next task or go back
to the first.  `SchedSharesRegisters` is the refinement of `TimeShare!Safety` with
the mapping of `Sched`: a tick passes the processor on and leaves every context,
with the saved one in place of the registers.  `OneTaskAlwaysResumes` needs one task, because with two
`switch_to` writes to the wrong stack.

`KernelInv` is about the whole boot: `LaunchInOrder` (before `sched_init` the table
is empty and interrupts are off, after it `SchedInv` holds), `Routed` (an enabled
pin leads to an exception's vector or to a gate with a handler that serves it; a
pending vector has such a gate, or `conflict` records that a pin was raised while
directed to an exception) and `NothingHeldBack` (without `block_init` every vector
that was served is acknowledged).  The proof has one lemma per stage of `kmain`
and one per interrupt.  It shows that the order of `kmain` matters: gates are set
before their pins are enabled.

**Paging.**  `PagingInv`: the upper half of the directory is what the boot made
it, no two entries have the same table, and the tables are those `palloc` gave.
`UserCalls` restricts the calls to the user half, as in the run: a call for the
kernel's quarter changes what `phy2lin` relies on.  Two properties were found to be
true on a small instance only when the proof was tried: a page can be mapped onto
the frame of another entry's table, and the next `map_page` below that entry then
writes to it.  `OwnEntry` now names the pages whose entry is in their own table,
and the run has physical pages that make the difference.

**Terminals.**  `ShapeInv` types the screen and the saved terminals without saying
where the cursors are; it is enough for `TtyTerminalsApart`, which holds for all bytes.  `TextInv`
adds that the cursors of all terminals are on the screen and that the buffer of an
unfinished command holds digits.  `TextOnly` leaves out 'C' and 'G' and the
parameters with ';', which set the column (see `PositionAccepted`), and
parameters of more than nine digits, which overflow an `int`.  A tab and the
commands that scroll are loops; what they do after any number of rounds is proved
with `LoopRuns` of `Induction`.

**File system, list, PCI, drives, queue.**  `VfsInv` says what a call has left in the static
variables after each of its stores (`OnWalk` for those of the walk); `AbsolutePathsConverted` fails with two tasks,
so there is one.  `ListInv` says that the links of the nodes in use stay among
them and are inverse to each other (`Circles`), also after the head's node is
gone, and that the node about to be cleared is in nobody's hands; this is what
fails with two tasks.  `list_iter` ends because a walk that did not come back to
the head would meet a node twice, and then, going back along `prev`, one earlier
still (`WalkEnds`).

That the list implements the sequence of `Ring` needs one fact more, which says
that no node in use is outside the head's circle: `RingInv` adds that some walk
from the head (`Lap`) is back there after as many steps as there are nodes
(`Whole`).  `list_iter`'s own walk is that lap (`LapIsWalk`), so `Elements` is the
data along it (`ElementsAre`).  An insertion puts its node second on the lap
(`LaterInsert`), a deletion takes one node out (`LaterDelete`), and what it does to
the sequence is stated apart from the list (`RingInsert`, `RingDelete`).  Deleting
the head's node is `DeleteHead`, and all later steps are `Unspecified`
(`LostStays`).

The searches of PCI rest on it.  `PciInv` says that the elements are the devices
found so far, each once, 0:0.0 first and the others from the last scanned to the
first (`InOrder`): each device is put second (`InsertSecond`), behind 0:0.0, and is
a later one than those there (`PutInOrder`).  A search stops at the first element
its callback accepts (`FoundFirst`).  `AtaInv` follows one drive through the reads
of a round: past the check for ERR it is a disk or a packet device (`VerdictIsRight`
is the end of a round).  Both theorems are about `AtaSpec`, without the ACPI part
`MCProbe` puts before it, which shares no variable with it.

The queue's type invariant is inductive by itself, and the refinement rests on
two lemmas about the wrap at the end of the buffer: `EnqueueAppends` (the position
behind the last element is `end`) and `DequeueTakes` (moving `start` shifts every
position by one).  Filling the last free element and
reading a fresh buffer map to `Misuse`, and everything after it to `Unspecified`.

**Memory device.**  `MemInv` says that what was swept of a window since it was last
begun is the part below the pointer, or all of it with the pointer at its
beginning.  The pointer of the ports is a short: `Port` is the port it stands for,
also in its negative half, and the lemmas about `% 2^PortBits` show that adding
one to the short goes to the next port.  That the device is set up before its first
call, and once, is the lemma `DevmemIsUsedRight`: every step of the composed system
is one of `MemSpec`, since a call that reaches devmem's handlers found the device in
the tree (`MemReady`).

**Search tree.**  The theorems are about `InsertSpec`: the kernel never deletes, and
`bst_delete` stores data pointers in the tree.  The difficulty is that
rotations lose nodes.  `balance` takes the node below `p` for the new top, but
nobody stores it, so that `p` keeps what was left to it and the new top goes,
with whatever is no longer below `p`.  `Good` says what survives.  There is a set `L` of nodes that are left,
for each of them a set `B[q]` of ids that may be below it and the node `U[q]` that
leads to it, such that the ids below a left child are smaller and below a right
child larger (`Tree`), and every height is that of the children (`Exact`).  The
invariant `Kempt` only claims that such sets exist, so a step of the proof chooses
new ones.  A rotation at `p` takes a set of nodes `R` out between `p` and its new
child (`Cut1`, `Cut2`, for the two sides; single and double rotations differ in `R`
alone), and `CutKeeps1` and `CutKeeps2` show that the others remain such a
forest.  `Climbing` follows the way back from the node that was linked: below the
ancestors still to come all heights are exact, and a rotation never takes one of
these ancestors.  A new node goes where a search for its id ends (`LinkedTree`), so the ids in
`B` still separate the sides.  A search then meets only nodes of `L`, whose data
are those that were given (`SearchFinds`).

What an insertion loses it loses by a rotation: `BstInsertionKeeps`.  `Shaped`
follows the pointers on the way back.  An ancestor still to come has those it had
before the insertion, so when it is rotated one of them changes, and it is not the
pointer to the new node, since a leaf on one side makes a difference of one at most
(`ClimbShape`).  The topmost rotation thus shows in the heap that
comes out, whatever those below it did.  If no pointer to a node changed the new
heap is the old one with the new node in place of a NULL (`NewGrows`), and a search in it goes the way it went in
the old one, to the new node at most (`AlongPath`).  That `path` has enough rounds to
get to the end is the pigeonhole principle: a search meets no node twice
(`SearchShort`).

Exact heights do not mean that they differ by one at
most: trying to prove that led to `bst_in_order`.

**Device tables.**  Two more facts are needed for a call to reach its driver with
two drivers in a table.  `Small` says what a tree of one or two nodes looks like; up to
two nodes there is no rotation, and nothing is lost.  `Told` says that the ids of all
nodes ever allocated, also of those lost, are registered ones, and the
other way round; so with at most two registered ids there are at most two nodes
(`ThreeRegistered`).  The second tree is an instance of `Bst`; the lemmas `Same...`
carry everything over to it.

**printk.**  `WalkInv` says that what is left of the outermost format ends as the
format does, and that a percent sign in an inner call comes from a string passed to
`%s`.  A walk thus leaves its format only for one of the two reasons `StaysInside`
names.  For `PrintkReadsBack` the loop over the digits is a recursive function of
the round: what is still to be divided and what was put out give the number
together in every round (`DecimalRound`), and the first digit out is not zero.
`PrintkAssumption` asks that a word fits into `buf`; an `int` has at most ten
digits, and `buf` ten bytes.

**String functions.**  The copies are loops over bytes.  `Rounds` gives the memory after
each round, and `CopyDone` what it is at the end when the destination does not lie
inside the rest of the source, which is what the direction of `memmove` is
for.  `CallIsRight` is `StringsRight` for one call.

**ACPI.**  `AcpiInv` says that the walk from the beginning of an entry stands at
the beginning of an entry, before the first IOAPIC, or has taken its address.  It
rests on entries that tell their own length, which is what a table is, and a walk
that begins inside an entry is left out by the property itself (`Proper`).

**Induction.**  No induction theorem with an operator as its parameter can be
used, so induction is by the least counterexample: `LeastNat` gives every nonempty
set of natural numbers a least member, and a claim is proved by looking at the
first number for which it fails.  `LoopRuns` gives a function that is defined step
by step a value after every number of steps.

**Only model-checked.**  Liveness is out of the prover's reach: `EveryTaskRuns`,
`TicksKeepComing`, `ProbingEnds` and the fairness in `RegistersTimeShared`.
`bst_delete` and `min_value_node` are RECURSIVE operators, for which the provers
cannot be used, so what `library` says of the tree after deletions stays with TLC.

## What the models leave out

* `map_page` is right only for pages whose directory index is a multiple of
  four, and while no page is mapped onto the frame of another table (`OwnEntry`).  `unmap_page` is modelled for mapped pages.  The TLB and permissions are not modelled.
* With a second task `TaskResumes` fails: `switch_to` writes the next task's
  frame on the stack of the interrupted one.  The kernel creates one task, so
  this is a remark about `SchedMany`'s tasks and no finding.
* With two tasks in `get_fs_type`, `AbsolutePathsConverted` fails because of the
  shared statics.  Again the kernel has one task, so this is no hazard of it; the
  steps are as small as the stores all the same.
* A name that only begins like a mount point ("/devx") is taken for one; the
  property leaves such names out.  `Vfs` takes `kmalloc` and `kfree` of the path
  buffer to work, though `Slab` shows where `kfree` does not.
* In `Tty`, stores behind the frame buffer hit no cell, the erase commands with
  `x` past the edge (a negative length) are left out, and any failure of
  `palloc` is too.
* Nothing is modelled behind a fault, in `Slab`, `Paging` and `List`, behind a wild
  pointer, in `BstDelete`, or behind a read outside the format, in `Printk`.
* Of `apic.c` and `serial.c`, `apic_init` (the 8259 off, the local APIC on) is taken
  as done once `arch_init` returns; `ioapic_disable` and `serial_read` have no caller and
  are left out, and so is the loopback test of the UARTs, which ends in a message.
  Of `cpu.c`, the bits of descriptors and the GDT; of `panic.c`, the dump of the
  registers.
* The DMA transfer at the end of `ata_init` is left out.  Without a controller
  `bus_master_port` stays 0 and it is programmed at ports 0 to 4.
* In `Acpi` the bytes behind the MADT are zeros; a checksum passes or fails as a
  whole; only one class and subclass of a PCI device is kept, and the names that
  are looked up with it in tables of fixed length are not.
* `Devmem` returns bytes of 128 and more as negative codes, as the code does;
  `tty_write` returns anything.  No property is about how callers tell a code from
  a byte.
* `mm_init` rounds the size of memory down to 2 MB and then adds 2 MB, so that
  the last user pages may not exist; `TotalMem` is what it computes.
* With two tasks in the list, `ListSound` fails: `list_delete` clears memory that
  another task has been given since.  The kernel has one task.

## Where code and comments disagree

The runs `slab_partial` and `bst_in_order` show two disagreements.  The following ones are stated as
properties in the modules and have no run in the list; TLC refutes each within a
few steps, with the constants named.

| Property | Constants | What happens |
|---|---|---|
| `PageAlloc!UserBlocksArePhysical` | as `PageAlloc.cfg` | `palloc` returns a page number relative to the user zone and one too low (the first block is the last page of the address space); `buddy.h` says "user zone returns a physical address". |
| `PageAlloc!NewBlocksWereUnused` | `Requests <- OnlyKernel` | The first kernel block includes the last reserved page. |
| `PageAlloc!BytemapTracksBlocks` | `Requests <- TwoPageUser` | See "Proofs". |
| `Slab!UltraLargeObjects` | `Requests <- LargeSizes` | With one object per slab a new slab is put on the full list and stays on the empty one too, where the next allocation finds no node. |
| `Slab!KmallocInTable` | `Requests <- LimitSizes` | A request of `SLAB_SIZE / 2` is not refused and reads `quick_alloc_table[12]`. |
| `Paging!RefusedOnlyIfMapped` | as `Paging.cfg` | `unmap_page` of a 4 MB page leaves `pse`, and `map_page` goes on refusing with "already mapped 4MB page". |
| `Paging!RemapIsRefused` | as `Paging.cfg` | `map_page` follows the physical address of an existing table and faults. |
| `Tty!PositionAccepted` | `Bytes <- RightBytes` | Cursor right clamps `x` to `VGA_COLUMN`; `step_cursor` wraps at the column before only and runs on. |
| `Tty!ParametersFit` | `Bytes <- ColourBytes`, `CMD_BUF_SZ = 4`, `MaxParam = 5` | The length check stands behind a `return`. |
| `Bst!InsertedIsFound` | as `Library.cfg` | The third insertion in ascending order unlinks two nodes, because nobody stores the pointer that `balance` returns. The comment "AVL tree" is about the balance alone, which `bst_in_order` is about. |
| `Vfs!RelativePathsConverted` | `Paths <- RelativePaths` | The prefix that matched the working directory and the path together is cut from the path alone. |

`bst_delete` stores the data pointer it returns in child pointers
(`lib/bst.c:135`, `137`, `153`).  `BstDelete` marks such a pointer `Wild` and ends there.

`resource.txt` gives vectors 0 to 14 to the exceptions of the CPU, and
`serial_init` directs all 24 pins of the IOAPIC to vectors 0 to 13
(`drivers/char/serial.c:48`).  A pin raised between that loop and `pit_init` is
delivered to an exception handler after `unlock_kernel`, and a pin that no driver
redirects stays there for good; `PanicHasCause` of `Kernel` names this as the only
way to a panic of a CPU that is not refused.  With `block_init`, `do_ata_int`
returns without an EOI (`drivers/block/ata.c:66`), and its vectors hold back the
timer's: `TicksKeepComing` excepts that kernel, and TLC refutes it without the
exception.

## Plan

Done, in this order: page allocator with its proofs, slab allocator, scheduler,
paging, terminals, search tree with the devices, file-system lookup; interrupt
routing and the kernel's boot, list and queue with their abstract specifications,
`printk` and the string functions, devmem and the block devices, PCI, drives and
ACPI; the refinement proof of the queue; the proofs about the slab allocator,
scheduler and kernel, paging, terminals, lookup, list, PCI and drives; the proofs
about the search tree and the device tables, the memory device, `printk`, the
string functions and the ACPI walk.

To come:

1. A composition of `Slab` over `PageAlloc` in place of the bound `MaxSlabs`.
2. `unmap_page` of pages that were never mapped, with the directory as the page
   it writes to.
