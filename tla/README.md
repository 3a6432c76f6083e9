# A verification project for the OSC-OSDI-Lab kernel

The repository holds five successive states (lab1 to lab5) of a small AArch64
kernel for the Raspberry Pi 3, with the bootloader that receives it over the
serial line and the script that sends it.  One CPU runs a shell at EL1; the core
timer and the mini UART interrupt it; a user program loaded from the initramfs
runs at EL0 and the shell is then never entered again.

## 1. Inventory

| Component | State | Operations | Interaction |
|---|---|---|---|
| task queue (`exception.c`) | three ring buffers `task_queue`, `head`, `tail` | `enqueue_task`, `task_dispatcher` | filled by interrupt handlers, emptied by the shell with interrupts on, and by handlers |
| interrupt handlers (`exception.c`) | none of their own | `el_curr_el_spx_irq_c`, `lower_el_aarch64_irq_c`, `core_timer_irq_handler`, `mini_uart_irq_handler` | read the event queue, write the task queue, re-arm the timer, dispatch |
| software timers (`timer.c`) | `timer_pool`, `timer_queue`, `msg_pool`, CNTP_CVAL | `add_timer`, `alloc_msg_slot`, the two callbacks | called by the shell, by the handler, by the dispatcher |
| buddy system (`allocator.c`) | `page_array`, `free_list` | `alloc_block`, `free_block` | called by the pools, `malloc` and `free` |
| pools, malloc, free (`allocator.c`) | `pools`, chunk headers | `pool_alloc`, `pool_free` | called by the shell, which keeps addresses on `my_stack` |
| asynchronous mini UART (`mini_uart.c`, `shell.c`) | two character rings, AUX_MU_IER | `mini_uart_*_async`, `mini_uart_irq_handler_func` | shell and handler share the rings |
| polled mini UART (`mini_uart.c`) | the device's FIFOs | reads as text or raw, line readers, writes | shell, bootloader |
| exception entry and return (`exception_asm.s`) | SPSR_EL1, ELR_EL1, frames on the stack | save, handler, restore, `eret` | interrupts are unmasked before the return |
| system calls (`syscall.c`, `user_prog`) | the saved registers | the wrappers' numbers, `syscall_handler` | a synchronous exception from EL0 |
| threads (`thread.c`, `thread_asm.s`) | `run_queue`, contexts, TPIDR_EL1 | `thread_create`, `schedule`, `switch_to`, `thread_exit`, `idle`, `kill_zombies` | cooperative; the client in `kernel_main.c` is commented out |
| shell (`shell.c`, all labs) | the line read, `my_stack` | one function per command | calls everything else |
| initramfs and device tree (`cpio.c`, `dtb.c`) | read-only data, `fdt_cpio_addr` | `cpio_findFile`, `ls`, `cat`, `load_program`, `fdt_traverse` | called by the shell and at boot |
| mailbox (`mailbox.c`) | the GPU's registers | `mailbox_call` | waits for the GPU, twice for `info` |
| bootloader (`bootloader/`) and host script (`sendimg.py`) | a line buffer, the image | relocation, the dialogue, the jump | over the serial line |
| start of the kernel (`start.s`, `kernel_main.c`) | `_dtb_addr` | the initialisations, in order | hands on the device tree's address |

What is hard here: the rings are lock-free and the shell reads them with
interrupts on; the one hardware timer serves many events and time passes while
it is being set; functions mask interrupts and return on several paths; there is
one SPSR_EL1 and one ELR_EL1 for nested exceptions; fixed pools and rings run
full; the allocator's and the scheduler's lists are linked by hand; bootloader
and script talk without hearing each other, and the board may be switched off
in between.  There is one CPU, so there is no true parallelism.
`PROJECT.json` lists every hazard at its line.

What makes each part correct: the rings run every accepted task once, in order
and eventually; the UART handler is never interrupted; the event queue is
sorted, its slots neither leak nor are shared, and the timer is always armed for
the first event; a message slot has one holder until its text is printed; no page and
no chunk has two owners, no free page is lost, free buddies are merged; an
interrupted context goes on where it was, with its registers; a call gets its
answer; each thread runs in its turn on its own stack; an image sent to an empty
line is entered as it was sent; each typed character is taken once; a file is
served as it was packed.

## 2. Modules

**`TaskQueue`** models the rings and both contexts that run `task_dispatcher`.
The shell ("main") may be interrupted between any two accesses of
`ML_task_queue`, so its dispatcher makes one step per load and store: head and
tail of the emptiness test, head again, the slot, the store of head, the call.
The handler ("irq") is one more instance of the same steps; main makes no step
while it runs.  `enqueue_task` is one step, as it is called by handlers only.
Tasks are numbered in the order they are accepted, which is all that the
properties tell apart.  `aux_irq` is the enable bit of the UART's interrupt: the
command `async_uart` sets it when it begins and leaves it set when it ends, as its
last statement names `aux_irq_disable` without calling it (`shell.c:76`).  From
then on a UART interrupt may also arrive while the shell dispatches; `LateAuxIrq`
says whether one does (TRUE), or the UART is quiet there (FALSE).
When a program runs the shell is gone and the EL0 handler dispatches every level.
A slot never written holds a null pointer; a context that would call it makes no
further step, so the order of the calls is a question (`TimerTasksInOrder`), not
an assumption.

**`TaskFifo`** is the abstract specification of one level: a bounded first-in
first-out queue that refuses only when full, runs one task at a time and runs
every task.  `TaskQueue` implements it (`TimerRingIsFifo`).

**`Timer`** models the software timers end to end: the shell takes a message
slot, then an event slot with `add_timer`, which queues the event and may arm the
core timer; the interrupt turns expired events into tasks and arms the timer
for the next; the dispatcher calls the callback, which frees the message slot.
`add_timer` and the handler run with interrupts masked, but the counter goes on:
up to `MaxLatency` ticks pass between reading it and writing the timer.  The
timer value is 32 bits wide and signed (`SignExtend`).  The linked list is a
sequence of slots and the task ring a bounded queue, which is what `TaskQueue`
shows it to be.

**`Buddy`** models `alloc_block` and `free_block` on `page_array`, pointer by
pointer, one step per round of the split and merge loops.  Its client is the
shell: `my_stack` makes it give back what it got last.

**`Heap`** models `malloc`, `free` and the pools over a set of blocks, with the
same client, including a full stack and a size that passes from `unsigned` to
`int` and is then compared with the `unsigned` `chunk_size` (`ToUnsigned`), so that
one of 2^31 or more fits no pool and goes to the buddy system.  The two models
meet in `BlocksGivenBackInOrder`: if the shell frees in reverse order, so do the
pools with their pages, which is what `Buddy` assumes.  That assumption matters: `alloc_block` clears `next` of a list's head before it reads it
(`allocator.c:209-211`), and `free_block` merges with a buddy whose first page is
free whatever its order (`allocator.c:123`).  Neither does harm to a client
that frees in reverse order, since no list ever has two blocks
(`NothingCutOff`) and free buddies are always merged (`Coalesced`); a client that
frees in another order would lose pages and share them.  **`MCHeap`** gives
`Heap` its pool sizes and a symmetry for TLC.

**`Uart`** models the command `async_uart`: main reads a line and sends four
strings through `mini_uart_*_async`, one step per load or store of what it shares
with the handler (an enable is a load of AUX_MU_IER and a later store).  The
handler's loop, the device's FIFOs and the line are actions of their own; the
handler masks interrupts, so only the device moves while it runs.  Characters
are numbered; whether one is the newline is chosen when the code tests it.  The
device drops what is typed into a full FIFO; the model does not type it.
`StartTest` assumes that the device has gone idle while the command's name was
typed by hand (10 keystrokes against 8 characters in the FIFO, under a
millisecond).  **`Channel`** is the abstract specification of a direction of the
line: lossless, in order, and everything put in is delivered.  `Uart` implements
it twice (`ReceiveIsChannel`, `TransmitIsChannel`).  Receiving works because the
handler takes one character for each `mini_uart_recv_irq_enable`: the ring, whose
overflow it would ignore, never has a second one.

**`Exceptions`** models the three entries of `exception_asm.s` stage by stage:
the registers saved, SPSR_EL1 and ELR_EL1 saved, the C handler, which ends by
unmasking interrupts, then the restores and `eret`, with an interrupt possible
at every stage that is unmasked.  A frame carries, beside what the code saved,
what it should have saved (`from`, `mode`, `regs`), so that `FramesIntact` can
compare.  Under it runs the end of `cpio_load_program`, which writes SPSR_EL1 and
ELR_EL1 with interrupts on, and the program: lab5's, which makes the eight calls
of `user_prog/main.c` with its own numbers against the three the kernel serves,
or that of labs 3 and 4, which counts.  `struck` remembers that an interrupt came
between a write of SPSR_EL1 and its `eret`: that window is the only way to lose a
context (`OnlyTheWindowLoses`).

**`Threads`** models the run queue as the linked list of the code, `switch_to`
with the stack pointer saved one entry beyond `context`, and the client `main`
and `foo` are when the commented-out loop of `kernel_main.c` is in.  Scheduling
is cooperative, so each call is one step.  **`RoundRobin`** is what it promises: a
line of ready threads, first in, first out, which a thread that exits never
enters again.

**`Text`** holds the string functions of the labs (`strcmp`, `hex2int`, `align`,
`parse2int`, `int2char`, `parse_msg_secs`), **`Archive`** the walks over the newc
archive and over the words of the device tree, as recursive functions over a
memory.  **`Shell`** extends them: the shell of labs 1, 2, 3 and 5 (lab4's is
lab5's), character by character, with the commands it recognises in a line and
what they do; terminal, timer and GPU move at any time.  `get_command_id`
reproduces which commands are compared whole and which by their beginning.
Where the archive is (`Base`) and which archives it may be (`Archives`) are
constants; `IsArchive` says what newc can write and the kernel read: no file is
called like the trailer, and the sizes fit eight hexadecimal digits and an `int`.
**`MCShell`** gives the archives of the run.

**`Loader`** composes host, line, bootloader and the start of the kernel: the
script sends the size, waits for a text that never comes, and sends the image
after its timeout; the bootloader relocates itself, reads a size and an image and
jumps; the kernel of each lab starts.  The board may be switched off and the
script run again at any time; a character nobody listens to is lost.  A NUL
that is received is stored in the line with the size, and ends it for `parse2int`
(`UpToNul`).  The image is a
constant, any sequence of bytes; **`MCLoader`** gives that of the run.  The history
variable `disturbed` says what `ImageLoaded` must except: a run of the script that
did not begin at an empty line, lost a character or met a power-down.  The first
of these matters: when the board is switched on while the script sends, the rest
of the image is read as text, and if that is a carriage return alone, an empty
kernel is entered, or if it is a digit, it stands before the next run's size.

**`TaskQueueProofs`**, **`TimerProofs`**, **`BuddyProofs`**, **`HeapProofs`**,
**`UartProofs`**, **`ExceptionsProofs`**, **`ThreadsProofs`** and **`SerialProofs`**
hold the theorems; the last extends `Shell` and `Loader`, the two programs that read
the polled UART, which is why no name of `Loader` is one of `Shell`'s (`stage` is its
program counter, `device` its FIFO, `LoaderSpec` its specification).

In every module a definition has the name of the function it models where there
is one, and `PROJECT.json` ("map") names the lines.  Many files are the same in
several labs (the allocator in labs 4 and 5; `mini_uart.c`, `cpio.c`, `timer.c`
and `start.s` in labs 3 to 5; `dtb.c`, `mailbox.c` and the bootloader's start in
labs 2 to 5; `exception.c` and `exception_asm.s` in labs 3 and 4, from which lab5
differs in the synchronous handler only): the map names one copy for each part of
a model, so that a definition's lines may lie in an earlier lab.
Definitions marked "[mutant of D]" are not part of the model: each is D with a
plausible bug, and shows that a property would find it.

## 3. Runs

| Run | Question | Bounds |
|---|---|---|
| `task_queue` | Do the lock-free rings keep their promises while no UART interrupt arrives in the shell's dispatcher?  (Order, no loss but by a full ring, the UART's ring drained by its handler and by nobody else, every task run.) | ring of 3, 4 tasks per level: the ring fills, wraps and drops |
| `task_queue_aux_race` | Is the UART handler uninterruptible when they arrive at any time once `async_uart` has run?  No: finding. | ring of 3, 2 tasks per level |
| `timer` | Are slots, queue, hardware timer and messages consistent, is a message lost only for want of room, and does each come to an end? | 3 events, 2 messages, a ring of 3, delays 0 and 2, requests up to time 1 |
| `buddy` | Has a page one owner, do headers and lists agree, are buddies merged, is no list cut off, do calls return, are pages lost only all at once? | 8 pages, stack of 5, requests of 0 to 9 pages |
| `heap` | Is no chunk used twice, are counts exact, are pages given back, and in reverse order? | pools of 4 and 2 chunks to a page, 3 blocks, stack of 4 |
| `heap_null_page` | Is there a page to free?  No: finding. | as `heap` |
| `uart` | Do both directions lose, repeat and reorder nothing, is every wait followed by its interrupt, is no input taken that nobody waits for, does the command end? | rings of 4, FIFOs of 2, a line of 2, a banner of 4, 4 characters typed, 2 runs of the command |
| `exceptions` | Do nested exceptions return where they came from, with mode, registers and answers as they should be, unless the window is struck? | 3 interrupts, nested or not; two lengths for a call |
| `exceptions_window` | Does every interrupted context go on?  No: finding. | as `exceptions` |
| `threads` | Does the list hold each waiting thread once and no dead one, is it a first-in first-out line, has each thread its own stack and its turn? | 4 threads beside the first |
| `loader` | Is an image sent to an empty line entered byte by byte, with the device tree's address, is an error final, does a patient host succeed? | an image of 10 bytes, a line buffer of 6, a FIFO of 3, 3 runs of the script, 2 power-downs |
| `shell` | Is each typed character taken once, by whom it was meant for, is the archive served as it was packed, do tasks and commands get on? | line buffers of 6 and 3, 2 lines, 1 timer, 6 archives, 3 device trees, the shells of labs 1, 2, 3 and 5 |

Why these bounds are enough.  A ring of 3 slots has an empty, a partly filled and
a full state and wraps after 3 tasks; three events are the fewest for which a
position in the middle of the queue differs from both ends; two messages let one
slot be reused while the other is in flight; a delay of 0 gives an event that is
due before the timer is armed.  8 pages give four orders, hence splits and
merges of several rounds.  Pools of 2 and 4 chunks run over into a second page
within the stack.  A transmit ring of three characters overfills a FIFO of two and
is overfilled by a banner of four, so that the handler leaves characters behind
and main waits for room; both rings wrap, and both ends of a line (newline, full
buffer) occur.  Three interrupts nest into a system call, into its return and into
each other.  With four threads one can leave the list from its head, its middle
and its end.  The image's size has two digits, its bytes contain a carriage
return, which a reader of text would change, a newline, which would end its line,
a digit, and a NUL, which ends a number, and the FIFO is shorter than the image but holds the line with the
size; three runs of the script let one run's
leftovers meet the next two.  Two lines are a command and the name it asks for;
files of 1 and 4 bytes and names of 1 to 3 reach different alignments, and the
second file must be found behind the first.  The request of 0 pages in `Buddy`
is what the arithmetic of `alloc_block` makes of sizes near 2^31.

Deadlock is checked except where the system of the model stops: in
`task_queue_aux_race` a context that calls the null pointer of a slot never written
makes no further step, in `timer` time
stops when no request is left and nothing is queued, in `heap` nothing is
modelled after a wild pointer reached `free_block`, in `uart` and `shell` nobody
need type, in `exceptions` a context whose `eret` went astray makes no step, and
in `loader` nothing more need happen when the kernel is up.

### Fairness

`TaskQueue`: a handler runs to its end, as nothing interrupts it (weak fairness).
The shell gets on between interrupts, each of which disables it for a while
(strong fairness), and comes back to its loop, which dispatches, also from
`async_uart`, which ends when somebody has typed its line.  The timer keeps
interrupting: `core_timer_irq_handler` arms it again on every path.  `Timer`: the
counter advances, a pending unmasked interrupt is taken, a handler ends, and the
shell finishes its command and dispatches (`shell.c:275`, `mini_uart.c:59`).
No fairness is assumed of requests, of UART interrupts or of `load_program`.
`Buddy`: a call that has begun runs on; the shell need not make another.
`Uart`: the CPU goes on, a pending interrupt is taken (it is level-triggered), the
line sends what is in the FIFO, and the shell reads what was typed at its prompt;
nobody need type.  Weak fairness is enough: each interrupt moves a character or
disables itself.  `Exceptions`: the handlers' code and the program's next
instruction run; no fairness is needed of interrupts, whose number is bounded.
`Threads`: each call of the running thread returns, and `foo` calls `schedule` or
`thread_exit` in the end.  `Loader`: the CPU runs, the line carries what is on it,
and the script's timeout passes; nobody need run the script or switch the
board.  `Shell`: the CPU and the GPU run; nobody need type, no timer need be set.

## 4. Proofs

TLAPS proves, for every value of the constants that meets the named assumptions:

* `TaskQueueProofs!TypeCorrect`, `CallbacksInOrder`, `AuxHandlerSafe`.
  `TimerTasksInOrder` is not inductive.  The strengthening `IInv` says that the
  ring holds consecutive tasks from the first not yet taken (`TimerRingHolds`),
  that the timer's level has one consumer, because a handler that interrupts the
  shell dispatches the UART's level only (`OneConsumer`), and what that consumer
  knows at each control point about what it loaded (`ConsumerKnows`): head has not
  moved since, and the ring has not become empty.  It holds for both values of
  `LateAuxIrq`.  `AuxHandlerSafe` assumes `~LateAuxIrq`, and the run
  `task_queue_aux_race` shows that it must; its invariant (`AuxInv`) says that the
  UART's ring is filled and emptied by the handler alone.
* `TaskQueueProofs!RingIsFifo`: the timer's ring implements `TaskFifo`, the safety part
  of `TimerRingIsFifo`.  By `IInv` the ring, read from head to tail, is the
  sequence of the tasks from `Fetched + 1` to `accepted`, and the task being run is
  `Fetched` or none (`Mapped`); each step of the dispatcher and of the handlers
  moves at most one of the four counts, and each such move is an action of
  `TaskFifo`.
* `TimerProofs!TypeCorrect` and `QueueAlwaysExact`.  `SlotsAreQueued` and
  `QueueSorted` need each other's bookkeeping: an insertion keeps the order only
  since slots in the queue are pairwise different (changing the new slot's
  expiry time changes no queued one), and the slot taken is free only since marks
  and queue agree.  The lemmas say what `InsertAt` and `Tail` do to a sequence.
* `TimerProofs!ArmsForFirst`: `ArmedForFirst` under two hypotheses, which are what
  the code relies on: every delay fits the 32-bit signed timer value (`DelaysFit`:
  less than 112 seconds), and the counter is never about to wrap (`CounterFits`).
  Without the first the property is false (`exception.c:180`, section 5).  The
  invariant adds that an event of the queue is never further ahead than a delay
  that may be asked for (`Soon`), so that its distance survives the sign extension,
  and that the counter the handler has read is fresh when it arms the timer
  (`FreshTicks`).
* `TimerProofs!MessagesHeldOnce` and `MessagesLostWhenFull`.  `MessageHeldOnce`
  counts the holders of a message; the invariant says the same without counting:
  at most one event, at most one task, and at most one of the four kinds of
  holder (`HeldOnce`), together with: a message slot that the pool has free has no
  holder (`ShellFree` and the second part of `HeldOnce`).  The cardinality follows.
  `LostOnlyWhenFull` is proved action by action: where a holder goes away, another
  one of the same message appears, or the callback has freed the slot, or a bound
  was met.
* `UartProofs!TypeCorrect`, `InputStaysInDevice`, `NoLostWakeup`,
  `ReceiveKeepsOrder`.  `NoInputStolen` needs that the receive interrupt is on only
  while main waits with the ring empty, and that the value main has loaded to
  store does not have it on (`OneCharacter`).  `WakeupPending` needs that wherever
  main is not filling the transmit ring a ring with characters has the interrupt
  on, also in the value about to be stored (`SomeoneSends`).  From `OneCharacter`
  the ring is the empty or a one-element sequence, and each step is a step of
  `Channel` or a stutter: `ReceiveKeepsOrder` is the safety part of
  `ReceiveIsChannel`.
* `UartProofs!TransmitKeepsOrder`: the safety part of `TransmitIsChannel`, for
  rings of any length.  Three lemmas say what the stores do to the contents of a
  ring: the store of a character changes nothing, that of the head appends it, that
  of the tail takes the first one away.  The invariant `SlotReady` adds that the
  slot is still free when the head is stored, although the handler ran in between,
  and that the ring is empty at the prompt, so that `rbuf_init` discards nothing.
* `ExceptionsProofs!TypeCorrect`, `CopiesStayRight`, `OnlyWindow`,
  `AnswerReaches`. `TypeOK` needs that an `eret` with a replaced ELR_EL1 still
  leads into the code of the level below (`BaseKnown`). `FramesIntact` is
  strengthened to what each frame holds at each stage (`AllSaved`), that only the
  top frame can be in a masked stage (`OthersLeave`), and that SPSR_EL1 and
  ELR_EL1 are those of the top frame until they are saved (`TopEnters`).
  `OnlyTheWindowLoses` needs, as long as the window was not struck, that every
  frame below the top waits where its handler has unmasked interrupts and SPSR_EL1
  and ELR_EL1 are still to be written, that all frames but the first interrupted
  EL1 (`Nested`), that what the top frame has restored are its own values
  (`TopReturns`), and that the program runs at the level its place in the code
  calls for (`ProgramRuns`). `CallAnswered` follows the answer from the handler's
  frame to the program's registers, through any nesting (`AnswerHeld`,
  `RegistersBack`).
* `ThreadsProofs!NobodyLost`, `EachItsOwn`, `TakesTurns`.  `Listed(q, s)` says that
  the links of `q` spell the sequence `s`; `ChainOfList` that a walk along them
  recovers it (the induction is a minimal place at which the walk would go
  wrong), and one lemma each what `enqueue_thread`, `remove_thread` and
  `kill_zombies` do to it.  The invariant says who is in the line (`WaitInLine`),
  that the idle thread never exits, so that there is somebody to switch to
  (`Lives`), and that all who wait have saved registers of their own (`Kept`).
  Each step then appends to, rotates or shortens the line.
* `HeapProofs!NoMemoryTwice`, `LastBlockFirst`.  The shell frees what it allocated
  last, so each free undoes the malloc it belongs to.  The invariant says that
  there is a history (`History`): the states the pools were in when each of the
  outstanding addresses was allocated, each of them good for the addresses that
  were out then (`Good`: counted, and nothing used twice), and that `start_addr` is
  null or the page the pool took last (`PagesKnown`).  malloc lengthens the history
  (`HistoryGrows`); free goes back to its last state (`FreeUndoes`), or meets the
  null page of `heap_null_page`.  An invariant on the present state alone would
  have to say how the free lists of all the pools interleave in the order of
  allocation; the history says it without.
* `BuddyProofs!HeapStaysSound`, `PagesLostAtOnce`, `OrderFits`, for every order of
  the heap.  Powers of two and the shifts of `get_min_order` are recursive functions;
  what they compute follows by induction over the naturals, stated for a set of
  numbers and proved from the least number outside it.  `HeapSound` is not
  inductive: that no list is cut off, that no block is refused and that buddies
  merge all rest on the client.  The invariant says again that there is a history
  (`Remembers`): the heap as it was before each block now on the stack was given
  out, each the one before with one block taken off its list and split down
  (`Took`).  Giving the last block back restores the state before it, round by
  round of the merge loop, since a free block's buddy begins with a page that is
  given out (`BuddyOut`): the loop stops just where the split began.  Along this
  history every list has at most one block, so that `next` is always null
  (`AllAlone`) and nothing is behind the block that `alloc_block` cuts off.
* `SerialProofs!LinesAsTyped`, for every size of the two buffers.  The invariant
  says that the lines taken, the line being read and the character that waits, in
  this order, are what was typed (`NoneLost`), and that the present reader is the
  one the last line asked for (`ReaderAskedFor`), from which who took which line
  follows.  The lemmas say what `FlattenSeq` makes of one line more.
* `SerialProofs!WrongSizeIsFinal`: a character that is no digit and has no NUL
  before it stays in the line, with no NUL before it, whatever is received after it
  (`ErrorKept`).
* `SerialProofs!KernelFindsAll`: where the device tree's address is at each stage
  (`AddressKept`), and that the kernel's steps so far are the first steps of the
  start of one of the labs (`Made`), in each of which what must come first does
  (`StartsOrdered`).
* `SerialProofs!ImageIsLoaded` and `LoaderTypesCorrect`, for every image and every
  size of buffer and FIFO that the line with the size fits.  `ImageLoaded` speaks
  of the last stages only; the invariant (`Transfer`) says where an undisturbed run
  is at each stage: what is in the line buffer, in the device and on the wire is
  together the line with the size, then nothing is anywhere and the size is right,
  then what is in memory, in the device and on the wire is together the image.
  It is wanted of undisturbed runs only, and `AtEmptyLine` is just what it needs to
  begin.  That the board reads the number the script wrote is `NumberComesBack`
  (`parse2int` undoes `int2char` below `Width`), by induction over the digits
  through what `Number` computes for one digit more.  The types need that kernel
  memory is empty before the image is read, so that a shorter size announced later
  is no smaller than what is there.
* `SerialProofs!ShellTypesCorrect`.  The address of the archive is what the walk of
  the device tree returns, so the invariant (`AddressFound`) says which address
  that is: none before a walk and for a tree without the property or with a wrong
  magic number, else `Base`, also when `dtb_test` walks again.  `ReadTokenMoves`
  shows that a walk over words in which names end and properties are complete only
  goes forward, hence that the recursive function exists and is what
  `fdt_parse_node` returns (`WalkIs`); `GoodAddress` and `BadAddress` then follow the
  three trees token by token.
* `SerialProofs!ArchiveIsServed`, for every archive and every address that is a
  multiple of four.  `NewcLays` says where `newc` puts things: headers at multiples
  of four, each behind the bytes of the file before, so that no two entries share
  an address.  `HeaderIs` is the point at which kernel and archiver must agree: the
  sizes come back from their hexadecimal digits (`SizeComesBack`), and rounding up
  the absolute address skips just what the archiver padded (`PaddingIs`), so that
  the next header is the next entry.  `ListIs` and `FindIs` go through the entries
  from the trailer backwards, and give the functions in closed form, which is how
  they are shown to exist.  The invariant adds that lab1's shell, which has no
  archive, has no command that reads one (`LabHasCommand`).

The assumptions are the ASSUMEs of the modules on the constants: a ring has at
least two slots, pools are not empty, bounds are natural numbers, an integer has
at least 16 bits, an image's size fits an integer and the line with it fits line
buffer and FIFO (64 and 8 characters: a kernel's size has at most seven digits),
the archive is one that newc can write, at a multiple of four.
TLC evaluates them in every run.

Only model-checked is liveness: `TimerTasksRun`, `MessagesEnd`, `CallsReturn`,
`CommandEnds`, `CallReturns`, `EveryThreadRuns`, `PatientHostLoads`, `ShellGetsOn`,
delivery in both channels and in `TaskFifo`.  Liveness and ENABLED are beyond the
prover.  Every invariant and every action property of the passing runs is proved.
The library's induction theorems take an operator as a parameter, which the
provers cannot instantiate; where a proof goes by induction, over digits, tokens,
files, lines or pages, the statement is put as a set of numbers, and the set is
shown to be all of them from the least number outside it (`SetInduction`).

## 5. What disagrees with the repository's own words

Three runs expect a violation, each a finding with its quotation in
`PROJECT.json`: after `async_uart` the shell's dispatcher can run the UART handler,
with interrupts on (`shell.c:76`); a pool that has had two pages frees a null page
(`allocator.c:341`); an interrupt between the unmasking at the end of a handler
and its `eret` loses the interrupted context (`exception.c:246`).

More are visible in the code and have no run of their own:

* `add_timer` leaves interrupts masked when it finds no slot (`timer.c:107`):
  `MessagesEnd` excepts this case, and `irq_masked` in `Timer` models it.
* A delay of 112 seconds or more does not fit the signed 32-bit timer value and
  puts the next timeout into the past, for ever (`exception.c:180`).
* The block of the whole heap is freed into no list (`allocator.c:116`):
  `LostOnlyWhole` says that this is the only way to lose a page.
* The UART is not quiet when `async_uart` has ended: the read-modify-write of the
  enable register can leave the transmit interrupt on (`mini_uart.c:193`).
* A message that finds no timer slot or a full task ring is never printed, and
  its slot of `msg_pool` never given back: `LostOnlyWhenFull` lists exactly these ends.
* `pool_alloc` compares the request with the size of the chunk and returns the
  address behind its 8-byte header, so that a request of 9 to 16 bytes gets 8
  (`allocator.c:277`).
* The dispatcher starts with the lowest level although level 2 is called the
  highest (`exception.c:8-13`).  No property is stated about it: a UART task never
  waits behind another level, because the interrupt that queues it also
  dispatches it (`AuxRingDrained`).
* `kill_zombies` never finds a dead thread, since `thread_exit` takes the thread
  off the queue before (`thread.c:91`): `QueueExact` says that nothing is ever freed.
* User program and kernel disagree about the numbers of five of eight system
  calls (`syscall.c:57`: 1 and 3 are swapped, 5, 6 and 7 are not served).
  `SyscallResult` in `Exceptions` gives each call what the kernel serves under its
  number, so `CallAnswered` does not compare it with what the program meant.
* The shell does not dispatch while it waits for the name of a file
  (`cpio.c:120`): `ShellGetsOn` excepts that wait.
* A thread's stack pointer is saved one entry beyond `context`, in the field `stack`
  (`thread.c:46`).  The registers are a record in `Threads`, so what that overwrites
  is not visible there.
* The script waits for "Ready\n", which the bootloader never prints
  (`sendimg.py:16`); it works by its timeout (`PatientHostLoads`).
* After one wrong size no size is accepted any more (`bootloader.c:43`,
  `ErrorIsFinal`).

## 6. What is not modelled

* The setup of pins and baud rate, and the writes of the polled UART, which wait
  for the device and change nothing else.
* The loops that clear .bss, linker scripts and Makefiles; addresses are abstract,
  so that the layout of memory (16 MB of heap in `allocator.h:8` against the 4 MB
  `linker.ld:25` reserves) is out of the models' reach.
* The text that is printed, its layout, and the contents of mailbox messages.
* The tasks of level 0, which in labs 3 and 4 the synchronous handler queues and
  runs at once, and which print only.
* Failure of `malloc` in `thread_create`: what a write through a null pointer
  does is not defined by the code.
* The thread's client when interrupts are on: no handler touches the run queue.
