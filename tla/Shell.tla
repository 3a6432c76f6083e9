--------------------------------- MODULE Shell ---------------------------------
(***************************************************************************)
(* The shell of labs 1, 2, 3 and 5 (lab4's is lab5's): the line it reads   *)
(* through the polled mini UART, the command it recognises in it, and what *)
(* the command does: the archive it walks (Archive), the exchange with the *)
(* GPU (mailbox.c), the timer it sets, the name it reads.                  *)
(*                                                                         *)
(* From lab3 on the shell runs the task queue while it waits for a         *)
(* command, but not while it waits for the name of a file.                 *)
(*                                                                         *)
(* A word that the code only compares as a whole is one character, numbered*)
(* from 256 on.  alloc, free and async_uart are in Heap, Buddy and Uart.   *)
(***************************************************************************)
EXTENDS Archive

CONSTANTS
  CmdBufferSize,    \* 128
  MaxReaderBuffer,  \* 64
  Base,             \* where the archive is
  Archives,         \* archives it may be
  MaxLines,         \* bound: lines typed
  HeapSize,         \* heap_end - heap_start
  MaxTimers         \* bound: timers running

ASSUME CmdBufferSizeAssumption == CmdBufferSize \in Nat \ {0}
ASSUME MaxReaderBufferAssumption == MaxReaderBuffer \in Nat \ {0}
ASSUME BaseAssumption == Base \in Nat \ {0} /\ Base % 4 = 0
ASSUME ArchivesAssumption == \A archive \in Archives : IsArchive(archive)
ASSUME HeapSizeAssumption == HeapSize \in Nat
ASSUME MaxLinesAssumption == MaxLines \in Nat
ASSUME MaxTimersAssumption == MaxTimers \in Nat

VARIABLES
  lab,
  files,      \* Seq: the files of the archive
  mem,        \* the archive in memory
  dtb,        \* the device tree in memory
  fdt_cpio_addr,
  typing,     \* Seq: what is left of the line being typed
  fifo,       \* Seq: the receive FIFO
  lines,      \* lines typed so far
  pc,         \* where the shell is
  buffer,     \* the characters read
  reader,     \* the command that reads, "shell" for the shell itself
  calls,      \* mailbox calls that info has still to make
  mailbox,    \* "full", "free", "sent", "answered"
  timers,     \* timers running
  tasks,      \* tasks queued
  heap_ptr,   \* of the allocator of labs 2 and 3, from heap_start on
  shown,      \* what the last ls, cat or load_program found
  typed,      \* history: every character typed
  taken       \* history: the lines taken, by whom

vars == <<lab, files, mem, dtb, fdt_cpio_addr, typing, fifo, lines, pc, buffer,
          reader, calls, mailbox, timers, tasks, heap_ptr, shown, typed, taken>>

memory == <<lab, files, mem, dtb>>
line == <<typing, fifo, lines, typed>>
queue == <<timers, tasks, heap_ptr>>

Word ==
  [hello |-> 256, help |-> 257, info |-> 258, reboot |-> 259, ls |-> 260, cat |-> 261,
   alloc |-> 262, _test |-> 263, dtb_test |-> 264, btime |-> 265, setTimer |-> 266,
   load_program |-> 267, pfreeList |-> 268]
Letter == 97

\* The lines that are typed: commands, names, numbers, a line too long.
Lines == {<<Word[w]>> : w \in {"info", "reboot", "ls", "cat", "dtb_test", "load_program"}}
  \cup {<<Letter>>, <<Letter, Letter>>, <<>>, <<Word["alloc"], Word["_test"]>>,
        <<Word["setTimer"], Space, Letter, Space, Char(1)>>,
        <<Word["setTimer"], Space, Letter, Space>>,
        <<Word["setTimer"], Letter, Letter, Letter, Letter, Word["reboot"]>>}

\* A device tree: the root with a child before the node chosen, whose
\* address is the archive's; or without it.
Node(inside) == <<FDT_BEGIN_NODE, 66, 65>> \o inside \o <<FDT_END_NODE>>
Prop(name, size, words) == <<FDT_PROP, size, name>> \o words
Decoys == Prop(5, 6, <<FDT_END_NODE, FDT_BEGIN_NODE>>) \o <<FDT_NOP>>
Tree(valid, p) ==
  [magic |-> valid, words |-> Node(Decoys \o Node(Decoys) \o Node(p)) \o <<FDT_END>>]
GoodTree == Tree(TRUE, Prop(InitrdStart, 4, <<Base>>))
BadTrees == {Tree(FALSE, Prop(InitrdStart, 4, <<Base>>)),
             Tree(TRUE, Prop(InitrdStart, 8, <<0, Base>>))}

Init ==
  /\ lab \in {1, 2, 3, 5}
  /\ \/ files \in Archives /\ dtb = GoodTree
     \/ files = <<>> /\ dtb \in BadTrees
  /\ mem = newc(Base, files)
  /\ fdt_cpio_addr = IF lab = 1 THEN 0 ELSE fdt_traverse(dtb, 0)
  /\ typing = <<>> /\ fifo = <<>> /\ lines = 0
  /\ pc = "dispatch" /\ buffer = <<>> /\ reader = "shell"
  /\ calls = 0 /\ mailbox = "free" /\ timers = 0 /\ tasks = 0 /\ heap_ptr = 0
  /\ shown = [as |-> "none", name |-> <<>>, got |-> <<>>]
  /\ typed = <<>> /\ taken = <<>>

-----------------------------------------------------------------------------
(***************************************************************************)
(* The terminal, the timer, the GPU.                                       *)
(***************************************************************************)
BeginLine ==
  /\ typing = <<>> /\ lines < MaxLines /\ pc \notin {"hang", "program"}
  /\ lines' = lines + 1
  /\ \E l \in Lines : typing' = Append(l, Return)
  /\ UNCHANGED <<memory, fdt_cpio_addr, fifo, pc, buffer, reader, calls, mailbox,
                 queue, shown, typed, taken>>

\* Nobody types faster than the shell echoes.
Type ==
  /\ typing # <<>> /\ fifo = <<>>
  /\ typing' = Tail(typing) /\ fifo' = <<Head(typing)>>
  /\ typed' = Append(typed, Head(typing))
  /\ UNCHANGED <<memory, fdt_cpio_addr, lines, pc, buffer, reader, calls, mailbox,
                 queue, shown, taken>>

\* A timer expires: at EL1 its task is only queued.
TimerIrq ==
  /\ timers > 0
  /\ timers' = timers - 1 /\ tasks' = tasks + 1
  /\ UNCHANGED <<memory, fdt_cpio_addr, line, pc, buffer, reader, calls, mailbox,
                 heap_ptr, shown, taken>>

\* The GPU makes room and answers.
Gpu ==
  /\ \/ mailbox = "full" /\ mailbox' = "free"
     \/ mailbox = "sent" /\ mailbox' = "answered"
  /\ UNCHANGED <<memory, fdt_cpio_addr, line, pc, buffer, reader, calls, queue,
                 shown, taken>>

-----------------------------------------------------------------------------
(***************************************************************************)
(* Reading a line.                                                         *)
(***************************************************************************)
\* The shell runs the task queue before its prompt and while nothing is typed.
task_dispatcher ==
  /\ lab >= 3 /\ tasks > 0
  /\ pc = "dispatch" \/ (pc = "read" /\ reader = "shell" /\ fifo = <<>>)
  /\ tasks' = tasks - 1
  /\ UNCHANGED <<memory, fdt_cpio_addr, line, pc, buffer, reader, calls, mailbox,
                 timers, heap_ptr, shown, taken>>

Prompt ==
  /\ pc = "dispatch" /\ (lab >= 3 => tasks = 0)
  /\ pc' = "read"
  /\ UNCHANGED <<memory, fdt_cpio_addr, line, buffer, reader, calls, mailbox,
                 queue, shown, taken>>

MaxLen(by) == IF by = "shell" THEN CmdBufferSize ELSE MaxReaderBuffer

\* [mutant of ReadChar] the place for the NUL is used
ReadCharTooMany ==
  /\ pc = "read" /\ fifo # <<>> /\ Len(buffer) < MaxLen(reader)
  /\ fifo' = Tail(fifo)
  /\ IF mini_uart_read(Head(fifo)) = Newline
       THEN pc' = "parse" /\ UNCHANGED buffer
       ELSE buffer' = Append(buffer, Head(fifo)) /\ UNCHANGED pc
  /\ UNCHANGED <<memory, fdt_cpio_addr, typing, lines, typed, reader, calls,
                 mailbox, queue, shown, taken>>

\* mini_uart_read_string, its non-blocking form and the loop of cpio_cat.
ReadChar ==
  /\ pc = "read" /\ fifo # <<>> /\ Len(buffer) < MaxLen(reader) - 1
  /\ fifo' = Tail(fifo)
  /\ IF mini_uart_read(Head(fifo)) = Newline
       THEN pc' = "parse" /\ UNCHANGED buffer
       ELSE buffer' = Append(buffer, Head(fifo)) /\ UNCHANGED pc
  /\ UNCHANGED <<memory, fdt_cpio_addr, typing, lines, typed, reader, calls,
                 mailbox, queue, shown, taken>>

\* [mutant of LineFull] what is typed too much is thrown away
LineFullDrops ==
  /\ pc = "read" /\ Len(buffer) = MaxLen(reader) - 1 /\ fifo # <<>>
  /\ fifo' = Tail(fifo)
  /\ pc' = IF mini_uart_read(Head(fifo)) = Newline THEN "parse" ELSE "read"
  /\ UNCHANGED <<memory, fdt_cpio_addr, typing, lines, typed, buffer, reader,
                 calls, mailbox, queue, shown, taken>>

\* The buffer is full: what follows belongs to the next line.
LineFull ==
  /\ pc = "read" /\ Len(buffer) = MaxLen(reader) - 1
  /\ pc' = "parse"
  /\ UNCHANGED <<memory, fdt_cpio_addr, line, buffer, reader, calls, mailbox,
                 queue, shown, taken>>

-----------------------------------------------------------------------------
(***************************************************************************)
(* The commands.                                                           *)
(***************************************************************************)
CommandsLab1 == {"hello", "help", "info", "reboot"}
CommandsLab2 == CommandsLab1 \cup {"ls", "cat", "dtb_test"}
CommandsLab3 == CommandsLab2 \cup {"btime", "load_program"}
CommandsLab5 == CommandsLab3 \cup {"pfreeList"}

Commands ==
  CASE lab = 1 -> CommandsLab1 [] lab = 2 -> CommandsLab2
    [] lab = 3 -> CommandsLab3 [] lab = 5 -> CommandsLab5

\* Most commands are compared whole, setTimer and alloc by their beginning.
get_command_id(cmd) ==
  LET whole == {w \in Commands : cmd = <<Word[w]>>} IN
  CASE whole # {} -> CHOOSE w \in whole : TRUE
    [] lab \in {2, 3} /\ cmd = <<Word["alloc"], Word["_test"]>> -> "alloc_test"
    [] lab >= 3 /\ strcmp(cmd, <<Word["setTimer"]>>, 1) = 0 -> "setTimer"
    [] lab = 5 /\ strcmp(cmd, <<Word["alloc"]>>, 1) = 0 -> "alloc"
    [] OTHER -> "unknown"

\* Somebody has its line.
Takes(by) ==
  /\ pc = "parse" /\ reader = by
  /\ taken' = Append(taken, [by |-> by, line |-> buffer])
  /\ buffer' = <<>>
  /\ UNCHANGED <<memory, line>>

IsOneOf(commands) == Takes("shell") /\ get_command_id(buffer) \in commands
Is(command) == IsOneOf({command})

Done(next, by) == pc' = next /\ reader' = by

\* The commands that print only, or are modelled elsewhere.
show ==
  /\ IsOneOf({"hello", "help", "pfreeList", "alloc", "unknown"})
  /\ Done("dispatch", "shell")
  /\ UNCHANGED <<fdt_cpio_addr, calls, mailbox, queue, shown>>

info ==
  /\ Is("info")
  /\ calls' = 2 /\ mailbox' \in {"free", "full"}
  /\ Done("mailbox_write", "shell")
  /\ UNCHANGED <<fdt_cpio_addr, queue, shown>>

\* The watchdog is set; the shell is never seen again.
reboot ==
  /\ Is("reboot")
  /\ Done("hang", "shell")
  /\ UNCHANGED <<fdt_cpio_addr, calls, mailbox, queue, shown>>

dtb_test ==
  /\ Is("dtb_test")
  /\ fdt_cpio_addr' = fdt_traverse(dtb, fdt_cpio_addr)
  /\ Done("dispatch", "shell")
  /\ UNCHANGED <<calls, mailbox, queue, shown>>

\* The delay, -1 when the format is wrong: one space, message, space, seconds.
Delay(cmd) ==
  LET parsed == parse_msg_secs(SubSeq(cmd, 3, Len(cmd))) IN
  IF Len(cmd) > 1 /\ cmd[2] = Space /\ parsed # <<>> THEN parsed[2] ELSE -1

\* A timer is set while there is room (see Timer).
SetTimer ==
  /\ IsOneOf({"btime", "setTimer"})
  /\ LET set == (get_command_id(buffer) = "btime" \/ Delay(buffer) >= 0) /\ timers < MaxTimers
     IN  timers' = IF set THEN timers + 1 ELSE timers
  /\ Done("dispatch", "shell")
  /\ UNCHANGED <<fdt_cpio_addr, calls, mailbox, tasks, heap_ptr, shown>>

alloc_test ==
  /\ Is("alloc_test")
  /\ Done("alloc_test", "shell")
  /\ UNCHANGED <<fdt_cpio_addr, calls, mailbox, queue, shown>>

\* heap_ptr after the call; the same when there is no room.
simple_allocator(size) ==
  IF heap_ptr + align(size, 8) > HeapSize THEN heap_ptr ELSE heap_ptr + align(size, 8)

test_allocator_exhaustion ==
  /\ pc = "alloc_test"
  /\ heap_ptr' = simple_allocator(64)
  /\ pc' = IF heap_ptr' = heap_ptr THEN "dispatch" ELSE pc
  /\ UNCHANGED <<memory, fdt_cpio_addr, line, buffer, reader, calls, mailbox,
                 timers, tasks, shown, taken>>

\* [mutant of mailbox_write] written whether there is room or not
MailboxWriteOnce ==
  /\ pc = "mailbox_write"
  /\ mailbox' = IF mailbox = "full" THEN mailbox ELSE "sent"
  /\ pc' = "mailbox_read"
  /\ UNCHANGED <<memory, fdt_cpio_addr, line, buffer, reader, calls, queue, shown, taken>>

\* mailbox_call waits for room, writes, and waits for the answer.
mailbox_write ==
  /\ pc = "mailbox_write" /\ mailbox # "full"
  /\ mailbox' = "sent" /\ pc' = "mailbox_read"
  /\ UNCHANGED <<memory, fdt_cpio_addr, line, buffer, reader, calls, queue, shown, taken>>

\* The board revision, then the memory.
mailbox_read ==
  /\ pc = "mailbox_read" /\ mailbox = "answered"
  /\ calls' = calls - 1 /\ mailbox' \in {"free", "full"}
  /\ pc' = IF calls' = 0 THEN "dispatch" ELSE "mailbox_write"
  /\ UNCHANGED <<memory, fdt_cpio_addr, line, buffer, reader, queue, shown, taken>>

ls ==
  /\ Is("ls")
  /\ shown' = [as |-> "ls", name |-> <<>>, got |-> cpio_ls(mem, fdt_cpio_addr)]
  /\ Done("dispatch", "shell")
  /\ UNCHANGED <<fdt_cpio_addr, calls, mailbox, queue>>

\* cat and load_program go on to read a name.
AskName ==
  /\ IsOneOf({"cat", "load_program"})
  /\ Done("read", get_command_id(buffer))
  /\ UNCHANGED <<fdt_cpio_addr, calls, mailbox, queue, shown>>

Found(name) == cpio_findFile(mem, fdt_cpio_addr, name)

Shows(name) ==
  shown' = [as |-> "file", name |-> name,
            got |-> IF Found(name) = <<>> THEN <<>> ELSE <<Bytes(mem, Found(name))>>]

cpio_cat ==
  /\ Takes("cat") /\ Shows(buffer)
  /\ Done("dispatch", "shell")
  /\ UNCHANGED <<fdt_cpio_addr, calls, mailbox, queue>>

\* The program is copied and entered; the shell is never entered again.
cpio_load_program ==
  /\ Takes("load_program") /\ Shows(buffer)
  /\ Done(IF Found(buffer) = <<>> THEN "dispatch" ELSE "program", "shell")
  /\ UNCHANGED <<fdt_cpio_addr, calls, mailbox, queue>>

parse_command ==
  show \/ info \/ reboot \/ dtb_test \/ SetTimer \/ alloc_test \/ ls \/ AskName

shell ==
  \/ task_dispatcher \/ Prompt \/ ReadChar \/ LineFull \/ parse_command
  \/ mailbox_write \/ mailbox_read \/ test_allocator_exhaustion
  \/ cpio_cat \/ cpio_load_program

Next == BeginLine \/ Type \/ TimerIrq \/ Gpu \/ shell

\* The CPU and the GPU run; nobody need type.
Spec == Init /\ [][Next]_vars /\ WF_vars(shell) /\ WF_vars(Gpu)

-----------------------------------------------------------------------------
\* A line leaves room for its NUL; the allocator stays within the heap.
TypeOK ==
  /\ pc \in {"dispatch", "read", "parse", "mailbox_write", "mailbox_read",
             "alloc_test", "hang", "program"}
  /\ reader \in {"shell", "cat", "load_program"}
  /\ buffer \in Seq(Nat) /\ Len(buffer) <= MaxLen(reader) - 1
  /\ fdt_cpio_addr \in Nat /\ heap_ptr \in 0 .. HeapSize
  /\ calls \in 0 .. 2 /\ mailbox \in {"free", "full", "sent", "answered"}
  /\ timers \in 0 .. MaxTimers /\ tasks \in Nat

\* What a line was on the wire: it ends at Return or when its buffer is full.
Ended(by, l) == IF Len(l) = MaxLen(by) - 1 THEN l ELSE Append(l, Newline)

Past == FlattenSeq([k \in DOMAIN taken |-> Ended(taken[k].by, taken[k].line)])
Reading == IF pc = "parse" THEN Ended(reader, buffer) ELSE buffer
AsRead(s) == [i \in DOMAIN s |-> mini_uart_read(s[i])]

\* Who reads after a line.
AsksFor(t) ==
  IF t.by = "shell" /\ get_command_id(t.line) \in {"cat", "load_program"}
    THEN get_command_id(t.line) ELSE "shell"

\* Whatever runs while the shell waits, each character typed is in exactly
\* one line, in order; a line ends at Return or when its buffer is full, and
\* the line after a command that asks for a name is a name, no command.
TakenAsTyped ==
  /\ Past \o Reading \o AsRead(fifo) = AsRead(typed)
  /\ \A k \in DOMAIN taken : taken[k].by = IF k = 1 THEN "shell" ELSE AsksFor(taken[k - 1])

\* ls lists the archive; cat and load_program get exactly the bytes of the
\* first file of the name typed, at whatever address the headers and names
\* before it have put them; without an archive they get nothing.
ArchiveServed ==
  LET there == IF dtb = GoodTree THEN files ELSE <<>>
      named == {k \in DOMAIN there : there[k].name = shown.name}
  IN  CASE shown.as = "none" -> TRUE
        [] shown.as = "ls" -> shown.got = [k \in DOMAIN there |-> there[k].name]
        [] shown.as = "file" ->
             shown.got = IF named = {} THEN <<>>
                         ELSE <<there[CHOOSE k \in named : \A j \in named : k <= j].data>>

\* A task is run, unless the shell waits for a name or is gone.
TasksRun ==
  tasks > 0 ~> (tasks = 0 \/ reader # "shell" \/ pc \in {"hang", "program"})

\* A command that asks the GPU or exhausts the allocator ends.
CommandReturns ==
  pc \in {"parse", "mailbox_write", "mailbox_read", "alloc_test"}
    ~> pc \in {"dispatch", "read", "hang", "program"}

\* The shell gets on: with the tasks that timers queue, except while it waits
\* for the name of a file, and with every command.
ShellGetsOn == TasksRun /\ CommandReturns

==============================================================================
