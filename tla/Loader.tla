-------------------------------- MODULE Loader --------------------------------
(***************************************************************************)
(* How a kernel gets onto the board: the script on the host                *)
(* (host_script/sendimg.py), the bootloader (bootloader/start.s,           *)
(* bootloader.c) and the start of the kernel (start.s, kernel_main.c).     *)
(*                                                                         *)
(* The script never sees the "Ready\n" it waits for, as the bootloader     *)
(* prints another text: it goes on after its timeout.  The board may be    *)
(* switched on and off at any time; what arrives while nobody listens is   *)
(* lost.  While the bootloader waits for a character it is faster than     *)
(* the line; while it prints, the receive FIFO fills.                      *)
(*                                                                         *)
(* No name is also one of Shell's: SerialProofs extends both modules.      *)
(***************************************************************************)
EXTENDS Text

CONSTANTS
  Image,      \* Seq: the kernel image
  MaxReadBuffer, \* size of the line's buffer (64)
  FifoSize,   \* of the receive FIFO; the line with the size fits
  MaxRuns,    \* bound: runs of the script
  MaxResets   \* bound: times the board is switched off

Byte == 0 .. 255
ImageSize == Len(Image)

ASSUME ImageAssumption == Image \in Seq(Byte) /\ ImageSize < Width
ASSUME MaxReadBufferAssumption ==
  MaxReadBuffer \in Nat /\ Len(int2char(ImageSize)) < MaxReadBuffer
ASSUME FifoSizeAssumption == FifoSize \in Nat /\ Len(int2char(ImageSize)) < FifoSize
ASSUME MaxRunsAssumption == MaxRuns \in Nat
ASSUME MaxResetsAssumption == MaxResets \in Nat

VARIABLES
  host,      \* where the script is
  runs,      \* how often it was run
  wire,      \* Seq: characters on their way
  device,    \* Seq: characters in the device
  stage,     \* where the board is
  size_line, \* the line with the size, as far as read
  img_size,
  kernel,    \* Seq: what was written from 0x80000 on
  x0,        \* what the register holds: the device tree's address, or else
  dtb_addr,  \* the bootloader's _dtb_addr, then the kernel's
  todo,      \* Seq: the steps of the kernel's start still to come
  ready,     \* those made
  disturbed, \* history: the script was not started at an empty line, or a
             \* character was lost or the board switched off since
  failed,    \* history: an input error since the board was switched on
  resets

loader_vars == <<host, runs, wire, device, stage, size_line, img_size, kernel, x0,
                 dtb_addr, todo, ready, disturbed, failed, resets>>

host_side == <<host, runs, wire, device, disturbed>>

SizeLine == Append(int2char(ImageSize), Newline)

\* The steps of the kernel's start.s, of irq_init and of main, by lab.
StartLab1 == <<"bss", "stack">>
StartLab2 == <<"dtb", "bss", "stack">>
Start == <<"dtb", "el1", "vectors", "bss", "stack">>
irq_init == <<"tasks", "irq", "timer">>
MainLab1 == <<"uart", "shell">>
MainLab2 == <<"uart", "ramfs", "shell">>
MainLab3 == <<"uart", "ramfs">> \o irq_init \o <<"shell">>
MainLab4 == <<"uart", "ramfs">> \o irq_init \o <<"buddy", "pools", "shell">>
Main == <<"uart", "ramfs">> \o irq_init \o <<"buddy", "pools", "thread", "shell">>
Boots == {StartLab1 \o MainLab1, StartLab2 \o MainLab2, Start \o MainLab3,
          Start \o MainLab4, Start \o Main}

Stage == {"off", "relocate", "dtb", "bss", "uart", "prompt", "size", "ready",
          "raw", "jump", "kernel"}

LoaderInit ==
  /\ host = "idle" /\ runs = 0 /\ wire = <<>> /\ device = <<>>
  /\ stage = "off" /\ size_line = <<>> /\ img_size = 0 /\ kernel = <<>>
  /\ x0 = "none" /\ dtb_addr = "none" /\ todo = <<>> /\ ready = {}
  /\ disturbed = TRUE /\ failed = FALSE /\ resets = 0

-----------------------------------------------------------------------------
(* The host. *)
board == <<device, stage, size_line, img_size, kernel, x0, dtb_addr, todo, ready,
           failed, resets>>

\* The next character the bootloader reads begins a line.
AtEmptyLine ==
  /\ stage \in {"off", "relocate", "dtb", "bss", "uart", "prompt", "size"}
  /\ device = <<>> /\ size_line = <<>>

SendSize ==
  /\ host = "idle" /\ wire = <<>> /\ runs < MaxRuns
  /\ host' = "wait" /\ runs' = runs + 1
  /\ wire' = SizeLine
  /\ disturbed' = ~AtEmptyLine
  /\ UNCHANGED board

\* After five seconds a bootloader that was on has read all that was sent
\* and waits; otherwise the board is off, or has just been switched on.
SendImage ==
  /\ host = "wait" /\ wire = <<>>
  /\ stage # "ready" /\ (device = <<>> \/ stage = "kernel")
  /\ host' = "idle"
  /\ wire' = Image
  /\ UNCHANGED <<runs, disturbed, board>>

\* A character is lost when nobody listens or the FIFO is full.
Listening == stage \in {"prompt", "size", "ready", "raw", "jump", "kernel"}

Deliver ==
  /\ wire # <<>>
  /\ stage \in {"size", "raw"} => device = <<>>
  /\ wire' = Tail(wire)
  /\ IF Listening /\ Len(device) < FifoSize
       THEN device' = Append(device, Head(wire)) /\ UNCHANGED disturbed
       ELSE disturbed' = TRUE /\ UNCHANGED device
  /\ UNCHANGED <<host, runs, stage, size_line, img_size, kernel, x0, dtb_addr,
                 todo,
                 ready, failed, resets>>

-----------------------------------------------------------------------------
(* The board. *)
PowerOn ==
  /\ stage = "off"
  /\ stage' = "relocate" /\ x0' = "dtb"
  /\ UNCHANGED <<host_side, size_line, img_size, kernel, dtb_addr, todo,
                 ready, failed, resets>>

PowerOff ==
  /\ stage # "off" /\ resets < MaxResets
  /\ resets' = resets + 1
  /\ stage' = "off" /\ device' = <<>> /\ size_line' = <<>> /\ img_size' = 0
  /\ kernel' = <<>> /\ dtb_addr' = "none" /\ todo' = <<>> /\ ready' = {}
  /\ failed' = FALSE
  /\ x0' = "none"
  /\ disturbed' = TRUE
  /\ UNCHANGED <<host, runs, wire>>

\* [mutant of Relocate] the address is stored before the copy of the data
\* section, which holds 0, overwrites it
RelocateLast ==
  /\ stage = "relocate"
  /\ stage' = "bss" /\ dtb_addr' = "none"
  /\ UNCHANGED <<host_side, size_line, img_size, kernel, x0, todo, ready,
                 failed, resets>>

\* The bootloader copies itself, data section included, and jumps there.
Relocate ==
  /\ stage = "relocate"
  /\ stage' = "dtb" /\ dtb_addr' = "none"
  /\ UNCHANGED <<host_side, size_line, img_size, kernel, x0, todo, ready,
                 failed, resets>>

dtb_init ==
  /\ stage = "dtb"
  /\ stage' = "bss" /\ dtb_addr' = x0
  /\ UNCHANGED <<host_side, size_line, img_size, kernel, x0, todo, ready,
                 failed, resets>>

bss_init ==
  /\ stage = "bss"
  /\ stage' = "uart"
  /\ UNCHANGED <<host_side, size_line, img_size, kernel, x0, dtb_addr, todo,
                 ready, failed, resets>>

\* Both FIFOs are cleared, the receiver is enabled; C code uses x0.
mini_uart_init ==
  /\ device' = <<>>
  /\ disturbed' = (disturbed \/ device # <<>>)

StartLoader ==
  /\ stage = "uart"
  /\ mini_uart_init
  /\ stage' = "prompt" /\ x0' = "junk"
  /\ UNCHANGED <<host, runs, wire, size_line, img_size, kernel, dtb_addr, todo,
                 ready, failed, resets>>

\* A text has been printed.
Printed(from, to) ==
  /\ stage = from /\ stage' = to
  /\ UNCHANGED <<host_side, size_line, img_size, kernel, x0, dtb_addr, todo,
                 ready, failed, resets>>

\* Characters are read as text or raw.
AsText == mini_uart_read(Head(device))

\* [mutant of mini_uart_read_raw] read as text
ReadAsText == AsText

mini_uart_read_raw == Head(device)

\* [mutant of get_char] the last place is not kept for the NUL
GetCharTooMany ==
  /\ AsText # Newline
  /\ size_line' = IF Len(size_line) < MaxReadBuffer
                     THEN Append(size_line, AsText) ELSE size_line
  /\ UNCHANGED <<stage, img_size, failed>>

get_char ==
  /\ AsText # Newline
  /\ size_line' = IF Len(size_line) < MaxReadBuffer - 1
                     THEN Append(size_line, AsText) ELSE size_line
  /\ UNCHANGED <<stage, img_size, failed>>

\* [mutant of get_size] an input error clears the line
GetSizeAfresh ==
  /\ AsText = Newline
  /\ IF parse2int(size_line) = <<>>
       THEN stage' = "prompt" /\ failed' = TRUE /\ size_line' = <<>> /\ UNCHANGED img_size
       ELSE stage' = "ready" /\ img_size' = parse2int(size_line)[1]
            /\ UNCHANGED <<failed, size_line>>

\* The index into the line is not reset after an error.
get_size ==
  /\ AsText = Newline
  /\ IF parse2int(size_line) = <<>>
       THEN stage' = "prompt" /\ failed' = TRUE /\ UNCHANGED img_size
       ELSE stage' = "ready" /\ img_size' = parse2int(size_line)[1]
            /\ UNCHANGED failed
  /\ UNCHANGED size_line

ReadSize ==
  /\ stage = "size" /\ device # <<>>
  /\ device' = Tail(device)
  /\ get_char \/ get_size
  /\ UNCHANGED <<host, runs, wire, disturbed, kernel, x0, dtb_addr, todo, ready,
                 resets>>

ReadImage ==
  /\ stage = "raw" /\ Len(kernel) < img_size /\ device # <<>>
  /\ device' = Tail(device)
  /\ kernel' = Append(kernel, mini_uart_read_raw)
  /\ UNCHANGED <<host, runs, wire, disturbed, stage, size_line, img_size, x0,
                 dtb_addr,
                 todo, ready, failed, resets>>

recieve_and_load_img ==
  \/ Printed("prompt", "size")
  \/ ReadSize
  \/ Printed("ready", "raw")
  \/ ReadImage
  \/ Len(kernel) = img_size /\ Printed("raw", "jump")

jump_to_kernel ==
  /\ stage = "jump"
  /\ stage' = "kernel" /\ x0' = dtb_addr /\ dtb_addr' = "none"
  /\ todo' \in Boots
  /\ UNCHANGED <<host_side, size_line, img_size, kernel, ready, failed, resets>>

bootloader_main == StartLoader \/ recieve_and_load_img \/ jump_to_kernel

\* What a wrong image would do is not modelled.
main ==
  LET step == Head(todo) IN
  /\ stage = "kernel" /\ kernel = Image /\ todo # <<>>
  /\ todo' = Tail(todo) /\ ready' = ready \cup {step}
  /\ dtb_addr' = IF step = "dtb" THEN x0 ELSE dtb_addr
  /\ x0' = IF step = "dtb" THEN x0 ELSE "junk"
  /\ IF step = "uart" THEN mini_uart_init ELSE UNCHANGED <<device, disturbed>>
  /\ UNCHANGED <<host, runs, wire, stage, size_line, img_size, kernel, failed,
                 resets>>

Run == Relocate \/ dtb_init \/ bss_init \/ bootloader_main \/ main

LoaderNext == SendSize \/ SendImage \/ Deliver \/ PowerOn \/ PowerOff \/ Run

\* The CPU runs, the line carries, the script's timeout passes.
LoaderSpec ==
  /\ LoaderInit /\ [][LoaderNext]_loader_vars
  /\ WF_loader_vars(Run) /\ WF_loader_vars(Deliver) /\ WF_loader_vars(SendImage)

-----------------------------------------------------------------------------
Step == UNION {{boot[k] : k \in DOMAIN boot} : boot \in Boots}

\* A line leaves room for its NUL, an image is not longer than announced.
LoaderTypeOK ==
  /\ host \in {"idle", "wait"} /\ stage \in Stage
  /\ wire \in Seq(Byte) /\ device \in Seq(Byte)
  /\ size_line \in Seq(Byte) /\ Len(size_line) <= MaxReadBuffer - 1
  /\ kernel \in Seq(Byte) /\ Len(kernel) <= img_size
  /\ x0 \in {"none", "junk", "dtb"} /\ dtb_addr \in {"none", "junk", "dtb"}
  /\ ready \subseteq Step /\ todo \in Seq(Step)
  /\ disturbed \in BOOLEAN /\ failed \in BOOLEAN
  /\ runs \in 0 .. MaxRuns /\ resets \in 0 .. MaxResets

\* A script that finds the bootloader at an empty line, or the board still
\* off, and whose characters all arrive, gets its image entered byte by byte,
\* whatever earlier runs and power-ups have left behind, whatever the image
\* holds and although the answer it waits for never comes.
ImageLoaded == stage \in {"jump", "kernel"} /\ ~disturbed => kernel = Image

\* The kernel looks for its ramdisk in the device tree the firmware named,
\* and has all that an interrupt needs before interrupts are enabled.
KernelComesUp ==
  /\ "ramfs" \in ready => dtb_addr = "dtb"
  /\ "irq" \in ready => {"el1", "vectors", "bss", "stack", "tasks"} \subseteq ready

\* After one input error no size is ever accepted: every later line ends a
\* buffer that begins with the bad one, until the board is switched off.
ErrorIsFinal == failed => stage \in {"prompt", "size"}

\* A script that is started while the bootloader waits with an empty line
\* brings the kernel up, although it never sees the answer it waits for.
PatientHostLoads ==
  (host = "wait" /\ stage = "size" /\ size_line = <<>> /\ device \o wire = SizeLine)
    ~> ("shell" \in ready \/ stage = "off")

==============================================================================
