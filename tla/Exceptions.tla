------------------------------ MODULE Exceptions ------------------------------
(***************************************************************************)
(* Exception entry and return (lab5/src/exception_asm.s, the C handlers of *)
(* exception.c, syscall.c) under the program they serve: the shell loads a *)
(* program (cpio_load_program) and enters it at EL0.  In lab5 the program  *)
(* makes the system calls of user_prog/main.c; in labs 3 and 4, which are  *)
(* the same here, it counts to five in x0 (user_prog/main.s) and traps at  *)
(* each count into a handler that prints registers and answers nothing.    *)
(*                                                                         *)
(* There is one SPSR_EL1 and one ELR_EL1: an exception overwrites both.    *)
(* The C handlers unmask interrupts before they return to the assembly,    *)
(* so an interrupt may be taken at every instruction from there to eret.   *)
(* The handlers' work (the task queue, the timer, the UART) is in the      *)
(* modules TaskQueue, Timer and Uart; here they change registers and mask. *)
(*                                                                         *)
(* An address is a pair <<depth, pc>>: the pc of the frame at that depth,  *)
(* depth 0 being the interrupted program.  Of the registers only x0, x1    *)
(* and x8, those of a call, are told apart.                                *)
(***************************************************************************)
EXTENDS Naturals, Sequences

CONSTANTS
  Pid,     \* what get_current()->id is (0: main's dummy thread)
  Sizes,   \* lengths a program passes to uart_write
  MaxIrqs  \* bound: interrupts taken

ASSUME PidAssumption == Pid \in Nat
ASSUME SizesAssumption == Sizes \subseteq Nat
ASSUME MaxIrqsAssumption == MaxIrqs \in Nat

VARIABLES
  lab,     \* 3 or 5
  base,    \* pc of the shell or of the user program
  frames,  \* the exception frames on the kernel stack, oldest first
  x,       \* general registers
  el,      \* exception level, 0 or 1
  masked,  \* PSTATE.I
  spsr,    \* SPSR_EL1: the level and the mask to return to
  elr,     \* ELR_EL1: the address to return to
  lost,    \* an eret went somewhere else than to what was interrupted
  asked,   \* history: the registers at the last system call
  struck,  \* history: an interrupt was taken between a write of SPSR_EL1 and its eret
  irqs     \* interrupts taken so far

vars == <<lab, base, frames, x, el, masked, spsr, elr, lost, asked, struck, irqs>>

\* The number user_prog/main.c puts into x8 for each of its wrappers.
SvcNumber == [getpid |-> 0, exec |-> 1, uart_write |-> 2, uart_read |-> 3,
              fork |-> 4, exit |-> 5, mbox_call |-> 6, kill |-> 7]

Unknown == Pid + 100  \* a value the code does not determine
Value == Sizes \cup {Pid, Unknown}
Counts == 0 .. 5
Registers == [x0 : Value \cup Counts, x1 : Value, x8 : 0 .. 8]
Junk == [x0 |-> Unknown, x1 |-> Unknown, x8 |-> 8]  \* what C code leaves

BasePc == {"prompt", "msr_elr", "msr_sp", "eret", "user", "count", "ret"}
AtEl0 == {"user", "count", "ret"}
FramePc == {"save_all", "save_spsr_elr", "handler", "restore", "msr_elr",
            "load_all", "eret"}
Address == Nat \X (BasePc \cup FramePc)
Mode == [el : {0, 1}, masked : BOOLEAN]
Frame == [kind : {"svc", "abort", "irq"}, pc : FramePc,
          x : Registers, spsr : Mode, elr : Address,
          from : Address, mode : Mode, regs : Registers]

\* The stages at which SPSR_EL1 or ELR_EL1 already holds what eret needs.
Window == {"msr_elr", "msr_sp", "load_all", "eret"}

Depth == Len(frames)
Top == frames[Depth]
Here == <<Depth, IF Depth = 0 THEN base ELSE Top.pc>>
Now == [el |-> el, masked |-> masked]

Init ==
  /\ lab \in {3, 5}
  /\ base = "prompt" /\ frames = <<>> /\ x = Junk
  /\ el = 1 /\ masked = FALSE
  /\ spsr = [el |-> 1, masked |-> TRUE] /\ elr = <<0, "prompt">>
  /\ lost = FALSE /\ asked = Junk /\ struck = FALSE /\ irqs = 0

-----------------------------------------------------------------------------
(***************************************************************************)
(* Entry.  The hardware saves mode and address, masks interrupts and goes  *)
(* through the vector table.  "from", "mode" and "regs" are history: what  *)
(* was interrupted.                                                        *)
(***************************************************************************)
Vector(kind, return, r) ==
  /\ elr' = return /\ spsr' = Now
  /\ el' = 1 /\ masked' = TRUE
  /\ frames' = Append(frames,
       [kind |-> kind, pc |-> "save_all", x |-> Junk, spsr |-> Now,
        elr |-> return, from |-> return, mode |-> Now, regs |-> r])

\* The timer or the UART interrupts, at either level.
Irq ==
  /\ ~lost /\ ~masked /\ irqs < MaxIrqs
  /\ irqs' = irqs + 1
  /\ struck' = (struck \/ Here[2] \in Window)
  /\ Vector("irq", Here, x)
  /\ UNCHANGED <<lab, base, x, lost, asked>>

\* The user program calls one of its wrappers: size is in x1 for uart_write.
Svc(call, size) ==
  /\ ~lost /\ lab = 5 /\ Depth = 0 /\ base = "user" /\ el = 0
  /\ x' = [x0 |-> size, x1 |-> size, x8 |-> SvcNumber[call]]
  /\ asked' = x'
  /\ base' = "ret"
  /\ Vector("svc", <<0, "ret">>, x')
  /\ UNCHANGED <<lab, lost, struck, irqs>>

\* Labs 3 and 4: add x0, x0, 1; svc 0; until x0 is 5.
Count ==
  /\ ~lost /\ Depth = 0 /\ base = "count" /\ el = 0 /\ x.x0 < 5
  /\ x' = [x EXCEPT !.x0 = @ + 1]
  /\ asked' = x'
  /\ base' = "ret"
  /\ Vector("svc", <<0, "ret">>, x')
  /\ UNCHANGED <<lab, lost, struck, irqs>>

\* A fault of the program enters lower_el_aarch64_sync too.
Abort ==
  /\ ~lost /\ lab = 5 /\ Depth = 0 /\ base = "user" /\ el = 0
  /\ Vector("abort", Here, x)
  /\ UNCHANGED <<lab, base, x, lost, asked, struck, irqs>>

-----------------------------------------------------------------------------
(***************************************************************************)
(* The stages of el_curr_el_spx_irq, lower_el_aarch64_irq and              *)
(* lower_el_aarch64_sync.                                                  *)
(***************************************************************************)
At(pc) == ~lost /\ Depth > 0 /\ Top.pc = pc

SetTop(f) == frames' = [frames EXCEPT ![Depth] = f]

\* [mutant of SaveAll] save_all unmasks, so that an interrupt comes before
\* SPSR_EL1 and ELR_EL1 are saved
SaveAllUnmasks ==
  /\ At("save_all")
  /\ SetTop([Top EXCEPT !.pc = "save_spsr_elr", !.x = x])
  /\ masked' = FALSE
  /\ UNCHANGED <<lab, base, x, el, spsr, elr, lost, asked, struck, irqs>>

SaveAll ==
  /\ At("save_all")
  /\ SetTop([Top EXCEPT !.pc = "save_spsr_elr", !.x = x])
  /\ UNCHANGED <<lab, base, x, el, masked, spsr, elr, lost, asked, struck, irqs>>

SaveSpsrElr ==
  /\ At("save_spsr_elr")
  /\ SetTop([Top EXCEPT !.pc = "handler", !.spsr = spsr, !.elr = elr])
  /\ UNCHANGED <<lab, base, x, el, masked, spsr, elr, lost, asked, struck, irqs>>

\* [mutant of SyscallResult] uart_write counts one character too many
SyscallCountsOneMore(r) ==
  CASE r.x8 = 0 -> {Pid}
    [] r.x8 = 2 -> {r.x1 + 1}
    [] r.x8 \in {3, 4} -> Value
    [] OTHER -> {r.x0}

\* What x0 may be after the call: sys_fork has an empty body, sys_exec is
\* declared nowhere, and the numbers 1, 5, 6 and 7 are commented out.
SyscallResult(r) ==
  CASE r.x8 = 0 -> {Pid}
    [] r.x8 = 2 -> {r.x1}
    [] r.x8 \in {3, 4} -> Value
    [] OTHER -> {r.x0}

\* [mutant of SyncHandler] the answer is left in the register, not the frame
SyncForgetsAnswer ==
  /\ At("handler") /\ Top.kind # "irq"
  /\ SetTop([Top EXCEPT !.pc = "restore"])
  /\ x' = Junk /\ masked' = FALSE
  /\ UNCHANGED <<lab, base, el, spsr, elr, lost, asked, struck, irqs>>

\* [mutant of SyncHandler] an unknown number is not answered
SyncDefaultHangs ==
  /\ At("handler") /\ Top.kind # "irq"
  /\ Top.kind = "svc" => Top.x.x8 \in {0, 2, 3, 4}
  /\ SetTop([Top EXCEPT !.pc = "restore"])
  /\ x' = Junk /\ masked' = FALSE
  /\ UNCHANGED <<lab, base, el, spsr, elr, lost, asked, struck, irqs>>

\* lower_el_aarch64_sync_c: lab5 serves an SVC, the others print; then
\* enable_irq().
SyncHandler ==
  /\ At("handler") /\ Top.kind # "irq"
  /\ \E r \in IF lab = 5 /\ Top.kind = "svc" THEN SyscallResult(Top.x) ELSE {Top.x.x0} :
       SetTop([Top EXCEPT !.pc = "restore", !.x.x0 = r])
  /\ x' = Junk /\ masked' = FALSE
  /\ UNCHANGED <<lab, base, el, spsr, elr, lost, asked, struck, irqs>>

\* el_curr_el_spx_irq_c and lower_el_aarch64_irq_c: on every path
\* disable_irq() first and enable_irq() last.
IrqHandler ==
  /\ At("handler") /\ Top.kind = "irq"
  /\ SetTop([Top EXCEPT !.pc = "restore"])
  /\ x' = Junk /\ masked' = FALSE
  /\ UNCHANGED <<lab, base, el, spsr, elr, lost, asked, struck, irqs>>

\* restore_spsr_elr: two instructions that write a register each.
RestoreSpsr ==
  /\ At("restore")
  /\ spsr' = Top.spsr
  /\ SetTop([Top EXCEPT !.pc = "msr_elr"])
  /\ UNCHANGED <<lab, base, x, el, masked, elr, lost, asked, struck, irqs>>

\* [mutant of RestoreElr] ELR_EL1 is not restored
RestoreSpsrOnly ==
  /\ At("msr_elr")
  /\ SetTop([Top EXCEPT !.pc = "load_all"])
  /\ UNCHANGED <<lab, base, x, el, masked, spsr, elr, lost, asked, struck, irqs>>

RestoreElr ==
  /\ At("msr_elr")
  /\ elr' = Top.elr
  /\ SetTop([Top EXCEPT !.pc = "load_all"])
  /\ UNCHANGED <<lab, base, x, el, masked, spsr, lost, asked, struck, irqs>>

LoadAll ==
  /\ At("load_all")
  /\ x' = Top.x
  /\ SetTop([Top EXCEPT !.pc = "eret"])
  /\ UNCHANGED <<lab, base, el, masked, spsr, elr, lost, asked, struck, irqs>>

\* eret goes where ELR_EL1 says; when that is not what this frame
\* interrupted, the stack is already popped and nothing after it is defined.
Eret ==
  /\ At("eret")
  /\ lost' = (elr # Top.from)
  /\ frames' = SubSeq(frames, 1, Depth - 1)
  /\ el' = spsr.el /\ masked' = spsr.masked
  /\ UNCHANGED <<lab, base, x, spsr, elr, asked, struck, irqs>>

Return ==
  SaveAll \/ SaveSpsrElr \/ SyncHandler \/ IrqHandler \/ RestoreSpsr
  \/ RestoreElr \/ LoadAll \/ Eret

-----------------------------------------------------------------------------
(***************************************************************************)
(* The interrupted program: the end of cpio_load_program, which writes     *)
(* SPSR_EL1, ELR_EL1 and SP_EL0 with interrupts on, and the user program.  *)
(***************************************************************************)
Base(from, to) == ~lost /\ Depth = 0 /\ base = from /\ base' = to

MsrSpsr ==
  /\ Base("prompt", "msr_elr")
  /\ spsr' = [el |-> 0, masked |-> FALSE]
  /\ x' = Junk
  /\ UNCHANGED <<lab, frames, el, masked, elr, lost, asked, struck, irqs>>

MsrElr ==
  /\ Base("msr_elr", "msr_sp")
  /\ elr' = <<0, "user">>
  /\ UNCHANGED <<lab, frames, x, el, masked, spsr, lost, asked, struck, irqs>>

MsrSp ==
  /\ Base("msr_sp", "eret")
  /\ UNCHANGED <<lab, frames, x, el, masked, spsr, elr, lost, asked, struck, irqs>>

\* With ELR_EL1 replaced, eret jumps back into cpio_load_program.
EnterProgram ==
  /\ Base("eret", elr[2])
  /\ el' = spsr.el /\ masked' = spsr.masked
  /\ UNCHANGED <<lab, frames, x, spsr, elr, lost, asked, struck, irqs>>

\* mov x0, 0
StartCount ==
  /\ lab = 3 /\ Base("user", "count")
  /\ x' = [x EXCEPT !.x0 = 0]
  /\ UNCHANGED <<lab, frames, el, masked, spsr, elr, lost, asked, struck, irqs>>

\* After the svc: mov %0, x0 in lab5, the comparison with 5 in the others.
TakeResult ==
  /\ Base("ret", IF lab = 5 THEN "user" ELSE "count")
  /\ x' = IF lab = 5 THEN Junk ELSE x
  /\ UNCHANGED <<lab, frames, el, masked, spsr, elr, lost, asked, struck, irqs>>

load_program == MsrSpsr \/ MsrElr \/ MsrSp \/ EnterProgram

Next ==
  \/ Irq
  \/ \E call \in DOMAIN SvcNumber, size \in Sizes : Svc(call, size)
  \/ Count
  \/ Abort
  \/ Return
  \/ load_program
  \/ StartCount
  \/ TakeResult

Spec == Init /\ [][Next]_vars /\ WF_vars(Return) /\ WF_vars(TakeResult)

-----------------------------------------------------------------------------
TypeOK ==
  /\ lab \in {3, 5}
  /\ base \in BasePc
  /\ frames \in Seq(Frame)
  /\ x \in Registers /\ asked \in Registers
  /\ el \in {0, 1}
  /\ masked \in BOOLEAN /\ lost \in BOOLEAN /\ struck \in BOOLEAN
  /\ spsr \in Mode /\ elr \in Address
  /\ irqs \in 0 .. MaxIrqs

\* The copies on the stack stay right however deep interrupts nest: from
\* the handler on, a frame holds the address, the mode and the registers of
\* what it interrupted (x0 of a system call aside, which is the answer).
FramesIntact ==
  \A d \in 1 .. Depth :
    LET f == frames[d] IN
    f.pc \notin {"save_all", "save_spsr_elr"} =>
      /\ f.elr = f.from /\ f.spsr = f.mode
      /\ f.x.x8 = f.regs.x8
      /\ f.kind # "svc" => f.x = f.regs

\* An exception returns to what it interrupted, and the program runs at EL0,
\* unless an interrupt was taken between a write of SPSR_EL1 and its eret.
OnlyTheWindowLoses ==
  \/ struck
  \/ /\ ~lost
     /\ Depth = 0 => (el = 0 <=> base \in AtEl0)

\* A program that gets its call's result sees what the kernel answered to
\* this call, whatever interrupted the handler or its return; in labs 3 and 4
\* it finds its registers, its count among them, as it left them.
CallAnswered ==
  Depth = 0 /\ base = "ret" /\ ~lost /\ ~struck =>
    IF lab = 5 THEN x.x0 \in SyscallResult(asked) /\ x.x8 = asked.x8 ELSE x = asked

\* A system call comes back to the program, unless its return was struck.
CallReturns == (base = "ret") ~> (base \in {"user", "count"} \/ struck)

\* exception.c:218 "turn of irq in case race condition": what an interrupt
\* interrupts goes on afterwards as if nothing had happened.
ContextKept == ~lost

==============================================================================
