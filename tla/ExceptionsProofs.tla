--------------------------- MODULE ExceptionsProofs ---------------------------
(***************************************************************************)
(* Proofs about exception entry and return, for every thread number, every *)
(* set of sizes and every number of interrupts, nested to any depth.       *)
(***************************************************************************)
EXTENDS Exceptions, SequenceTheorems, TLAPS

-----------------------------------------------------------------------------
(* Entering the program at the address in ELR_EL1 leads to a place in it,  *)
(* even after an interrupt has replaced that address.                      *)
BaseKnown ==
  /\ Depth > 0 => frames[1].from[2] \in BasePc
  /\ ~lost /\ Depth = 0 => elr[2] \in BasePc

TypeInv == TypeOK /\ BaseKnown

(* What a frame holds at its stage, and what the processor's registers     *)
(* hold at that of the top frame.  Those below were left unmasked.         *)
Entering == {"save_all", "save_spsr_elr"}

Saved(f) ==
  /\ f.pc \notin Entering =>
       /\ f.elr = f.from /\ f.spsr = f.mode
       /\ f.x.x8 = f.regs.x8
       /\ f.kind # "svc" => f.x = f.regs
  /\ f.pc \in {"save_spsr_elr", "handler"} => f.x = f.regs

TopEnters ==
  ~lost /\ Depth > 0 =>
    /\ Top.pc \in Entering \cup {"handler"} => masked
    /\ Top.pc \in Entering => elr = Top.from /\ spsr = Top.mode
    /\ Top.pc = "save_all" => x = Top.regs

AllSaved == \A d \in 1 .. Depth : Saved(frames[d])

OthersLeave ==
  \A d \in 1 .. Depth : d # Depth => frames[d].pc \notin Entering \cup {"handler"}

FrameInv == AllSaved /\ OthersLeave /\ TopEnters

-----------------------------------------------------------------------------
(* The three ways the stack of frames changes.                             *)

LEMMA Indices ==
  ASSUME frames \in Seq(Frame)
  PROVE  /\ Depth \in Nat
         /\ \A d \in 1 .. Depth : frames[d] \in Frame
         /\ Depth > 0 => Depth \in 1 .. Depth /\ 1 \in 1 .. Depth /\ Top \in Frame
  <1>1. Depth \in Nat
    BY DEF Depth
  <1>2. \A d \in 1 .. Depth : frames[d] \in Frame
    BY ElementOfSeq DEF Depth
  <1> QED
    BY <1>1, <1>2 DEF Top

LEMMA SetTopStep ==
  ASSUME frames \in Seq(Frame), Depth > 0,
         NEW f \in Frame, SetTop(f)
  PROVE  /\ frames' \in Seq(Frame)
         /\ Depth' = Depth
         /\ Top' = f
         /\ \A d \in 1 .. Depth : d # Depth => frames'[d] = frames[d]
  <1>1. Depth \in 1 .. Len(frames)
    BY Indices DEF Depth
  <1>2. /\ [frames EXCEPT ![Depth] = f] \in Seq(Frame)
        /\ Len([frames EXCEPT ![Depth] = f]) = Len(frames)
        /\ \A j \in 1 .. Len(frames) :
             [frames EXCEPT ![Depth] = f][j] = IF j = Depth THEN f ELSE frames[j]
    BY <1>1, ExceptSeq
  <1>3. frames' \in Seq(Frame) /\ Depth' = Depth
    BY <1>2 DEF SetTop, Depth
  <1>4. \A j \in 1 .. Depth : frames'[j] = IF j = Depth THEN f ELSE frames[j]
    BY <1>2 DEF SetTop, Depth
  <1> QED
    BY <1>1, <1>3, <1>4 DEF Top, Depth

LEMMA PushStep ==
  ASSUME frames \in Seq(Frame),
         NEW f \in Frame, frames' = Append(frames, f)
  PROVE  /\ frames' \in Seq(Frame)
         /\ Depth' = Depth + 1
         /\ Top' = f
         /\ \A d \in 1 .. Depth : frames'[d] = frames[d]
  BY AppendProperties DEF Depth, Top

LEMMA PopStep ==
  ASSUME frames \in Seq(Frame), Depth > 0,
         frames' = SubSeq(frames, 1, Depth - 1)
  PROVE  /\ frames' \in Seq(Frame)
         /\ Depth' = Depth - 1
         /\ \A d \in 1 .. Depth - 1 : frames'[d] = frames[d]
  <1>1. Depth \in Nat
    BY Indices
  <1>2. 1 \in 1 .. Len(frames) + 1 /\ Depth - 1 \in 1 - 1 .. Len(frames)
    BY <1>1 DEF Depth
  <1>3. /\ SubSeq(frames, 1, Depth - 1) \in Seq(Frame)
        /\ Len(SubSeq(frames, 1, Depth - 1)) = Depth - 1
        /\ \A i \in 1 .. Depth - 1 : SubSeq(frames, 1, Depth - 1)[i] = frames[i]
    BY <1>1, <1>2, SubSeqProperties
  <1> QED
    BY <1>3 DEF Depth

-----------------------------------------------------------------------------
(* Types.                                                                  *)

LEMMA Values ==
  /\ Junk \in Registers
  /\ Pid \in Value /\ Sizes \subseteq Value
  /\ Value \subseteq Nat
  <1>1. Unknown \in Nat /\ Unknown \in Value
    BY PidAssumption DEF Unknown, Value
  <1>2. Value \subseteq Nat
    BY <1>1, PidAssumption, SizesAssumption DEF Value
  <1>3. Junk \in Registers
    BY <1>1 DEF Junk, Registers
  <1> QED
    BY <1>2, <1>3 DEF Value

LEMMA Places ==
  ASSUME TypeOK
  PROVE  Here \in Address /\ Now \in Mode
  <1>1. CASE Depth = 0
    BY <1>1 DEF TypeOK, Here, Now, Address, Mode
  <1>2. CASE Depth # 0
    <2>1. Depth \in Nat /\ Top \in Frame
      BY <1>2, Indices DEF TypeOK
    <2> QED
      BY <1>2, <2>1 DEF TypeOK, Here, Now, Address, Mode, Frame
  <1> QED
    BY <1>1, <1>2

LEMMA VectorType ==
  ASSUME TypeOK,
         NEW kind \in {"svc", "abort", "irq"}, NEW return \in Address,
         NEW r \in Registers, Vector(kind, return, r)
  PROVE  /\ elr' \in Address /\ spsr' \in Mode
         /\ el' \in {0, 1} /\ masked' \in BOOLEAN
         /\ frames' \in Seq(Frame)
         /\ Depth' = Depth + 1
         /\ \A d \in 1 .. Depth : frames'[d] = frames[d]
         /\ Top' = [kind |-> kind, pc |-> "save_all", x |-> Junk, spsr |-> Now,
                    elr |-> return, from |-> return, mode |-> Now, regs |-> r]
  <1>1. elr' \in Address /\ spsr' \in Mode /\ el' \in {0, 1} /\ masked' \in BOOLEAN
    BY Places DEF Vector
  <1>2. [kind |-> kind, pc |-> "save_all", x |-> Junk, spsr |-> Now,
         elr |-> return, from |-> return, mode |-> Now, regs |-> r] \in Frame
    BY Places, Values DEF Frame, FramePc
  <1> QED
    BY <1>1, <1>2, PushStep DEF Vector, TypeOK

\* The answer to a call is a value that x0 may hold.
LEMMA Answers ==
  ASSUME NEW r \in Registers
  PROVE  SyscallResult(r) \subseteq Value \cup Counts
  <1>1. CASE r.x8 = 0
    BY <1>1, Values DEF SyscallResult
  <1>2. CASE r.x8 = 2
    BY <1>2 DEF SyscallResult, Registers
  <1>3. CASE r.x8 \in {3, 4}
    BY <1>3 DEF SyscallResult
  <1>4. CASE r.x8 \notin {0, 2, 3, 4}
    BY <1>4 DEF SyscallResult, Registers
  <1> QED
    BY <1>1, <1>2, <1>3, <1>4

\* What a stage of a handler does to its frame.
StageOf(f, pc, g) ==
  /\ g \in Frame /\ g.pc = pc
  /\ g.kind = f.kind /\ g.from = f.from /\ g.mode = f.mode /\ g.regs = f.regs

LEMMA SaveAllStage ==
  ASSUME TypeOK, SaveAll
  PROVE  \E g \in Frame : SetTop(g) /\ StageOf(Top, "save_spsr_elr", g) /\ g.x = x
  <1>1. Top \in Frame
    BY Indices DEF TypeOK, SaveAll, At
  <1> DEFINE g == [Top EXCEPT !.pc = "save_spsr_elr", !.x = x]
  <1>2. g \in Frame /\ StageOf(Top, "save_spsr_elr", g) /\ g.x = x
    BY <1>1 DEF TypeOK, Frame, FramePc, StageOf
  <1> QED
    BY <1>2 DEF SaveAll

LEMMA SaveSpsrElrStage ==
  ASSUME TypeOK, SaveSpsrElr
  PROVE  \E g \in Frame : /\ SetTop(g) /\ StageOf(Top, "handler", g)
                          /\ g.x = Top.x /\ g.spsr = spsr /\ g.elr = elr
  <1>1. Top \in Frame
    BY Indices DEF TypeOK, SaveSpsrElr, At
  <1> DEFINE g == [Top EXCEPT !.pc = "handler", !.spsr = spsr, !.elr = elr]
  <1>2. /\ g \in Frame /\ StageOf(Top, "handler", g)
        /\ g.x = Top.x /\ g.spsr = spsr /\ g.elr = elr
    BY <1>1 DEF TypeOK, Frame, FramePc, StageOf
  <1> QED
    BY <1>2 DEF SaveSpsrElr

\* The later stages leave what was saved, but for the answer to a call.
Leaves(f, g) ==
  /\ g.spsr = f.spsr /\ g.elr = f.elr
  /\ g.x.x8 = f.x.x8
  /\ f.kind # "svc" => g.x = f.x

LEMMA SyncHandlerStage ==
  ASSUME TypeOK, SyncHandler
  PROVE  \E g \in Frame :
           /\ SetTop(g) /\ StageOf(Top, "restore", g) /\ Leaves(Top, g)
           /\ Top.kind = "svc" =>
                IF lab = 5 THEN g.x.x0 \in SyscallResult(Top.x) ELSE g.x = Top.x
  <1>1. Top \in Frame /\ Top.x \in Registers
    BY Indices DEF TypeOK, SyncHandler, At, Frame
  <1>2. PICK r \in IF lab = 5 /\ Top.kind = "svc" THEN SyscallResult(Top.x) ELSE {Top.x.x0} :
          SetTop([Top EXCEPT !.pc = "restore", !.x.x0 = r])
    BY DEF SyncHandler
  <1>3. r \in Value \cup Counts
    BY <1>1, Answers DEF Registers
  <1> DEFINE y == [Top.x EXCEPT !.x0 = r]
             g == [Top EXCEPT !.pc = "restore", !.x = y]
  <1>4. y \in Registers /\ y.x8 = Top.x.x8 /\ y.x0 = r
    BY <1>1, <1>3 DEF Registers
  <1>5. Top.kind # "svc" \/ lab # 5 => y = Top.x
    BY <1>1 DEF Registers
  <1> HIDE DEF y
  <1>6. g \in Frame /\ StageOf(Top, "restore", g) /\ g.x = y
        /\ g.spsr = Top.spsr /\ g.elr = Top.elr
    BY <1>1, <1>4 DEF Frame, FramePc, StageOf
  <1>7. [Top EXCEPT !.pc = "restore", !.x.x0 = r] = g
    BY <1>1 DEF Frame, y
  <1>8. Top.kind = "svc" => IF lab = 5 THEN y.x0 \in SyscallResult(Top.x) ELSE y = Top.x
    BY <1>4, <1>5
  <1>9. Leaves(Top, g)
    BY <1>4, <1>5, <1>6 DEF Leaves
  <1> QED
    BY <1>2, <1>6, <1>7, <1>8, <1>9

\* The stages that touch nothing of the frame but its pc.
LEMMA PcStage ==
  ASSUME TypeOK, Depth > 0,
         NEW pc \in FramePc, SetTop([Top EXCEPT !.pc = pc])
  PROVE  \E g \in Frame : /\ SetTop(g) /\ StageOf(Top, pc, g) /\ Leaves(Top, g)
                          /\ g.x = Top.x
  <1>1. Top \in Frame
    BY Indices DEF TypeOK
  <1> DEFINE g == [Top EXCEPT !.pc = pc]
  <1>2. g \in Frame /\ StageOf(Top, pc, g) /\ Leaves(Top, g) /\ g.x = Top.x
    BY <1>1 DEF Frame, StageOf, Leaves
  <1> QED
    BY <1>2

\* A stage keeps the frames typed and the oldest one's origin.
LEMMA StageType ==
  ASSUME TypeInv, Depth > 0, NEW pc, NEW g \in Frame,
         SetTop(g), StageOf(Top, pc, g), lost' = lost
  PROVE  /\ frames' \in Seq(Frame) /\ BaseKnown'
         /\ Depth' = Depth /\ Top' = g
         /\ \A d \in 1 .. Depth : d # Depth => frames'[d] = frames[d]
  <1>1. /\ frames' \in Seq(Frame)
        /\ Depth' = Depth /\ Top' = g
        /\ \A d \in 1 .. Depth : d # Depth => frames'[d] = frames[d]
    BY SetTopStep DEF TypeInv, TypeOK
  <1>2. Depth \in Nat
    BY Indices DEF TypeInv, TypeOK
  <1>3. frames'[1].from = frames[1].from
    <2>1. CASE Depth = 1
      BY <1>1, <2>1 DEF Top, StageOf
    <2>2. CASE Depth # 1
      BY <1>1, <1>2, <2>2
    <2> QED
      BY <2>1, <2>2
  <1> QED
    BY <1>1, <1>3 DEF BaseKnown, TypeInv

LEMMA VectorBase ==
  ASSUME TypeInv, lost' = lost,
         NEW kind \in {"svc", "abort", "irq"}, NEW return \in Address,
         NEW r \in Registers, Vector(kind, return, r),
         Depth = 0 => return[2] \in BasePc
  PROVE  BaseKnown'
  <1>1. Depth \in Nat
    BY Indices DEF TypeInv, TypeOK
  <1>2. /\ Depth' = Depth + 1
        /\ \A d \in 1 .. Depth : frames'[d] = frames[d]
        /\ Top'.from = return
    BY VectorType DEF TypeInv
  <1>3. CASE Depth = 0
    BY <1>1, <1>2, <1>3 DEF BaseKnown, Top
  <1>4. CASE Depth # 0
    BY <1>1, <1>2, <1>4 DEF BaseKnown, TypeInv
  <1> QED
    BY <1>3, <1>4

-----------------------------------------------------------------------------
(* Every step keeps the types.                                             *)

LEMMA InitTypes == Init => TypeInv
  <1> SUFFICES ASSUME Init PROVE TypeInv
    OBVIOUS
  <1>1. frames = <<>> /\ Depth = 0 /\ frames \in Seq(Frame)
    BY DEF Init, Depth
  <1>2. elr \in Address /\ spsr \in Mode
    BY DEF Init, BasePc, Mode, Address
  <1>3. x \in Registers /\ asked \in Registers /\ irqs \in 0 .. MaxIrqs
    BY Values, MaxIrqsAssumption DEF Init
  <1>4. /\ lab \in {3, 5} /\ base \in BasePc /\ el \in {0, 1}
        /\ masked \in BOOLEAN /\ lost \in BOOLEAN /\ struck \in BOOLEAN
    BY DEF Init, BasePc
  <1>5. TypeOK
    BY <1>1, <1>2, <1>3, <1>4 DEF TypeOK
  <1> QED
    BY <1>1, <1>5 DEF Init, TypeInv, BaseKnown, BasePc

LEMMA EntryTypes ==
  ASSUME TypeInv,
         \/ Irq
         \/ \E call \in DOMAIN SvcNumber, size \in Sizes : Svc(call, size)
         \/ Count
         \/ Abort
  PROVE  TypeInv'
  <1>1. Here \in Address /\ (Depth = 0 => Here[2] \in BasePc)
    BY Places DEF TypeInv, TypeOK, Here
  <1>2. <<0, "ret">> \in Address /\ <<0, "ret">>[2] \in BasePc /\ "ret" \in BasePc
    BY DEF Address, BasePc
  <1>3. CASE Irq
    <2>1. Vector("irq", Here, x) /\ lost' = lost /\ x \in Registers
      BY <1>3 DEF Irq, TypeInv, TypeOK
    <2>2. BaseKnown'
      BY <1>1, <2>1, VectorBase
    <2>3. /\ elr' \in Address /\ spsr' \in Mode
          /\ el' \in {0, 1} /\ masked' \in BOOLEAN
          /\ frames' \in Seq(Frame)
      BY <1>1, <2>1, VectorType DEF TypeInv
    <2>4. irqs' \in 0 .. MaxIrqs
      BY <1>3, MaxIrqsAssumption DEF Irq, TypeInv, TypeOK
    <2>5. struck' \in BOOLEAN
      BY <1>3 DEF Irq, TypeInv, TypeOK
    <2>6. /\ lab' \in {3, 5} /\ base' \in BasePc
          /\ x' \in Registers /\ asked' \in Registers
          /\ lost' \in BOOLEAN
      BY <1>3 DEF Irq, TypeInv, TypeOK
    <2> QED
      BY <2>2, <2>3, <2>4, <2>5, <2>6 DEF TypeInv, TypeOK
  <1>4. CASE \E call \in DOMAIN SvcNumber, size \in Sizes : Svc(call, size)
    <2>1. PICK call \in DOMAIN SvcNumber, size \in Sizes : Svc(call, size)
      BY <1>4
    <2>2. SvcNumber[call] \in 0 .. 8
      BY DEF SvcNumber
    <2>3. x' \in Registers
      BY <2>1, <2>2, Values DEF Svc, Registers
    <2>4. Vector("svc", <<0, "ret">>, x') /\ lost' = lost
      BY <2>1 DEF Svc
    <2>5. BaseKnown'
      BY <1>2, <2>3, <2>4, VectorBase
    <2>6. /\ elr' \in Address /\ spsr' \in Mode
          /\ el' \in {0, 1} /\ masked' \in BOOLEAN
          /\ frames' \in Seq(Frame)
      BY <1>2, <2>3, <2>4, VectorType DEF TypeInv
    <2>7. /\ lab' \in {3, 5} /\ base' \in BasePc /\ asked' \in Registers
          /\ lost' \in BOOLEAN /\ struck' \in BOOLEAN /\ irqs' \in 0 .. MaxIrqs
      BY <1>2, <2>1, <2>3 DEF Svc, TypeInv, TypeOK
    <2> QED
      BY <2>3, <2>5, <2>6, <2>7 DEF TypeInv, TypeOK
  <1>5. CASE Count
    <2>1. x.x0 + 1 \in Counts
      <3>1. x.x0 \in Nat /\ x.x0 < 5
        BY <1>5, Values DEF Count, TypeInv, TypeOK, Registers, Counts
      <3> QED
        BY <3>1 DEF Counts
    <2>2. x' \in Registers
      BY <1>5, <2>1 DEF Count, TypeInv, TypeOK, Registers
    <2>3. Vector("svc", <<0, "ret">>, x') /\ lost' = lost
      BY <1>5 DEF Count
    <2>4. BaseKnown'
      BY <1>2, <2>2, <2>3, VectorBase
    <2>5. /\ elr' \in Address /\ spsr' \in Mode
          /\ el' \in {0, 1} /\ masked' \in BOOLEAN
          /\ frames' \in Seq(Frame)
      BY <1>2, <2>2, <2>3, VectorType DEF TypeInv
    <2>6. /\ lab' \in {3, 5} /\ base' \in BasePc /\ asked' \in Registers
          /\ lost' \in BOOLEAN /\ struck' \in BOOLEAN /\ irqs' \in 0 .. MaxIrqs
      BY <1>2, <1>5, <2>2 DEF Count, TypeInv, TypeOK
    <2> QED
      BY <2>2, <2>4, <2>5, <2>6 DEF TypeInv, TypeOK
  <1>6. CASE Abort
    <2>1. Vector("abort", Here, x) /\ lost' = lost /\ x \in Registers
      BY <1>6 DEF Abort, TypeInv, TypeOK
    <2>2. BaseKnown'
      BY <1>1, <2>1, VectorBase
    <2>3. /\ elr' \in Address /\ spsr' \in Mode
          /\ el' \in {0, 1} /\ masked' \in BOOLEAN
          /\ frames' \in Seq(Frame)
      BY <1>1, <2>1, VectorType DEF TypeInv
    <2>4. /\ lab' \in {3, 5} /\ base' \in BasePc
          /\ x' \in Registers /\ asked' \in Registers
          /\ lost' \in BOOLEAN /\ struck' \in BOOLEAN /\ irqs' \in 0 .. MaxIrqs
      BY <1>6 DEF Abort, TypeInv, TypeOK
    <2> QED
      BY <2>2, <2>3, <2>4 DEF TypeInv, TypeOK
  <1> QED
    BY <1>3, <1>4, <1>5, <1>6

\* What every stage of a handler leaves alone.
LEMMA RestTypes ==
  ASSUME TypeInv, UNCHANGED <<lab, base, asked, struck, irqs>>
  PROVE  /\ lab' \in {3, 5} /\ base' \in BasePc /\ asked' \in Registers
         /\ struck' \in BOOLEAN /\ irqs' \in 0 .. MaxIrqs
  BY DEF TypeInv, TypeOK

LEMMA ReturnTypes ==
  ASSUME TypeInv, Return
  PROVE  TypeInv'
  <1>1. Depth \in 1 .. Depth /\ Depth \in Nat /\ Depth > 0 /\ Top \in Frame
    BY Indices
    DEF TypeInv, TypeOK, Return, SaveAll, SaveSpsrElr, SyncHandler, IrqHandler,
        RestoreSpsr, RestoreElr, LoadAll, Eret, At
  <1>2. /\ lab' \in {3, 5} /\ base' \in BasePc /\ asked' \in Registers
        /\ struck' \in BOOLEAN /\ irqs' \in 0 .. MaxIrqs
    BY RestTypes
    DEF Return, SaveAll, SaveSpsrElr, SyncHandler, IrqHandler,
        RestoreSpsr, RestoreElr, LoadAll, Eret
  <1>3. CASE SaveAll
    <2>1. PICK g \in Frame : SetTop(g) /\ StageOf(Top, "save_spsr_elr", g) /\ g.x = x
      BY <1>3, SaveAllStage DEF TypeInv
    <2>2. UNCHANGED <<x, el, masked, spsr, elr, lost>>
      BY <1>3 DEF SaveAll
    <2>3. frames' \in Seq(Frame) /\ BaseKnown'
      BY <1>1, <2>1, <2>2, StageType
    <2> QED
      BY <1>2, <2>2, <2>3 DEF TypeInv, TypeOK
  <1>4. CASE SaveSpsrElr
    <2>1. PICK g \in Frame : SetTop(g) /\ StageOf(Top, "handler", g)
      BY <1>4, SaveSpsrElrStage DEF TypeInv
    <2>2. UNCHANGED <<x, el, masked, spsr, elr, lost>>
      BY <1>4 DEF SaveSpsrElr
    <2>3. frames' \in Seq(Frame) /\ BaseKnown'
      BY <1>1, <2>1, <2>2, StageType
    <2> QED
      BY <1>2, <2>2, <2>3 DEF TypeInv, TypeOK
  <1>5. CASE SyncHandler
    <2>1. PICK g \in Frame : SetTop(g) /\ StageOf(Top, "restore", g)
      BY <1>5, SyncHandlerStage DEF TypeInv
    <2>2. x' = Junk /\ masked' = FALSE /\ UNCHANGED <<el, spsr, elr, lost>>
      BY <1>5 DEF SyncHandler
    <2>3. frames' \in Seq(Frame) /\ BaseKnown'
      BY <1>1, <2>1, <2>2, StageType
    <2> QED
      BY <1>2, <2>2, <2>3, Values DEF TypeInv, TypeOK
  <1>6. CASE IrqHandler
    <2>1. PICK g \in Frame : SetTop(g) /\ StageOf(Top, "restore", g)
      BY <1>1, <1>6, PcStage DEF TypeInv, IrqHandler, FramePc
    <2>2. x' = Junk /\ masked' = FALSE /\ UNCHANGED <<el, spsr, elr, lost>>
      BY <1>6 DEF IrqHandler
    <2>3. frames' \in Seq(Frame) /\ BaseKnown'
      BY <1>1, <2>1, <2>2, StageType
    <2> QED
      BY <1>2, <2>2, <2>3, Values DEF TypeInv, TypeOK
  <1>7. CASE RestoreSpsr
    <2>1. PICK g \in Frame : SetTop(g) /\ StageOf(Top, "msr_elr", g)
      BY <1>1, <1>7, PcStage DEF TypeInv, RestoreSpsr, FramePc
    <2>2. spsr' = Top.spsr /\ UNCHANGED <<x, el, masked, elr, lost>>
      BY <1>7 DEF RestoreSpsr
    <2>3. frames' \in Seq(Frame) /\ BaseKnown'
      BY <1>1, <2>1, <2>2, StageType
    <2>4. Top.spsr \in Mode
      BY <1>1 DEF Frame
    <2> QED
      BY <1>2, <2>2, <2>3, <2>4 DEF TypeInv, TypeOK
  <1>8. CASE RestoreElr
    <2>1. PICK g \in Frame : SetTop(g) /\ StageOf(Top, "load_all", g)
      BY <1>1, <1>8, PcStage DEF TypeInv, RestoreElr, FramePc
    <2>2. elr' = Top.elr /\ UNCHANGED <<x, el, masked, spsr, lost>>
      BY <1>8 DEF RestoreElr
    <2>3. frames' \in Seq(Frame) /\ BaseKnown'
      BY <1>1, <2>1, <2>2, StageType
    <2>4. Top.elr \in Address
      BY <1>1 DEF Frame
    <2> QED
      BY <1>2, <2>2, <2>3, <2>4 DEF TypeInv, TypeOK
  <1>9. CASE LoadAll
    <2>1. PICK g \in Frame : SetTop(g) /\ StageOf(Top, "eret", g)
      BY <1>1, <1>9, PcStage DEF TypeInv, LoadAll, FramePc
    <2>2. x' = Top.x /\ UNCHANGED <<el, masked, spsr, elr, lost>>
      BY <1>9 DEF LoadAll
    <2>3. frames' \in Seq(Frame) /\ BaseKnown'
      BY <1>1, <2>1, <2>2, StageType
    <2>4. Top.x \in Registers
      BY <1>1 DEF Frame
    <2> QED
      BY <1>2, <2>2, <2>3, <2>4 DEF TypeInv, TypeOK
  <1>10. CASE Eret
    <2>1. /\ frames' \in Seq(Frame)
          /\ Depth' = Depth - 1
          /\ \A d \in 1 .. Depth - 1 : frames'[d] = frames[d]
      BY <1>1, <1>10, PopStep DEF Eret, TypeInv, TypeOK
    <2>2. Depth' > 0 => frames'[1] = frames[1]
      BY <1>1, <2>1
    <2>3. ~lost' /\ Depth' = 0 => elr'[2] \in BasePc
      <3>1. ~lost' => elr' = Top.from
        BY <1>10 DEF Eret
      <3>2. Depth' = 0 => Top = frames[1]
        BY <1>1, <2>1 DEF Top
      <3> QED
        BY <1>1, <3>1, <3>2 DEF TypeInv, BaseKnown
    <2>4. BaseKnown'
      BY <1>1, <2>1, <2>2, <2>3 DEF BaseKnown, TypeInv
    <2>5. /\ el' \in {0, 1} /\ masked' \in BOOLEAN /\ lost' \in BOOLEAN
          /\ x' \in Registers /\ spsr' \in Mode /\ elr' \in Address
      BY <1>10 DEF Eret, TypeInv, TypeOK, Mode
    <2> QED
      BY <1>2, <2>1, <2>4, <2>5 DEF TypeInv, TypeOK
  <1> QED
    BY <1>3, <1>4, <1>5, <1>6, <1>7, <1>8, <1>9, <1>10 DEF Return

LEMMA ProgramTypes ==
  ASSUME TypeInv, load_program \/ StartCount \/ TakeResult
  PROVE  TypeInv'
  <1>1. /\ ~lost /\ Depth = 0
        /\ UNCHANGED <<lab, frames, lost, asked, struck, irqs>>
    BY DEF load_program, MsrSpsr, MsrElr, MsrSp, EnterProgram, StartCount,
           TakeResult, Base
  <1>2. Depth' = 0
    BY <1>1 DEF Depth
  <1>3. base' \in BasePc
    BY DEF load_program, MsrSpsr, MsrElr, MsrSp, EnterProgram, StartCount,
           TakeResult, Base, BasePc, TypeInv, BaseKnown
  <1>4. elr' \in Address /\ elr'[2] \in BasePc
    <2>1. elr' = elr \/ elr' = <<0, "user">>
      BY DEF load_program, MsrSpsr, MsrElr, MsrSp, EnterProgram, StartCount, TakeResult
    <2> QED
      BY <1>1, <2>1 DEF TypeInv, TypeOK, BaseKnown, Address, BasePc
  <1>5. spsr' \in Mode
    <2>1. spsr' = spsr \/ spsr' = [el |-> 0, masked |-> FALSE]
      BY DEF load_program, MsrSpsr, MsrElr, MsrSp, EnterProgram, StartCount, TakeResult
    <2>2. [el |-> 0, masked |-> FALSE] \in Mode
      BY DEF Mode
    <2> QED
      BY <2>1, <2>2 DEF TypeInv, TypeOK
  <1>6. el' \in {0, 1} /\ masked' \in BOOLEAN
    BY DEF load_program, MsrSpsr, MsrElr, MsrSp, EnterProgram, StartCount,
           TakeResult, TypeInv, TypeOK, Mode
  <1>7. x' \in Registers
    <2>1. x' \in {x, Junk, [x EXCEPT !.x0 = 0]}
      BY DEF load_program, MsrSpsr, MsrElr, MsrSp, EnterProgram, StartCount, TakeResult
    <2>2. [x EXCEPT !.x0 = 0] \in Registers
      BY DEF TypeInv, TypeOK, Registers, Counts
    <2> QED
      BY <2>1, <2>2, Values DEF TypeInv, TypeOK
  <1>8. TypeOK'
    BY <1>1, <1>3, <1>4, <1>5, <1>6, <1>7 DEF TypeInv, TypeOK
  <1> QED
    BY <1>1, <1>2, <1>4, <1>8 DEF TypeInv, BaseKnown

LEMMA StepTypes == TypeInv /\ [Next]_vars => TypeInv'
  <1> SUFFICES ASSUME TypeInv, [Next]_vars PROVE TypeInv'
    OBVIOUS
  <1>1. CASE UNCHANGED vars
    BY <1>1 DEF vars, TypeInv, TypeOK, BaseKnown, Depth
  <1> QED
    BY <1>1, EntryTypes, ReturnTypes, ProgramTypes DEF Next

-----------------------------------------------------------------------------
(* The frames hold what was interrupted.                                   *)

\* A step that sets the top frame from its handler on.
LEMMA LateStage ==
  ASSUME TypeInv, FrameInv, Depth > 0, ~lost, lost' = lost, NEW g \in Frame,
         NEW pc \in {"restore", "msr_elr", "load_all", "eret"},
         Top.pc \notin Entering,
         SetTop(g), StageOf(Top, pc, g), Leaves(Top, g)
  PROVE  FrameInv'
  <1>1. /\ Depth' = Depth /\ Top' = g
        /\ \A d \in 1 .. Depth : d # Depth => frames'[d] = frames[d]
    BY StageType
  <1>2. Depth \in 1 .. Depth
    BY Indices DEF TypeInv, TypeOK
  <1>3. Saved(Top)
    BY <1>2 DEF FrameInv, AllSaved, Top
  <1>4. g.pc \notin Entering /\ g.pc # "handler"
    BY DEF StageOf, Entering
  <1>5. Saved(g)
    BY <1>3, <1>4 DEF Saved, StageOf, Leaves, Entering
  <1>6. AllSaved'
    <2>1. \A d \in 1 .. Depth : frames'[d] = g \/ frames'[d] = frames[d]
      BY <1>1 DEF Top
    <2> QED
      BY <1>1, <1>5, <2>1 DEF FrameInv, AllSaved, Saved
  <1>7. OthersLeave'
    BY <1>1 DEF FrameInv, OthersLeave
  <1>8. TopEnters'
    BY <1>1, <1>4 DEF TopEnters, Entering
  <1> QED
    BY <1>6, <1>7, <1>8 DEF FrameInv

\* An exception pushes a frame on others that were left unmasked.
LEMMA VectorFrames ==
  ASSUME TypeInv, FrameInv, ~lost,
         Depth = 0 \/ ~masked,
         NEW kind \in {"svc", "abort", "irq"}, NEW return \in Address,
         NEW r \in Registers, Vector(kind, return, r), x' = r
  PROVE  FrameInv'
  <1>1. /\ Depth' = Depth + 1
        /\ \A d \in 1 .. Depth : frames'[d] = frames[d]
        /\ Top' = [kind |-> kind, pc |-> "save_all", x |-> Junk, spsr |-> Now,
                   elr |-> return, from |-> return, mode |-> Now, regs |-> r]
    BY VectorType DEF TypeInv
  <1>2. Depth \in Nat /\ (Depth > 0 => Depth \in 1 .. Depth)
    BY Indices DEF TypeInv, TypeOK
  <1>3. \A d \in 1 .. Depth' : d = Depth' \/ d \in 1 .. Depth
    BY <1>1, <1>2
  <1>4. AllSaved'
    <2>1. Saved(Top)'
      BY <1>1 DEF Saved, Entering
    <2>2. \A d \in 1 .. Depth : Saved(frames[d])'
      BY <1>1 DEF FrameInv, AllSaved, Saved
    <2> QED
      BY <1>3, <2>1, <2>2 DEF AllSaved, Top
  <1>5. OthersLeave'
    <2>1. \A d \in 1 .. Depth : frames[d].pc \notin Entering \cup {"handler"}
      BY <1>2 DEF FrameInv, OthersLeave, TopEnters, Top
    <2> QED
      BY <1>1, <1>3, <2>1 DEF OthersLeave
  <1>6. TopEnters'
    BY <1>1 DEF TopEnters, Entering, Vector
  <1> QED
    BY <1>4, <1>5, <1>6 DEF FrameInv

LEMMA EntryFrames ==
  ASSUME TypeInv, FrameInv,
         \/ Irq
         \/ \E call \in DOMAIN SvcNumber, size \in Sizes : Svc(call, size)
         \/ Count
         \/ Abort
  PROVE  FrameInv'
  <1>1. x' \in Registers
    BY EntryTypes DEF TypeInv, TypeOK
  <1>2. Here \in Address /\ <<0, "ret">> \in Address
    BY Places DEF TypeInv, Address, BasePc
  <1>3. CASE Irq
    BY <1>1, <1>2, <1>3, VectorFrames DEF Irq
  <1>4. CASE \E call \in DOMAIN SvcNumber, size \in Sizes : Svc(call, size)
    <2>1. ~lost /\ Depth = 0 /\ Vector("svc", <<0, "ret">>, x')
      BY <1>4 DEF Svc
    <2> QED
      BY <1>1, <1>2, <2>1, VectorFrames
  <1>5. CASE Count
    BY <1>1, <1>2, <1>5, VectorFrames DEF Count
  <1>6. CASE Abort
    BY <1>1, <1>2, <1>6, VectorFrames DEF Abort
  <1> QED
    BY <1>3, <1>4, <1>5, <1>6

LEMMA ReturnFrames ==
  ASSUME TypeInv, FrameInv, Return
  PROVE  FrameInv'
  <1>1. Depth > 0 /\ ~lost
    BY DEF Return, SaveAll, SaveSpsrElr, SyncHandler, IrqHandler,
           RestoreSpsr, RestoreElr, LoadAll, Eret, At
  <1>2. Depth \in Nat /\ Depth \in 1 .. Depth /\ Saved(Top)
    BY <1>1, Indices DEF TypeInv, TypeOK, FrameInv, AllSaved, Top
  <1>3. CASE SaveAll
    <2>1. PICK g \in Frame : SetTop(g) /\ StageOf(Top, "save_spsr_elr", g) /\ g.x = x
      BY <1>3, SaveAllStage DEF TypeInv
    <2>2. Top.pc = "save_all" /\ UNCHANGED <<x, masked, spsr, elr, lost>>
      BY <1>3 DEF SaveAll, At
    <2>3. /\ Depth' = Depth /\ Top' = g
          /\ \A d \in 1 .. Depth : d # Depth => frames'[d] = frames[d]
      BY <1>1, <2>1, <2>2, StageType
    <2>4. x = Top.regs /\ masked /\ elr = Top.from /\ spsr = Top.mode
      BY <1>1, <2>2 DEF FrameInv, TopEnters, Entering
    <2>5. Saved(g)
      BY <2>1, <2>4 DEF Saved, StageOf, Entering
    <2>6. AllSaved'
      BY <1>2, <2>3, <2>5 DEF FrameInv, AllSaved, Saved, Top
    <2>7. OthersLeave'
      BY <2>3 DEF FrameInv, OthersLeave
    <2>8. TopEnters'
      BY <2>1, <2>2, <2>3, <2>4 DEF TopEnters, StageOf
    <2> QED
      BY <2>6, <2>7, <2>8 DEF FrameInv
  <1>4. CASE SaveSpsrElr
    <2>1. PICK g \in Frame : /\ SetTop(g) /\ StageOf(Top, "handler", g)
                             /\ g.x = Top.x /\ g.spsr = spsr /\ g.elr = elr
      BY <1>4, SaveSpsrElrStage DEF TypeInv
    <2>2. Top.pc = "save_spsr_elr" /\ UNCHANGED <<masked, lost>>
      BY <1>4 DEF SaveSpsrElr, At
    <2>3. /\ Depth' = Depth /\ Top' = g
          /\ \A d \in 1 .. Depth : d # Depth => frames'[d] = frames[d]
      BY <1>1, <2>1, <2>2, StageType
    <2>4. Top.x = Top.regs /\ masked /\ elr = Top.from /\ spsr = Top.mode
      BY <1>1, <1>2, <2>2 DEF FrameInv, TopEnters, Entering, Saved
    <2>5. Saved(g)
      BY <2>1, <2>4 DEF Saved, StageOf
    <2>6. AllSaved'
      BY <1>2, <2>3, <2>5 DEF FrameInv, AllSaved, Saved, Top
    <2>7. OthersLeave'
      BY <2>3 DEF FrameInv, OthersLeave
    <2>8. TopEnters'
      BY <2>1, <2>2, <2>3, <2>4 DEF TopEnters, StageOf, Entering
    <2> QED
      BY <2>6, <2>7, <2>8 DEF FrameInv
  <1>5. CASE SyncHandler
    <2>1. \E g \in Frame : SetTop(g) /\ StageOf(Top, "restore", g) /\ Leaves(Top, g)
      BY <1>5, SyncHandlerStage DEF TypeInv
    <2>2. Top.pc \notin Entering /\ lost' = lost
      BY <1>5 DEF SyncHandler, At, Entering
    <2> QED
      BY <1>1, <2>1, <2>2, LateStage
  <1>6. CASE IrqHandler
    <2>1. \E g \in Frame : SetTop(g) /\ StageOf(Top, "restore", g) /\ Leaves(Top, g)
      BY <1>1, <1>6, PcStage DEF TypeInv, IrqHandler, FramePc
    <2>2. Top.pc \notin Entering /\ lost' = lost
      BY <1>6 DEF IrqHandler, At, Entering
    <2> QED
      BY <1>1, <2>1, <2>2, LateStage
  <1>7. CASE RestoreSpsr
    <2>1. \E g \in Frame : SetTop(g) /\ StageOf(Top, "msr_elr", g) /\ Leaves(Top, g)
      BY <1>1, <1>7, PcStage DEF TypeInv, RestoreSpsr, FramePc
    <2>2. Top.pc \notin Entering /\ lost' = lost
      BY <1>7 DEF RestoreSpsr, At, Entering
    <2> QED
      BY <1>1, <2>1, <2>2, LateStage
  <1>8. CASE RestoreElr
    <2>1. \E g \in Frame : SetTop(g) /\ StageOf(Top, "load_all", g) /\ Leaves(Top, g)
      BY <1>1, <1>8, PcStage DEF TypeInv, RestoreElr, FramePc
    <2>2. Top.pc \notin Entering /\ lost' = lost
      BY <1>8 DEF RestoreElr, At, Entering
    <2> QED
      BY <1>1, <2>1, <2>2, LateStage
  <1>9. CASE LoadAll
    <2>1. \E g \in Frame : SetTop(g) /\ StageOf(Top, "eret", g) /\ Leaves(Top, g)
      BY <1>1, <1>9, PcStage DEF TypeInv, LoadAll, FramePc
    <2>2. Top.pc \notin Entering /\ lost' = lost
      BY <1>9 DEF LoadAll, At, Entering
    <2> QED
      BY <1>1, <2>1, <2>2, LateStage
  <1>10. CASE Eret
    <2>1. /\ Depth' = Depth - 1
          /\ \A d \in 1 .. Depth - 1 : frames'[d] = frames[d]
      BY <1>1, <1>10, PopStep DEF Eret, TypeInv, TypeOK
    <2>2. AllSaved'
      BY <1>2, <2>1 DEF FrameInv, AllSaved, Saved
    <2>3. \A d \in 1 .. Depth' : frames'[d].pc \notin Entering \cup {"handler"}
      BY <1>2, <2>1 DEF FrameInv, OthersLeave
    <2>4. OthersLeave'
      BY <2>3 DEF OthersLeave
    <2>5. TopEnters'
      <3>1. Depth' > 0 => Depth' \in 1 .. Depth'
        BY <1>2, <2>1
      <3> QED
        BY <2>3, <3>1 DEF TopEnters, Top, Entering
    <2> QED
      BY <2>2, <2>4, <2>5 DEF FrameInv
  <1> QED
    BY <1>3, <1>4, <1>5, <1>6, <1>7, <1>8, <1>9, <1>10 DEF Return

LEMMA StepFrames == TypeInv /\ FrameInv /\ [Next]_vars => FrameInv'
  <1> SUFFICES ASSUME TypeInv, FrameInv, [Next]_vars PROVE FrameInv'
    OBVIOUS
  <1>1. CASE UNCHANGED vars
    BY <1>1
    DEF vars, FrameInv, AllSaved, OthersLeave, TopEnters, Saved, Top, Depth
  <1>2. CASE load_program \/ StartCount \/ TakeResult
    <2>1. Depth = 0 /\ UNCHANGED <<frames, lost>>
      BY <1>2 DEF load_program, MsrSpsr, MsrElr, MsrSp, EnterProgram, StartCount,
                  TakeResult, Base
    <2>2. Depth' = 0
      BY <2>1 DEF Depth
    <2> QED
      BY <2>1, <2>2 DEF FrameInv, AllSaved, OthersLeave, TopEnters
  <1> QED
    BY <1>1, <1>2, EntryFrames, ReturnFrames DEF Next

-----------------------------------------------------------------------------
(* While no interrupt has struck between a write of SPSR_EL1 and its eret, *)
(* the frames below the top wait in "restore", where SPSR_EL1 and ELR_EL1  *)
(* are still to be written, and what has been written is right.            *)
Nested ==
  \A d \in 1 .. Depth :
    /\ d # Depth => frames[d].pc = "restore"
    /\ d > 1 => frames[d].mode.el = 1

TopReturns ==
  Depth > 0 =>
    /\ el = 1 /\ base \notin Window
    /\ frames[1].mode.el = 0 <=> base \in AtEl0
    /\ Top.pc \in {"msr_elr", "load_all", "eret"} => spsr = Top.mode
    /\ Top.pc \in {"load_all", "eret"} => elr = Top.from

ProgramRuns ==
  Depth = 0 =>
    /\ el = 0 <=> base \in AtEl0
    /\ base \in Window => spsr.el = 0
    /\ base \in {"msr_sp", "eret"} => elr = <<0, "user">>

Undisturbed == ~lost /\ Nested /\ TopReturns /\ ProgramRuns

Inv == TypeInv /\ FrameInv /\ (struck \/ Undisturbed)

\* An exception that is taken outside the window.
LEMMA VectorUndisturbed ==
  ASSUME TypeInv, FrameInv, Undisturbed,
         NEW kind \in {"svc", "abort", "irq"}, NEW return \in Address,
         NEW r \in Registers, Vector(kind, return, r), lost' = lost,
         Depth = 0 \/ ~masked,
         Here[2] \notin Window,
         Depth = 0 => base' \notin Window /\ (base' \in AtEl0 <=> base \in AtEl0),
         Depth > 0 => base' = base
  PROVE  Undisturbed'
  <1>1. /\ Depth' = Depth + 1
        /\ \A d \in 1 .. Depth : frames'[d] = frames[d]
        /\ Top' = [kind |-> kind, pc |-> "save_all", x |-> Junk, spsr |-> Now,
                   elr |-> return, from |-> return, mode |-> Now, regs |-> r]
    BY VectorType DEF TypeInv
  <1>2. Depth \in Nat /\ (Depth > 0 => Depth \in 1 .. Depth /\ Top \in Frame)
    BY Indices DEF TypeInv, TypeOK
  <1>3. \A d \in 1 .. Depth' : d = Depth' \/ d \in 1 .. Depth
    BY <1>1, <1>2
  <1>4. Depth > 0 => Top.pc = "restore"
    <2>1. Depth > 0 => Top.pc \notin Entering \cup {"handler"}
      BY <1>2 DEF FrameInv, TopEnters, Undisturbed
    <2> QED
      BY <1>2, <2>1 DEF Here, Window, Frame, FramePc, Entering
  <1>5. Top'.pc = "save_all" /\ Top'.mode.el = el /\ Top' = frames'[Depth']
    BY <1>1 DEF Now, Top
  <1>6. Nested'
    <2>1. \A d \in 1 .. Depth : frames'[d].pc = "restore"
      BY <1>1, <1>2, <1>4 DEF Undisturbed, Nested, Top
    <2>2. Depth' > 1 => Top'.mode.el = 1
      BY <1>1, <1>2, <1>5 DEF Undisturbed, TopReturns
    <2> QED
      BY <1>1, <1>2, <1>3, <1>5, <2>1, <2>2 DEF Undisturbed, Nested
  <1>7. TopReturns'
    <2>1. el' = 1
      BY DEF Vector
    <2>2. CASE Depth = 0
      <3>1. frames'[1].mode.el = el
        BY <1>1, <1>5, <2>2
      <3> QED
        BY <1>1, <1>5, <2>1, <2>2, <3>1
        DEF Undisturbed, ProgramRuns, TopReturns
    <2>3. CASE Depth > 0
      <3>1. frames'[1] = frames[1]
        BY <1>1, <1>2, <2>3
      <3> QED
        BY <1>5, <2>1, <2>3, <3>1 DEF Undisturbed, TopReturns
    <2> QED
      BY <1>2, <2>2, <2>3
  <1>8. ProgramRuns'
    BY <1>1, <1>2 DEF ProgramRuns
  <1> QED
    BY <1>6, <1>7, <1>8 DEF Undisturbed

LEMMA EntryUndisturbed ==
  ASSUME Inv,
         \/ Irq
         \/ \E call \in DOMAIN SvcNumber, size \in Sizes : Svc(call, size)
         \/ Count
         \/ Abort
  PROVE  (struck \/ Undisturbed)'
  <1>1. x' \in Registers
    BY EntryTypes DEF Inv, TypeInv, TypeOK
  <1>2. Here \in Address /\ <<0, "ret">> \in Address
    BY Places DEF Inv, TypeInv, Address, BasePc
  <1>3. struck => struck'
    BY DEF Irq, Svc, Count, Abort
  <1>4. CASE Irq
    <2>1. CASE struck \/ Here[2] \in Window
      BY <1>4, <2>1 DEF Irq
    <2>2. CASE ~(struck \/ Here[2] \in Window)
      <3>1. Depth = 0 => base \notin Window
        BY <2>2 DEF Here
      <3> QED
        BY <1>1, <1>2, <1>4, <2>2, <3>1, VectorUndisturbed DEF Irq, Inv
    <2> QED
      BY <2>1, <2>2
  <1>5. CASE /\ ~struck
             /\ \/ \E call \in DOMAIN SvcNumber, size \in Sizes : Svc(call, size)
                \/ Count
    <2>1. /\ Depth = 0 /\ base \in {"user", "count"} /\ base' = "ret"
          /\ lost' = lost /\ Vector("svc", <<0, "ret">>, x')
      BY <1>5 DEF Svc, Count
    <2>2. Here[2] \notin Window /\ base' \notin Window
          /\ (base' \in AtEl0 <=> base \in AtEl0)
      BY <2>1 DEF Here, Window, AtEl0
    <2> QED
      BY <1>1, <1>2, <1>5, <2>1, <2>2, VectorUndisturbed DEF Inv
  <1>6. CASE ~struck /\ Abort
    <2>1. /\ Depth = 0 /\ base = "user" /\ base' = base
          /\ lost' = lost /\ x' = x /\ Vector("abort", Here, x)
      BY <1>6 DEF Abort
    <2>2. Here[2] \notin Window /\ base' \notin Window
      BY <2>1 DEF Here, Window
    <2> QED
      BY <1>1, <1>2, <1>6, <2>1, <2>2, VectorUndisturbed DEF Inv
  <1> QED
    BY <1>3, <1>4, <1>5, <1>6

\* A stage keeps the frames below and the origin of its own.
LEMMA StageUndisturbed ==
  ASSUME TypeInv, Undisturbed, Depth > 0, NEW pc, NEW g \in Frame,
         SetTop(g), StageOf(Top, pc, g), UNCHANGED <<base, el, lost>>,
         pc \in {"msr_elr", "load_all", "eret"} => spsr' = Top.mode,
         pc \in {"load_all", "eret"} => elr' = Top.from
  PROVE  Undisturbed'
  <1>1. /\ Depth' = Depth /\ Top' = g
        /\ \A d \in 1 .. Depth : d # Depth => frames'[d] = frames[d]
    BY StageType
  <1>2. Depth \in Nat /\ Depth \in 1 .. Depth
    BY Indices DEF TypeInv, TypeOK
  <1>3. \A d \in 1 .. Depth : frames'[d].mode = frames[d].mode
    BY <1>1 DEF Top, StageOf
  <1>4. Nested'
    BY <1>1, <1>3 DEF Undisturbed, Nested
  <1>5. TopReturns'
    <2>1. frames'[1].mode = frames[1].mode
      BY <1>2, <1>3
    <2>2. g.pc = pc /\ g.mode = Top.mode /\ g.from = Top.from
      BY DEF StageOf
    <2> QED
      BY <1>1, <2>1, <2>2 DEF Undisturbed, TopReturns
  <1>6. ProgramRuns'
    BY <1>1 DEF ProgramRuns
  <1> QED
    BY <1>4, <1>5, <1>6 DEF Undisturbed

LEMMA ReturnUndisturbed ==
  ASSUME TypeInv, FrameInv, Undisturbed, Return
  PROVE  Undisturbed'
  <1>1. Depth > 0 /\ UNCHANGED base
    BY DEF Return, SaveAll, SaveSpsrElr, SyncHandler, IrqHandler,
           RestoreSpsr, RestoreElr, LoadAll, Eret, At
  <1>2. Depth \in Nat /\ Depth \in 1 .. Depth /\ Saved(Top)
    BY <1>1, Indices DEF TypeInv, TypeOK, FrameInv, AllSaved, Top
  <1>3. CASE SaveAll
    <2>1. \E g \in Frame : SetTop(g) /\ StageOf(Top, "save_spsr_elr", g)
      BY <1>3, SaveAllStage DEF TypeInv
    <2> QED
      BY <1>1, <1>3, <2>1, StageUndisturbed DEF SaveAll
  <1>4. CASE SaveSpsrElr
    <2>1. \E g \in Frame : SetTop(g) /\ StageOf(Top, "handler", g)
      BY <1>4, SaveSpsrElrStage DEF TypeInv
    <2> QED
      BY <1>1, <1>4, <2>1, StageUndisturbed DEF SaveSpsrElr
  <1>5. CASE SyncHandler
    <2>1. \E g \in Frame : SetTop(g) /\ StageOf(Top, "restore", g)
      BY <1>5, SyncHandlerStage DEF TypeInv
    <2>2. el' = el /\ lost' = lost
      BY <1>5 DEF SyncHandler
    <2> QED
      BY <1>1, <2>1, <2>2, StageUndisturbed
  <1>6. CASE IrqHandler
    <2>1. \E g \in Frame : SetTop(g) /\ StageOf(Top, "restore", g)
      BY <1>1, <1>6, PcStage DEF TypeInv, IrqHandler, FramePc
    <2> QED
      BY <1>1, <1>6, <2>1, StageUndisturbed DEF IrqHandler
  <1>7. CASE RestoreSpsr
    <2>1. \E g \in Frame : SetTop(g) /\ StageOf(Top, "msr_elr", g)
      BY <1>1, <1>7, PcStage DEF TypeInv, RestoreSpsr, FramePc
    <2>2. spsr' = Top.mode
      BY <1>2, <1>7 DEF RestoreSpsr, At, Saved, Entering
    <2> QED
      BY <1>1, <1>7, <2>1, <2>2, StageUndisturbed DEF RestoreSpsr
  <1>8. CASE RestoreElr
    <2>1. \E g \in Frame : SetTop(g) /\ StageOf(Top, "load_all", g)
      BY <1>1, <1>8, PcStage DEF TypeInv, RestoreElr, FramePc
    <2>2. spsr' = Top.mode /\ elr' = Top.from
      BY <1>1, <1>2, <1>8 DEF RestoreElr, At, Saved, Entering, Undisturbed, TopReturns
    <2> QED
      BY <1>1, <1>8, <2>1, <2>2, StageUndisturbed DEF RestoreElr
  <1>9. CASE LoadAll
    <2>1. \E g \in Frame : SetTop(g) /\ StageOf(Top, "eret", g)
      BY <1>1, <1>9, PcStage DEF TypeInv, LoadAll, FramePc
    <2>2. spsr' = Top.mode /\ elr' = Top.from
      BY <1>1, <1>9 DEF LoadAll, At, Undisturbed, TopReturns
    <2> QED
      BY <1>1, <1>9, <2>1, <2>2, StageUndisturbed DEF LoadAll
  <1>10. CASE Eret
    <2>1. /\ Depth' = Depth - 1
          /\ \A d \in 1 .. Depth - 1 : frames'[d] = frames[d]
      BY <1>1, <1>10, PopStep DEF Eret, TypeInv, TypeOK
    <2>2. spsr = Top.mode /\ elr = Top.from
      BY <1>1, <1>10 DEF Eret, At, Undisturbed, TopReturns
    <2>3. ~lost' /\ el' = Top.mode.el
      BY <1>10, <2>2 DEF Eret
    <2>4. \A d \in 1 .. Depth' : frames'[d].pc = "restore"
      BY <1>2, <2>1 DEF Undisturbed, Nested
    <2>5. Nested'
      BY <1>2, <2>1, <2>4 DEF Undisturbed, Nested
    <2>6. TopReturns'
      <3>1. Depth' > 0 => Top'.pc = "restore" /\ frames'[1] = frames[1] /\ el' = 1
        BY <1>2, <2>1, <2>3, <2>4 DEF Top, Undisturbed, Nested
      <3> QED
        BY <1>1, <3>1 DEF Undisturbed, TopReturns
    <2>7. ProgramRuns'
      <3>1. Depth' = 0 => el' = frames[1].mode.el
        BY <1>2, <2>1, <2>3 DEF Top
      <3>2. base' \notin Window /\ "msr_sp" \in Window /\ "eret" \in Window
        BY <1>1 DEF Undisturbed, TopReturns, Window
      <3> QED
        BY <1>1, <3>1, <3>2 DEF ProgramRuns, Undisturbed, TopReturns
    <2> QED
      BY <2>3, <2>5, <2>6, <2>7 DEF Undisturbed
  <1> QED
    BY <1>3, <1>4, <1>5, <1>6, <1>7, <1>8, <1>9, <1>10 DEF Return

LEMMA ProgramUndisturbed ==
  ASSUME TypeInv, Undisturbed, load_program \/ StartCount \/ TakeResult
  PROVE  Undisturbed'
  <1>1. Depth = 0 /\ ~lost /\ UNCHANGED <<frames, lost>>
    BY DEF load_program, MsrSpsr, MsrElr, MsrSp, EnterProgram, StartCount,
           TakeResult, Base
  <1>2. Depth' = 0
    BY <1>1 DEF Depth
  <1>3. ProgramRuns'
    <2>1. CASE MsrSpsr
      BY <1>1, <1>2, <2>1
      DEF MsrSpsr, Base, Undisturbed, ProgramRuns, AtEl0, Window
    <2>2. CASE MsrElr
      BY <1>1, <1>2, <2>2
      DEF MsrElr, Base, Undisturbed, ProgramRuns, AtEl0, Window
    <2>3. CASE MsrSp
      BY <1>1, <1>2, <2>3
      DEF MsrSp, Base, Undisturbed, ProgramRuns, AtEl0, Window
    <2>4. CASE EnterProgram
      BY <1>1, <1>2, <2>4
      DEF EnterProgram, Base, Undisturbed, ProgramRuns, AtEl0, Window
    <2>5. CASE StartCount
      BY <1>1, <1>2, <2>5
      DEF StartCount, Base, Undisturbed, ProgramRuns, AtEl0, Window
    <2>6. CASE TakeResult
      BY <1>1, <1>2, <2>6
      DEF TakeResult, Base, Undisturbed, ProgramRuns, AtEl0, Window
    <2> QED
      BY <2>1, <2>2, <2>3, <2>4, <2>5, <2>6 DEF load_program
  <1> QED
    BY <1>1, <1>2, <1>3 DEF Undisturbed, Nested, TopReturns

LEMMA StepUndisturbed == Inv /\ [Next]_vars => (struck \/ Undisturbed)'
  <1> SUFFICES ASSUME Inv, [Next]_vars PROVE (struck \/ Undisturbed)'
    OBVIOUS
  <1>1. CASE UNCHANGED vars
    BY <1>1
    DEF vars, Inv, Undisturbed, Nested, TopReturns, ProgramRuns, Top, Depth
  <1>2. CASE Return \/ load_program \/ StartCount \/ TakeResult
    <2>1. struck' = struck
      BY <1>2
      DEF load_program, MsrSpsr, MsrElr, MsrSp, EnterProgram, StartCount,
          TakeResult, Return, SaveAll, SaveSpsrElr, SyncHandler, IrqHandler,
          RestoreSpsr, RestoreElr, LoadAll, Eret
    <2> QED
      BY <1>2, <2>1, ReturnUndisturbed, ProgramUndisturbed DEF Inv
  <1> QED
    BY <1>1, <1>2, EntryUndisturbed DEF Next

-----------------------------------------------------------------------------
(* From the handler of a system call to the program that takes the answer, *)
(* the answer is in the saved registers, on the way back to them, or in    *)
(* them, and interrupts on the way save and restore it.                    *)
Answer(y) ==
  IF lab = 5 THEN y.x0 \in SyscallResult(asked) /\ y.x8 = asked.x8 ELSE y = asked

HoldsAnswer(f) ==
  /\ f.kind # "abort"
  /\ f.kind = "irq" => Answer(f.regs)
  /\ f.kind = "svc" =>
       /\ f.regs = asked
       /\ f.pc \notin Entering \cup {"handler"} => Answer(f.x)

RegistersBack == Depth > 0 /\ Top.pc = "eret" => x = Top.x

AnswerHeld ==
  base = "ret" => IF Depth = 0 THEN Answer(x) ELSE HoldsAnswer(frames[1])

AnswerInv == RegistersBack /\ AnswerHeld

CallInv == Inv /\ (struck \/ AnswerInv)

LEMMA EntryAnswer ==
  ASSUME TypeInv, AnswerInv,
         \/ Irq
         \/ \E call \in DOMAIN SvcNumber, size \in Sizes : Svc(call, size)
         \/ Count
         \/ Abort
  PROVE  AnswerInv'
  <1>1. x' \in Registers
    BY EntryTypes DEF TypeInv, TypeOK
  <1>2. Here \in Address /\ <<0, "ret">> \in Address
    BY Places DEF TypeInv, Address, BasePc
  <1>3. PICK kind \in {"svc", "abort", "irq"}, return \in Address :
          /\ Vector(kind, return, x')
          /\ \/ kind = "irq" /\ UNCHANGED <<lab, base, x, asked>>
             \/ kind = "svc" /\ Depth = 0 /\ asked' = x'
             \/ kind = "abort" /\ base' # "ret"
    <2>1. CASE Irq
      BY <1>2, <2>1 DEF Irq
    <2>2. CASE \E call \in DOMAIN SvcNumber, size \in Sizes : Svc(call, size)
      <3>1. Vector("svc", <<0, "ret">>, x') /\ Depth = 0 /\ asked' = x'
        BY <2>2 DEF Svc
      <3> QED
        BY <1>2, <3>1
    <2>3. CASE Count
      <3>1. Vector("svc", <<0, "ret">>, x') /\ Depth = 0 /\ asked' = x'
        BY <2>3 DEF Count
      <3> QED
        BY <1>2, <3>1
    <2>4. CASE Abort
      <3>1. Vector("abort", Here, x') /\ base' # "ret"
        BY <2>4 DEF Abort
      <3> QED
        BY <1>2, <3>1
    <2> QED
      BY <2>1, <2>2, <2>3, <2>4
  <1>4. /\ Depth' = Depth + 1
        /\ \A d \in 1 .. Depth : frames'[d] = frames[d]
        /\ Top' = [kind |-> kind, pc |-> "save_all", x |-> Junk, spsr |-> Now,
                   elr |-> return, from |-> return, mode |-> Now, regs |-> x']
    BY <1>1, <1>3, VectorType DEF TypeInv
  <1>5. Depth \in Nat
    BY Indices DEF TypeInv, TypeOK
  <1>6. RegistersBack'
    BY <1>4 DEF RegistersBack
  <1>7. /\ Top'.kind = kind /\ Top'.pc = "save_all" /\ Top'.regs = x'
        /\ Depth = 0 => Top' = frames'[1]
    BY <1>4 DEF Top
  <1>8. CASE kind = "irq"
    <2>1. UNCHANGED <<lab, base, x, asked>>
      BY <1>3, <1>8
    <2>2. Answer(x') <=> Answer(x)
      BY <2>1
    <2>3. CASE Depth = 0
      <3>1. base = "ret" => Answer(x')
        BY <2>2, <2>3 DEF AnswerInv, AnswerHeld
      <3> QED
        BY <1>4, <1>6, <1>7, <1>8, <2>1, <2>3, <3>1
        DEF AnswerInv, AnswerHeld, HoldsAnswer, Answer
    <2>4. CASE Depth # 0
      <3>1. frames'[1] = frames[1] /\ Depth' # 0
        BY <1>4, <1>5, <2>4
      <3> QED
        BY <1>6, <2>1, <2>4, <3>1 DEF AnswerInv, AnswerHeld, HoldsAnswer, Answer
    <2> QED
      BY <2>3, <2>4
  <1>9. CASE kind = "svc"
    <2>1. Depth = 0 /\ asked' = x'
      BY <1>3, <1>9
    <2> QED
      BY <1>4, <1>6, <1>7, <1>9, <2>1 DEF AnswerInv, AnswerHeld, HoldsAnswer, Entering
  <1>10. CASE kind = "abort"
    BY <1>3, <1>6, <1>10 DEF AnswerInv, AnswerHeld
  <1> QED
    BY <1>8, <1>9, <1>10

\* A stage that leaves the saved registers, or is not past the handler.
LEMMA StageAnswer ==
  ASSUME TypeInv, AnswerInv, Depth > 0, NEW pc, NEW g \in Frame,
         SetTop(g), StageOf(Top, pc, g), UNCHANGED <<lab, base, asked, lost>>,
         pc = "eret" => x' = g.x,
         \/ pc \in {"save_spsr_elr", "handler"}
         \/ Top.kind # "svc"
         \/ g.x = Top.x /\ Top.pc \notin Entering \cup {"handler"}
         \/ Top.kind = "svc" => (Top.regs = asked => Answer(g.x))
  PROVE  AnswerInv'
  <1>1. /\ Depth' = Depth /\ Top' = g
        /\ \A d \in 1 .. Depth : d # Depth => frames'[d] = frames[d]
    BY StageType
  <1>2. Depth \in Nat
    BY Indices DEF TypeInv, TypeOK
  <1>3. RegistersBack'
    BY <1>1 DEF RegistersBack, StageOf
  <1>4. CASE Depth = 1
    <2>1. frames[1] = Top /\ frames'[1] = g
      BY <1>1, <1>4 DEF Top
    <2>2. base = "ret" => HoldsAnswer(Top)
      BY <1>4, <2>1 DEF AnswerInv, AnswerHeld
    <2>3. base = "ret" => HoldsAnswer(g)
      BY <2>2 DEF HoldsAnswer, StageOf, Entering
    <2> QED
      BY <1>1, <1>3, <1>4, <2>1, <2>3 DEF AnswerInv, AnswerHeld, HoldsAnswer, Answer
  <1>5. CASE Depth # 1
    <2>1. frames'[1] = frames[1]
      BY <1>1, <1>2, <1>5
    <2> QED
      BY <1>1, <1>3, <2>1 DEF AnswerInv, AnswerHeld, HoldsAnswer, Answer
  <1> QED
    BY <1>4, <1>5

LEMMA ReturnAnswer ==
  ASSUME TypeInv, FrameInv, Undisturbed, AnswerInv, Return
  PROVE  AnswerInv'
  <1>1. Depth > 0 /\ UNCHANGED <<lab, base, asked>>
    BY DEF Return, SaveAll, SaveSpsrElr, SyncHandler, IrqHandler,
           RestoreSpsr, RestoreElr, LoadAll, Eret, At
  <1>2. Depth \in Nat /\ Depth \in 1 .. Depth /\ Saved(Top)
    BY <1>1, Indices DEF TypeInv, TypeOK, FrameInv, AllSaved, Top
  <1>3. CASE SaveAll
    <2>1. \E g \in Frame : SetTop(g) /\ StageOf(Top, "save_spsr_elr", g)
      BY <1>3, SaveAllStage DEF TypeInv
    <2> QED
      BY <1>1, <1>3, <2>1, StageAnswer DEF SaveAll
  <1>4. CASE SaveSpsrElr
    <2>1. \E g \in Frame : SetTop(g) /\ StageOf(Top, "handler", g)
      BY <1>4, SaveSpsrElrStage DEF TypeInv
    <2> QED
      BY <1>1, <1>4, <2>1, StageAnswer DEF SaveSpsrElr
  <1>5. CASE SyncHandler
    <2>1. PICK g \in Frame :
            /\ SetTop(g) /\ StageOf(Top, "restore", g) /\ Leaves(Top, g)
            /\ Top.kind = "svc" =>
                 IF lab = 5 THEN g.x.x0 \in SyscallResult(Top.x) ELSE g.x = Top.x
      BY <1>5, SyncHandlerStage DEF TypeInv
    <2>2. Top.x = Top.regs
      BY <1>2, <1>5 DEF SyncHandler, At, Saved
    <2>3. Top.kind = "svc" => (Top.regs = asked => Answer(g.x))
      BY <2>1, <2>2 DEF Answer, Leaves
    <2>4. lost' = lost
      BY <1>5 DEF SyncHandler
    <2> QED
      BY <1>1, <2>1, <2>3, <2>4, StageAnswer
  <1>6. CASE IrqHandler
    <2>1. \E g \in Frame : SetTop(g) /\ StageOf(Top, "restore", g)
      BY <1>1, <1>6, PcStage DEF TypeInv, IrqHandler, FramePc
    <2>2. Top.kind # "svc" /\ lost' = lost
      BY <1>6 DEF IrqHandler
    <2> QED
      BY <1>1, <2>1, <2>2, StageAnswer
  <1>7. CASE RestoreSpsr
    <2>1. \E g \in Frame : SetTop(g) /\ StageOf(Top, "msr_elr", g) /\ g.x = Top.x
      BY <1>1, <1>7, PcStage DEF TypeInv, RestoreSpsr, FramePc
    <2>2. Top.pc \notin Entering \cup {"handler"} /\ lost' = lost
      BY <1>7 DEF RestoreSpsr, At, Entering
    <2> QED
      BY <1>1, <2>1, <2>2, StageAnswer
  <1>8. CASE RestoreElr
    <2>1. \E g \in Frame : SetTop(g) /\ StageOf(Top, "load_all", g) /\ g.x = Top.x
      BY <1>1, <1>8, PcStage DEF TypeInv, RestoreElr, FramePc
    <2>2. Top.pc \notin Entering \cup {"handler"} /\ lost' = lost
      BY <1>8 DEF RestoreElr, At, Entering
    <2> QED
      BY <1>1, <2>1, <2>2, StageAnswer
  <1>9. CASE LoadAll
    <2>1. \E g \in Frame : SetTop(g) /\ StageOf(Top, "eret", g) /\ g.x = Top.x
      BY <1>1, <1>9, PcStage DEF TypeInv, LoadAll, FramePc
    <2>2. Top.pc \notin Entering \cup {"handler"} /\ lost' = lost /\ x' = Top.x
      BY <1>9 DEF LoadAll, At, Entering
    <2> QED
      BY <1>1, <2>1, <2>2, StageAnswer
  <1>10. CASE Eret
    <2>1. /\ Depth' = Depth - 1
          /\ \A d \in 1 .. Depth - 1 : frames'[d] = frames[d]
          /\ Top.pc = "eret" /\ x' = x
      BY <1>1, <1>10, PopStep DEF Eret, At, TypeInv, TypeOK
    <2>2. RegistersBack'
      <3>1. Depth' > 0 => Top' = frames[Depth - 1] /\ Depth - 1 \in 1 .. Depth
        BY <1>2, <2>1 DEF Top
      <3> QED
        BY <1>2, <3>1 DEF RegistersBack, Undisturbed, Nested
    <2>3. CASE Depth = 1
      <3>1. x = Top.x /\ frames[1] = Top
        BY <1>1, <2>1, <2>3 DEF AnswerInv, RegistersBack, Top
      <3>2. base = "ret" => HoldsAnswer(Top)
        BY <2>3, <3>1 DEF AnswerInv, AnswerHeld
      <3>3. Top.kind # "svc" => Top.x = Top.regs
        BY <1>2, <2>1 DEF Saved, Entering
      <3>4. Top.kind \in {"svc", "abort", "irq"}
        BY <1>1, Indices DEF TypeInv, TypeOK, Frame
      <3>5. base = "ret" => Answer(x)
        BY <2>1, <3>1, <3>2, <3>3, <3>4 DEF HoldsAnswer, Entering
      <3> QED
        BY <1>1, <2>1, <2>2, <2>3, <3>5 DEF AnswerInv, AnswerHeld, Answer
    <2>4. CASE Depth # 1
      <3>1. frames'[1] = frames[1] /\ Depth' # 0
        BY <1>1, <1>2, <2>1, <2>4
      <3> QED
        BY <1>1, <2>2, <3>1 DEF AnswerInv, AnswerHeld, HoldsAnswer, Answer
    <2> QED
      BY <2>3, <2>4
  <1> QED
    BY <1>3, <1>4, <1>5, <1>6, <1>7, <1>8, <1>9, <1>10 DEF Return

LEMMA ProgramAnswer ==
  ASSUME Undisturbed, load_program \/ StartCount \/ TakeResult
  PROVE  AnswerInv'
  <1>1. Depth = 0 /\ UNCHANGED frames
    BY DEF load_program, MsrSpsr, MsrElr, MsrSp, EnterProgram, StartCount,
           TakeResult, Base
  <1>2. Depth' = 0
    BY <1>1 DEF Depth
  <1>3. base' # "ret"
    BY <1>1
    DEF load_program, MsrSpsr, MsrElr, MsrSp, EnterProgram, StartCount,
        TakeResult, Base, Undisturbed, ProgramRuns
  <1> QED
    BY <1>2, <1>3 DEF AnswerInv, RegistersBack, AnswerHeld

LEMMA StepAnswer == CallInv /\ [Next]_vars => (struck \/ AnswerInv)'
  <1> SUFFICES ASSUME CallInv, [Next]_vars, ~struck' PROVE AnswerInv'
    OBVIOUS
  <1>1. CASE UNCHANGED vars
    BY <1>1
    DEF vars, CallInv, AnswerInv, RegistersBack, AnswerHeld, HoldsAnswer, Answer,
        Top, Depth
  <1>2. CASE Next
    <2>1. ~struck
      BY <1>2
      DEF Next, Irq, Svc, Count, Abort, load_program, MsrSpsr, MsrElr, MsrSp,
          EnterProgram, StartCount, TakeResult, Return, SaveAll, SaveSpsrElr,
          SyncHandler, IrqHandler, RestoreSpsr, RestoreElr, LoadAll, Eret
    <2> QED
      BY <1>2, <2>1, EntryAnswer, ReturnAnswer, ProgramAnswer DEF Next, CallInv, Inv
  <1> QED
    BY <1>1, <1>2

-----------------------------------------------------------------------------
\* Every variable keeps its type, and entering the program leads into it.
THEOREM TypeCorrect == Spec => []TypeOK
  <1>1. TypeInv => TypeOK
    BY DEF TypeInv
  <1> QED
    BY <1>1, InitTypes, StepTypes, PTL DEF Spec

\* However deep exceptions nest, each frame keeps the address, the mode and
\* the registers of what it interrupted.
THEOREM CopiesStayRight == Spec => []FramesIntact
  <1>1. Init => FrameInv
    BY DEF Init, FrameInv, AllSaved, OthersLeave, TopEnters, Depth
  <1>2. FrameInv => FramesIntact
    BY DEF FrameInv, AllSaved, Saved, FramesIntact, Entering
  <1> QED
    BY <1>1, <1>2, InitTypes, StepTypes, StepFrames, PTL DEF Spec

LEMMA InitInv == Init => Inv
  <1>1. Init => FrameInv /\ Undisturbed
    BY DEF Init, FrameInv, AllSaved, OthersLeave, TopEnters, Undisturbed,
           Nested, TopReturns, ProgramRuns, AtEl0, Window, Depth
  <1> QED
    BY <1>1, InitTypes DEF Inv

LEMMA StepInv == Inv /\ [Next]_vars => Inv'
  BY StepTypes, StepFrames, StepUndisturbed DEF Inv

\* As long as no interrupt strikes between a write of SPSR_EL1 and its eret,
\* every exception returns to what it interrupted, and the program runs at
\* EL0 and the shell at EL1.
THEOREM OnlyWindow == Spec => []OnlyTheWindowLoses
  <1>1. Inv => OnlyTheWindowLoses
    BY DEF Inv, Undisturbed, ProgramRuns, OnlyTheWindowLoses
  <1> QED
    BY <1>1, InitInv, StepInv, PTL DEF Spec

\* A program that gets the result of a system call sees what the kernel
\* answered to this call, whatever interrupted the handler or its return.
THEOREM AnswerReaches == Spec => []CallAnswered
  <1>1. Init => CallInv
    BY InitInv DEF Init, CallInv, AnswerInv, RegistersBack, AnswerHeld, Depth
  <1>2. CallInv /\ [Next]_vars => CallInv'
    BY StepInv, StepAnswer DEF CallInv
  <1>3. CallInv => CallAnswered
    BY DEF CallInv, AnswerInv, AnswerHeld, Answer, CallAnswered
  <1> QED
    BY <1>1, <1>2, <1>3, PTL DEF Spec

=============================================================================
