-------------------------------- MODULE Uart --------------------------------
(***************************************************************************)
(* The asynchronous mini UART (lab5/src/mini_uart.c) under its only        *)
(* caller, the shell command async_uart (test_asycn_mini_uart in shell.c). *)
(*                                                                         *)
(* main and the interrupt handler share two character rings and the        *)
(* interrupt enable register AUX_MU_IER.  main runs with interrupts on and *)
(* makes one step per load or store of what they share; in particular      *)
(* "*AUX_MU_IER_REG |= 2u" is a load and a store.  The handler             *)
(* mini_uart_irq_handler_func masks interrupts; only the hardware moves    *)
(* while it runs.  (That it reaches the task queue and is run at once is   *)
(* TaskQueue's AuxRingDrained.)                                            *)
(*                                                                         *)
(* Characters are numbered, as typed and as written to the transmit ring.  *)
(* Whether a character is the newline is chosen when the code tests it.    *)
(* What the shell prints at its prompt, by polling, is left out.           *)
(***************************************************************************)
EXTENDS Integers, Sequences

CONSTANTS
  RBUF_SIZE,  \* slots of a ring (256 in the code)
  FifoSize,   \* characters in each FIFO of the device (8)
  max_len,    \* the reader's buffer, with its '\0' (301)
  BannerLen,  \* characters of "You just typed ..."
  MaxTyped,   \* bound: characters typed
  MaxTests    \* bound: runs of the command

ASSUME RingAssumption == RBUF_SIZE \in Nat \ {0, 1}
ASSUME FifoAssumption == FifoSize \in Nat \ {0}
ASSUME LengthAssumption == max_len \in Nat \ {0, 1} /\ BannerLen \in Nat
ASSUME BoundAssumption == MaxTyped \in Nat /\ MaxTests \in Nat

Slot == 0 .. RBUF_SIZE - 1
Ring == [buf : [Slot -> Nat], head : Slot, tail : Slot]

VARIABLES
  uart_rx_buffer, \* Ring: typed, not read yet
  uart_tx_buffer, \* Ring: written, not sent yet
  rx_fifo,        \* Seq(Nat): the device's receive FIFO
  tx_fifo,        \* Seq(Nat): the device's transmit FIFO
  ier,            \* SUBSET {"R", "T"}: AUX_MU_IER, receive and transmit
  aux,            \* BOOLEAN: is the UART's interrupt enabled in ENB_IRQs1?
  pc,             \* control point of main
  irq,            \* control point of the handler
  ier_local,      \* the value of AUX_MU_IER main loaded
  ret,            \* where main goes after it enabled the transmit interrupt
  isAsycn,        \* the parameter of mini_uart_write_async
  i,              \* Nat: letters in the reader's buffer
  str, left,      \* the string being sent, its characters to go
  c,              \* Nat: the character main loaded
  typed,          \* Nat: characters typed so far
  got,            \* Nat: the last character the kernel read
  accepted,       \* Nat: characters written to the transmit ring so far
  wire,           \* Nat: the last character that left the device
  tests           \* Nat: runs of the command so far

rings == <<uart_rx_buffer, uart_tx_buffer>>
device == <<rx_fifo, tx_fifo, ier, aux>>
locals == <<ier_local, ret, isAsycn, i, str, left, c>>
counts == <<typed, got, accepted, wire, tests>>
vars == <<rings, device, pc, irq, locals, counts>>

ControlPoint == {"shell", "enable_rx", "set_rx", "wait_rx", "get", "got",
                 "send", "put", "put_head", "enable_tx", "set_tx", "drain"}

TypeOK ==
  /\ uart_rx_buffer \in Ring
  /\ uart_tx_buffer \in Ring
  /\ rx_fifo \in Seq(Nat) /\ Len(rx_fifo) <= FifoSize
  /\ tx_fifo \in Seq(Nat) /\ Len(tx_fifo) <= FifoSize
  /\ ier \in SUBSET {"R", "T"}
  /\ aux \in BOOLEAN
  /\ pc \in ControlPoint
  /\ irq \in {"off", "tx"}
  /\ ier_local \in SUBSET {"R", "T"}
  /\ ret \in {"enable_rx", "put", "next"}
  /\ isAsycn \in BOOLEAN
  /\ i \in 0 .. max_len - 1
  /\ str \in 1 .. 4
  /\ left \in Nat
  /\ c \in Nat
  /\ typed \in Nat /\ got \in Nat /\ accepted \in Nat /\ wire \in Nat
  /\ tests \in Nat

-----------------------------------------------------------------------------
(* The rings.                                                              *)

(* [mutant of Succ] the index does not wrap *)
SuccNoWrap(k) == k + 1

Succ(k) == (k + 1) % RBUF_SIZE

rbuf_init(r) == [r EXCEPT !.head = 0, !.tail = 0]
rbuf_is_empty(r) == r.head = r.tail

(* [mutant of rbuf_is_full] the last free slot is used as well *)
NeverFull(r) == FALSE

rbuf_is_full(r) == Succ(r.head) = r.tail

(* A full ring drops the character and returns -1.                         *)
rbuf_put(r, ch) ==
  IF rbuf_is_full(r) THEN r
  ELSE [r EXCEPT !.buf[r.head] = ch, !.head = Succ(@)]

(* What rbuf_get of a ring that is not empty reads, and what it leaves.    *)
Oldest(r) == r.buf[r.tail]
rbuf_get(r) == [r EXCEPT !.tail = Succ(@)]

-----------------------------------------------------------------------------
(* main.  It makes no step while the handler runs.                         *)

GoTo(from, to) == irq = "off" /\ pc = from /\ pc' = to

(* test_asycn_mini_uart, to the first read.  A person types the command's  *)
(* name at the prompt, and the device has sent all it had when the line    *)
(* ends: the transmit interrupt of an earlier run has come by then.        *)
StartTest ==
  /\ tests < MaxTests
  /\ GoTo("shell", "enable_rx")
  /\ tx_fifo = <<>> /\ "T" \notin ier
  /\ aux' = TRUE
  /\ uart_rx_buffer' = rbuf_init(uart_rx_buffer)
  /\ uart_tx_buffer' = rbuf_init(uart_tx_buffer)
  /\ i' = 0
  /\ tests' = tests + 1
  /\ UNCHANGED <<rx_fifo, tx_fifo, ier, irq, ier_local, ret, isAsycn, str,
                 left, c, typed, got, accepted, wire>>

(* At its prompt the shell reads the device itself.                        *)
ShellReads ==
  /\ GoTo("shell", "shell")
  /\ rx_fifo # <<>>
  /\ got' = Head(rx_fifo)
  /\ rx_fifo' = Tail(rx_fifo)
  /\ UNCHANGED <<rings, tx_fifo, ier, aux, irq, locals, typed, accepted,
                 wire, tests>>

(* mini_uart_recv_irq_enable and mini_uart_trans_irq_enable.               *)
LoadIer(from, to) ==
  /\ GoTo(from, to)
  /\ ier_local' = ier
  /\ UNCHANGED <<rings, device, irq, ret, isAsycn, i, str, left, c, counts>>

EnableRx == LoadIer("enable_rx", "set_rx")
EnableTx == LoadIer("enable_tx", "set_tx")

SetRx ==
  /\ GoTo("set_rx", "wait_rx")
  /\ ier' = ier_local \cup {"R"}
  /\ UNCHANGED <<rings, rx_fifo, tx_fifo, aux, irq, locals, counts>>

(* The loop of mini_uart_read_async ends; rbuf_get loads the character,    *)
(* then stores the tail.                                                   *)
WaitRx ==
  /\ GoTo("wait_rx", "get")
  /\ ~rbuf_is_empty(uart_rx_buffer)
  /\ UNCHANGED <<rings, device, irq, locals, counts>>

GetChar ==
  /\ GoTo("get", "got")
  /\ c' = Oldest(uart_rx_buffer)
  /\ UNCHANGED <<rings, device, irq, ier_local, ret, isAsycn, i, str, left,
                 counts>>

(* The strings sent after the line was read: "\r\n", the banner, what was  *)
(* typed, "\r\n".                                                          *)
Length(s) == CASE s = 2 -> BannerLen [] s = 3 -> i [] OTHER -> 2

(* mini_uart_read_string_async: a newline ends the line, a letter is       *)
(* echoed.                                                                 *)
GetTail ==
  /\ irq = "off" /\ pc = "got"
  /\ uart_rx_buffer' = rbuf_get(uart_rx_buffer)
  /\ got' = c
  /\ \/ pc' = "send" /\ str' = 1 /\ left' = 2 /\ UNCHANGED isAsycn
     \/ pc' = "put" /\ isAsycn' = TRUE /\ UNCHANGED <<str, left>>
  /\ UNCHANGED <<uart_tx_buffer, device, irq, ier_local, ret, i, c, typed,
                 accepted, wire, tests>>

(* [mutant of SendFull] the handler is not called *)
SendFullSilent ==
  /\ GoTo("send", "put")
  /\ left > 0 /\ rbuf_is_full(uart_tx_buffer)
  /\ ret' = "put" /\ isAsycn' = FALSE
  /\ UNCHANGED <<rings, device, irq, ier_local, i, str, left, c, counts>>

(* The loop of mini_uart_send_string_async: a full ring has the handler    *)
(* called first, and at the end of the string it is called for the rest.   *)
SendFull ==
  /\ GoTo("send", "enable_tx")
  /\ left > 0 /\ rbuf_is_full(uart_tx_buffer)
  /\ ret' = "put" /\ isAsycn' = FALSE
  /\ UNCHANGED <<rings, device, irq, ier_local, i, str, left, c, counts>>

SendChar ==
  /\ GoTo("send", "put")
  /\ left > 0 /\ ~rbuf_is_full(uart_tx_buffer)
  /\ isAsycn' = FALSE
  /\ UNCHANGED <<rings, device, irq, ier_local, ret, i, str, left, c, counts>>

SendEnd ==
  /\ GoTo("send", "enable_tx")
  /\ left = 0
  /\ ret' = "next"
  /\ UNCHANGED <<rings, device, irq, ier_local, isAsycn, i, str, left, c,
                 counts>>

(* mini_uart_write_async waits for room; only the handler removes, so room *)
(* found stays, rbuf_put finds it again, and stores the character.         *)
PutChar ==
  /\ GoTo("put", "put_head")
  /\ ~rbuf_is_full(uart_tx_buffer)
  /\ uart_tx_buffer' =
       [uart_tx_buffer EXCEPT !.buf[uart_tx_buffer.head] = accepted + 1]
  /\ UNCHANGED <<uart_rx_buffer, device, irq, locals, counts>>

(* rbuf_put stores the head: the handler can see the character now.  An    *)
(* echo enables the transmit interrupt at once, a string does not.         *)
PutHead ==
  /\ irq = "off" /\ pc = "put_head"
  /\ uart_tx_buffer' = [uart_tx_buffer EXCEPT !.head = Succ(@)]
  /\ accepted' = accepted + 1
  /\ \/ isAsycn /\ pc' = "enable_tx" /\ ret' = "enable_rx" /\ UNCHANGED left
     \/ ~isAsycn /\ pc' = "send" /\ left' = left - 1 /\ UNCHANGED ret
  /\ UNCHANGED <<uart_rx_buffer, device, irq, ier_local, isAsycn, i, str, c,
                 typed, got, wire, tests>>

(* mini_uart_trans_irq_enable stores the register and returns: to the      *)
(* writer; to the reader, whose line is full after max_len - 1 letters; or *)
(* to the command, for its next string.                                    *)
ReturnTx ==
  \/ /\ ret = "put" /\ pc' = "put"
     /\ UNCHANGED <<i, str, left>>
  \/ /\ ret = "enable_rx" /\ i' = i + 1
     /\ \/ i' < max_len - 1 /\ pc' = "enable_rx" /\ UNCHANGED <<str, left>>
        \/ i' = max_len - 1 /\ pc' = "send" /\ str' = 1 /\ left' = 2
  \/ /\ ret = "next" /\ UNCHANGED i
     /\ \/ str < 4 /\ pc' = "send" /\ str' = str + 1 /\ left' = Length(str')
        \/ str = 4 /\ pc' = "drain" /\ UNCHANGED <<str, left>>

(* [mutant of SetTx] the store sets the wrong bit *)
SetTxWrongBit ==
  /\ irq = "off" /\ pc = "set_tx"
  /\ ier' = ier_local \cup {"R"}
  /\ ReturnTx
  /\ UNCHANGED <<rings, rx_fifo, tx_fifo, aux, irq, ier_local, ret, isAsycn,
                 c, counts>>

SetTx ==
  /\ irq = "off" /\ pc = "set_tx"
  /\ ier' = ier_local \cup {"T"}
  /\ ReturnTx
  /\ UNCHANGED <<rings, rx_fifo, tx_fifo, aux, irq, ier_local, ret, isAsycn,
                 c, counts>>

(* The command waits until the ring is empty; its last statement names     *)
(* aux_irq_disable without calling it.                                     *)
Drain ==
  /\ GoTo("drain", "shell")
  /\ rbuf_is_empty(uart_tx_buffer)
  /\ UNCHANGED <<rings, device, irq, locals, counts>>

Main ==
  \/ EnableRx \/ SetRx \/ WaitRx \/ GetChar \/ GetTail
  \/ SendFull \/ SendChar \/ SendEnd \/ PutChar \/ PutHead
  \/ EnableTx \/ SetTx \/ Drain

-----------------------------------------------------------------------------
(* mini_uart_irq_handler_func.  Which of two pending causes AUX_MU_IIR     *)
(* shows is left open.                                                     *)

RxPending == "R" \in ier /\ rx_fifo # <<>>
TxPending == "T" \in ier /\ tx_fifo = <<>>

(* [mutant of RxIrq] the receive interrupt is left enabled *)
RxIrqStaysOn ==
  /\ irq = "off" /\ aux /\ RxPending
  /\ uart_rx_buffer' = rbuf_put(uart_rx_buffer, Head(rx_fifo))
  /\ rx_fifo' = Tail(rx_fifo)
  /\ UNCHANGED <<uart_tx_buffer, tx_fifo, ier, aux, pc, irq, locals, counts>>

(* One character is moved, if the ring has room, and the receive interrupt *)
(* disabled until main asks for the next one.                              *)
RxIrq ==
  /\ irq = "off" /\ aux /\ RxPending
  /\ uart_rx_buffer' = rbuf_put(uart_rx_buffer, Head(rx_fifo))
  /\ rx_fifo' = Tail(rx_fifo)
  /\ ier' = ier \ {"R"}
  /\ UNCHANGED <<uart_tx_buffer, tx_fifo, aux, pc, irq, locals, counts>>

TxIrq ==
  /\ irq = "off" /\ aux /\ TxPending
  /\ irq' = "tx"
  /\ UNCHANGED <<rings, device, pc, locals, counts>>

(* The loop: AUX_MU_LSR says that the FIFO has room, the ring has data.    *)
TxMove ==
  /\ irq = "tx"
  /\ Len(tx_fifo) < FifoSize /\ ~rbuf_is_empty(uart_tx_buffer)
  /\ tx_fifo' = Append(tx_fifo, Oldest(uart_tx_buffer))
  /\ uart_tx_buffer' = rbuf_get(uart_tx_buffer)
  /\ UNCHANGED <<uart_rx_buffer, rx_fifo, ier, aux, pc, irq, locals, counts>>

(* [mutant of TxDone] disabled whether or not the ring is empty *)
TxDoneDisables ==
  /\ irq = "tx"
  /\ Len(tx_fifo) = FifoSize \/ rbuf_is_empty(uart_tx_buffer)
  /\ ier' = ier \ {"T"}
  /\ irq' = "off"
  /\ UNCHANGED <<rings, rx_fifo, tx_fifo, aux, pc, locals, counts>>

(* The loop ends; the transmit interrupt is disabled if the ring is empty. *)
TxDone ==
  /\ irq = "tx"
  /\ Len(tx_fifo) = FifoSize \/ rbuf_is_empty(uart_tx_buffer)
  /\ ier' = IF rbuf_is_empty(uart_tx_buffer) THEN ier \ {"T"} ELSE ier
  /\ irq' = "off"
  /\ UNCHANGED <<rings, rx_fifo, tx_fifo, aux, pc, locals, counts>>

(* The line: a character arrives, unless the FIFO is full (the person at   *)
(* the keyboard is slower than the kernel), or leaves.                     *)
Type ==
  /\ typed < MaxTyped /\ Len(rx_fifo) < FifoSize
  /\ typed' = typed + 1
  /\ rx_fifo' = Append(rx_fifo, typed')
  /\ UNCHANGED <<rings, tx_fifo, ier, aux, pc, irq, locals, got, accepted,
                 wire, tests>>

TxShift ==
  /\ tx_fifo # <<>>
  /\ wire' = Head(tx_fifo)
  /\ tx_fifo' = Tail(tx_fifo)
  /\ UNCHANGED <<rings, rx_fifo, ier, aux, pc, irq, locals, typed, got,
                 accepted, tests>>

Handler == RxIrq \/ TxIrq \/ TxMove \/ TxDone

EmptyRing == [buf |-> [k \in Slot |-> 0], head |-> 0, tail |-> 0]

Init ==
  /\ uart_rx_buffer = EmptyRing /\ uart_tx_buffer = EmptyRing
  /\ rx_fifo = <<>> /\ tx_fifo = <<>>
  /\ ier = {} /\ aux = FALSE
  /\ pc = "shell" /\ irq = "off"
  /\ ier_local = {} /\ ret = "next" /\ isAsycn = FALSE
  /\ i = 0 /\ str = 4 /\ left = 0 /\ c = 0
  /\ typed = 0 /\ got = 0 /\ accepted = 0 /\ wire = 0 /\ tests = 0

Next == StartTest \/ ShellReads \/ Main \/ Handler \/ Type \/ TxShift

(* The CPU goes on, the shell reads what is typed, a pending interrupt is  *)
(* taken (it is level-triggered) and the line sends.  Nobody need type.    *)
Spec ==
  /\ Init /\ [][Next]_vars
  /\ WF_vars(Main) /\ WF_vars(ShellReads) /\ WF_vars(Handler)
  /\ WF_vars(TxShift)

-----------------------------------------------------------------------------
(* Properties.                                                             *)

Count(r) ==
  IF r.head >= r.tail THEN r.head - r.tail ELSE r.head - r.tail + RBUF_SIZE
Contents(r) == [k \in 1 .. Count(r) |-> r.buf[(r.tail + k - 1) % RBUF_SIZE]]

Rx == INSTANCE Channel WITH
  queue <- Contents(uart_rx_buffer) \o rx_fifo, put <- typed, last <- got

Tx == INSTANCE Channel WITH
  queue <- tx_fifo \o Contents(uart_tx_buffer), put <- accepted, last <- wire

(* What is typed is read, each character once and in order, by the command *)
(* or at the prompt: the receive ring, whose overflow the handler ignores  *)
(* (exception.c:123), never overflows, and rbuf_init discards nothing.     *)
ReceiveIsChannel == Rx!Spec

(* What is written to the transmit ring leaves the device, each character  *)
(* once and in order, although main fills the ring while the handler       *)
(* empties it and both write the enable register.                          *)
TransmitIsChannel == Tx!Spec

(* Whenever main spins on the transmit ring, or waits for the user with    *)
(* echoes unsent, the transmit interrupt that will empty it is enabled: no *)
(* store to the register loses what the other side stored.                 *)
WakeupPending ==
  \/ pc = "put" /\ rbuf_is_full(uart_tx_buffer)
  \/ pc \in {"wait_rx", "drain"} /\ ~rbuf_is_empty(uart_tx_buffer)
  => "T" \in ier /\ aux

(* The handler takes a typed character only when main waits for it: none   *)
(* ends in a ring that nobody reads any more.                              *)
NoInputStolen ==
  RxPending /\ aux => pc = "wait_rx" /\ rbuf_is_empty(uart_rx_buffer)

(* The command sends its strings and comes back to the shell.              *)
CommandEnds == pc = "send" ~> pc = "shell"

=============================================================================
