----------------------------- MODULE UartProofs -----------------------------
(***************************************************************************)
(* Proofs about the asynchronous UART, for every size of the rings and the *)
(* FIFOs, every length of the strings and every number of characters.      *)
(***************************************************************************)
EXTENDS Uart, SequenceTheorems, TLAPS

-----------------------------------------------------------------------------
(* The receive ring holds one character at most: the receive interrupt is  *)
(* on only while main waits with the ring empty.                           *)
OneCharacter ==
  LET r == uart_rx_buffer
      one == r.head = Succ(r.tail) IN
  /\ "R" \notin ier_local
  /\ pc # "wait_rx" => "R" \notin ier
  /\ pc = "wait_rx" =>
       IF "R" \in ier THEN rbuf_is_empty(r) ELSE one
  /\ pc \in {"get", "got"} => one
  /\ pc \notin {"wait_rx", "get", "got"} => rbuf_is_empty(r)

(* Where main is not filling the transmit ring, what the ring holds has a  *)
(* transmit interrupt coming, and the value main is about to store keeps   *)
(* it.                                                                     *)
Idle == {"enable_rx", "set_rx", "wait_rx", "get", "got", "drain"}

SomeoneSends ==
  LET r == uart_tx_buffer IN
  /\ pc \in Idle /\ ~rbuf_is_empty(r) => "T" \in ier
  /\ pc = "set_rx" /\ ~rbuf_is_empty(r) => "T" \in ier_local
  /\ pc = "put" /\ rbuf_is_full(r) => "T" \in ier
  /\ irq = "tx" => "T" \in ier
  /\ pc # "shell" => aux

(* A string that is being written has a character left.                    *)
CharacterLeft ==
  /\ pc \in {"put", "put_head"} /\ ~isAsycn => left > 0
  /\ pc \in {"enable_tx", "set_tx"} /\ ret = "put" => left > 0 /\ ~isAsycn

IInv == TypeOK /\ OneCharacter /\ SomeoneSends /\ CharacterLeft

-----------------------------------------------------------------------------
(* Rings.                                                                  *)

LEMMA SuccType ==
  ASSUME NEW k \in Slot
  PROVE  /\ Succ(k) \in Slot /\ Succ(k) # k
         /\ Succ(k) = IF k = RBUF_SIZE - 1 THEN 0 ELSE k + 1
  <1>1. CASE k = RBUF_SIZE - 1
    BY <1>1, RingAssumption DEF Succ, Slot
  <1>2. CASE k # RBUF_SIZE - 1
    <2>1. k + 1 \in 0 .. RBUF_SIZE - 1
      BY <1>2, RingAssumption DEF Slot
    <2> QED
      BY <2>1, <1>2, RingAssumption DEF Succ, Slot
  <1> QED
    BY <1>1, <1>2

(* What each operation does to a ring, seen by its indices.                *)
LEMMA RingOperations ==
  ASSUME NEW r \in Ring
  PROVE  /\ rbuf_init(r) \in Ring /\ rbuf_is_empty(rbuf_init(r))
         /\ Oldest(r) \in Nat
         /\ rbuf_get(r) \in Ring
         /\ rbuf_get(r).head = r.head /\ rbuf_get(r).tail = Succ(r.tail)
         /\ [r EXCEPT !.head = Succ(@)] \in Ring
         /\ rbuf_is_full(r) => ~rbuf_is_empty(r)
  <1>1. /\ r.head \in Slot /\ r.tail \in Slot /\ r.buf \in [Slot -> Nat]
        /\ r = [buf |-> r.buf, head |-> r.head, tail |-> r.tail]
    BY DEF Ring
  <1>2. /\ Succ(r.head) \in Slot /\ Succ(r.head) # r.head
        /\ Succ(r.tail) \in Slot
    BY <1>1, SuccType
  <1>3. 0 \in Slot
    BY RingAssumption DEF Slot
  <1>4. rbuf_init(r) \in Ring /\ rbuf_is_empty(rbuf_init(r))
    BY <1>1, <1>3 DEF rbuf_init, rbuf_is_empty, Ring
  <1>5. Oldest(r) \in Nat
    BY <1>1 DEF Oldest
  <1>6. /\ rbuf_get(r) \in Ring
        /\ rbuf_get(r).head = r.head /\ rbuf_get(r).tail = Succ(r.tail)
    BY <1>1, <1>2 DEF rbuf_get, Ring
  <1>7. [r EXCEPT !.head = Succ(@)] \in Ring
    BY <1>1, <1>2 DEF Ring
  <1>8. rbuf_is_full(r) => ~rbuf_is_empty(r)
    BY <1>2 DEF rbuf_is_full, rbuf_is_empty
  <1> QED
    BY <1>4, <1>5, <1>6, <1>7, <1>8

LEMMA RingPut ==
  ASSUME NEW r \in Ring, NEW ch \in Nat
  PROVE  /\ rbuf_put(r, ch) \in Ring
         /\ rbuf_is_empty(r) => /\ rbuf_put(r, ch).head = Succ(r.head)
                                /\ rbuf_put(r, ch).tail = r.tail
                                /\ Oldest(rbuf_put(r, ch)) = ch
         /\ [r EXCEPT !.buf[r.head] = ch] \in Ring
  <1>1. /\ r.head \in Slot /\ r.tail \in Slot /\ r.buf \in [Slot -> Nat]
        /\ r = [buf |-> r.buf, head |-> r.head, tail |-> r.tail]
    BY DEF Ring
  <1>2. Succ(r.head) \in Slot /\ Succ(r.head) # r.head
    BY <1>1, SuccType
  <1>3. [r EXCEPT !.buf[r.head] = ch] \in Ring
    BY <1>1, <1>2 DEF Ring
  <1>4. [r EXCEPT !.buf[r.head] = ch, !.head = Succ(@)] \in Ring
    BY <1>1, <1>2 DEF Ring
  <1>5. rbuf_put(r, ch) \in Ring
    BY <1>4 DEF rbuf_put
  <1>6. ASSUME rbuf_is_empty(r)
        PROVE  /\ rbuf_put(r, ch).head = Succ(r.head)
               /\ rbuf_put(r, ch).tail = r.tail
               /\ Oldest(rbuf_put(r, ch)) = ch
    BY <1>1, <1>2, <1>6 DEF rbuf_put, rbuf_is_empty, rbuf_is_full, Oldest
  <1> QED
    BY <1>3, <1>5, <1>6

(* The head and the tail of a FIFO.                                        *)
LEMMA FifoOperations ==
  ASSUME NEW s \in Seq(Nat), s # <<>>
  PROVE  /\ Head(s) \in Nat /\ Tail(s) \in Seq(Nat)
         /\ Len(Tail(s)) = Len(s) - 1 /\ Len(s) \in Nat
  BY HeadTailProperties

-----------------------------------------------------------------------------
(* The initial state meets the invariant.                                  *)
LEMMA InitInvariant == Init => IInv
  <1> SUFFICES ASSUME Init PROVE IInv
    OBVIOUS
  <1>1. 0 \in Slot /\ EmptyRing \in Ring
    BY RingAssumption DEF Slot, EmptyRing, Ring
  <1>2. <<>> \in Seq(Nat) /\ Len(<<>>) = 0
    OBVIOUS
  <1>6. 0 \in 0 .. max_len - 1 /\ 4 \in 1 .. 4 /\ 0 <= FifoSize
    BY FifoAssumption, LengthAssumption
  <1>3. TypeOK
    BY <1>1, <1>2, <1>6 DEF Init, TypeOK, ControlPoint
  <1>4. EmptyRing.head = EmptyRing.tail
    BY DEF EmptyRing
  <1>5. OneCharacter /\ SomeoneSends /\ CharacterLeft
    BY <1>4 DEF Init, OneCharacter, SomeoneSends, CharacterLeft, Idle,
       rbuf_is_empty
  <1> QED
    BY <1>3, <1>5 DEF IInv

(* Every step of the system keeps it.                                      *)
LEMMA StepInvariant == IInv /\ [Next]_vars => IInv'
  <1> SUFFICES ASSUME IInv, [Next]_vars PROVE IInv'
    OBVIOUS
  <1> USE DEF IInv
  <1>1. /\ uart_rx_buffer \in Ring /\ uart_tx_buffer \in Ring
        /\ uart_rx_buffer.head \in Slot /\ uart_rx_buffer.tail \in Slot
    BY DEF TypeOK, Ring
  <1>2. CASE StartTest
    <2>1. 0 \in 0 .. max_len - 1
      BY LengthAssumption
    <2>2. uart_rx_buffer' \in Ring /\ uart_tx_buffer' \in Ring
      BY <1>2, <1>1, RingOperations DEF StartTest
    <2>3. i' \in 0 .. max_len - 1 /\ tests' \in Nat
      BY <1>2, <2>1 DEF StartTest, TypeOK
    <2>4. /\ uart_rx_buffer' \in Ring /\ uart_tx_buffer' \in Ring
          /\ i' \in 0 .. max_len - 1 /\ tests' \in Nat
      BY <2>2, <2>3
    <2>5. TypeOK'
      BY <1>2, <2>4 DEF StartTest, GoTo, TypeOK, ControlPoint, rings, device,
         locals, counts
    <2>6. OneCharacter'
      BY <1>1, <1>2, RingOperations DEF StartTest, GoTo, TypeOK, OneCharacter,
         rbuf_is_empty, rings, device, locals, counts
    <2>7. SomeoneSends'
      BY <1>1, <1>2, RingOperations DEF StartTest, GoTo, TypeOK, SomeoneSends,
         Idle, rbuf_is_empty, rbuf_is_full, rings, device, locals, counts
    <2>8. CharacterLeft'
      BY <1>2 DEF StartTest, GoTo, TypeOK, CharacterLeft, rings, device,
         locals, counts
    <2> QED
      BY <2>5, <2>6, <2>7, <2>8
  <1>3. CASE ShellReads
    <2>1. got' \in Nat /\ rx_fifo' \in Seq(Nat) /\ Len(rx_fifo') <= FifoSize
      BY <1>3, <1>1, FifoOperations, FifoAssumption DEF ShellReads, GoTo,
         TypeOK, rings, device, locals, counts
    <2>2. TypeOK'
      BY <1>3, <2>1 DEF ShellReads, GoTo, TypeOK, ControlPoint, rings, device,
         locals, counts
    <2>3. OneCharacter'
      BY <1>3 DEF ShellReads, GoTo, TypeOK, OneCharacter, rbuf_is_empty, rings,
         device, locals, counts
    <2>4. SomeoneSends'
      BY <1>3 DEF ShellReads, GoTo, TypeOK, SomeoneSends, Idle, rbuf_is_empty,
         rbuf_is_full, rings, device, locals, counts
    <2>5. CharacterLeft'
      BY <1>3 DEF ShellReads, GoTo, TypeOK, CharacterLeft, rings, device,
         locals, counts
    <2> QED
      BY <2>2, <2>3, <2>4, <2>5
  <1>4. CASE EnableRx
    <2>1. TypeOK'
      BY <1>4 DEF EnableRx, LoadIer, GoTo, TypeOK, ControlPoint, rings, device,
         locals, counts
    <2>2. OneCharacter'
      BY <1>4 DEF EnableRx, LoadIer, GoTo, TypeOK, OneCharacter, rbuf_is_empty,
         rings, device, locals, counts
    <2>3. SomeoneSends'
      BY <1>4 DEF EnableRx, LoadIer, GoTo, TypeOK, SomeoneSends, Idle,
         rbuf_is_empty, rbuf_is_full, rings, device, locals, counts
    <2>4. CharacterLeft'
      BY <1>4 DEF EnableRx, LoadIer, GoTo, TypeOK, CharacterLeft, rings,
         device, locals, counts
    <2> QED
      BY <2>1, <2>2, <2>3, <2>4
  <1>5. CASE SetRx
    <2>1. TypeOK'
      BY <1>5 DEF SetRx, GoTo, TypeOK, ControlPoint, rings, device, locals,
         counts
    <2>2. OneCharacter'
      BY <1>5 DEF SetRx, GoTo, TypeOK, OneCharacter, rbuf_is_empty, rings,
         device, locals, counts
    <2>3. SomeoneSends'
      BY <1>5 DEF SetRx, GoTo, TypeOK, SomeoneSends, Idle, rbuf_is_empty,
         rbuf_is_full, rings, device, locals, counts
    <2>4. CharacterLeft'
      BY <1>5 DEF SetRx, GoTo, TypeOK, CharacterLeft, rings, device, locals,
         counts
    <2> QED
      BY <2>1, <2>2, <2>3, <2>4
  <1>6. CASE WaitRx
    <2>1. TypeOK'
      BY <1>6 DEF WaitRx, GoTo, TypeOK, ControlPoint, rings, device, locals,
         counts
    <2>2. OneCharacter'
      BY <1>6 DEF WaitRx, GoTo, TypeOK, OneCharacter, rbuf_is_empty, rings,
         device, locals, counts
    <2>3. SomeoneSends'
      BY <1>6 DEF WaitRx, GoTo, TypeOK, SomeoneSends, Idle, rbuf_is_empty,
         rbuf_is_full, rings, device, locals, counts
    <2>4. CharacterLeft'
      BY <1>6 DEF WaitRx, GoTo, TypeOK, CharacterLeft, rings, device, locals,
         counts
    <2> QED
      BY <2>1, <2>2, <2>3, <2>4
  <1>7. CASE GetChar
    <2>1. TypeOK'
      BY <1>1, <1>7, RingOperations DEF GetChar, GoTo, TypeOK, ControlPoint,
         rings, device, locals, counts
    <2>2. OneCharacter'
      BY <1>7 DEF GetChar, GoTo, TypeOK, OneCharacter, rbuf_is_empty, rings,
         device, locals, counts
    <2>3. SomeoneSends'
      BY <1>7 DEF GetChar, GoTo, TypeOK, SomeoneSends, Idle, rbuf_is_empty,
         rbuf_is_full, rings, device, locals, counts
    <2>4. CharacterLeft'
      BY <1>7 DEF GetChar, GoTo, TypeOK, CharacterLeft, rings, device, locals,
         counts
    <2> QED
      BY <2>1, <2>2, <2>3, <2>4
  <1>8. CASE GetTail
    <2>1. uart_rx_buffer' \in Ring
      BY <1>8, <1>1, RingOperations DEF GetTail, TypeOK, rings, device, locals,
         counts
    <2>2. str' \in 1 .. 4 /\ left' \in Nat
      BY <1>8 DEF GetTail, TypeOK
    <2>3. isAsycn' \in BOOLEAN
      BY <1>8, Zenon DEF GetTail, TypeOK
    <2>4. pc' \in {"send", "put"} /\ got' = c
      BY <1>8 DEF GetTail
    <2>5. UNCHANGED <<uart_tx_buffer, device, irq, ier_local, ret, i, c, typed,
                      accepted, wire, tests>>
      BY <1>8 DEF GetTail
    <2>6. TypeOK'
      BY <2>1, <2>2, <2>4, <2>5, <2>3 DEF TypeOK, ControlPoint, device
    <2>7. OneCharacter'
      BY <1>1, <1>8, RingOperations DEF GetTail, TypeOK, OneCharacter,
         rbuf_is_empty, rings, device, locals, counts
    <2>8. SomeoneSends'
      BY <1>1, <1>8, RingOperations DEF GetTail, TypeOK, SomeoneSends, Idle,
         rbuf_is_empty, rbuf_is_full, rings, device, locals, counts
    <2>9. CharacterLeft'
      BY <1>8 DEF GetTail, TypeOK, CharacterLeft, rings, device, locals, counts
    <2> QED
      BY <2>6, <2>7, <2>8, <2>9
  <1>9. CASE SendFull
    <2>1. TypeOK'
      BY <1>9 DEF SendFull, GoTo, TypeOK, ControlPoint, rings, device, locals,
         counts
    <2>2. OneCharacter'
      BY <1>9 DEF SendFull, GoTo, TypeOK, OneCharacter, rbuf_is_empty, rings,
         device, locals, counts
    <2>3. SomeoneSends'
      BY <1>9 DEF SendFull, GoTo, TypeOK, SomeoneSends, Idle, rbuf_is_empty,
         rbuf_is_full, rings, device, locals, counts
    <2>4. CharacterLeft'
      BY <1>9 DEF SendFull, GoTo, TypeOK, CharacterLeft, rings, device, locals,
         counts
    <2> QED
      BY <2>1, <2>2, <2>3, <2>4
  <1>10. CASE SendChar
    <2>1. TypeOK'
      BY <1>10 DEF SendChar, GoTo, TypeOK, ControlPoint, rings, device, locals,
         counts
    <2>2. OneCharacter'
      BY <1>10 DEF SendChar, GoTo, TypeOK, OneCharacter, rbuf_is_empty, rings,
         device, locals, counts
    <2>3. SomeoneSends'
      BY <1>10 DEF SendChar, GoTo, TypeOK, SomeoneSends, Idle, rbuf_is_empty,
         rbuf_is_full, rings, device, locals, counts
    <2>4. CharacterLeft'
      BY <1>10 DEF SendChar, GoTo, TypeOK, CharacterLeft, rings, device,
         locals, counts
    <2> QED
      BY <2>1, <2>2, <2>3, <2>4
  <1>11. CASE SendEnd
    <2>1. TypeOK'
      BY <1>11 DEF SendEnd, GoTo, TypeOK, ControlPoint, rings, device, locals,
         counts
    <2>2. OneCharacter'
      BY <1>11 DEF SendEnd, GoTo, TypeOK, OneCharacter, rbuf_is_empty, rings,
         device, locals, counts
    <2>3. SomeoneSends'
      BY <1>11 DEF SendEnd, GoTo, TypeOK, SomeoneSends, Idle, rbuf_is_empty,
         rbuf_is_full, rings, device, locals, counts
    <2>4. CharacterLeft'
      BY <1>11 DEF SendEnd, GoTo, TypeOK, CharacterLeft, rings, device, locals,
         counts
    <2> QED
      BY <2>1, <2>2, <2>3, <2>4
  <1>12. CASE PutChar
    <2>1. accepted + 1 \in Nat
      BY DEF TypeOK
    <2>2. uart_tx_buffer' \in Ring
      BY <1>12, <1>1, <2>1, RingPut DEF PutChar
    <2>3. TypeOK'
      BY <1>12, <2>2 DEF PutChar, GoTo, TypeOK, ControlPoint, rings, device,
         locals, counts
    <2>4. OneCharacter'
      BY <1>12 DEF PutChar, GoTo, TypeOK, OneCharacter, rbuf_is_empty, rings,
         device, locals, counts
    <2>5. SomeoneSends'
      BY <1>1, <1>12, RingOperations DEF PutChar, GoTo, TypeOK, SomeoneSends,
         Idle, rbuf_is_empty, rbuf_is_full, rings, device, locals, counts
    <2>6. CharacterLeft'
      BY <1>12 DEF PutChar, GoTo, TypeOK, CharacterLeft, rings, device, locals,
         counts
    <2> QED
      BY <2>3, <2>4, <2>5, <2>6
  <1>13. CASE PutHead
    <2>1. uart_tx_buffer' \in Ring
      BY <1>13, <1>1, RingOperations DEF PutHead
    <2>2. left' \in Nat
      BY <1>13 DEF PutHead, TypeOK, CharacterLeft
    <2>3. uart_tx_buffer' \in Ring /\ left' \in Nat
      BY <2>1, <2>2
    <2>4. TypeOK'
      BY <1>13, <2>3 DEF PutHead, TypeOK, ControlPoint, rings, device, locals,
         counts
    <2>5. OneCharacter'
      BY <1>13 DEF PutHead, TypeOK, OneCharacter, rbuf_is_empty, rings, device,
         locals, counts
    <2>6. SomeoneSends'
      BY <1>1, <1>13, RingOperations DEF PutHead, TypeOK, SomeoneSends, Idle,
         rbuf_is_empty, rbuf_is_full, rings, device, locals, counts
    <2>7. CharacterLeft'
      BY <1>13 DEF PutHead, TypeOK, CharacterLeft, rings, device, locals,
         counts
    <2> QED
      BY <2>4, <2>5, <2>6, <2>7
  <1>14. CASE EnableTx
    <2>1. TypeOK'
      BY <1>14 DEF EnableTx, LoadIer, GoTo, TypeOK, ControlPoint, rings,
         device, locals, counts
    <2>2. OneCharacter'
      BY <1>14 DEF EnableTx, LoadIer, GoTo, TypeOK, OneCharacter,
         rbuf_is_empty, rings, device, locals, counts
    <2>3. SomeoneSends'
      BY <1>14 DEF EnableTx, LoadIer, GoTo, TypeOK, SomeoneSends, Idle,
         rbuf_is_empty, rbuf_is_full, rings, device, locals, counts
    <2>4. CharacterLeft'
      BY <1>14 DEF EnableTx, LoadIer, GoTo, TypeOK, CharacterLeft, rings,
         device, locals, counts
    <2> QED
      BY <2>1, <2>2, <2>3, <2>4
  <1>15. CASE SetTx
    <2>1. i' \in 0 .. max_len - 1 /\ str' \in 1 .. 4
      BY <1>15, LengthAssumption DEF SetTx, ReturnTx, TypeOK
    <2>2. \A s : Length(s) \in Nat
      <3>1. i \in Nat /\ BannerLen \in Nat /\ 2 \in Nat
        BY LengthAssumption DEF TypeOK
      <3> QED
        BY <3>1 DEF Length
    <2>3. left' \in Nat
      <3>1. left' \in {left, 2} \/ left' = Length(str')
        BY <1>15 DEF SetTx, ReturnTx
      <3> QED
        BY <3>1, <2>2 DEF TypeOK
    <2>4. i' \in 0 .. max_len - 1 /\ left' \in Nat /\ str' \in 1 .. 4
      BY <2>1, <2>3
    <2>5. TypeOK'
      BY <1>15, <2>4 DEF SetTx, ReturnTx, Length, TypeOK, ControlPoint, rings,
         device, locals, counts
    <2>6. OneCharacter'
      BY <1>15 DEF SetTx, ReturnTx, Length, TypeOK, OneCharacter,
         rbuf_is_empty, rings, device, locals, counts
    <2>7. SomeoneSends'
      BY <1>15 DEF SetTx, ReturnTx, Length, TypeOK, SomeoneSends, Idle,
         rbuf_is_empty, rbuf_is_full, rings, device, locals, counts
    <2>8. CharacterLeft'
      BY <1>15 DEF SetTx, ReturnTx, Length, TypeOK, CharacterLeft, rings,
         device, locals, counts
    <2> QED
      BY <2>5, <2>6, <2>7, <2>8
  <1>16. CASE Drain
    <2>1. TypeOK'
      BY <1>16 DEF Drain, GoTo, TypeOK, ControlPoint, rings, device, locals,
         counts
    <2>2. OneCharacter'
      BY <1>16 DEF Drain, GoTo, TypeOK, OneCharacter, rbuf_is_empty, rings,
         device, locals, counts
    <2>3. SomeoneSends'
      BY <1>16 DEF Drain, GoTo, TypeOK, SomeoneSends, Idle, rbuf_is_empty,
         rbuf_is_full, rings, device, locals, counts
    <2>4. CharacterLeft'
      BY <1>16 DEF Drain, GoTo, TypeOK, CharacterLeft, rings, device, locals,
         counts
    <2> QED
      BY <2>1, <2>2, <2>3, <2>4
  <1>17. CASE RxIrq
    <2>1. /\ Head(rx_fifo) \in Nat
          /\ rx_fifo' \in Seq(Nat) /\ Len(rx_fifo') <= FifoSize
      BY <1>17, FifoOperations, FifoAssumption DEF RxIrq, RxPending, TypeOK
    <2>2. uart_rx_buffer' = rbuf_put(uart_rx_buffer, Head(rx_fifo))
      BY <1>17 DEF RxIrq
    <2>3. pc = "wait_rx" /\ rbuf_is_empty(uart_rx_buffer)
      BY <1>17 DEF RxIrq, RxPending, OneCharacter
    <2>4. /\ uart_rx_buffer' \in Ring /\ rx_fifo' \in Seq(Nat)
          /\ Len(rx_fifo') <= FifoSize
      BY <1>1, <2>1, <2>2, RingPut
    <2>5. TypeOK'
      BY <1>17, <2>4 DEF RxIrq, RxPending, TypeOK, ControlPoint, rings, device,
         locals, counts
    <2>6. uart_rx_buffer'.head = Succ(uart_rx_buffer'.tail)
      BY <1>1, <2>1, <2>2, <2>3, RingPut DEF rbuf_is_empty
    <2>7. OneCharacter'
      BY <1>17, <2>3, <2>6 DEF RxIrq, OneCharacter, locals
    <2>8. SomeoneSends'
      BY <1>17 DEF RxIrq, RxPending, TypeOK, SomeoneSends, Idle, rbuf_is_empty,
         rbuf_is_full, rings, device, locals, counts
    <2>9. CharacterLeft'
      BY <1>17 DEF RxIrq, RxPending, TypeOK, CharacterLeft, rings, device,
         locals, counts
    <2> QED
      BY <2>5, <2>7, <2>8, <2>9
  <1>18. CASE TxIrq
    <2>1. TypeOK'
      BY <1>18 DEF TxIrq, TxPending, TypeOK, ControlPoint, rings, device,
         locals, counts
    <2>2. OneCharacter'
      BY <1>18 DEF TxIrq, TxPending, TypeOK, OneCharacter, rbuf_is_empty,
         rings, device, locals, counts
    <2>3. SomeoneSends'
      BY <1>18 DEF TxIrq, TxPending, TypeOK, SomeoneSends, Idle, rbuf_is_empty,
         rbuf_is_full, rings, device, locals, counts
    <2>4. CharacterLeft'
      BY <1>18 DEF TxIrq, TxPending, TypeOK, CharacterLeft, rings, device,
         locals, counts
    <2> QED
      BY <2>1, <2>2, <2>3, <2>4
  <1>19. CASE TxMove
    <2>1. uart_tx_buffer' \in Ring /\ Oldest(uart_tx_buffer) \in Nat
      BY <1>19, <1>1, RingOperations DEF TxMove
    <2>2. tx_fifo' \in Seq(Nat) /\ Len(tx_fifo') = Len(tx_fifo) + 1
      BY <1>19, <2>1, AppendProperties DEF TxMove, TypeOK
    <2>3. Len(tx_fifo) \in Nat /\ Len(tx_fifo) < FifoSize
      BY <1>19, LenProperties DEF TxMove, TypeOK
    <2>4. /\ uart_tx_buffer' \in Ring /\ tx_fifo' \in Seq(Nat)
          /\ Len(tx_fifo') <= FifoSize
      BY <2>1, <2>2, <2>3, FifoAssumption
    <2>5. TypeOK'
      BY <1>19, <2>4 DEF TxMove, TypeOK, ControlPoint, rings, device, locals,
         counts
    <2>6. OneCharacter'
      BY <1>19 DEF TxMove, TypeOK, OneCharacter, rbuf_is_empty, rings, device,
         locals, counts
    <2>7. SomeoneSends'
      BY <1>1, <1>19, RingOperations DEF TxMove, TypeOK, SomeoneSends, Idle,
         rbuf_is_empty, rbuf_is_full, rings, device, locals, counts
    <2>8. CharacterLeft'
      BY <1>19 DEF TxMove, TypeOK, CharacterLeft, rings, device, locals, counts
    <2> QED
      BY <2>5, <2>6, <2>7, <2>8
  <1>20. CASE TxDone
    <2>1. TypeOK'
      BY <1>20 DEF TxDone, TypeOK, ControlPoint, rings, device, locals, counts
    <2>2. OneCharacter'
      BY <1>20 DEF TxDone, TypeOK, OneCharacter, rbuf_is_empty, rings, device,
         locals, counts
    <2>3. SomeoneSends'
      BY <1>1, <1>20, RingOperations DEF TxDone, TypeOK, SomeoneSends, Idle,
         rbuf_is_empty, rbuf_is_full, rings, device, locals, counts
    <2>4. CharacterLeft'
      BY <1>20 DEF TxDone, TypeOK, CharacterLeft, rings, device, locals, counts
    <2> QED
      BY <2>1, <2>2, <2>3, <2>4
  <1>21. CASE Type
    <2>1. TypeOK'
      <3>1. typed' \in Nat /\ Len(rx_fifo) \in Nat /\ Len(rx_fifo) < FifoSize
        BY <1>21, LenProperties DEF Type, TypeOK
      <3>2. rx_fifo' \in Seq(Nat) /\ Len(rx_fifo') = Len(rx_fifo) + 1
        BY <1>21, <3>1, AppendProperties DEF Type, TypeOK
      <3>3. Len(rx_fifo') <= FifoSize
        BY <3>1, <3>2, FifoAssumption
      <3> QED
        BY <1>21, <3>1, <3>2, <3>3 DEF Type, TypeOK, ControlPoint, rings,
           device, locals, counts
    <2>2. OneCharacter'
      BY <1>21 DEF Type, TypeOK, OneCharacter, rbuf_is_empty, rings, device,
         locals, counts
    <2>3. SomeoneSends'
      BY <1>21 DEF Type, TypeOK, SomeoneSends, Idle, rbuf_is_empty,
         rbuf_is_full, rings, device, locals, counts
    <2>4. CharacterLeft'
      BY <1>21 DEF Type, TypeOK, CharacterLeft, rings, device, locals, counts
    <2> QED
      BY <2>1, <2>2, <2>3, <2>4
  <1>22. CASE TxShift
    <2>1. wire' \in Nat /\ tx_fifo' \in Seq(Nat) /\ Len(tx_fifo') <= FifoSize
      BY <1>22, <1>1, FifoOperations, FifoAssumption DEF TxShift, TypeOK,
         rings, device, locals, counts
    <2>2. TypeOK'
      BY <1>22, <2>1 DEF TxShift, TypeOK, ControlPoint, rings, device, locals,
         counts
    <2>3. OneCharacter'
      BY <1>22 DEF TxShift, TypeOK, OneCharacter, rbuf_is_empty, rings, device,
         locals, counts
    <2>4. SomeoneSends'
      BY <1>22 DEF TxShift, TypeOK, SomeoneSends, Idle, rbuf_is_empty,
         rbuf_is_full, rings, device, locals, counts
    <2>5. CharacterLeft'
      BY <1>22 DEF TxShift, TypeOK, CharacterLeft, rings, device, locals,
         counts
    <2> QED
      BY <2>2, <2>3, <2>4, <2>5
  <1>23. CASE UNCHANGED vars
    BY <1>23 DEF vars, rings, device, locals, counts, TypeOK, OneCharacter,
       SomeoneSends, CharacterLeft, Idle, rbuf_is_empty, rbuf_is_full
  <1> QED
    BY <1>2, <1>3, <1>4, <1>5, <1>6, <1>7, <1>8, <1>9, <1>10, <1>11, <1>12,
       <1>13, <1>14, <1>15, <1>16, <1>17, <1>18, <1>19, <1>20, <1>21, <1>22,
       <1>23 DEF Next, Main, Handler

-----------------------------------------------------------------------------
LEMMA Invariant == Spec => []IInv
  BY InitInvariant, StepInvariant, PTL DEF Spec

(* Every variable keeps its type: no index leaves its ring, no FIFO is     *)
(* filled beyond its size, no string is sent beyond its end.               *)
THEOREM TypeCorrect == Spec => []TypeOK
  <1>1. IInv => TypeOK
    BY DEF IInv
  <1> QED
    BY <1>1, Invariant, PTL

(* The handler takes a typed character only for a main that waits for it   *)
(* with an empty ring: the receive ring never drops one and none is left   *)
(* in it when the command ends.                                            *)
THEOREM InputStaysInDevice == Spec => []NoInputStolen
  <1>1. IInv => NoInputStolen
    BY DEF IInv, OneCharacter, NoInputStolen, RxPending
  <1> QED
    BY <1>1, Invariant, PTL

(* No interleaving of the two contexts' reads and writes of AUX_MU_IER     *)
(* leaves main waiting for a transmit interrupt that is off.               *)
THEOREM NoLostWakeup == Spec => []WakeupPending
  <1>1. IInv => WakeupPending
    BY DEF IInv, SomeoneSends, Idle, WakeupPending
  <1> QED
    BY <1>1, Invariant, PTL

-----------------------------------------------------------------------------
(* The receive side keeps what Channel promises.                           *)

(* Main holds the oldest character of the ring before it stores the tail.  *)
OldestLoaded == pc = "got" => c = Oldest(uart_rx_buffer)

RxInv == IInv /\ OldestLoaded

(* A ring that is empty, and one with one character, as a sequence.        *)
LEMMA ContentsEmpty ==
  ASSUME NEW r \in Ring, rbuf_is_empty(r)
  PROVE  Contents(r) = <<>>
  <1>1. r.head \in Slot /\ r.head = r.tail
    BY DEF Ring, rbuf_is_empty
  <1>3. Count(r) = 0
    BY <1>1 DEF Count, Slot
  <1>4. 1 .. 0 = {}
    OBVIOUS
  <1>5. Contents(r) \in Seq(Nat) /\ Len(Contents(r)) = 0
    BY <1>3, <1>4 DEF Contents
  <1> QED
    BY <1>5, EmptySeq

LEMMA ContentsOne ==
  ASSUME NEW r \in Ring, r.head = Succ(r.tail)
  PROVE  Contents(r) = <<Oldest(r)>>
  <1>1. r.tail \in Slot /\ r.buf \in [Slot -> Nat]
    BY DEF Ring
  <1>2. Count(r) = 1
    <2>1. Succ(r.tail) = IF r.tail = RBUF_SIZE - 1 THEN 0 ELSE r.tail + 1
      BY <1>1, SuccType
    <2> QED
      BY <1>1, <2>1, RingAssumption DEF Count, Slot
  <1>3. (r.tail + 1 - 1) % RBUF_SIZE = r.tail
    <2>1. r.tail + 1 - 1 = r.tail /\ r.tail \in 0 .. RBUF_SIZE - 1
      BY <1>1 DEF Slot
    <2> QED
      BY <2>1, RingAssumption
  <1>4. Contents(r) = [k \in 1 .. 1 |-> r.buf[(r.tail + k - 1) % RBUF_SIZE]]
    BY <1>2 DEF Contents
  <1>5. \A k \in 1 .. 1 : r.buf[(r.tail + k - 1) % RBUF_SIZE] = Oldest(r)
    BY <1>3 DEF Oldest
  <1> QED
    BY <1>4, <1>5

(* A sequence with one element in front of it.                             *)
LEMMA HeadAndRest ==
  ASSUME NEW x \in Nat, NEW s \in Seq(Nat)
  PROVE  /\ <<x>> \o s # <<>>
         /\ Head(<<x>> \o s) = x
         /\ Tail(<<x>> \o s) = s
  OBVIOUS

LEMMA FirstAndRest ==
  ASSUME NEW s \in Seq(Nat), s # <<>>
  PROVE  <<Head(s)>> \o Tail(s) = s
  OBVIOUS

(* The queue of the channel: what the ring holds, then the device's FIFO.  *)
RxQueue == Contents(uart_rx_buffer) \o rx_fifo

RxStep == Rx!Put \/ Rx!Get \/ UNCHANGED Rx!vars

(* Each step of the model is a step of the channel, or none: typing puts a *)
(* character in, the handler moves one from the FIFO to the empty ring,    *)
(* which changes nothing, and main or the shell takes the oldest one.      *)
LEMMA ReceiveStep == RxInv /\ [Next]_vars => RxStep
  <1> SUFFICES ASSUME RxInv, [Next]_vars PROVE RxStep
    OBVIOUS
  <1>1. /\ uart_rx_buffer \in Ring /\ rx_fifo \in Seq(Nat)
        /\ Oldest(uart_rx_buffer) \in Nat /\ typed \in Nat
    BY RingOperations DEF RxInv, IInv, TypeOK
  <1>2. /\ uart_rx_buffer' \in Ring /\ rx_fifo' \in Seq(Nat)
        /\ Oldest(uart_rx_buffer') \in Nat
    <2>1. IInv'
      BY StepInvariant DEF RxInv
    <2> QED
      BY <2>1, RingOperations DEF IInv, TypeOK
  <1>3. ASSUME UNCHANGED <<uart_rx_buffer, rx_fifo, typed, got>>
        PROVE  RxStep
    BY <1>3 DEF RxStep, Rx!vars, Contents, Count
  <1>4. rbuf_is_empty(uart_rx_buffer) => Contents(uart_rx_buffer) = <<>>
    BY <1>1, ContentsEmpty
  <1>5. rbuf_is_empty(uart_rx_buffer') => Contents(uart_rx_buffer') = <<>>
    BY <1>2, ContentsEmpty
  <1>6. CASE StartTest
    <2>1. rbuf_is_empty(uart_rx_buffer) /\ rbuf_is_empty(uart_rx_buffer')
      BY <1>1, <1>6, RingOperations DEF StartTest, GoTo, RxInv, IInv,
         OneCharacter
    <2>2. UNCHANGED Contents(uart_rx_buffer)
      BY <1>4, <1>5, <2>1
    <2> QED
      BY <1>6, <2>2 DEF StartTest, RxStep, Rx!vars
  <1>7. CASE ShellReads
    <2>1. /\ rbuf_is_empty(uart_rx_buffer)
          /\ uart_rx_buffer' = uart_rx_buffer
      BY <1>7 DEF ShellReads, GoTo, RxInv, IInv, OneCharacter, rings
    <2>2. /\ RxQueue = rx_fifo /\ RxQueue' = rx_fifo'
      BY <1>1, <1>2, <1>4, <2>1, ConcatEmptySeq DEF RxQueue
    <2>3. Rx!Get
      BY <1>7, <2>2 DEF ShellReads, RxQueue, Rx!Get
    <2> QED
      BY <2>3 DEF RxStep
  <1>8. CASE GetTail
    <2>1. /\ Contents(uart_rx_buffer) = <<c>> /\ c \in Nat
          /\ rbuf_is_empty(uart_rx_buffer')
      <3>1. /\ uart_rx_buffer.head = Succ(uart_rx_buffer.tail)
            /\ c = Oldest(uart_rx_buffer)
        BY <1>8 DEF GetTail, RxInv, IInv, OneCharacter, OldestLoaded
      <3>2. uart_rx_buffer' = rbuf_get(uart_rx_buffer)
        BY <1>8 DEF GetTail
      <3> QED
        BY <1>1, <3>1, <3>2, ContentsOne, RingOperations DEF rbuf_is_empty
    <2>2. RxQueue = <<c>> \o rx_fifo /\ RxQueue' = rx_fifo
      <3>1. rx_fifo' = rx_fifo
        BY <1>8 DEF GetTail, device
      <3> QED
        BY <1>1, <1>5, <2>1, <3>1, ConcatEmptySeq DEF RxQueue
    <2>3. /\ RxQueue # <<>> /\ Head(RxQueue) = c
          /\ Tail(RxQueue) = rx_fifo
      BY <1>1, <2>1, <2>2, HeadAndRest
    <2>4. Rx!Get
      BY <1>8, <2>2, <2>3 DEF GetTail, RxQueue, Rx!Get
    <2> QED
      BY <2>4 DEF RxStep
  <1>9. CASE RxIrq
    <2>1. /\ rx_fifo # <<>> /\ rx_fifo' = Tail(rx_fifo)
          /\ uart_rx_buffer' = rbuf_put(uart_rx_buffer, Head(rx_fifo))
      BY <1>9 DEF RxIrq, RxPending
    <2>2. Head(rx_fifo) \in Nat
      BY <1>1, <2>1, FifoOperations
    <2>3. rbuf_is_empty(uart_rx_buffer)
      BY <1>9 DEF RxIrq, RxPending, RxInv, IInv, OneCharacter
    <2>4. /\ uart_rx_buffer'.head = Succ(uart_rx_buffer'.tail)
          /\ Oldest(uart_rx_buffer') = Head(rx_fifo)
      BY <1>1, <2>1, <2>2, <2>3, RingPut DEF rbuf_is_empty
    <2>5. Contents(uart_rx_buffer)' = <<Head(rx_fifo)>>
      BY <1>2, <2>4, ContentsOne
    <2>6. RxQueue = rx_fifo
      BY <1>1, <1>4, <2>3, ConcatEmptySeq DEF RxQueue
    <2>7. RxQueue' = rx_fifo
      BY <1>1, <2>1, <2>5, FirstAndRest DEF RxQueue
    <2>8. RxQueue' = RxQueue
      BY <2>6, <2>7
    <2> QED
      BY <1>9, <2>8 DEF RxIrq, RxQueue, RxStep, Rx!vars, counts
  <1>10. CASE Type
    <2>1. Contents(uart_rx_buffer) \in Seq(Nat)
      <3>1. \/ rbuf_is_empty(uart_rx_buffer)
            \/ uart_rx_buffer.head = Succ(uart_rx_buffer.tail)
        BY DEF RxInv, IInv, OneCharacter
      <3>2. \/ Contents(uart_rx_buffer) = <<>>
            \/ Contents(uart_rx_buffer) = <<Oldest(uart_rx_buffer)>>
        BY <1>1, <1>4, <3>1, ContentsOne
      <3>3. <<>> \in Seq(Nat) /\ <<Oldest(uart_rx_buffer)>> \in Seq(Nat)
        BY <1>1
      <3> QED
        BY <3>2, <3>3, Zenon
    <2>2. Contents(uart_rx_buffer)' = Contents(uart_rx_buffer)
      BY <1>10 DEF Type, rings
    <2>3. RxQueue' = Append(RxQueue, typed')
      <3>1. typed' \in Nat /\ rx_fifo' = Append(rx_fifo, typed')
        BY <1>1, <1>10 DEF Type
      <3>2. <<typed'>> \in Seq(Nat)
        BY <3>1
      <3>3. rx_fifo' = rx_fifo \o <<typed'>>
        BY <1>1, <3>1, AppendIsConcat
      <3>4. RxQueue' = Contents(uart_rx_buffer) \o (rx_fifo \o <<typed'>>)
        BY <2>2, <3>3 DEF RxQueue
      <3>5. RxQueue' = RxQueue \o <<typed'>>
        BY <1>1, <2>1, <3>2, <3>4, ConcatAssociative DEF RxQueue
      <3>6. RxQueue \in Seq(Nat)
        BY <1>1, <2>1, ConcatProperties DEF RxQueue
      <3> QED
        BY <3>1, <3>5, <3>6, AppendIsConcat
    <2>4. Rx!Put
      BY <1>10, <2>3 DEF Type, RxQueue, Rx!Put
    <2> QED
      BY <2>4 DEF RxStep
  <1>11. ASSUME ~StartTest, ~ShellReads, ~GetTail, ~RxIrq, ~Type
         PROVE  UNCHANGED <<uart_rx_buffer, rx_fifo, typed, got>>
    BY <1>11 DEF Next, Main, Handler, EnableRx, SetRx, WaitRx, GetChar,
       SendFull, SendChar, SendEnd, PutChar, PutHead, EnableTx, SetTx, Drain,
       LoadIer, TxIrq, TxMove, TxDone, TxShift, vars, rings, device, counts
  <1> QED
    BY <1>3, <1>6, <1>7, <1>8, <1>9, <1>10, <1>11

LEMMA RxInvariant == Spec => []RxInv
  <1>1. Init => OldestLoaded
    BY DEF Init, OldestLoaded
  <1>2. RxInv /\ [Next]_vars => OldestLoaded'
    <2> SUFFICES ASSUME RxInv, [Next]_vars PROVE OldestLoaded'
      OBVIOUS
    <2>1. CASE StartTest \/ GetTail
      BY <2>1 DEF StartTest, GetTail, GoTo, OldestLoaded
    <2>2. CASE RxIrq
      <3>1. pc' = "wait_rx"
        BY <2>2 DEF RxIrq, RxPending, RxInv, IInv, OneCharacter
      <3> QED
        BY <3>1 DEF OldestLoaded
    <2>3. CASE GetChar
      BY <2>3 DEF GetChar, GoTo, OldestLoaded, rings
    <2>4. ASSUME ~StartTest, ~GetTail, ~RxIrq, ~GetChar
          PROVE  /\ UNCHANGED <<uart_rx_buffer, c>>
                 /\ pc' = "got" => pc = "got"
      BY <2>4 DEF Next, Main, Handler, EnableRx, SetRx, WaitRx, ShellReads,
         SendFull, SendChar, SendEnd, PutChar, PutHead, EnableTx, SetTx, Drain,
         ReturnTx, LoadIer, GoTo, TxIrq, TxMove, TxDone, Type, TxShift, vars,
         rings, locals
    <2> QED
      BY <2>1, <2>2, <2>3, <2>4 DEF RxInv, OldestLoaded
  <1> QED
    BY <1>1, <1>2, InitInvariant, StepInvariant, PTL DEF Spec, RxInv

(* The receive side implements a lossless channel: what is typed is read   *)
(* once and in order, whatever the interleaving and whoever reads.         *)
THEOREM ReceiveKeepsOrder ==
  Spec => Rx!Init /\ [][Rx!Put \/ Rx!Get]_(Rx!vars)
  <1>1. Init => Rx!Init
    <2> SUFFICES ASSUME Init PROVE Rx!Init
      OBVIOUS
    <2>1. uart_rx_buffer \in Ring /\ rbuf_is_empty(uart_rx_buffer)
      BY InitInvariant DEF IInv, TypeOK, Init, EmptyRing, rbuf_is_empty
    <2>2. Contents(uart_rx_buffer) = <<>>
      BY <2>1, ContentsEmpty
    <2> QED
      BY <2>2, ConcatEmptySeq DEF Init, Rx!Init
  <1>2. RxInv /\ [Next]_vars => [Rx!Put \/ Rx!Get]_(Rx!vars)
    BY ReceiveStep DEF RxStep
  <1> QED
    BY <1>1, <1>2, RxInvariant, PTL DEF Spec

-----------------------------------------------------------------------------
(* The transmit side implements Channel, for every size of the ring and of *)
(* the FIFO.  Main stores a character and then the head of the ring; the   *)
(* handler empties the ring from its tail between any two of main's steps, *)
(* and the line empties the FIFO behind it.                                *)

(* The contents of a ring of any length.                                   *)

(* The slot of the k-th character of a ring with tail t.                   *)
Place(t, k) ==
  IF t + k - 1 < RBUF_SIZE THEN t + k - 1 ELSE t + k - 1 - RBUF_SIZE

LEMMA PlaceIsModulo ==
  ASSUME NEW t \in Slot, NEW k \in 1 .. RBUF_SIZE
  PROVE  (t + k - 1) % RBUF_SIZE = Place(t, k) /\ Place(t, k) \in Slot
  <1>1. CASE t + k - 1 < RBUF_SIZE
    <2>1. t + k - 1 \in 0 .. RBUF_SIZE - 1
      BY <1>1, RingAssumption DEF Slot
    <2> QED
      BY <1>1, <2>1, RingAssumption DEF Place, Slot
  <1>2. CASE ~(t + k - 1 < RBUF_SIZE)
    <2> DEFINE r == t + k - 1 - RBUF_SIZE
    <2>1. r \in 0 .. RBUF_SIZE - 1 /\ t + k - 1 = r + RBUF_SIZE
      BY <1>2, RingAssumption DEF Slot
    <2>2. (r + RBUF_SIZE) % RBUF_SIZE = r
      <3> HIDE DEF r
      <3> QED
        BY <2>1, RingAssumption
    <2> QED
      BY <1>2, <2>1, <2>2 DEF Place, Slot
  <1> QED
    BY <1>1, <1>2

LEMMA ContentsAre ==
  ASSUME NEW r \in Ring
  PROVE  /\ Contents(r) \in Seq(Nat)
         /\ Count(r) \in Nat /\ Count(r) < RBUF_SIZE
         /\ Len(Contents(r)) = Count(r)
         /\ \A k \in 1 .. Count(r) :
              /\ Place(r.tail, k) \in Slot
              /\ Contents(r)[k] = r.buf[Place(r.tail, k)]
  <1> DEFINE n == Count(r)
  <1>1. r.head \in Slot /\ r.tail \in Slot /\ r.buf \in [Slot -> Nat]
    BY DEF Ring
  <1>2. n \in Nat /\ n < RBUF_SIZE
    BY <1>1, RingAssumption DEF Count, Slot
  <1> HIDE DEF n
  <1>3. ASSUME NEW k \in 1 .. n
        PROVE  /\ (r.tail + k - 1) % RBUF_SIZE = Place(r.tail, k)
               /\ Place(r.tail, k) \in Slot
    <2>1. k \in 1 .. RBUF_SIZE
      BY <1>2, RingAssumption
    <2> QED
      BY <1>1, <2>1, PlaceIsModulo
  <1>4. Contents(r) = [k \in 1 .. n |-> r.buf[(r.tail + k - 1) % RBUF_SIZE]]
    BY DEF Contents, n
  <1>5. \A k \in 1 .. n : r.buf[(r.tail + k - 1) % RBUF_SIZE] \in Nat
    BY <1>1, <1>3
  <1>6. Contents(r) \in Seq(Nat) /\ Len(Contents(r)) = n
    BY <1>2, <1>4, <1>5
  <1> QED
    BY <1>2, <1>3, <1>4, <1>6 DEF n

(* Two rings with the same characters in the same order.                   *)
LEMMA SameContents ==
  ASSUME NEW r \in Ring, NEW s \in Ring, Count(r) = Count(s),
         \A k \in 1 .. Count(r) :
           r.buf[Place(r.tail, k)] = s.buf[Place(s.tail, k)]
  PROVE  Contents(r) = Contents(s)
  <1> DEFINE u == Contents(r)  v == Contents(s)
  <1>1. /\ u \in Seq(Nat) /\ v \in Seq(Nat) /\ Len(u) = Len(v)
        /\ \A k \in 1 .. Len(u) : u[k] = v[k]
    BY ContentsAre
  <1> HIDE DEF u, v
  <1>2. u = v
    BY <1>1, SeqEqual
  <1> QED
    BY <1>2 DEF u, v

(* The slot at the head is no part of the contents.                        *)
LEMMA StoreInFreeSlot ==
  ASSUME NEW r \in Ring, NEW ch \in Nat
  PROVE  Contents([r EXCEPT !.buf[r.head] = ch]) = Contents(r)
  <1> DEFINE s == [r EXCEPT !.buf[r.head] = ch]
  <1>1. /\ r.head \in Slot /\ r.tail \in Slot /\ r.buf \in [Slot -> Nat]
        /\ s \in Ring /\ s.head = r.head /\ s.tail = r.tail
        /\ s.buf = [r.buf EXCEPT ![r.head] = ch]
    BY DEF Ring
  <1> HIDE DEF s
  <1>2. Count(s) = Count(r)
    BY <1>1 DEF Count
  <1>3. \A k \in 1 .. Count(r) : Place(r.tail, k) # r.head
    BY <1>1, RingAssumption DEF Count, Place, Slot
  <1>4. \A k \in 1 .. Count(s) :
          s.buf[Place(s.tail, k)] = r.buf[Place(r.tail, k)]
    BY <1>1, <1>2, <1>3, ContentsAre
  <1>5. Contents(s) = Contents(r)
    BY <1>1, <1>2, <1>4, SameContents
  <1> QED
    BY <1>5 DEF s

(* Moving the head on makes the stored character the last one.             *)
LEMMA MoveHead ==
  ASSUME NEW r \in Ring, ~rbuf_is_full(r)
  PROVE  Contents([r EXCEPT !.head = Succ(@)])
           = Append(Contents(r), r.buf[r.head])
  <1> DEFINE s == [r EXCEPT !.head = Succ(@)]
             n == Count(r)
             x == r.buf[r.head]
             u == Contents(s)
             v == Append(Contents(r), x)
  <1>1. /\ r.head \in Slot /\ r.tail \in Slot /\ r.buf \in [Slot -> Nat]
        /\ s.head = Succ(r.head) /\ s.tail = r.tail /\ s.buf = r.buf
        /\ s \in Ring /\ x \in Nat
    BY RingOperations DEF Ring
  <1> HIDE DEF s
  <1>2. /\ Succ(r.head) # r.tail
        /\ Succ(r.head) = IF r.head = RBUF_SIZE - 1 THEN 0 ELSE r.head + 1
    BY <1>1, SuccType DEF rbuf_is_full
  <1>3. Count(s) = n + 1 /\ n \in Nat /\ Place(r.tail, n + 1) = r.head
    <2> DEFINE h == r.head  t == r.tail
    <2>1. h \in Slot /\ t \in Slot /\ n = IF h >= t THEN h - t
                                               ELSE h - t + RBUF_SIZE
      BY <1>1 DEF Count
    <2>2. Count(s) = IF Succ(h) >= t THEN Succ(h) - t
                                      ELSE Succ(h) - t + RBUF_SIZE
      BY <1>1 DEF Count
    <2>3. n \in Nat /\ Place(t, n + 1) = h
      <3> HIDE DEF h, t, n
      <3> QED
        BY <2>1, RingAssumption DEF Place, Slot
    <2>4. Count(s) = n + 1
      <3> HIDE DEF h, t, n
      <3>1. Succ(h) # t /\ Succ(h) = IF h = RBUF_SIZE - 1 THEN 0 ELSE h + 1
        BY <1>2 DEF h, t
      <3>2. CASE h = RBUF_SIZE - 1
        BY <2>1, <2>2, <3>1, <3>2, RingAssumption DEF Slot
      <3>3. CASE h # RBUF_SIZE - 1
        BY <2>1, <2>2, <3>1, <3>3, RingAssumption DEF Slot
      <3> QED
        BY <3>2, <3>3
    <2> QED
      BY <2>3, <2>4
  <1>4. /\ u \in Seq(Nat) /\ Len(u) = n + 1
        /\ \A k \in 1 .. n + 1 : u[k] = r.buf[Place(r.tail, k)]
    BY <1>1, <1>3, ContentsAre
  <1>5. /\ Contents(r) \in Seq(Nat) /\ Len(Contents(r)) = n
        /\ \A k \in 1 .. n : Contents(r)[k] = r.buf[Place(r.tail, k)]
    BY ContentsAre
  <1>6. /\ v \in Seq(Nat) /\ Len(v) = n + 1
        /\ \A k \in 1 .. n : v[k] = Contents(r)[k]
        /\ v[n + 1] = x
    <2> HIDE DEF x, n
    <2> QED
      BY <1>1, <1>3, <1>5
  <1>7. \A k \in 1 .. n + 1 : u[k] = v[k]
    <2> HIDE DEF u, v, n
    <2> TAKE k \in 1 .. n + 1
    <2>1. CASE k <= n
      <3>1. k \in 1 .. n
        BY <1>3, <2>1
      <3>2. v[k] = Contents(r)[k]
        BY <1>6, <3>1
      <3>3. Contents(r)[k] = r.buf[Place(r.tail, k)]
        BY <1>5, <3>1
      <3>4. u[k] = r.buf[Place(r.tail, k)]
        BY <1>4
      <3> QED
        BY <3>2, <3>3, <3>4
    <2>2. CASE k = n + 1
      BY <1>3, <1>4, <1>6, <2>2
    <2> QED
      BY <1>3, <2>1, <2>2
  <1>8. u = v
    <2> HIDE DEF u, v, n
    <2> QED
      BY <1>4, <1>6, <1>7, SeqEqual
  <1> QED
    BY <1>8 DEF s

(* Moving the tail on takes the oldest character away.                     *)
LEMMA MoveTail ==
  ASSUME NEW r \in Ring, ~rbuf_is_empty(r)
  PROVE  Contents(r) = <<Oldest(r)>> \o Contents(rbuf_get(r))
  <1> DEFINE s == rbuf_get(r)
             n == Count(s)
             u == Contents(r)
             v == <<Oldest(r)>> \o Contents(s)
  <1>1. /\ r.head \in Slot /\ r.tail \in Slot /\ r.buf \in [Slot -> Nat]
        /\ s.head = r.head /\ s.tail = Succ(r.tail) /\ s.buf = r.buf
        /\ s \in Ring /\ Oldest(r) \in Nat
    BY RingOperations DEF Ring, rbuf_get
  <1> HIDE DEF s
  <1>2. /\ r.head # r.tail
        /\ Succ(r.tail) = IF r.tail = RBUF_SIZE - 1 THEN 0 ELSE r.tail + 1
    BY <1>1, SuccType DEF rbuf_is_empty
  <1>3. /\ n \in Nat /\ Count(r) = n + 1 /\ Place(r.tail, 1) = r.tail
        /\ \A k \in 1 .. n : Place(r.tail, k + 1) = Place(s.tail, k)
    <2> DEFINE h == r.head  t == r.tail  m == Count(r)
    <2>1. h \in Slot /\ t \in Slot /\ m = IF h >= t THEN h - t
                                               ELSE h - t + RBUF_SIZE
      BY <1>1 DEF Count
    <2>2. n = IF h >= Succ(t) THEN h - Succ(t) ELSE h - Succ(t) + RBUF_SIZE
      BY <1>1 DEF Count
    <2>3. s.tail = Succ(t)
      BY <1>1
    <2> HIDE DEF h, t, n, m
    <2>4. h # t /\ Succ(t) = IF t = RBUF_SIZE - 1 THEN 0 ELSE t + 1
      BY <1>2 DEF h, t
    <2>5. n \in Nat /\ n < RBUF_SIZE /\ m = n + 1 /\ Place(t, 1) = t
      <3>1. CASE t = RBUF_SIZE - 1
        BY <2>1, <2>2, <2>4, <3>1, RingAssumption DEF Place, Slot
      <3>2. CASE t # RBUF_SIZE - 1
        BY <2>1, <2>2, <2>4, <3>2, RingAssumption DEF Place, Slot
      <3> QED
        BY <3>1, <3>2
    <2>6. \A k \in 1 .. n : Place(t, k + 1) = Place(Succ(t), k)
      BY <2>1, <2>4, <2>5, RingAssumption DEF Place, Slot
    <2> QED
      BY <2>3, <2>5, <2>6 DEF h, t, m
  <1>4. /\ u \in Seq(Nat) /\ Len(u) = n + 1
        /\ \A k \in 1 .. n + 1 : u[k] = r.buf[Place(r.tail, k)]
    BY <1>3, ContentsAre
  <1>5. /\ Contents(s) \in Seq(Nat) /\ Len(Contents(s)) = n
        /\ \A k \in 1 .. n : Contents(s)[k] = r.buf[Place(s.tail, k)]
    BY <1>1, ContentsAre
  <1>6. /\ v \in Seq(Nat) /\ Len(v) = n + 1
        /\ v[1] = Oldest(r)
        /\ \A k \in 2 .. n + 1 : v[k] = Contents(s)[k - 1]
    <2> HIDE DEF n
    <2> QED
      BY <1>1, <1>3, <1>5
  <1>7. \A k \in 1 .. n + 1 : u[k] = v[k]
    <2> HIDE DEF u, v, n
    <2> TAKE k \in 1 .. n + 1
    <2>1. CASE k = 1
      BY <1>3, <1>4, <1>6, <2>1 DEF Oldest
    <2>2. CASE k # 1
      <3> DEFINE j == k - 1
      <3>1. j \in 1 .. n /\ k = j + 1 /\ k \in 2 .. n + 1
        BY <1>3, <2>2
      <3>2. Place(r.tail, k) = Place(s.tail, j)
        BY <1>3, <3>1
      <3>3. v[k] = Contents(s)[j]
        BY <1>6, <3>1
      <3> HIDE DEF j
      <3> QED
        BY <1>4, <1>5, <3>1, <3>2, <3>3
    <2> QED
      BY <2>1, <2>2
  <1>8. u = v
    <2> HIDE DEF u, v, n
    <2> QED
      BY <1>4, <1>6, <1>7, SeqEqual
  <1> QED
    BY <1>8 DEF s

-----------------------------------------------------------------------------
(* The transmit side keeps what Channel promises.                          *)

(* Before main stores the head, the slot at it holds the next character    *)
(* and is free; at the prompt the ring is empty, so that rbuf_init throws  *)
(* nothing away.                                                           *)
SlotReady ==
  /\ pc = "put_head" =>
       /\ ~rbuf_is_full(uart_tx_buffer)
       /\ uart_tx_buffer.buf[uart_tx_buffer.head] = accepted + 1
  /\ pc = "shell" => rbuf_is_empty(uart_tx_buffer)

TxInv == IInv /\ SlotReady

LEMMA SlotReadyStep == TxInv /\ [Next]_vars => SlotReady'
  <1> SUFFICES ASSUME TxInv, [Next]_vars PROVE SlotReady'
    OBVIOUS
  <1>1. uart_tx_buffer \in Ring /\ accepted \in Nat
    BY DEF TxInv, IInv, TypeOK
  <1>2. CASE StartTest
    BY <1>2 DEF StartTest, GoTo, SlotReady
  <1>3. CASE PutChar
    <2> DEFINE r == uart_tx_buffer
               s == [r EXCEPT !.buf[r.head] = accepted + 1]
    <2>1. pc' = "put_head" /\ uart_tx_buffer' = s /\ accepted' = accepted
          /\ ~rbuf_is_full(r)
      BY <1>3 DEF PutChar, GoTo, counts
    <2>2. s.head = r.head /\ s.tail = r.tail /\ s.buf[s.head] = accepted + 1
      BY <1>1 DEF Ring
    <2> QED
      BY <2>1, <2>2 DEF SlotReady, rbuf_is_full
  <1>4. CASE PutHead
    BY <1>4 DEF PutHead, SlotReady
  <1>5. CASE TxMove
    <2> DEFINE r == uart_tx_buffer  s == rbuf_get(r)
    <2>1. /\ pc' = pc /\ uart_tx_buffer' = s /\ accepted' = accepted
          /\ ~rbuf_is_empty(r)
      BY <1>5 DEF TxMove, counts
    <2>2. s.head = r.head /\ s.tail = Succ(r.tail) /\ s.buf = r.buf
      BY <1>1, RingOperations DEF rbuf_get, Ring
    <2>3. pc # "shell"
      BY <2>1 DEF TxInv, SlotReady
    <2>4. r.head \in Slot /\ r.tail \in Slot
      BY <1>1 DEF Ring
    <2>5. r.head # r.tail => Succ(r.head) # Succ(r.tail)
      <3>1. /\ Succ(r.head) = IF r.head = RBUF_SIZE - 1 THEN 0 ELSE r.head + 1
            /\ Succ(r.tail) = IF r.tail = RBUF_SIZE - 1 THEN 0 ELSE r.tail + 1
        BY <2>4, SuccType
      <3> QED
        BY <2>4, <3>1, RingAssumption DEF Slot
    <2>6. ~rbuf_is_full(s)
      BY <2>1, <2>2, <2>5 DEF rbuf_is_full, rbuf_is_empty
    <2> QED
      BY <2>1, <2>2, <2>3, <2>6 DEF TxInv, SlotReady
  <1>6. CASE Drain
    BY <1>6 DEF Drain, GoTo, SlotReady, rings
  <1>7. CASE GetTail
    BY <1>7 DEF GetTail, SlotReady
  <1>8. ASSUME ~StartTest, ~PutChar, ~PutHead, ~TxMove, ~Drain, ~GetTail
        PROVE  /\ UNCHANGED <<uart_tx_buffer, accepted>>
               /\ pc' \in {"put_head", "shell"} => pc' = pc
    BY <1>8 DEF Next, Main, Handler, EnableRx, SetRx, WaitRx, GetChar,
       ShellReads, SendFull, SendChar, SendEnd, EnableTx, SetTx, ReturnTx,
       LoadIer, GoTo, RxIrq, TxIrq, TxDone, Type, TxShift, vars, rings, counts
  <1> QED
    BY <1>2, <1>3, <1>4, <1>5, <1>6, <1>7, <1>8 DEF TxInv, SlotReady

(* The queue of the channel: what the FIFO holds, then the ring.           *)
TxQueue == tx_fifo \o Contents(uart_tx_buffer)

TxStep == Tx!Put \/ Tx!Get \/ UNCHANGED Tx!vars

(* Each step of the model is a step of the channel, or none: main's store  *)
(* of the head puts a character in, the handler moves one from the ring to *)
(* the FIFO, which changes nothing, and the line takes the first one.      *)
LEMMA TransmitStep == TxInv /\ [Next]_vars => TxStep
  <1> SUFFICES ASSUME TxInv, [Next]_vars PROVE TxStep
    OBVIOUS
  <1> DEFINE r == uart_tx_buffer
  <1>1. r \in Ring /\ tx_fifo \in Seq(Nat) /\ accepted \in Nat
    BY DEF TxInv, IInv, TypeOK
  <1>2. Contents(r) \in Seq(Nat)
    BY <1>1, ContentsAre
  <1>3. CASE StartTest
    <2>1. /\ rbuf_is_empty(r) /\ r' = rbuf_init(r)
          /\ UNCHANGED <<tx_fifo, accepted, wire>>
      BY <1>3 DEF StartTest, GoTo, TxInv, SlotReady
    <2>2. Contents(r') = <<>> /\ Contents(r) = <<>>
      BY <1>1, <2>1, RingOperations, ContentsEmpty
    <2>3. UNCHANGED Contents(uart_tx_buffer)
      BY <2>2
    <2> QED
      BY <2>1, <2>3 DEF TxStep, Tx!vars
  <1>4. CASE PutChar
    <2>1. /\ r' = [r EXCEPT !.buf[r.head] = accepted + 1]
          /\ UNCHANGED <<tx_fifo, accepted, wire>>
      BY <1>4 DEF PutChar, device, counts
    <2>2. UNCHANGED Contents(uart_tx_buffer)
      <3>1. accepted + 1 \in Nat
        BY <1>1
      <3>2. Contents([r EXCEPT !.buf[r.head] = accepted + 1]) = Contents(r)
        BY <1>1, <3>1, StoreInFreeSlot
      <3>3. Contents(uart_tx_buffer)'
              = Contents([r EXCEPT !.buf[r.head] = accepted + 1])
        BY <2>1 DEF Contents, Count
      <3> QED
        BY <3>2, <3>3
    <2> QED
      BY <2>1, <2>2 DEF TxStep, Tx!vars
  <1>5. CASE PutHead
    <2>1. /\ r' = [r EXCEPT !.head = Succ(@)] /\ accepted' = accepted + 1
          /\ UNCHANGED <<tx_fifo, wire>>
          /\ ~rbuf_is_full(r) /\ r.buf[r.head] = accepted + 1
      BY <1>5 DEF PutHead, device, TxInv, SlotReady
    <2>2. Contents(uart_tx_buffer)' = Append(Contents(r), accepted')
      BY <1>1, <2>1, MoveHead
    <2>3. TxQueue' = Append(TxQueue, accepted')
      <3>1. accepted' \in Nat /\ <<accepted'>> \in Seq(Nat)
        BY <1>1, <2>1
      <3>2. Contents(uart_tx_buffer)' = Contents(r) \o <<accepted'>>
        BY <1>2, <2>2, <3>1, AppendIsConcat
      <3>3. TxQueue' = tx_fifo \o (Contents(r) \o <<accepted'>>)
        BY <2>1, <3>2 DEF TxQueue
      <3>4. TxQueue' = TxQueue \o <<accepted'>>
        BY <1>1, <1>2, <3>1, <3>3, ConcatAssociative DEF TxQueue
      <3>5. TxQueue \in Seq(Nat)
        BY <1>1, <1>2, ConcatProperties DEF TxQueue
      <3> QED
        BY <3>1, <3>4, <3>5, AppendIsConcat
    <2>4. Tx!Put
      BY <2>1, <2>3 DEF TxQueue, Tx!Put
    <2> QED
      BY <2>4 DEF TxStep
  <1>6. CASE TxMove
    <2>1. /\ tx_fifo' = Append(tx_fifo, Oldest(r)) /\ r' = rbuf_get(r)
          /\ ~rbuf_is_empty(r) /\ UNCHANGED <<accepted, wire>>
      BY <1>6 DEF TxMove, counts
    <2>2. Contents(r) = <<Oldest(r)>> \o Contents(uart_tx_buffer)'
      BY <1>1, <2>1, MoveTail
    <2>3. /\ Oldest(r) \in Nat /\ <<Oldest(r)>> \in Seq(Nat)
          /\ Contents(uart_tx_buffer)' \in Seq(Nat)
      <3>1. rbuf_get(r) \in Ring /\ Oldest(r) \in Nat
        BY <1>1, RingOperations
      <3>2. Contents(rbuf_get(r)) \in Seq(Nat)
        BY <3>1, ContentsAre
      <3>3. Contents(uart_tx_buffer)' = Contents(rbuf_get(r))
        BY <2>1 DEF Contents, Count
      <3> QED
        BY <3>1, <3>2, <3>3
    <2>4. tx_fifo' = tx_fifo \o <<Oldest(r)>>
      BY <1>1, <2>1, <2>3, AppendIsConcat
    <2>5. TxQueue' = TxQueue
      BY <1>1, <2>2, <2>3, <2>4, ConcatAssociative DEF TxQueue
    <2> QED
      BY <2>1, <2>5 DEF TxQueue, TxStep, Tx!vars
  <1>7. CASE TxShift
    <2>1. /\ tx_fifo # <<>> /\ wire' = Head(tx_fifo)
          /\ tx_fifo' = Tail(tx_fifo) /\ UNCHANGED <<r, accepted>>
      BY <1>7 DEF TxShift, rings
    <2> DEFINE x == Head(tx_fifo)  rest == Tail(tx_fifo) \o Contents(r)
    <2>2. x \in Nat /\ Tail(tx_fifo) \in Seq(Nat) /\ <<x>> \in Seq(Nat)
      BY <1>1, <2>1, FifoOperations
    <2>3. rest \in Seq(Nat)
      BY <1>2, <2>2, ConcatProperties
    <2>4. TxQueue = <<x>> \o rest
      <3>1. tx_fifo = <<x>> \o Tail(tx_fifo)
        BY <1>1, <2>1, FirstAndRest
      <3>2. (<<x>> \o Tail(tx_fifo)) \o Contents(r) = <<x>> \o rest
        BY <1>2, <2>2, ConcatAssociative
      <3> QED
        BY <3>1, <3>2 DEF TxQueue
    <2>5. TxQueue' = rest
      BY <2>1 DEF TxQueue, Contents, Count
    <2>6. TxQueue # <<>> /\ Head(TxQueue) = x /\ Tail(TxQueue) = rest
      <3> HIDE DEF x, rest
      <3> QED
        BY <2>2, <2>3, <2>4, HeadAndRest DEF x
    <2>7. Tx!Get
      BY <2>1, <2>5, <2>6 DEF TxQueue, Tx!Get
    <2> QED
      BY <2>7 DEF TxStep
  <1>8. ASSUME ~StartTest, ~PutChar, ~PutHead, ~TxMove, ~TxShift
        PROVE  UNCHANGED <<uart_tx_buffer, tx_fifo, accepted, wire>>
    BY <1>8 DEF Next, Main, Handler, EnableRx, SetRx, WaitRx, GetChar, GetTail,
       ShellReads, SendFull, SendChar, SendEnd, EnableTx, SetTx, Drain,
       LoadIer, RxIrq, TxIrq, TxDone, Type, vars, rings, device, counts
  <1>9. ASSUME UNCHANGED <<uart_tx_buffer, tx_fifo, accepted, wire>>
        PROVE  TxStep
    BY <1>9 DEF TxStep, Tx!vars, Contents, Count
  <1> QED
    BY <1>3, <1>4, <1>5, <1>6, <1>7, <1>8, <1>9

(* The transmit side implements a lossless channel: what main writes to    *)
(* the ring leaves the device once and in order, wherever between main's   *)
(* two stores the handler empties the ring.                                *)
THEOREM TransmitKeepsOrder ==
  Spec => Tx!Init /\ [][Tx!Put \/ Tx!Get]_(Tx!vars)
  <1>1. Init => Tx!Init /\ SlotReady
    <2> SUFFICES ASSUME Init PROVE Tx!Init /\ SlotReady
      OBVIOUS
    <2>1. uart_tx_buffer \in Ring /\ rbuf_is_empty(uart_tx_buffer)
      BY InitInvariant DEF IInv, TypeOK, Init, EmptyRing, rbuf_is_empty
    <2>2. Contents(uart_tx_buffer) = <<>>
      BY <2>1, ContentsEmpty
    <2> QED
      BY <2>1, <2>2, ConcatEmptySeq DEF Init, Tx!Init, SlotReady
  <1>2. TxInv /\ [Next]_vars => TxInv'
    BY SlotReadyStep, StepInvariant DEF TxInv
  <1>3. TxInv /\ [Next]_vars => [Tx!Put \/ Tx!Get]_(Tx!vars)
    BY TransmitStep DEF TxStep
  <1>4. Init => TxInv
    BY <1>1, InitInvariant DEF TxInv
  <1> QED
    BY <1>1, <1>2, <1>3, <1>4, PTL DEF Spec

===============================================================================
