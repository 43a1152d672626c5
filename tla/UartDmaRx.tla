------------------------------ MODULE UartDmaRx -----------------------------
(***************************************************************************)
(* Reception by DMA on a serial device: the engine goes round and round in *)
(* one buffer (drv_uart.c nu_pdma_uart_rx_config), pdma_isr reports laps   *)
(* and idle time-outs, nu_pdma_uart_rx_cb turns them into a number of      *)
(* bytes, and the ring of serial.c is moved on by that number, under a     *)
(* reader. The engine writes on while the handler looks at it.             *)
(*                                                                         *)
(* A byte is its number in the order the engine took them. The interrupt   *)
(* of the controller is shared: the handler may run for another channel at *)
(* any time.                                                               *)
(***************************************************************************)
EXTENDS Naturals, Sequences

CONSTANTS
  Size,         \* config.bufsz, the length of the ring.
  FifoDepth,    \* Bytes the receive FIFO of the UART holds.
  MaxBytes      \* Bound of the model: bytes that arrive.

Turn == 65536   \* rt_uint16_t, the type of the indices, begins again here.

ASSUME RxConstantsOK ==
  /\ Size \in Nat \ {0} /\ Size < Turn
  /\ FifoDepth \in Nat \ {0}
  /\ MaxBytes \in Nat

VARIABLES
  moved,        \* Bytes the engine has put into the ring.
  waiting,      \* Bytes in the FIFO of the UART.
  ring,         \* rx_fifo->buffer
  td,           \* The transfer-done flag of the channel.
  idle,         \* Its request time-out flag.
  armed,        \* Its time-out counter is enabled.
  pc,           \* Where pdma_isr is.
  tdif,         \* INTSTS said that some channel was done.
  reqto,        \* INTSTS said that this channel was idle.
  done,         \* TDSTS said that this channel was done.
  position,     \* dma_put_index as first read.
  put,          \* dmabuf.put_index
  fifoPut,      \* rx_fifo->put_index
  fifoGet,      \* rx_fifo->get_index
  isFull,       \* rx_fifo->is_full
  taken,        \* History: the last byte a reader was given.
  inOrder,      \* History: readers were given each byte once and in order.
  overrun,      \* History: the engine has overwritten a byte not yet read.
  missed        \* History: a lap has ended where the handler miscounts it.

engineVars == <<moved, waiting, ring, td, idle>>
isrVars == <<pc, tdif, reqto, done, position>>
fifoVars == <<fifoPut, fifoGet, isFull>>
historyVars == <<taken, inOrder, overrun, missed>>
vars == <<engineVars, armed, isrVars, put, fifoVars, historyVars>>

Steps == {"none", "tdsts", "callback", "report"}

(* rt_serial_open with RT_DEVICE_FLAG_DMA_RX and nu_pdma_uart_rx_config.   *)
Init ==
  /\ moved = 0 /\ waiting = 0
  /\ ring = [i \in 0 .. Size - 1 |-> 0]
  /\ td = FALSE /\ idle = FALSE /\ armed = TRUE
  /\ pc = "none" /\ tdif = FALSE /\ reqto = FALSE /\ done = FALSE
  /\ position = 0
  /\ put = 0
  /\ fifoPut = 0 /\ fifoGet = 0 /\ isFull = FALSE
  /\ taken = 0 /\ inOrder = TRUE /\ overrun = FALSE /\ missed = FALSE

-----------------------------------------------------------------------------
(* The line and the engine.                                                *)

(* A byte that finds the FIFO full is lost before it has a number here.    *)
Arrive ==
  /\ waiting < FifoDepth
  /\ moved + waiting < MaxBytes
  /\ waiting' = waiting + 1
  /\ UNCHANGED <<moved, ring, td, idle, armed, isrVars, put, fifoVars, historyVars>>

(* nu_uart_isr, after a parity, framing or break error: the FIFO is reset. *)
LineError ==
  /\ pc = "none"
  /\ waiting > 0
  /\ waiting' = 0
  /\ UNCHANGED <<moved, ring, td, idle, armed, isrVars, put, fifoVars, historyVars>>

(* The handler cannot count a lap right that ends between its reads of     *)
(* INTSTS and TDSTS (it clears no flag and is called again) or between     *)
(* TDSTS and the counter (the position has begun again), or that ends      *)
(* before it has looked at the lap before.                                 *)
Unseen ==
  \/ td
  \/ pc = "tdsts" /\ ~tdif
  \/ pc = "callback" /\ ~done

(* The one descriptor of the channel leads to itself: the engine reloads   *)
(* its counter at the end of a lap and goes on.                            *)
Move ==
  /\ waiting > 0
  /\ waiting' = waiting - 1
  /\ moved' = moved + 1
  /\ ring' = [ring EXCEPT ![moved % Size] = moved + 1]
  /\ overrun' = (overrun \/ moved + 1 > taken + Size)
  /\ \/ /\ (moved + 1) % Size = 0
        /\ missed' = (missed \/ Unseen)
        /\ td' = TRUE
     \/ /\ (moved + 1) % Size # 0
        /\ UNCHANGED <<missed, td>>
  /\ UNCHANGED <<idle, armed, isrVars, put, fifoVars, taken, inOrder>>

(* No request for as long as nu_pdma_timeout_set asked for.                *)
TimeOut ==
  /\ armed
  /\ ~idle
  /\ idle' = TRUE
  /\ UNCHANGED <<moved, waiting, ring, td, armed, isrVars, put, fifoVars, historyVars>>

-----------------------------------------------------------------------------
(* pdma_isr, as far as this channel goes.                                  *)

(* INTSTS tells of each idle channel, and whether any channel is done.     *)
IsrReadIntsts ==
  /\ pc = "none"
  /\ pc' = "tdsts"
  /\ reqto' = idle
  /\ tdif' \in {td, TRUE}
  /\ UNCHANGED <<engineVars, armed, done, position, put, fifoVars, historyVars>>

(* TDSTS; then the flags that were seen are cleared, and the counter of an *)
(* idle channel is stopped.                                                *)
IsrReadTdsts ==
  /\ pc = "tdsts"
  /\ done' = td
  /\ td' = (td /\ ~tdif)
  /\ idle' = (idle /\ ~reqto)
  /\ armed' = (armed /\ ~reqto)
  /\ pc' = IF td \/ reqto THEN "callback" ELSE "none"
  /\ UNCHANGED <<moved, waiting, ring, tdif, reqto, position, put, fifoVars, historyVars>>

(* Mutant of Transferred: TXCNT is taken for the number that is left.      *)
TransferredOne == (moved % Size) + 1

(* nu_pdma_transferred_byte_get: TXCNT is one less than what is left.      *)
Transferred == moved % Size

(* The callback first reads how far the engine is.                         *)
ReadPosition ==
  /\ pc = "callback"
  /\ position' = Transferred
  /\ pc' = "report"
  /\ UNCHANGED <<engineVars, armed, tdif, reqto, done, put, fifoVars, historyVars>>

(* _serial_fifo_calc_recved_len                                            *)
Received(p, g, full) ==
  IF p = g THEN (IF full THEN Size ELSE 0)
  ELSE IF p > g THEN p - g ELSE Size - (g - p)

(* Mutant of Overtaken: the oldest bytes are not given up.                 *)
OvertakenKept(p) == isFull' = isFull /\ UNCHANGED fifoGet

(* The put index meets or passes the get index: the ring is full, and      *)
(* begins where it ends. Full it stays until a byte is read.               *)
Overtaken(p) ==
  /\ isFull' = \/ isFull
               \/ fifoGet <= fifoPut /\ p >= Size /\ p % Size >= fifoGet
               \/ fifoGet > fifoPut /\ p >= fifoGet
  /\ fifoGet' = IF isFull' THEN p % Size ELSE fifoGet

(* Mutant of Wrap: the index runs beyond the ring.                         *)
WrapNever(p) == p

Wrap(p) == IF p >= Size THEN p % Size ELSE p

(* rt_dma_recv_update_put_index, the index not yet wrapped.                *)
PutAt(p) == fifoPut' = Wrap(p) /\ Overtaken(p)

(* rt_hw_serial_isr(RX_DMADONE): indices and length are of 16 bits, and a  *)
(* negative length arrives as its low 16.                                  *)
UpdatePut(len) == PutAt((fifoPut + len) % Turn)

(* Mutant of Count: the driver's index moves on before the FIFO is looked  *)
(* at.                                                                     *)
CountFirst(end) ==
  /\ put' = end % Size
  /\ IF end = put \/ (~done /\ waiting > 0) THEN UNCHANGED fifoVars
     ELSE UpdatePut((end + Turn - put) % Turn)

(* recv_len is unsigned: anything but zero is reported.                    *)
Count(end) ==
  IF end = put \/ (~done /\ waiting > 0) THEN UNCHANGED <<put, fifoVars>>
  ELSE /\ put' = end % Size
       /\ UpdatePut((end + Turn - put) % Turn)

(* Mutant of Rearm: only a report that counts starts the counter again.    *)
RearmIfCounted == armed' = (armed \/ (reqto /\ waiting = 0))

(* nu_pdma_timeout_set after the callback of an idle channel.              *)
Rearm == armed' = (armed \/ reqto)

(* The rest of nu_pdma_uart_rx_cb: a lap ends at bufsize, an idle channel  *)
(* is ignored while the FIFO of the UART holds bytes.                      *)
Report ==
  /\ pc = "report"
  /\ pc' = "none"
  /\ Count(IF done THEN Size ELSE position)
  /\ Rearm
  /\ UNCHANGED <<engineVars, tdif, reqto, done, position, historyVars>>

Isr == IsrReadIntsts \/ IsrReadTdsts \/ ReadPosition \/ Report

-----------------------------------------------------------------------------
(* The reader.                                                             *)

Unread == Received(fifoPut, fifoGet, isFull)
Content(n) == [i \in 1 .. n |-> ring[(fifoGet + i - 1) % Size]]

(* _serial_dma_rx, with interrupts disabled.                               *)
Read(length) ==
  LET n == IF length < Unread THEN length ELSE Unread
  IN  /\ pc = "none"
      /\ n > 0
      /\ fifoGet' = (fifoGet + n) % Size
      /\ isFull' = FALSE
      /\ taken' = Content(n)[n]
      /\ inOrder' = (inOrder /\ Content(n) = [i \in 1 .. n |-> taken + i])
      /\ UNCHANGED <<engineVars, armed, isrVars, put, fifoPut, overrun, missed>>

Next ==
  \/ Arrive \/ LineError \/ Move \/ TimeOut
  \/ IsrReadIntsts \/ IsrReadTdsts \/ ReadPosition \/ Report
  \/ \E length \in 1 .. Size : Read(length)

Spec == Init /\ [][Next]_vars

(***************************************************************************)
(* Fairness: the engine takes what is in the FIFO, an armed counter runs   *)
(* out, and the handler runs and returns. Nothing has to arrive, and       *)
(* nobody has to read.                                                     *)
(***************************************************************************)
Fairness == WF_vars(Move) /\ WF_vars(TimeOut) /\ WF_vars(Isr)

LiveSpec == Spec /\ Fairness

-----------------------------------------------------------------------------
(* What reception promises.                                                *)

(* Every variable has its type.                                            *)
TypeOK ==
  /\ moved \in 0 .. MaxBytes
  /\ waiting \in 0 .. FifoDepth
  /\ ring \in [0 .. Size - 1 -> 0 .. MaxBytes]
  /\ {td, idle, armed, tdif, reqto, done} \subseteq BOOLEAN
  /\ pc \in Steps
  /\ position \in 0 .. Size - 1
  /\ put \in 0 .. Size - 1
  /\ fifoPut \in 0 .. Size - 1
  /\ fifoGet \in 0 .. Size - 1
  /\ isFull \in BOOLEAN
  /\ taken \in 0 .. MaxBytes
  /\ {inOrder, overrun, missed} \subseteq BOOLEAN

(* Driver and framework each keep a put index, and the framework's is only *)
(* ever told differences, cut to 16 bits and sometimes negative: they stay *)
(* the same whatever is overrun, dropped or miscounted (drv_uart.c:587-602 *)
(* and serial.c:440-480).                                                  *)
RingsAgree == fifoPut = put

(* As long as readers keep up and no lap ends where the handler miscounts  *)
(* it, they are given each byte of the line once and in order: none that   *)
(* has not arrived, none twice (drv_uart.c:575-602, serial.c:485-540).     *)
EveryByteOnce == missed \/ overrun \/ inOrder

Quiet == pc = "none" /\ ~td /\ put = moved % Size

(* When everything is reported, a reader is offered all that it has not    *)
(* read, or if that is more than the ring holds, the whole ring and no     *)
(* less: giving up the oldest bytes loses no newer one. (After an overrun  *)
(* it may be more: a byte read before it was reported is offered again.)   *)
QuietRingIsWhole ==
  Quiet /\ ~missed => Unread >= Size \/ Unread >= moved - taken

(* When the line falls quiet, everything that arrived is reported in the   *)
(* end, also when the last report was of a lap or was dropped because the  *)
(* FIFO held a byte (drv_pdma.c:1064-1077, drv_uart.c:582-585).            *)
QuietLineIsReported == <>[](waiting = 0) => <>[](put = moved % Size)
=============================================================================
