----------------------------- MODULE SerialDmaTx ----------------------------
(***************************************************************************)
(* Transmission by DMA on a serial device (serial.c _serial_dma_tx and the *)
(* TX_DMADONE event, over the data queue of dataqueue.c and the PDMA       *)
(* channel of drv_uart.c). A writer pushes its buffer on the queue, then   *)
(* looks at `activated` and starts the channel if nothing runs on it; the  *)
(* handler of the finished transfer pops the queue and starts the next     *)
(* buffer. Between the push and the look anything may happen; and pdma_isr *)
(* may be entered for another channel, see the end of this channel's       *)
(* transfer in TDSTS, and serve it without clearing it.                    *)
(***************************************************************************)
EXTENDS Naturals, Sequences

CONSTANTS
  Writers,      \* Threads that write to the device.
  QueueSize,    \* Items the data queue holds: 8 in the code.
  Lwm,          \* Its low water mark: 4 in the code.
  MaxWrites,    \* Bound of the model: writes of each writer.
  MaxNoise      \* Bound of the model: interrupts of other channels.

ASSUME SerialConstantsOK ==
  /\ QueueSize \in Nat \ {0}
  /\ Lwm \in Nat
  /\ MaxWrites \in Nat
  /\ MaxNoise \in Nat

(* The n-th buffer of a writer. A queue or an engine may hold none; a      *)
(* pointer nobody has written is Wild.                                     *)
Buffers == Writers \X (1 .. MaxWrites)
NoBuffer == <<"none", 0>>
Wild == <<"wild", 0>>

VARIABLES
  pc,          \* Where each writer is.
  made,        \* Writes each writer has begun; a write is of buffer <<w, made>>.
  slots,       \* queue->queue
  put,         \* queue->put_index
  get,         \* queue->get_index
  isEmpty,     \* queue->is_empty
  isFull,      \* queue->is_full
  pushQ,       \* queue->suspended_push_list
  activated,   \* tx_dma->activated
  engine,      \* Buffer the channel was given last and has not reported.
  moving,      \* The channel has items of it to move.
  done,        \* The transfer-done flag of the channel is up.
  isr,         \* Where pdma_isr is: see IsrPlaces.
  noise,       \* Interrupts that were those of other channels only.
  named,       \* History: the last buffer given to tx_complete.
  overtaken,   \* History: a writer has started a buffer not at the head.
  twice        \* History: an end was served and its flag not cleared.

queueVars == <<slots, put, get, isEmpty, isFull, pushQ>>
engineVars == <<activated, engine, moving, done>>
isrVars == <<isr, noise>>
historyVars == <<named, overtaken, twice>>
vars == <<pc, made, queueVars, engineVars, isrVars, historyVars>>

(* Not entered; INTSTS read, with TDIF in it or without; about to call the *)
(* channel's handler.                                                      *)
IsrPlaces == {"out", "raised", "quiet", "serve"}
Locations == {"idle", "push", "suspended", "test", "start"}
Buffer(w) == <<w, made[w]>>

(* rt_serial_open with RT_DEVICE_FLAG_DMA_TX and rt_data_queue_init.       *)
Init ==
  /\ pc = [w \in Writers |-> "idle"]
  /\ made = [w \in Writers |-> 0]
  /\ slots = [i \in 0 .. QueueSize - 1 |-> NoBuffer]
  /\ put = 0 /\ get = 0
  /\ isEmpty = TRUE /\ isFull = FALSE
  /\ pushQ = <<>>
  /\ activated = FALSE
  /\ engine = NoBuffer /\ moving = FALSE
  /\ done = FALSE
  /\ isr = "out" /\ noise = 0
  /\ named = NoBuffer
  /\ overtaken = FALSE /\ twice = FALSE

(* A writer runs only while no interrupt is pending or being handled.      *)
At(w, where) == pc[w] = where /\ ~done /\ isr = "out"
Goto(w, where) == pc' = [pc EXCEPT ![w] = where]

(* Mutant of Succ: the index does not wrap.                                *)
SuccNoWrap(i) == i + 1

Succ(i) == IF i + 1 = QueueSize THEN 0 ELSE i + 1

(* rt_data_queue_len                                                       *)
Length(p, g, empty) ==
  IF empty THEN 0 ELSE IF p > g THEN p - g ELSE QueueSize + p - g

-----------------------------------------------------------------------------
(* _serial_dma_tx                                                          *)

Write(w) ==
  /\ At(w, "idle")
  /\ made[w] < MaxWrites
  /\ made' = [made EXCEPT ![w] = @ + 1]
  /\ Goto(w, "push")
  /\ UNCHANGED <<queueVars, engineVars, isrVars, historyVars>>

Store(w) ==
  /\ slots' = [slots EXCEPT ![put] = Buffer(w)]
  /\ put' = Succ(put)
  /\ isEmpty' = FALSE
  /\ Goto(w, "test")
  /\ UNCHANGED <<made, get, pushQ, engineVars, isrVars, historyVars>>

(* Mutant of Push: the queue is never found full.                          *)
PushOver(w) == At(w, "push") /\ Store(w) /\ UNCHANGED isFull

(* rt_data_queue_push(..., RT_WAITING_FOREVER): a writer that is resumed   *)
(* looks again whether the queue is full.                                  *)
Push(w) ==
  /\ At(w, "push")
  /\ \/ /\ isFull
        /\ pushQ' = Append(pushQ, w)
        /\ Goto(w, "suspended")
        /\ UNCHANGED <<made, slots, put, get, isEmpty, isFull, engineVars, isrVars, historyVars>>
     \/ /\ ~isFull
        /\ isFull' = (Succ(put) = get)
        /\ Store(w)

AtHead(b) == ~isEmpty /\ slots[get] = b

(* Mutant of Test: the flag stays down.                                    *)
TestUnset(w) ==
  /\ At(w, "test")
  /\ overtaken' = (overtaken \/ (~activated /\ ~AtHead(Buffer(w))))
  /\ Goto(w, IF activated THEN "idle" ELSE "start")
  /\ UNCHANGED <<made, queueVars, engineVars, isrVars, named, twice>>

(* The look at `activated`, with interrupts disabled.                      *)
Test(w) ==
  /\ At(w, "test")
  /\ activated' = TRUE
  /\ overtaken' = (overtaken \/ (~activated /\ ~AtHead(Buffer(w))))
  /\ Goto(w, IF activated THEN "idle" ELSE "start")
  /\ UNCHANGED <<made, queueVars, engine, moving, done, isrVars, named, twice>>

(* nu_uart_dma_transmit with the writer's own buffer. The channel moves    *)
(* nothing before its last statement enables the request of the UART.      *)
Start(w) ==
  /\ At(w, "start")
  /\ engine' = Buffer(w)
  /\ moving' = TRUE
  /\ Goto(w, "idle")
  /\ UNCHANGED <<made, queueVars, activated, done, isrVars, historyVars>>

Writer(w) == Write(w) \/ Push(w) \/ Test(w) \/ Start(w)

-----------------------------------------------------------------------------
(* The engine; pdma_isr, which looks at INTSTS and then at TDSTS, and      *)
(* clears what it found only if INTSTS had TDIF; and nu_pdma_uart_tx_cb    *)
(* with rt_hw_serial_isr(TX_DMADONE).                                      *)

EngineDone ==
  /\ moving
  /\ moving' = FALSE
  /\ done' = TRUE
  /\ UNCHANGED <<pc, made, queueVars, activated, engine, isrVars, historyVars>>

Interrupt ==
  /\ isr = "out" /\ done
  /\ isr' = "raised"
  /\ UNCHANGED <<pc, made, queueVars, engineVars, noise, historyVars>>

(* An idle time-out, of the receiver of this UART or another's. It is      *)
(* nothing to this channel unless a transfer of it is under way.           *)
OtherInterrupt ==
  /\ isr = "out" /\ ~done /\ moving
  /\ noise < MaxNoise
  /\ noise' = noise + 1
  /\ isr' = "quiet"
  /\ UNCHANGED <<pc, made, queueVars, engineVars, historyVars>>

(* Mutant of IsrReadTdsts: what was found is never cleared.                *)
IsrReadTdstsUncleared ==
  /\ isr \in {"raised", "quiet"}
  /\ isr' = IF done THEN "serve" ELSE "out"
  /\ twice' = (twice \/ (isr = "quiet" /\ done))
  /\ UNCHANGED <<pc, made, queueVars, engineVars, noise, named, overtaken>>

IsrReadTdsts ==
  /\ isr \in {"raised", "quiet"}
  /\ isr' = IF done THEN "serve" ELSE "out"
  /\ done' = (done /\ isr = "quiet")
  /\ twice' = (twice \/ (isr = "quiet" /\ done))
  /\ UNCHANGED <<pc, made, queueVars, activated, engine, moving, noise, named,
                 overtaken>>

(* Mutant of Resume: a writer is resumed at the mark and not below it.     *)
ResumeAtMark(n) ==
  IF n = Lwm /\ pushQ # <<>>
  THEN pushQ' = Tail(pushQ) /\ pc' = [pc EXCEPT ![Head(pushQ)] = "push"]
  ELSE UNCHANGED <<pushQ, pc>>

(* At most one suspended writer for each item popped.                      *)
Resume(n) ==
  IF n <= Lwm /\ pushQ # <<>>
  THEN pushQ' = Tail(pushQ) /\ pc' = [pc EXCEPT ![Head(pushQ)] = "push"]
  ELSE UNCHANGED <<pushQ, pc>>

(* rt_data_queue_pop(..., 0). On an empty queue it fails, and the pointer  *)
(* the handler passes on to tx_complete has never been written.            *)
Pop ==
  \/ /\ isEmpty
     /\ named' = Wild
     /\ UNCHANGED <<get, isEmpty, isFull, pushQ, pc>>
  \/ /\ ~isEmpty
     /\ named' = slots[get]
     /\ get' = Succ(get)
     /\ isFull' = FALSE
     /\ isEmpty' = (put = Succ(get))
     /\ Resume(Length(put, Succ(get), put = Succ(get)))

(* Mutants of TransmitNext: the handler does not look at the queue again;  *)
(* the flag is not put down when there is nothing left.                    *)
TransmitNothing == engine' = NoBuffer /\ activated' = FALSE
TransmitOn ==
  /\ engine' = IF isEmpty' THEN NoBuffer ELSE slots[get']
  /\ UNCHANGED activated

(* rt_data_queue_peek and what follows from it. The UART's request for the *)
(* channel is off from the start of the handler: a transfer it does not    *)
(* replace is as good as stopped.                                          *)
TransmitNext ==
  /\ engine' = IF isEmpty' THEN NoBuffer ELSE slots[get']
  /\ activated' = ~isEmpty'

TxDmaDone ==
  /\ isr = "serve"
  /\ isr' = "out"
  /\ Pop
  /\ TransmitNext
  /\ moving' = (engine' # NoBuffer)
  /\ UNCHANGED <<made, slots, put, done, noise, overtaken, twice>>

Isr == Interrupt \/ IsrReadTdsts \/ TxDmaDone

Next == (\E w \in Writers : Writer(w)) \/ EngineDone \/ OtherInterrupt \/ Isr

Spec == Init /\ [][Next]_vars

(***************************************************************************)
(* Fairness: the engine ends what it was given, interrupts are served,     *)
(* and a writer that interrupts and other threads stop again and again     *)
(* still runs (strong). No thread has to write.                            *)
(***************************************************************************)
Fairness ==
  /\ WF_vars(EngineDone)
  /\ WF_vars(Isr)
  /\ \A w \in Writers : SF_vars(Push(w) \/ Test(w) \/ Start(w))

LiveSpec == Spec /\ Fairness

-----------------------------------------------------------------------------
(* What the transmitter promises.                                          *)

(* Every variable has its type.                                            *)
TypeOK ==
  /\ pc \in [Writers -> Locations]
  /\ made \in [Writers -> 0 .. MaxWrites]
  /\ slots \in [0 .. QueueSize - 1 -> Buffers \cup {NoBuffer}]
  /\ put \in 0 .. QueueSize - 1
  /\ get \in 0 .. QueueSize - 1
  /\ isEmpty \in BOOLEAN
  /\ isFull \in BOOLEAN
  /\ pushQ \in Seq(Writers)
  /\ activated \in BOOLEAN
  /\ engine \in Buffers \cup {NoBuffer}
  /\ moving \in BOOLEAN
  /\ done \in BOOLEAN
  /\ isr \in IsrPlaces
  /\ noise \in 0 .. MaxNoise
  /\ named \in Buffers \cup {NoBuffer, Wild}
  /\ overtaken \in BOOLEAN
  /\ twice \in BOOLEAN

Starting == {w \in Writers : pc[w] = "start"}

(* `activated` tells the truth whatever writers and the handler interleave *)
(* to: up means that the channel runs or that one writer is about to start *)
(* it, never both and never two writers, so no writer programs a transfer  *)
(* over a running one (serial.c:557-560, 1373-1379). Nor does the handler: *)
(* it is called for a buffer that has been sent to its end, until pdma_isr *)
(* has once served an end and not cleared it.                              *)
ActivatedIffBusy ==
  /\ \A v, w \in Starting : v = w
  /\ Starting # {} => engine = NoBuffer
  /\ activated <=> (engine # NoBuffer \/ Starting # {})
  /\ isr = "serve" /\ ~twice => engine # NoBuffer /\ ~moving

(* A buffer on the queue is not forgotten: the channel is busy and its     *)
(* handler will look at the queue, or a writer has yet to look at          *)
(* `activated`.                                                            *)
QueueIsServed == ~isEmpty => activated \/ \E w \in Writers : pc[w] = "test"

(* A suspended writer is not forgotten: an item is on the queue whose pop  *)
(* can resume it, or another writer is about to push one.                  *)
SuspendedIsServed == pushQ # <<>> => ~isEmpty \/ \E w \in Writers : pc[w] = "push"

(* Every write returns: rt_data_queue_push waits for ever, and is resumed. *)
WritesReturn == \A w \in Writers : pc[w] = "push" ~> pc[w] = "idle"

-----------------------------------------------------------------------------
(* The transmitter as a line.                                              *)

(* The n items of a ring from g on: the i-th is at Position(g, i).         *)
Position(g, i) == IF g + i - 1 < QueueSize THEN g + i - 1 ELSE g + i - 1 - QueueSize
Content(s, g, n) == [i \in 1 .. n |-> s[Position(g, i)]]
Queued == Content(slots, get, Length(put, get, isEmpty))

Reporting == IF moving THEN NoBuffer ELSE engine

Line == INSTANCE SerialLine WITH
  Nothing <- NoBuffer, Size <- QueueSize,
  waiting <- Queued, sent <- Reporting, reported <- named

(* As long as no writer has started a buffer that is not at the head of    *)
(* the queue, and pdma_isr has cleared each end it served, buffers are     *)
(* sent once and in order, each is reported after it was sent, and no more *)
(* than the queue holds wait.                                              *)
LineUntilDisturbed ==
  Line!Init /\ [][overtaken' \/ twice' \/ Line!Next]_<<Queued, Reporting, named>>

(* device.c:437-438, "The callback function will be called when device has *)
(* written data to physical hardware": a call of tx_complete names the     *)
(* buffer that was sent.                                                   *)
CompletionNamesSent == [][TxDmaDone => named' = Reporting]_vars
=============================================================================
