------------------------------ MODULE CanDevice -----------------------------
(***************************************************************************)
(* The CAN device of can.c on the controller of drv_canfd.c: writers share *)
(* one send box and wait for its completion with a time-out, nu_canfd_isr  *)
(* serves a snapshot of the interrupt flags, frames go from the FIFO of    *)
(* the controller into boxes of the framework and from there to a reader.  *)
(*                                                                         *)
(* The driver has one box (RT_CANSND_BOX_NUM) and reports every end of a   *)
(* transmission for box 0. TX_FAIL is left out: no event FIFO entry is     *)
(* asked for and the time-out counter is never configured, so TEFF and TOO *)
(* do not rise. A thread runs only when no interrupt of the device is      *)
(* pending or served; a tick may come before one.                          *)
(***************************************************************************)
EXTENDS Naturals, Sequences, FiniteSets

CONSTANTS
  Writers,      \* Threads that call rt_can_write.
  Msgs,         \* Frames in each call.
  HwDepth,      \* u32RxFifo0, elements of the receive FIFO.
  MsgBoxes,     \* config.msgboxsz, boxes of the framework (more than readers).
  MaxFrames     \* Bound of the model: frames that arrive.

ASSUME CanConstantsOK ==
  /\ Msgs \in Nat \ {0}
  /\ HwDepth \in Nat \ {0}
  /\ MsgBoxes \in Nat \ {0, 1}
  /\ MaxFrames \in Nat

VARIABLES
  wpc,          \* Where each writer is in _can_int_tx.
  left,         \* Frames each writer has still to send; 0 between calls.
  sem,          \* Tokens of tx_fifo->sem.
  semQueue,     \* Writers suspended on it, first in first out.
  boxFree,      \* The send box is on tx_fifo->freelist.
  result,       \* buffer[0].result
  completed,    \* buffer[0].completion.flag
  sndchange,    \* Bit 0 of status.sndchange.
  pending,      \* The frame in the hardware's buffer (TXBRP), by writer.
  ir,           \* Interrupt flags of the controller.
  status,       \* u32Status, as far as nu_canfd_isr has still to serve it.
  arrived,      \* Frames that have come over the bus.
  hwFifo,       \* Frames in the receive FIFO, by number.
  free,         \* Boxes on rx_fifo->freelist.
  freenumbers,  \* rx_fifo->freenumbers
  uselist,      \* rx_fifo->uselist, by number of the frame in the box.
  held,         \* The box the reader copies from, on neither list.
  dropped,      \* status.dropedrcvpkg
  answer,       \* History: how each writer's last frame was answered.
  sent,         \* History: that frame has gone out.
  missed,       \* History: it went out when its end could not be credited.
  last,         \* History: the last frame given to the reader.
  given,        \* History: how many it was given.
  inOrder,      \* History: they were given in the order of arrival.
  merged,       \* History: arrivals whose flag was already up.
  hushed        \* History: a loss was cleared before it was looked at.

semVars == <<sem, semQueue>>
boxVars == <<semVars, boxFree>>
waitVars == <<result, completed, sndchange>>
txVars == <<wpc, left, boxVars, waitVars>>
rxVars == <<free, freenumbers, uselist, held, dropped>>
txHistory == <<answer, sent, missed>>
readHistory == <<last, given, inOrder>>
rxHistory == <<readHistory, merged, hushed>>
busVars == <<pending, ir, status, arrived, hwFifo>>
otherVars == <<rxVars, busVars, txHistory, rxHistory>>
vars == <<txVars, otherVars>>

(* rt_can_open with interrupts for both directions.                        *)
Init ==
  /\ wpc = [w \in Writers |-> "idle"] /\ left = [w \in Writers |-> 0]
  /\ sem = 1 /\ semQueue = <<>> /\ boxFree = TRUE
  /\ result = "OK" /\ completed = FALSE /\ sndchange = FALSE
  /\ pending = {} /\ ir = {} /\ status = {}
  /\ arrived = 0 /\ hwFifo = <<>>
  /\ free = MsgBoxes /\ freenumbers = MsgBoxes
  /\ uselist = <<>> /\ held = <<>> /\ dropped = 0
  /\ answer = [w \in Writers |-> "none"]
  /\ sent = [w \in Writers |-> FALSE] /\ missed = [w \in Writers |-> FALSE]
  /\ last = 0 /\ given = 0 /\ inOrder = TRUE /\ merged = 0 /\ hushed = FALSE

(* What nu_canfd_ie lets interrupt: a loss in the FIFO does not.           *)
Enabled == {"TC", "RF0N"}

(* No interrupt of the device keeps threads from running.                  *)
ThreadsRun == ir \intersect Enabled = {} /\ status = {}

-----------------------------------------------------------------------------
(* _can_int_tx                                                             *)

Goto(w, step) == wpc' = [wpc EXCEPT ![w] = step]

Write(w) ==
  /\ ThreadsRun /\ wpc[w] = "idle"
  /\ left' = [left EXCEPT ![w] = Msgs]
  /\ Goto(w, "take")
  /\ UNCHANGED <<boxVars, waitVars, otherVars>>

(* rt_sem_take for ever.                                                   *)
Take(w) ==
  /\ ThreadsRun /\ wpc[w] = "take"
  /\ IF sem > 0
     THEN sem' = sem - 1 /\ Goto(w, "box") /\ UNCHANGED semQueue
     ELSE semQueue' = Append(semQueue, w) /\ Goto(w, "queued") /\ UNCHANGED sem
  /\ UNCHANGED <<left, boxFree, waitVars, otherVars>>

(* rt_sem_release, while w goes on at step: the first writer suspended is  *)
(* handed the token.                                                       *)
ReleaseAndGoto(w, step) ==
  IF semQueue = <<>>
  THEN sem' = sem + 1 /\ Goto(w, step) /\ UNCHANGED semQueue
  ELSE /\ wpc' = [wpc EXCEPT ![w] = step, ![Head(semQueue)] = "box"]
       /\ semQueue' = Tail(semQueue)
       /\ UNCHANGED sem

(* The box leaves the free list.                                           *)
TakeBox(w) ==
  /\ ThreadsRun /\ wpc[w] = "box"
  /\ boxFree' = FALSE
  /\ result' = "WAIT"
  /\ Goto(w, "init")
  /\ UNCHANGED <<left, semVars, completed, sndchange, otherVars>>

(* Mutant of InitCompletion: the flag stays as the last wait left it.      *)
InitNothing(w) ==
  /\ ThreadsRun /\ wpc[w] = "init"
  /\ Goto(w, "send")
  /\ UNCHANGED <<left, boxVars, waitVars, otherVars>>

InitCompletion(w) ==
  /\ ThreadsRun /\ wpc[w] = "init"
  /\ completed' = FALSE
  /\ Goto(w, "send")
  /\ UNCHANGED <<left, boxVars, result, sndchange, otherVars>>

(* Mutant of Refuse: the way out forgets the semaphore.                    *)
RefuseKeepsToken(w) ==
  /\ ThreadsRun /\ wpc[w] = "send" /\ pending # {}
  /\ boxFree' = TRUE
  /\ left' = [left EXCEPT ![w] = 0]
  /\ Goto(w, "idle")
  /\ answer' = [answer EXCEPT ![w] = "refused"]
  /\ UNCHANGED <<semVars, waitVars, rxVars, busVars, sent, missed, rxHistory>>

(* CANFD_Transfer finds the buffer's old frame still waiting for the bus.  *)
Refuse(w) ==
  /\ ThreadsRun /\ wpc[w] = "send" /\ pending # {}
  /\ boxFree' = TRUE
  /\ left' = [left EXCEPT ![w] = 0]
  /\ ReleaseAndGoto(w, "idle")
  /\ answer' = [answer EXCEPT ![w] = "refused"]
  /\ UNCHANGED <<waitVars, rxVars, busVars, sent, missed, rxHistory>>

Send(w) ==
  /\ ThreadsRun /\ wpc[w] = "send" /\ pending = {}
  /\ pending' = {w}
  /\ Goto(w, "change")
  /\ answer' = [answer EXCEPT ![w] = "none"]
  /\ sent' = [sent EXCEPT ![w] = FALSE]
  /\ missed' = [missed EXCEPT ![w] = FALSE]
  /\ UNCHANGED <<left, boxVars, waitVars, rxVars, ir, status, arrived, hwFifo,
                 rxHistory>>

(* Only now does the handler look at the box. The bit is never cleared     *)
(* when the wait succeeds, so it is clear before a device's first frame    *)
(* and after a time-out only.                                              *)
SetChange(w) ==
  /\ ThreadsRun /\ wpc[w] = "change"
  /\ sndchange' = TRUE
  /\ Goto(w, "wait")
  /\ UNCHANGED <<left, boxVars, result, completed, otherVars>>

(* rt_completion_wait: at once when the flag is up, else it suspends.      *)
Wait(w) ==
  /\ ThreadsRun /\ wpc[w] = "wait"
  /\ completed' = FALSE
  /\ Goto(w, IF completed THEN "collect" ELSE "asleep")
  /\ UNCHANGED <<left, boxVars, result, sndchange, otherVars>>

(* The thread's timer, from the tick: RT_CANSND_MSG_TIMEOUT is over. The   *)
(* end of the frame may be known to the controller, but not to the handler.*)
TimerExpires(w) ==
  /\ status = {} /\ wpc[w] = "asleep"
  /\ Goto(w, "late")
  /\ missed' = [missed EXCEPT ![w] = @ \/ "TC" \in ir]
  /\ UNCHANGED <<left, boxVars, waitVars, rxVars, busVars, answer, sent,
                 rxHistory>>

(* The end of rt_completion_wait takes the flag back, whatever woke it.    *)
LeaveWait(w) ==
  /\ ThreadsRun /\ wpc[w] \in {"woken", "late"}
  /\ completed' = FALSE
  /\ Goto(w, IF wpc[w] = "late" THEN "expired" ELSE "collect")
  /\ UNCHANGED <<left, boxVars, result, sndchange, otherVars>>

(* The frame is given up, but not taken back from the hardware.            *)
GiveUp(w) ==
  /\ ThreadsRun /\ wpc[w] = "expired"
  /\ boxFree' = TRUE
  /\ sndchange' = FALSE
  /\ left' = [left EXCEPT ![w] = 0]
  /\ ReleaseAndGoto(w, "idle")
  /\ answer' = [answer EXCEPT ![w] = "timeout"]
  /\ UNCHANGED <<result, completed, rxVars, busVars, sent, missed, rxHistory>>

(* Mutant of Collect: a token is given back for the box and for the frame. *)
CollectReleasesTwice(w) ==
  /\ ThreadsRun /\ wpc[w] = "collect"
  /\ boxFree' = TRUE
  /\ sem' = sem + 2
  /\ Goto(w, "idle")
  /\ UNCHANGED <<left, semQueue, waitVars, otherVars>>

(* The result is read, the box goes back, and a call goes on to its next   *)
(* frame if this one was sent.                                             *)
Collect(w) ==
  /\ ThreadsRun /\ wpc[w] = "collect"
  /\ boxFree' = TRUE
  /\ answer' = [answer EXCEPT ![w] = IF result = "OK" THEN "ok" ELSE "failed"]
  /\ left' = [left EXCEPT ![w] = IF result = "OK" THEN @ - 1 ELSE 0]
  /\ ReleaseAndGoto(w, IF result = "OK" /\ left[w] > 1 THEN "take" ELSE "idle")
  /\ UNCHANGED <<waitVars, rxVars, busVars, sent, missed, rxHistory>>

-----------------------------------------------------------------------------
(* The controller.                                                         *)

(* Another node acknowledges the frame. Its end is lost on a writer that   *)
(* has not set its bit yet, or waits no more.                              *)
FrameGoesOut ==
  \E w \in pending :
    /\ pending' = {}
    /\ ir' = ir \union {"TC"}
    /\ sent' = [sent EXCEPT ![w] = TRUE]
    /\ missed' = [missed EXCEPT ![w] =
         \/ wpc[w] = "change" /\ ~sndchange
         \/ wpc[w] \in {"late", "expired"} \/ answer[w] \in {"timeout", "refused"}]
    /\ UNCHANGED <<status, arrived, hwFifo, txVars, rxVars, answer, rxHistory>>

(* The FIFO refuses a frame it has no room for.                            *)
FrameArrives ==
  /\ arrived < MaxFrames
  /\ arrived' = arrived + 1
  /\ IF Len(hwFifo) < HwDepth
     THEN /\ hwFifo' = Append(hwFifo, arrived + 1)
          /\ ir' = ir \union {"RF0N"}
          /\ merged' = IF "RF0N" \in ir THEN merged + 1 ELSE merged
     ELSE ir' = ir \union {"RF0L"} /\ UNCHANGED <<hwFifo, merged>>
  /\ UNCHANGED <<pending, status, txVars, rxVars, txHistory, readHistory,
                 hushed>>

-----------------------------------------------------------------------------
(* nu_canfd_isr                                                            *)

(* All flags are read and cleared. An error of the bus may call the        *)
(* handler at any time, and a lone "RF0L" waits for that or for the next   *)
(* enabled flag.                                                           *)
IsrReadStatus ==
  /\ status = {} /\ ir # {}
  /\ status' = ir
  /\ ir' = {}
  /\ UNCHANGED <<pending, arrived, hwFifo, txVars, rxVars, txHistory,
                 rxHistory>>

(* rt_hw_can_isr(TX_DONE), with rt_completion_done.                        *)
IsrTxDone ==
  /\ "TC" \in status
  /\ status' = status \ {"TC"}
  /\ IF sndchange
     THEN /\ result' = "OK"
          /\ completed' = TRUE
          /\ wpc' = [w \in Writers |-> IF wpc[w] = "asleep" THEN "woken" ELSE wpc[w]]
     ELSE UNCHANGED <<result, completed, wpc>>
  /\ UNCHANGED <<pending, ir, arrived, hwFifo, left, boxVars, sndchange,
                 rxVars, txHistory, rxHistory>>

(* Mutants of Store: a box taken from the used ones counts as a free one;  *)
(* the new frame goes to the wrong end of the list.                        *)
StoreCountsTwice(f, n) ==
  /\ uselist' = Append(IF free > 0 THEN uselist ELSE Tail(uselist), f)
  /\ free' = IF free > 0 THEN free - 1 ELSE free
  /\ freenumbers' = freenumbers - 1
  /\ dropped' = IF free > 0 THEN n ELSE n + 1
StoreFirst(f, n) ==
  /\ uselist' = <<f>> \o (IF free > 0 THEN uselist ELSE Tail(uselist))
  /\ free' = IF free > 0 THEN free - 1 ELSE free
  /\ freenumbers' = IF free > 0 THEN freenumbers - 1 ELSE freenumbers
  /\ dropped' = IF free > 0 THEN n ELSE n + 1

(* A box for the frame: a free one, or the oldest in use, or none when     *)
(* readers hold them all. n is the count of drops so far.                  *)
Store(f, n) ==
  \/ /\ free > 0
     /\ free' = free - 1 /\ freenumbers' = freenumbers - 1
     /\ uselist' = Append(uselist, f)
     /\ dropped' = n
  \/ /\ free = 0 /\ uselist # <<>>
     /\ uselist' = Append(Tail(uselist), f)
     /\ dropped' = n + 1
     /\ UNCHANGED <<free, freenumbers>>
  \/ /\ free = 0 /\ uselist = <<>>
     /\ dropped' = n
     /\ UNCHANGED <<free, freenumbers, uselist>>

(* recvmsg takes one frame out of the FIFO, and clears an overflow that it *)
(* sees there, also one that came after the snapshot.                      *)
ReceiveOne(n) ==
  IF hwFifo = <<>> THEN dropped' = n /\ UNCHANGED <<ir, hwFifo, hushed, free, freenumbers, uselist>>
  ELSE /\ hwFifo' = Tail(hwFifo)
       /\ ir' = ir \ {"RF0L"}
       /\ hushed' = (hushed \/ "RF0L" \in ir)
       /\ Store(Head(hwFifo), n)

(* RX_IND, once however many frames the FIFO holds.                        *)
IsrRxInd ==
  /\ "RF0N" \in status /\ "TC" \notin status
  /\ status' = status \ {"RF0N"}
  /\ ReceiveOne(dropped)
  /\ UNCHANGED <<pending, arrived, held, txVars, txHistory, readHistory,
                 merged>>

(* RXOF_IND counts the loss and falls through to RX_IND.                   *)
IsrRxOverflow ==
  /\ status = {"RF0L"}
  /\ status' = {}
  /\ ReceiveOne(dropped + 1)
  /\ UNCHANGED <<pending, arrived, held, txVars, txHistory, readHistory,
                 merged>>

Isr == IsrReadStatus \/ IsrTxDone \/ IsrRxInd \/ IsrRxOverflow

-----------------------------------------------------------------------------
(* _can_int_rx, by one reader.                                             *)

ReadTake ==
  /\ ThreadsRun /\ held = <<>> /\ uselist # <<>>
  /\ held' = <<Head(uselist)>>
  /\ uselist' = Tail(uselist)
  /\ UNCHANGED <<free, freenumbers, dropped, busVars, txVars, txHistory,
                 rxHistory>>

(* The frame is copied and the box is free again.                          *)
ReadPut ==
  /\ ThreadsRun /\ held # <<>>
  /\ held' = <<>>
  /\ free' = free + 1 /\ freenumbers' = freenumbers + 1
  /\ last' = Head(held) /\ given' = given + 1
  /\ inOrder' = (inOrder /\ Head(held) > last)
  /\ UNCHANGED <<uselist, dropped, busVars, txVars, txHistory, merged, hushed>>

Writer(w) ==
  \/ Take(w) \/ TakeBox(w) \/ InitCompletion(w) \/ Refuse(w) \/ Send(w)
  \/ SetChange(w) \/ Wait(w) \/ LeaveWait(w) \/ GiveUp(w) \/ Collect(w)

Next ==
  \/ \E w \in Writers : Write(w) \/ Writer(w) \/ TimerExpires(w)
  \/ FrameGoesOut \/ FrameArrives
  \/ IsrReadStatus \/ IsrTxDone \/ IsrRxInd \/ IsrRxOverflow
  \/ ReadTake \/ ReadPut

Spec == Init /\ [][Next]_vars

(***************************************************************************)
(* Fairness: a writer that can go on does, its timer runs out, the handler *)
(* is called and ends. The bus need never take a frame.                    *)
(***************************************************************************)
Fairness ==
  /\ \A w \in Writers : SF_vars(Writer(w)) /\ WF_vars(TimerExpires(w))
  /\ WF_vars(~ThreadsRun /\ Isr)

LiveSpec == Spec /\ Fairness

-----------------------------------------------------------------------------
(* What the device promises.                                               *)

Steps == {"idle", "take", "queued", "box", "init", "send", "change", "wait",
          "asleep", "woken", "late", "expired", "collect"}

(* Every variable has its type; the framework's assertions on freenumbers  *)
(* hold.                                                                   *)
TypeOK ==
  /\ wpc \in [Writers -> Steps] /\ left \in [Writers -> 0 .. Msgs]
  /\ sem \in 0 .. 1 /\ semQueue \in Seq(Writers)
  /\ {boxFree, completed, sndchange} \subseteq BOOLEAN
  /\ result \in {"WAIT", "OK"}
  /\ pending \subseteq Writers /\ Cardinality(pending) <= 1
  /\ {ir, status} \subseteq SUBSET {"TC", "RF0N", "RF0L"}
  /\ arrived \in 0 .. MaxFrames
  /\ {hwFifo, uselist, held} \subseteq Seq(1 .. MaxFrames)
  /\ Len(hwFifo) <= HwDepth /\ Len(held) <= 1
  /\ {free, freenumbers} \subseteq 0 .. MsgBoxes
  /\ {dropped, last, given, merged} \subseteq 0 .. MaxFrames
  /\ answer \in [Writers -> {"none", "refused", "timeout", "ok", "failed"}]
  /\ {sent, missed} \subseteq [Writers -> BOOLEAN]
  /\ {inOrder, hushed} \subseteq BOOLEAN

(* A writer told that its frame was sent has a frame that was sent, not    *)
(* one of a writer that gave up before; one told of a failure has none     *)
(* that is; and a frame that timed out only goes out when its end could    *)
(* not be credited: before the bit was set, or too late (can.c:148-207,    *)
(* 899-920).                                                               *)
AnswerIsTrue ==
  \A w \in Writers :
    /\ answer[w] = "ok" => sent[w]
    /\ answer[w] = "failed" => ~sent[w] /\ w \notin pending
    /\ answer[w] = "timeout" /\ sent[w] => missed[w]

Owners == {w \in Writers : wpc[w] \in Steps \ {"idle", "take", "queued"}}
OnList(w) == wpc[w] = "box"

(* Tokens, boxes and lists agree across every way out of a call and every  *)
(* receive interrupt: the writer with the token finds the box on the list, *)
(* which its assertion does not check, and freenumbers is the length of    *)
(* its list, with no box lost (can.c:148-187, 96-118, 803-833).            *)
BoxesCounted ==
  /\ sem + Cardinality(Owners) = 1
  /\ boxFree <=> \A w \in Owners : OnList(w)
  /\ freenumbers = free
  /\ free + Len(uselist) + Len(held) = MsgBoxes

Gone == arrived - given - (Len(hwFifo) + Len(uselist) + Len(held))

(* Frames are read in the order of arrival, each once; none that was not   *)
(* lost is counted as dropped; a loss shows in the count unless recvmsg    *)
(* cleared its flag. One read for each flag is enough: a frame stays in    *)
(* the controller's FIFO only if its flag was already up when it came, and *)
(* the FIFO is never left full, which would raise no flag again            *)
(* (drv_canfd.c:211-252, 275-306, can.c:777-861).                          *)
FramesAccounted ==
  /\ inOrder
  /\ dropped <= Gone
  /\ ThreadsRun /\ Gone > 0 /\ ~hushed => dropped > 0
  /\ ThreadsRun => ir = {} /\ Len(hwFifo) <= merged /\ Len(hwFifo) < HwDepth

(* Every call returns, also on a bus that acknowledges nothing             *)
(* (can.c:148-207).                                                        *)
WritesReturn == \A w \in Writers : wpc[w] # "idle" ~> wpc[w] = "idle"
=============================================================================
