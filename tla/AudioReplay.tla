----------------------------- MODULE AudioReplay ----------------------------
(***************************************************************************)
(* The replay stream of audio.c over drv_i2s.c: an application opens,      *)
(* configures, writes, stops and starts; its data goes in blocks of a      *)
(* memory pool through a queue; the engine plays a buffer of two halves    *)
(* round and round, and at the end of each half nu_pdma_i2s_tx_cb fills    *)
(* the half at pos, which nothing but its start value ties to the engine.  *)
(* pdma_isr may be entered for another channel, see the end of a half in   *)
(* TDSTS, and serve it without clearing it.                                *)
(*                                                                         *)
(* A unit of data is its number in the order written, 0 is silence. The    *)
(* record stream is not modelled, nor two threads on one device.           *)
(***************************************************************************)
EXTENDS Integers, Sequences, SequencesExt, FiniteSetsExt

CONSTANTS
  Frame,        \* NU_I2S_DMA_BUF_BLOCK_SIZE, half of the DMA buffer.
  Block,        \* RT_AUDIO_REPLAY_MP_BLOCK_SIZE
  Blocks,       \* RT_AUDIO_REPLAY_MP_BLOCK_COUNT
  Sizes,        \* Bound of the model: what one call may write.
  MaxUnits,     \* Bound of the model: what all calls write.
  MaxNoise      \* Bound of the model: interrupts of other channels.

Total == 2 * Frame

ASSUME AudioConstantsOK ==
  /\ Frame \in Nat \ {0} /\ Blocks \in Nat \ {0}
  /\ MaxUnits \in Nat /\ MaxNoise \in Nat
  /\ Block \in Nat \ {0} /\ Block % Frame = 0

ASSUME AudioSizesOK ==    \* index of _audio_dev_write has 16 bits.
  \A n \in Sizes : n \in Nat \ {0} /\ n <= 65535

VARIABLES
  pc,           \* Where the application is.
  opened,       \* The device is open for writing.
  closing,      \* The stop it is in belongs to a close.
  written,      \* Units copied into blocks.
  todo,         \* Units the write has still to copy.
  block,        \* write_data up to write_index.
  free,         \* Free blocks of the pool.
  queue,        \* Items pushed; of the first one what read_index leaves.
  pos,          \* replay->pos
  stopEvent,    \* event has REPLAY_EVT_STOP.
  cmp,          \* replay->cmp is done.
  activated,    \* replay->activated
  running,      \* The channel plays.
  buffer,       \* The DMA buffer.
  at,           \* Where in it the engine is.
  td,           \* A half has ended and its flag is up in TDSTS.
  entered,      \* pdma_isr found no TDIF and has not read TDSTS yet.
  noise,        \* Interrupts that were those of other channels.
  copied,       \* History: the last unit copied to the DMA buffer.
  last,         \* History: the last unit played, or cut off by a restart.
  inOrder,      \* History: units were played once and in order.
  cut,          \* History: units a stop has cut off.
  slipped       \* History: handler and engine may have lost each other.

appVars == <<pc, opened, closing, written, todo, block>>
engineVars == <<running, buffer, at, td, last, inOrder>>
isrVars == <<entered, noise>>
vars == <<appVars, free, queue, pos, stopEvent, cmp, activated, engineVars,
          isrVars, copied, cut, slipped>>

Silence == [i \in 0 .. Total - 1 |-> 0]

Init ==
  /\ pc = "idle" /\ opened = FALSE /\ closing = FALSE
  /\ written = 0 /\ todo = 0 /\ block = <<>>
  /\ free = Blocks /\ queue = <<>>
  /\ pos = 0 /\ stopEvent = FALSE /\ cmp = FALSE /\ activated = FALSE
  /\ running = FALSE /\ buffer = Silence /\ at = 0 /\ td = FALSE
  /\ entered = FALSE /\ noise = 0
  /\ copied = 0 /\ last = 0 /\ inOrder = TRUE /\ cut = 0 /\ slipped = FALSE

(* pos is where the handler has to write next: the half that has ended, or *)
(* before that the half that is playing.                                   *)
Phase(p, a, ended) ==
  p = IF ended THEN (Frame - (a \div Frame) * Frame) ELSE (a \div Frame) * Frame

-----------------------------------------------------------------------------
(* The engine and its interrupt.                                           *)

(* A second end before the handler has seen the first is not told apart.   *)
Play ==
  /\ running
  /\ at' = (at + 1) % Total
  /\ IF (at + 1) % Frame = 0
     THEN td' = TRUE /\ slipped' = (slipped \/ td)
     ELSE UNCHANGED <<td, slipped>>
  /\ IF buffer[at] = 0 THEN UNCHANGED <<last, inOrder>>
     ELSE /\ last' = buffer[at]
          /\ inOrder' = (inOrder /\ (slipped \/ buffer[at] = last + 1))
  /\ UNCHANGED <<appVars, free, queue, pos, stopEvent, cmp, activated, running,
                 buffer, isrVars, copied, cut>>

(* An idle time-out of a receiver brings pdma_isr in; a half may end       *)
(* before it reads TDSTS.                                                  *)
OtherInterrupt ==
  /\ running /\ ~td /\ ~entered
  /\ noise < MaxNoise
  /\ noise' = noise + 1
  /\ entered' = TRUE
  /\ UNCHANGED <<appVars, free, queue, pos, stopEvent, cmp, activated, engineVars,
                 copied, cut, slipped>>

(* It finds nothing for this channel.                                      *)
LeaveIsr ==
  /\ entered /\ ~td
  /\ entered' = FALSE
  /\ UNCHANGED <<appVars, free, queue, pos, stopEvent, cmp, activated, engineVars,
                 noise, copied, cut, slipped>>

(* pdma_isr serves what it finds in TDSTS, and clears it if INTSTS had     *)
(* TDIF; if not, it comes again, for the same end.                         *)
Served ==
  /\ td
  /\ td' = entered
  /\ slipped' = (slipped \/ entered)
  /\ entered' = FALSE
  /\ UNCHANGED noise

Stream == FlattenSeq(queue)
LenUpTo(k) == Len(FlattenSeq(SubSeq(queue, 1, k)))

(* The items that the next n units use up.                                 *)
Consumed(n) == {k \in 1 .. Len(queue) : LenUpTo(k) <= n}

(* Mutant of After: how far the first item was read is forgotten.          *)
AfterForgets(n) == SubSeq(queue, Cardinality(Consumed(n)) + 1, Len(queue))

(* The queue when n units more are read.                                   *)
After(n) ==
  LET k    == Cardinality(Consumed(n))
      rest == SubSeq(queue, k + 1, Len(queue))
  IN  IF rest = <<>> THEN <<>>
      ELSE <<SubSeq(Head(rest), n - LenUpTo(k) + 1, Len(Head(rest)))>> \o Tail(rest)

(* Mutant of Freed: the block of an item goes nowhere.                     *)
FreedNone(n) == 0

(* rt_mp_free of each item's block.                                        *)
Freed(n) == Cardinality(Consumed(n))

(* Mutant of Advance: the buffer is twice as long.                         *)
AdvanceFar(n) == (pos + n) % (2 * Total)

Advance(n) == (pos + n) % Total

(* Mutant of UnderRun: what was copied counts twice.                       *)
UnderRunTwice == Advance(Len(Stream) + Frame)

(* When the queue runs dry within a frame, pos is taken back by the last   *)
(* piece copied, and moved on by a frame.                                  *)
UnderRun == Advance(Len(Stream) - Len(Last(queue)) + Frame)

(* The half at pos, filled with s and silence.                             *)
Filled(s) ==
  [i \in 0 .. Total - 1 |->
     IF i \div Frame # pos \div Frame THEN buffer[i]
     ELSE IF i - pos + 1 \in 1 .. Len(s) THEN s[i - pos + 1] ELSE 0]

(* _audio_send_replay_frame with the queue empty: a stop is acknowledged.  *)
SendSilence ==
  /\ Served /\ queue = <<>>
  /\ cmp' = (cmp \/ stopEvent)
  /\ buffer' = Filled(<<>>)
  /\ pos' = Advance(Frame)
  /\ UNCHANGED <<appVars, free, queue, stopEvent, activated, running, at,
                 last, inOrder, copied, cut>>

(* Else a frame is copied from as many items as it takes.                  *)
SendFrame ==
  LET n == Min({Frame, Len(Stream)})
  IN  /\ Served /\ queue # <<>>
      /\ buffer' = Filled(SubSeq(Stream, 1, n))
      /\ pos' = IF n < Frame THEN UnderRun ELSE Advance(Frame)
      /\ queue' = After(n)
      /\ free' = free + Freed(n)
      /\ copied' = Stream[n]
      /\ UNCHANGED <<appVars, stopEvent, cmp, activated, running, at,
                     last, inOrder, cut>>

Isr == SendSilence \/ SendFrame \/ LeaveIsr

-----------------------------------------------------------------------------
(* The application. It runs when no interrupt is pending or being served.  *)

At(step) == ~td /\ ~entered /\ pc = step

(* _audio_dev_open                                                         *)
Open ==
  /\ At("idle") /\ ~opened
  /\ opened' = TRUE
  /\ IF activated THEN UNCHANGED <<pos, stopEvent, block, slipped>>
     ELSE /\ pos' = 0 /\ stopEvent' = FALSE /\ block' = <<>>
          /\ slipped' = (slipped \/ (running /\ ~Phase(0, at, FALSE)))
  /\ UNCHANGED <<pc, closing, written, todo, free, queue, cmp, activated,
                 engineVars, isrVars, copied, cut>>

(* nu_i2s_start: the engine is stopped and its buffer silenced; it begins  *)
(* anew, unless nu_i2s_dai_setup fails. pos stays.                         *)
StartEngine ==
  /\ running' \in BOOLEAN
  /\ buffer' = Silence
  /\ at' = 0
  /\ last' = copied
  /\ slipped' = ~Phase(pos, 0, FALSE)
  /\ UNCHANGED <<td, inOrder>>

(* nu_i2s_configure with another sample rate, activated or not.            *)
Configure ==
  /\ At("idle") /\ opened
  /\ StartEngine
  /\ UNCHANGED <<appVars, free, queue, pos, stopEvent, cmp, activated, isrVars,
                 copied, cut>>

(* AUDIO_CTL_START. Whether the engine has started is not looked at.       *)
Start ==
  /\ At("idle") /\ opened /\ ~activated
  /\ StartEngine
  /\ activated' = TRUE
  /\ UNCHANGED <<appVars, free, queue, pos, stopEvent, cmp, isrVars, copied, cut>>

Write(n) ==
  /\ At("idle") /\ opened
  /\ written + n <= MaxUnits
  /\ todo' = n
  /\ pc' = "fill"
  /\ UNCHANGED <<opened, closing, written, block, free, queue, pos, stopEvent,
                 cmp, activated, engineVars, isrVars, copied, cut, slipped>>

(* A block is taken from the pool if none is begun, and filled as far as   *)
(* the data goes.                                                          *)
Fill ==
  LET n == Min({Block - Len(block), todo})
  IN  /\ At("fill") /\ todo > 0
      /\ \/ block # <<>> /\ UNCHANGED free
         \/ block = <<>> /\ free > 0 /\ free' = free - 1
      /\ block' = block \o [i \in 1 .. n |-> written + i]
      /\ written' = written + n
      /\ todo' = todo - n
      /\ pc' = IF Len(block) + n = Block THEN "push" ELSE "fill"
      /\ UNCHANGED <<opened, closing, queue, pos, stopEvent, cmp, activated,
                     engineVars, isrVars, copied, cut, slipped>>

(* The queue has more places than the pool has blocks: it is never full.   *)
Push ==
  /\ At("push")
  /\ queue' = Append(queue, block)
  /\ block' = <<>>
  /\ pc' = "fill"
  /\ UNCHANGED <<opened, closing, written, todo, free, pos, stopEvent, cmp,
                 activated, engineVars, isrVars, copied, cut, slipped>>

(* The data is stored; the first write starts the engine.                  *)
WriteEnds ==
  /\ At("fill") /\ todo = 0
  /\ pc' = "idle"
  /\ IF activated THEN UNCHANGED <<activated, engineVars, slipped>>
     ELSE StartEngine /\ activated' = TRUE
  /\ UNCHANGED <<opened, closing, written, todo, block, free, queue, pos,
                 stopEvent, cmp, isrVars, copied, cut>>

(* AUDIO_CTL_STOP, or _audio_dev_close: nothing to do if not activated.    *)
Stop ==
  /\ At("idle") /\ opened
  /\ \/ activated /\ pc' = "flush" /\ closing' \in BOOLEAN /\ UNCHANGED opened
     \/ ~activated /\ opened' = FALSE /\ UNCHANGED <<pc, closing>>
  /\ UNCHANGED <<written, todo, block, free, queue, pos, stopEvent, cmp,
                 activated, engineVars, isrVars, copied, cut, slipped>>

(* _audio_flush_replay_frame *)
Flush ==
  /\ At("flush")
  /\ pc' = "event"
  /\ queue' = IF block = <<>> THEN queue ELSE Append(queue, block)
  /\ block' = <<>>
  /\ UNCHANGED <<opened, closing, written, todo, free, pos, stopEvent, cmp,
                 activated, engineVars, isrVars, copied, cut, slipped>>

SetEvent ==
  /\ At("event")
  /\ pc' = "init"
  /\ stopEvent' = TRUE
  /\ UNCHANGED <<opened, closing, written, todo, block, free, queue, pos, cmp,
                 activated, engineVars, isrVars, copied, cut, slipped>>

(* Mutant of InitCompletion: the completion is as the last stop left it.   *)
InitNothing ==
  /\ At("init")
  /\ pc' = "wait"
  /\ UNCHANGED <<opened, closing, written, todo, block, free, queue, pos, cmp,
                 stopEvent, activated, engineVars, isrVars, copied, cut, slipped>>

InitCompletion ==
  /\ At("init")
  /\ pc' = "wait"
  /\ cmp' = FALSE
  /\ UNCHANGED <<opened, closing, written, todo, block, free, queue, pos,
                 stopEvent, activated, engineVars, isrVars, copied, cut, slipped>>

WaitDone ==
  /\ At("wait") /\ cmp
  /\ cmp' = FALSE
  /\ pc' = "clear"
  /\ UNCHANGED <<opened, closing, written, todo, block, free, queue, pos,
                 stopEvent, activated, engineVars, isrVars, copied, cut, slipped>>

ClearEvent ==
  /\ At("clear")
  /\ pc' = "halt"
  /\ stopEvent' = FALSE
  /\ UNCHANGED <<opened, closing, written, todo, block, free, queue, pos, cmp,
                 activated, engineVars, isrVars, copied, cut, slipped>>

(* nu_i2s_stop; a close ends here.                                         *)
Halt ==
  /\ At("halt")
  /\ pc' = "idle"
  /\ running' = FALSE /\ buffer' = Silence
  /\ activated' = FALSE
  /\ cut' = IF slipped THEN 0 ELSE copied - last
  /\ opened' = ~closing /\ closing' = FALSE
  /\ UNCHANGED <<written, todo, block, free, queue, pos, stopEvent, cmp, at, td,
                 last, inOrder, isrVars, copied, slipped>>

Goes ==
  \/ Fill \/ Push \/ WriteEnds
  \/ Flush \/ SetEvent \/ InitCompletion \/ WaitDone \/ ClearEvent \/ Halt

Next ==
  \/ Play \/ OtherInterrupt \/ LeaveIsr \/ SendSilence \/ SendFrame
  \/ Open \/ Configure \/ Start \/ Stop
  \/ \E n \in Sizes : Write(n)
  \/ Fill \/ Push \/ WriteEnds
  \/ Flush \/ SetEvent \/ InitCompletion \/ WaitDone \/ ClearEvent \/ Halt

Spec == Init /\ [][Next]_vars

(***************************************************************************)
(* Fairness: the engine plays, its interrupt is served, and the thread is  *)
(* not kept from running by interrupts for ever.                           *)
(***************************************************************************)
Fairness == WF_vars(Play) /\ WF_vars(Isr) /\ SF_vars(Goes)

LiveSpec == Spec /\ Fairness

-----------------------------------------------------------------------------
(* What the stream promises.                                               *)

(* Every variable has its type, and the queue has room for every block.    *)
TypeOK ==
  /\ pc \in {"idle", "fill", "push", "flush", "event", "init", "wait", "clear", "halt"}
  /\ {opened, closing, stopEvent, cmp, activated, running, td} \subseteq BOOLEAN
  /\ {entered, inOrder, slipped} \subseteq BOOLEAN
  /\ {written, todo, copied, last} \subseteq 0 .. MaxUnits
  /\ block \in Seq(1 .. MaxUnits) /\ Len(block) <= Block
  /\ free \in 0 .. Blocks
  /\ queue \in Seq(Seq(1 .. MaxUnits)) /\ Len(queue) <= Blocks
  /\ pos \in 0 .. Total - 1 /\ at \in 0 .. Total - 1
  /\ buffer \in [0 .. Total - 1 -> 0 .. MaxUnits]
  /\ cut \in 0 .. MaxUnits /\ noise \in 0 .. MaxNoise

(* As long as no interrupt comes a half late, pdma_isr has cleared each    *)
(* end it served, and no start or open finds pos and the engine apart, the *)
(* handler writes into the half that is not playing, through silence,      *)
(* under-runs and partial items (audio.c:44-99, drv_i2s.c:86-99). An end   *)
(* served twice moves pos on by two frames: from then on, until another or *)
(* a restart happens to move it back, the handler fills the half that      *)
(* plays.                                                                  *)
PhaseKept == running /\ ~slipped => Phase(pos, at, td)

(* As long as that, what is written is played once and in order, without a *)
(* gap but where a stop or a restart cut it off (audio.c:60-99, 403-429).  *)
PlayedInOrder == inOrder

(* A stop leaves nothing in queue or block; and, as long as that, it cuts  *)
(* off no more than the frame that the handler copied last: it is          *)
(* acknowledged when the queue is empty, not when the data was played      *)
(* (audio.c:145-171). That it may be the whole frame is a finding.         *)
StopCutsOneFrame ==
  /\ cut <= Frame
  /\ pc = "halt" => queue = <<>> /\ block = <<>> /\ free = Blocks

(* The first write starts the engine only when all its data is stored: if  *)
(* it is larger than the pool and nothing plays yet, it waits for ever.    *)
TooLongToStart == pc = "fill" /\ ~running /\ todo > 0 /\ block = <<>> /\ free = 0

(* A start that failed counts as one (audio.c:138, 435): nothing plays, so *)
(* no block is given back and no stop is acknowledged.                     *)
DeadStart == activated /\ ~running

(* But for these, every write and every stop returns (audio.c:145-171,     *)
(* 386-439).                                                               *)
CallsReturn == pc # "idle" ~> pc = "idle" \/ TooLongToStart \/ DeadStart
=============================================================================
