# A TLA+ model of the M3331 board support package

`sdk-bsp-numaker-m3334ki` is an RT-Thread board support package for the Nuvoton
M3331. This directory holds TLA+ models of the parts of it that are hard to
test, TLC runs that check them on small instances, and TLAPS proofs of what
holds for every instance.

    tlc -workers 2 -config memfun_pool.cfg MCPdmaMemfun     # any run
    tlapm PdmaMemfunProofs.tla                              # the proofs,
    tlapm PdmaMemfunServiceProofs.tla                       # module by module
    tlapm PdmaMemcpyProofs.tla
    tlapm SerialDmaTxProofs.tla
    tlapm UartDmaRxProofs.tla
    tlapm CanDeviceProofs.tla
    tlapm PdmaSgTablesProofs.tla
    tlapm AudioReplayProofs.tla

## 1. The system

One Cortex-M33 core runs the RT-Thread kernel, its threads and the interrupt
handlers; the PDMA controller, the UARTs, the CAN and the I2S controllers run
beside it. Threads preempt each other by priority and interrupts preempt
threads. A driver of `src/libraries/m3331/rtt_port` sits between a framework of
`src/rt-thread/components/drivers` (called by application threads) and the
hardware (which calls back through an interrupt handler).

| Component | Code | State it keeps | Operations | Status |
|---|---|---|---|---|
| PDMA memory-copy actors | `drv_pdma.c:994-1241` | mask of employed actors, pool semaphore and mutex, one semaphore and result word per actor | `nu_pdma_memcpy`, `nu_pdma_mempush` -> `nu_pdma_memfun`; `pdma_isr` -> `nu_pdma_memfun_cb` | modelled, proved |
| PDMA scatter-gather descriptors | `drv_pdma.c:708-928` | free-token bitmap, the table and the wanted number of each channel | `nu_pdma_sgtbls_allocate/free`, `_nu_pdma_transfer_chain` | modelled, proved |
| PDMA copy and descriptor set-up | `drv_pdma.c:631-706, 930-969, 1243-1280` | the descriptors' TXCNT, addresses and links | `nu_pdma_memcpy`, `nu_pdma_transfer`, `nu_pdma_desc_setup` | modelled, proved |
| PDMA channels and callbacks | `drv_pdma.c:281-541` | channel mask, callbacks, event filter, idle timeout | allocate, free, terminate, register, hijack | partly |
| UART driver | `drv_uart.c` | `dmabuf.put_index`, PDMA channels | `nu_pdma_uart_rx_cb`, `nu_pdma_uart_tx_cb`, `nu_uart_dma_transmit`, `nu_uart_isr` | DMA modelled, safety proved |
| Serial framework | `serial.c`, `dataqueue.c` | receive ring, transmit queue and its `activated` flag | `_serial_dma_tx`, `_serial_dma_rx`, `rt_hw_serial_isr` | DMA modelled, safety proved |
| CAN | `drv_canfd.c`, `can.c`, `completion.c` | send box, its list and semaphore, `sndchange`, completion; receive boxes on two lists | `_can_int_tx`, `_can_int_rx`, `rt_hw_can_isr`, `nu_canfd_isr` | modelled but for filters and control, safety proved |
| Audio replay | `drv_i2s.c`, `audio.c` | pool, replay queue, double buffer, `pos`, stop event and completion | open, configure, write, start, stop, close, `rt_audio_tx_complete` | replay modelled, safety proved |
| Kernel | `ipc.c` | semaphores, mutexes and their queues | take, release | as used by pool and CAN |
| Other drivers, vendor code, examples | the rest | registers | | not modelled |

How they interact. A caller of `nu_pdma_memcpy` (application code, `drv_crc.c`,
the display driver) employs one of `NU_PDMA_MEMFUN_ACTOR_MAX` (2) actors, each
a PDMA channel with a semaphore, programs the channel and waits. A request
longer than 65536 items needs a chain of descriptors; these come from a pool of
`NU_PDMA_SGTBL_POOL_SIZE` (16) that UART, I2S and SPI-I2S share. The engine
raises a flag, the one interrupt line of the controller runs `pdma_isr` for all
channels of all drivers, which calls back the owner of each flagged channel.

What is hard here: the handler reads three status registers one after another
while the engine runs on; threads are preempted between the semaphore, the
mutex and the mask; the chain code has five places to fail and keeps its table
for the next transfer; lengths are cut by alignment, by data width and by a
16-bit counter; the UART's receive engine writes on while the handler asks where
it is; a CAN frame's end races the time-out of the thread that waits for it; the
audio handler and the I2S engine share a buffer and nothing but a start value
keeps them apart. `PROJECT.json` lists these hazards one by one, with the
properties that cover them.

What makes each component correct:

- *actors*: no two calls share an actor; tokens and bits are conserved; a caller
  waits for its own transfer and is told how it ended; every call returns;
- *descriptors*: each is free or in one place; the engine follows whole tables
  of its own channel; a failure leaves a state from which the next call works;
- *copy*: success means every byte was moved once and no other;
- *sending over a UART*: a buffer written is sent once, in order, and reported
  after it was sent; no writer and no buffer is left behind;
- *receiving over a UART*: bytes read are the bytes received, once and in order; a
  quiet line is reported in the end;
- *CAN*: a box is on the free list or in one call; a frame's end is credited to
  its own sender; a time-out and a late answer do not mix; every call returns;
- *audio*: the handler never writes the half that is playing; a stop ends and
  leaves nothing behind.

## 2. The modules

**`PdmaMemfun.tla`** - `nu_pdma_memfun` and everything under it. Each thread has a
program counter; one action per step another thread or the handler can observe:
`TakePool` (pool semaphore), `LockToEmploy`, `Scan` (`nu_cto`), `Mark`,
`UnlockAfterEmploy`, `Setup`, `Start` (`nu_pdma_transfer`), `WaitDone`,
`Account`, `LockToFire`, `Clear`, `UnlockAfterFire`, `Fire`. The read and the
write of the mask are separate steps, so the mutex is what makes them safe, not
the model. `ReleaseLock` and `Fire` hand the mutex or the token to the first
suspended thread, as the kernel does; the mutex queue is ordered by priority
(`ByPriority`), the semaphore's is first come first served. The handler is four
steps (`IsrReadIntsts`, `IsrReadAbtsts`, `IsrReadTdsts`, `IsrServe`). No thread
runs during it or while a flag is up (`At`), but the engine does: `EngineDone`
and `EngineAbort` may come between any two of its reads, in every run.
`OtherTimeout` is the idle timeout of another driver's channel on the same
interrupt line. A flag that the handler serves without clearing brings it back
for the same end; `twice` is the set of actors to which that has happened. A
request `"bad"` is one that `nu_pdma_transfer` refuses; its caller waits for
ever, as in the code.

**`CopyService.tla`** - what callers rely on, in five actions: ask, run (at most
`Width` at a time), move, answer truthfully, leave. `PdmaMemfun` implements it
(`ServiceUntilTwice`); the mapping `Phase` reads a request's phase off the
program counter and the engine.

**`PdmaSgTables.tla`** - the descriptor pool. A channel's driver walks through
`Transfer`, `Drop`, `Malloc`, `Allocate`, `Setup`, `Exit`; other drivers
allocate and free tables of their own in between. Nothing asks whether the
engine still follows the old chain, in the code or in the model: a channel
whose driver starts anew while it runs is in `hurried` until its engine stops
or has been given the new chain. A fresh array holds words of the heap
(`HeapWords`): null, no address of the pool (`Junk`), or the address of any
descriptor. After an allocation that ran dry the exit path frees all the
entries wanted, those it never reached included; when one of them names a
descriptor that somebody else holds, that one is given back, and `strayed`
records it. A failed assertion or a walk through a NULL table stops the model
(`trap`).

**`DescriptorPool.tla`** - what holders of descriptors rely on: take some free ones
at once, give all back at once. `PdmaSgTables` implements it until a heap word
strays (`PoolUntilStray`).

**`PdmaMemcpy.tla`** - one call from its arguments down to the descriptors. `Split`
and `Narrow` are the loop of `nu_pdma_memcpy`; `Refuse`, `Single`, `Chained`,
`Link`, `Launch` are `nu_pdma_transfer` and the chain; `MoveAll` and `Abort` the
engine, which moves TXCNT + 1 items of a descriptor; `PushReturns`,
`CopyGoesOn`, `CopyGivesUp` what the caller does with the count. `MaxTx` stands
for the 65536 items that the 16 bits of TXCNT can count, and TXCNT wraps at it.

**`SerialDmaTx.tla`** - sending by DMA on a serial device. A writer goes through
`Write`, `Push` (`rt_data_queue_push`, where it is suspended on a full queue),
`Test` (the look at `activated`) and `Start` (`nu_uart_dma_transmit` with its own
buffer). Each is atomic in the code too, by disabled interrupts; what may come
between them is the point of the model. `EngineDone` raises the flag. `pdma_isr` is entered
for it (`Interrupt`) or for another channel's idle time-out (`OtherInterrupt`);
`IsrReadTdsts` takes up what it finds and clears it only in the first case; then
`TxDmaDone` is the handler down to the next transfer: `Pop` with `Resume` of one
suspended writer, then `TransmitNext`. `engine` is the buffer the channel was given
and has not reported, `moving` says whether it still sends it: the handler called
a second time for one end finds it doing so, and replaces the transfer or, with
the queue empty, leaves it stopped, for `nu_pdma_uart_tx_cb` has put the UART's
request for the channel off. The n-th buffer of a writer is the pair of
both; `Wild` is the pointer of the handler that a failed pop leaves unwritten.
`overtaken` records that a writer started a buffer other than the head of the
queue, `twice` that an end was served and its flag left standing.

**`SerialLine.tla`** - what writers rely on: take a buffer, send the first, report
it. `SerialDmaTx` implements it until one of these two happens
(`LineUntilDisturbed`).

**`UartDmaRx.tla`** - receiving by DMA. A byte is its number in the order the engine
took it. `Move` is the engine, whose one descriptor leads to itself: it fills the
ring lap after lap, whatever the handler does. `IsrReadIntsts`, `IsrReadTdsts`,
`ReadPosition` and `Report` are `pdma_isr` and `nu_pdma_uart_rx_cb`, in the order they
read the hardware; `Move` may come between any two. `Count` is the arithmetic of
the callback, `UpdatePut` the 16 bits of a length on its way through
`rt_hw_serial_isr`, `PutAt` with `Overtaken` the overwrite rule of
`rt_dma_recv_update_put_index`, `Read` is `_serial_dma_rx`. `LineError` is
`nu_uart_isr`, which resets the FIFO. `missed` records that a lap ended where the
handler cannot count it right (`Unseen`), `overrun` that the engine has overwritten
an unread byte; both can happen on the real part and no property hides what the
indices do then.

**`CanDevice.tla`** - a CAN device with one send box. A writer goes through `Write`,
`Take` (`rt_sem_take`), `TakeBox`, `InitCompletion`, `Send` or `Refuse`, `SetChange`,
`Wait`, then `LeaveWait` and `Collect`, or, after `TimerExpires`, `GiveUp`. Each is
one step of `_can_int_tx` that an interrupt can fall between. `FrameGoesOut` and
`FrameArrives` are the bus. `IsrReadStatus` takes and clears the flags, `IsrTxDone`,
`IsrRxInd` and `IsrRxOverflow` serve the snapshot in the code's order; `ReceiveOne` is
`recvmsg`, `Store` the choice of a box. `ReadTake` and `ReadPut` are `_can_int_rx`
around its copy. `sent` and `missed` record what became of each writer's last
frame, so that what the writer is told can be compared with it.

**`AudioReplay.tla`** - one thread that opens, configures, writes, starts, stops and
closes; data goes in blocks of a pool through a queue. `Play` is the engine, one
unit at a time round a buffer of two frames; `SendFrame` and `SendSilence` are the
handler at the end of a frame, with the loop over partial items as `Consumed`,
`After` and `UnderRun`. `pdma_isr` may be entered for another channel
(`OtherInterrupt`, `LeaveIsr`); an end it then finds in TDSTS is served and not
cleared (`Served`), so the handler runs a second time for it and moves `pos` by two
frames in all. `StartEngine` may fail, and nobody looks (`audio.c:138`, `435`). A unit
of data is its number, so order and loss can be seen at the engine's end. `slipped`
records that handler and engine have lost each other: two ends before one interrupt,
one end served twice, or a restart with `pos` in the second half.

**`PdmaMemfunProofs.tla`**, **`PdmaMemfunServiceProofs.tla`**,
**`PdmaMemcpyProofs.tla`**, **`PdmaSgTablesProofs.tla`**, **`SerialDmaTxProofs.tla`**,
**`UartDmaRxProofs.tla`**, **`CanDeviceProofs.tla`**, **`AudioReplayProofs.tla`** - the
proofs, section 5.

`MCPdmaMemfun.tla` and `MCPdmaSgTables.tla` only give values to constants for
TLC. Beside some definitions stands a mutant of it (`FireTwice` beside `Fire`):
the same code with one plausible slip. No specification uses a mutant; each
exists to show that a property notices the slip when it replaces the original.

## 3. The runs

| Run | Instance | Result |
|---|---|---|
| `memfun_pool` | 3 threads (one urgent), 2 actors, refused requests, 1 abort or timeout, flags anywhere | holds; 3.6 million states |
| `memfun_return` | 3 threads of one priority, 1 actor, 2 aborts or timeouts, flags anywhere | every call returns; 262 thousand states |
| `memfun_race` | 3 threads, 2 actors, 1 abort or timeout, flags anywhere | `WaitIsDone` fails |
| `sg_tables` | 2 channels and a holder of 2, 4 descriptors, chains of 2 and 3, heap words null, outside the pool, or a descriptor | holds; 580 thousand states |
| `sg_heap` | 2 channels, 2 holders, 5 descriptors, fresh memory all zero | `AssertionsHold` fails |
| `memcpy_plan` | 16 lengths from 0 to 41, addresses 0, 1, 2, 4, 7, widths 1, 2, 4, `MaxTx` 4 | holds |
| `memcpy_multiple` | the same, without a lack of descriptors | `MovesRequiredNumber` fails |
| `serial_tx` | 3 writers of 2 buffers each, queue of 2, low water mark 1, 1 foreign interrupt | holds; 443 thousand states |
| `serial_race` | 1 writer of 2 buffers | `CompletionNamesSent` fails |
| `uart_rx` | ring of 4, FIFO of 2, 10 bytes | holds; 197 thousand states |
| `can` | 2 writers of 2 frames each, 3 frames received, FIFO of 2, 2 boxes | holds; 406 thousand states |
| `audio` | frames of 2, blocks of 4, a pool of 2, writes of 1, 4 and 9, 10 units, 1 foreign interrupt, starts that fail | holds; 1.1 million states |

What the passing runs show:

- `memfun_pool`. `ActorExclusive`: the mask is the set of employed actors, one
  thread each. `EmployFindsActor`: a thread past the semaphore finds a free bit,
  so the busy loop of `nu_pdma_memfun` turns once. `TokensConserved`: tokens
  are neither lost nor made. These three hold whatever happens.
  `WaitedForOwnTransfer` and `FreeActorAtRest`: a caller leaves its wait for its
  own transfer and with its result, and a free actor has no transfer, flag or
  token left, unless an end of that very actor was reported twice; a double
  report of one actor does the other's callers no harm. `QuietPoolIsExact`: while
  finished transfers are the only cause of interrupts no end is reported twice,
  even if flags rise in the middle of the handler. `ServiceUntilTwice`: up to the
  first double report the pool refines `CopyService`. A caller that waits for
  ever (a refused request) is part of the run, so it does not check for deadlock.
- `memfun_return`. `CallsReturn`: with valid requests every copy returns, double
  reports included. A second report leaves a token too many and never one too
  few.
- `sg_tables`. `DescriptorsAccounted`: each descriptor is in exactly one place,
  whatever fails. `RunningChainIsHeld`: none of a running chain's descriptors is
  free or in another table, unless its own driver starts anew. `KeptTableIsWhole`:
  a chain kept for the next transfer is complete, also when heap words strayed.
  The first two, and the refinement, end where a stale word gives back another
  holder's descriptor: from there on the code keeps nothing. The run does not
  check for deadlock because a failed assertion stops the system.
- `memcpy_plan`. `CopyIsWhole`, `ChainCoversRequest`, `AnswerTellsAbort`, and
  `CopyIsNeverRefused`: `nu_pdma_memcpy` never makes a request that
  `nu_pdma_desc_setup` refuses, which would hang its caller.
- `serial_tx`. `ActivatedIffBusy`: the flag is true to the channel, and no writer
  programs a transfer over a running one; nor does the handler, until an end was
  served and not cleared, after which it does. `QueueIsServed`,
  `SuspendedIsServed`: no buffer and no writer is left with nobody to take care of
  it; from these and fairness, `WritesReturn`. These hold through double reports.
  `LineUntilDisturbed`: only a buffer started out of turn or a double report can
  break the line. The run does not check for deadlock because writers stop after
  two writes.
- `uart_rx`. `RingsAgree`: driver and framework keep a put index each and stay
  together through negative lengths. `EveryByteOnce`: unless a lap is miscounted or
  the reader is overrun, bytes are read once and in order. `QuietRingIsWhole`:
  giving up the oldest bytes loses no newer one. `QuietLineIsReported`: the counter
  that a time-out stops is always started again, so the last bytes are reported.
- `can`. `AnswerIsTrue`: what a writer is told of its frame is so; the box is free
  again while a given-up frame may still go out, and that frame's end is never
  credited to another. `BoxesCounted`: the token, the box and its list agree on every
  way out, and no receive box is lost to the reader's copy. `FramesAccounted`: order
  and count of received frames; one read for each flag leaves a backlog only when
  flags were merged, and never a full FIFO, which would raise no flag again.
  `WritesReturn`: also on a bus that acknowledges nothing.
- `audio`. `PhaseKept` and `PlayedInOrder`: through silence, under-runs, partial
  items and restarts the handler fills the half that is not playing, and what it
  fills is played once and in order, until `slipped`. `StopCutsOneFrame`: a stop
  leaves no block behind, and until `slipped` cuts off at most the frame copied
  last. `CallsReturn`: writes and stops end, but for two states it names. A first
  write larger than the pool waits for the engine, which is started only after it
  (`TooLongToStart`); and after a start that failed `activated` is up with nothing
  playing, so that a stop, or a write that empties the pool, waits for ever
  (`DeadStart`). For these the run does not check for deadlock.

The run `audio` is also where a comment is contradicted, though it passes:
`audio.c:157` reads "waiting for the remaining data transfer to complete", and a stop
is acknowledged as soon as the queue is empty. With `cut = 0` in place of
`cut <= Frame` TLC gives a trace of 18 states: open, a write of one unit, a stop; the
frame is copied, the next end finds the queue empty, the channel is stopped with
that unit unplayed. With `cut < Frame` it is 21 states to the loss of a whole frame.
So the bound of `StopCutsOneFrame` is the exact one.

What the four violations show (`findings` in `PROJECT.json` has the details):

1. `memfun_race`: `pdma_isr` clears done flags only if INTSTS, read first, showed
   one, but serves all flags of TDSTS, read later. A transfer that ends in
   between is reported twice; the spare token lets the actor's next employer
   go before its data has moved, though the comment over its wait says "Wait it
   done." Serial transmission and audio meet the same double report; what is left
   of their promises after it is in their properties.
2. `sg_heap`: `m_u32WantedSGTblNum` is stored before `rt_malloc_align`; after a
   failure it describes a table that is not there, and the next long transfer
   fails `RT_ASSERT(ppsSgtbls != NULL)`.
3. `memcpy_multiple`: 131072 items, or any other multiple of 65536 above it, get
   an extra descriptor with count 0, which the engine takes for 65536.
4. `serial_race`: a writer preempted between its push and its look at `activated`
   while the handler sends its buffer sends that buffer again; the end of that
   transfer finds the queue empty and calls `tx_complete` with an unwritten
   pointer. With two writers the same run ends earlier: one starts its buffer
   ahead of the other's, which is popped and reported unsent.

## 4. Bounds and fairness

Two actors is the configured number; three threads is one more than there are
actors, so one is always suspended on the semaphore while another may be on the
mutex, and two of them can queue on the mutex at once. `memfun_return` gives them
one actor, so that a spare token always meets the next employer. `MaxNoise` 1: one
foreign interrupt is enough to open the window, and a second, which
`memfun_return` allows, can come while the first one's token is still out. Four
descriptors let two chains of two, or a chain of two and the driver's own two,
exhaust the pool exactly, and a chain of three and anyone else overrun it; chains
of two and three grow and shrink into each other. The one descriptor a heap word
of the run can name is the third: it may be free, the channel's own before, a part
of the other channel's chain, or the driver's. In `sg_heap` five descriptors and
chains of 2, 3 and 5 are enough for its trace, which needs one channel.

`MaxTx` 4 and lengths up to 41 give requests of one to eleven descriptors, remainders of every kind for every width, and exact
multiples; the addresses give every pair of residues modulo 4 that matters
(equal, differing by 1, 2 and 3). Counts in the code are 32-bit and never near
the limit: a buffer lies in 320 kB.

Three writers and a queue of two (a buffer stays on it until its end is reported):
one writer can fill it and the other two be suspended at once, both indices wrap,
and a pop, which leaves the queue at its mark of one, resumes a single writer, so
another stays behind. One foreign interrupt opens the handler's window on any
buffer. Two writes each bound the run; they also end the load on the line, without which
`WritesReturn` would not hold: a suspended writer is resumed only when the queue is
down to its mark, which writers that never pause can prevent.

A ring of four and ten bytes: two laps and a half, so that a lap can be missed and
the next one counted, readers be overrun and catch up; a FIFO of two tells "still
a byte" from "empty" and lets bytes come while the handler runs. Two CAN writers
are enough for one to own the box while the other queues or has given up a frame
that still waits; two frames each make a call go on after a success; three
arrivals overrun a FIFO of two and leave two boxes with one loss. Two writers and
three frames bring every pair of the handler's branches together. The audio sizes
are the code's ratio of block to frame, not its bytes: writes of less than a frame,
of a block, and of more than the pool, with ten units in all, so pool, queue and
buffer go round at least once; the foreign interrupt can have any one end served
twice. `Sizes` stay below 64 KiB by assumption: the 16-bit index of `_audio_dev_write` never gets past a longer one.

Fairness, used by `memfun_return` and `serial_tx`: `pdma_isr` is taken when pending and
runs to its end (weak); the engine ends each transfer it started (weak: it runs on
during the handler); a thread that is not idle
takes its next step if it can again and again (strong, because interrupts
disable it in between: the handler returns to the thread it interrupted, and
threads of equal priority share the core by time slices; the run gives all
threads one priority, for the kernel lets an urgent thread starve the others).
No thread has to call. `serial_tx` assumes the same of its engine,
handler and writers. `uart_rx`: the engine takes what is in the FIFO, an armed
time-out counter expires, the handler runs and returns (all weak); nothing has to
arrive and nobody has to read. `can`: a writer that can go on again and again does
(strong, interrupts and the other writer's token come in between), a timer of the
kernel expires (weak), the handler is called while an enabled flag is up and runs
to its end (weak); the bus need not take a single frame. `audio`: the engine plays
and its interrupt is served (weak), the thread goes on (strong, for interrupts hold
it up); it need not make any call.

## 5. What is proved

Every invariant that a passing run checks on its instance, and every refinement of an
abstract specification, is proved here for every value of the constants. What stays
with TLC is listed at the end of the section.

`PdmaMemfunProofs.tla`, for every number of threads and actors, every assignment
of priorities, any mixture of requests and noise, window included:

- `TypeCorrect`: `Spec => []TypeOK`, with `poolSem` in `0 .. NumActors`;
- `NoActorIsShared`: `Spec => []ActorExclusive`;
- `TokensAreConserved`: `Spec => []TokensConserved`;
- `EmployNeverFails`: `Spec => []EmployFindsActor`;
- `MutexIsExclusive`: at most one thread is in the critical section.

The assumptions are `ConstantsOK` of `PdmaMemfun`: finitely many threads, at least
one actor, priorities that are numbers. The inductive invariant `IInv` adds to
the three properties: threads in the critical section own the mutex (`LockOK`);
a queue holds only threads suspended on it, each once (`QueuesOK`); a bit that
`Scan` found is still clear at `Mark` (`ChoiceOK`). Each is needed: without
`QueuesOK` a hand-over could resume a thread that runs; without `ChoiceOK` two
threads could mark one bit. `EmployFindsActor` then follows by counting
(`SearchFindsActor`): the searching thread holds a token and employs nobody, so
fewer threads employ an actor than there are actors. The kernel's queue by
priority is handled once, by `ByPriorityInserts`; `nu_cto` by `CtoFindsFree`.

`PdmaMemfunServiceProofs.tla` extends it to what a caller gets, again for every number
of threads and actors:

- `QuietPoolExact`: `Spec => []QuietPoolIsExact`, window included;
- `WaitsForOwnTransfer`: `Spec => []WaitedForOwnTransfer`;
- `FreeActorsRest`: `Spec => []FreeActorAtRest`;
- `ImplementsService`: `Spec => ServiceUntilTwice`.

None has a hypothesis on when flags rise: the window is open, and what a double
report excuses is that one actor, or in the refinement what comes after the first.
`memfun_race` shows that nothing less will do. The first rests on this: where only
finished transfers interrupt, the handler has always read a done flag before it
serves one (`QuietOK`).

The invariant (`Exact`, on top of `IInv`) treats an actor's work as one token that is in one place:
on the engine, a flag, a flag the handler has read, or the semaphore; wherever it is,
exactly one thread waits for it (`ActorOK`), and what the thread will be told is what
the engine did (`RequestOK`). All this is said of the actors not in `twice`.
`HandlerOK` says what the reads of `pdma_isr` know of the flags. The refinement goes action by action: steps of the pool stutter
(`ElsewhereStep`, `PoolMoves`), the engine's and the caller's are the service's.

`PdmaMemcpyProofs.tla`, for every number of items a descriptor takes, any counts and
addresses and any failure (`ConstantsOK`: `MaxTx` is positive, the rest are numbers):

- `TypeCorrect`: `Spec => []TypeOK`;
- `CopiesWhole`: `Spec => []CopyIsWhole`;
- `NeverRefused`: `Spec => []CopyIsNeverRefused`;
- `ChainsCover`: `Spec => []ChainCoversRequest`;
- `AnswersTellAbort`: `Spec => []AnswerTellsAbort`.

The invariant follows a request down: it begins at the loop's offset, is aligned to its
width, stays inside the buffer and leaves nothing when the width is one byte
(`CopyAsks`, `SplitOK`); the chain has used
up the request but for `left`, in steps of a whole descriptor (`LinkOK`, `JoinOK`,
`CountOK`), and what the engine moved is what TXCNT says (`MovedOK`), which is the
request unless its last descriptor has no item. `FaultOK` says what a failure can be
at each place. The arithmetic of descriptors is in `WantedType` and `ModTxcnt`.

`SerialDmaTxProofs.tla`, for any set of writers, any size and low water mark of the
queue and any number of writes, from `SerialConstantsOK` (the queue has a slot,
the rest are numbers):

- `TypeCorrect`: `Spec => []TypeOK`, both indices inside the ring;
- `ActivatedIsTrue`: `Spec => []ActivatedIffBusy`;
- `QueueIsNeverLeft`: `Spec => []QueueIsServed`;
- `SuspendedAreNeverLeft`: `Spec => []SuspendedIsServed`, whatever the mark;
- `ImplementsLine`: `Spec => LineUntilDisturbed`, the refinement of `SerialLine`.

The inductive invariant adds to the first four: the flags of the ring say what its
indices mean and every occupied slot holds a buffer (`RingOK`), else the handler
could start an empty slot with `activated` up; the suspended writers are suspended,
each once (`WritersOK`), else a resumed one could be taken from its work; and a
raised flag, or a call of the handler, belongs to a buffer that was sent to its end,
until an end was served and left standing (`IsrOK`). The refinement adds `HeadIsSent`:
until `overtaken`, what the channel was given is the head of the queue. The ring
as a sequence is handled by `StoreAppends` and `NextIsTail`, lemmas about any
ring.

`UartDmaRxProofs.tla`, for a ring of any size below 65536, any FIFO and any number of
bytes (`RxConstantsOK`):

- `TypeCorrect`: `Spec => []TypeOK`, all indices inside the ring;
- `IndicesAgree`: `Spec => []RingsAgree`;
- `BytesComeOnce`: `Spec => []EveryByteOnce`;
- `QuietRingOffersAll`: `Spec => []QuietRingIsWhole`.

The invariant of the first two is `TypeOK`, `RingsAgree` and that the line never holds
more than was sent (`OnTheLine`). The argument is arithmetic: `Differences` shows that put index
plus a difference cut to 16 bits, again cut to 16 bits, is the position the
driver meant, also when it was negative; `WrapIsMod` and `PutAdvances` that either
branch of the ring's update then ends at the driver's index.

The other two need to know which byte an index stands for. `Reported` is the number
of the last byte the driver has told the framework of, counted in laps as it
counts them, and `Start` that of the first byte the ring offers. `SeenOK` says that,
unless a lap was missed, a lap not yet counted is known to the engine or to the handler
(`LapsOK`), so that `Reported` never runs ahead of the engine; the get
index is `Start` modulo the ring (`StartOK`), no byte between what was read and `Start`
is given up but by a full ring (`WholeOK`), and a place of the ring holds the byte of
its number or a later one (`RingOK`). Order (`OrderOK`) is then a matter of readers that
are not overrun. `missed` is needed: a lap that ends between the handler's read of
the flags and of the position is counted at the wrong time.

`CanDeviceProofs.tla`, for any set of writers, any number of frames, boxes and FIFO
places (`CanConstantsOK`):

- `AnswersAreTrue`: `Spec => []AnswerIsTrue`;
- `BoxesAreCounted`: `Spec => []BoxesCounted`;
- `TypeCorrect`: `Spec => []TypeOK`;
- `FramesAreAccounted`: `Spec => []FramesAccounted`.

The inductive invariant adds to the two: at most one writer holds the token, and
then nobody else is past it (`OneOwner`); the queue holds suspended writers, each
once (`QueueOK`); a frame in the controller belongs to the writer that waits for it or
to one that gave it up (`FrameOK`); a completion or a result that is up was earned
by the frame of the writer it wakes (`ResultOK`, `CreditOK`). `CreditOK` is the heart:
without it a completion left by a given-up frame could answer the next owner.
The receive boxes are a separate invariant (`ListsOK`), since no step touches both
sides. `OthersStay` and `LeaverGoes` carry over every writer but the one that moves.
What becomes of received frames rests on `RxInv`: frames stand in the order they came
from the reader over the boxes to the FIFO (`OrderOK`); each loss is counted, has a flag
that waits, or had it cleared unseen, and none is counted twice (`LossOK`); a frame in the
FIFO has a flag up or was merged into one, a full FIFO always has one (`FlagOK`). It
gives more than was first checked: `dropped` never exceeds the frames lost, also while
the handler runs, and `FramesAccounted` says so now.

`PdmaSgTablesProofs.tla`, for any channels, drivers, pool, lengths of transfers and words
of fresh heap memory, from `ConstantsOK` and `~FreeAfterUse` (no driver frees a
channel after it made a chain; none in this package does):

- `TypeCorrect`: `Spec => []TypeOK`;
- `DescriptorsAreAccounted`: `Spec => []DescriptorsAccounted`;
- `RunningChainsAreHeld`: `Spec => []RunningChainIsHeld`;
- `KeptTablesAreWhole`: `Spec => []KeptTableIsWhole`;
- `ImplementsPool`: `Spec => PoolUntilStray`, the refinement of `DescriptorPool`.

`HeapWords` may be any set of words, addresses of descriptors among them, and
nothing is assumed of the engine. The inductive invariant says, for each place a
channel's driver can be at, what its table is (`ChanOK`: nothing, whole, or fresh
heap memory, which is no table though it may look like one), that a running chain
is the channel's own table unless the channel is `hurried`, and that tables and free
tokens share out the pool until `strayed` (`Accounted`). Only two things ever
happen to the pool, and each is a lemma about any tables: `GiveBack` and `TakeOut`.
The refinement splits the same way, into `Drops`, `Grabs` and `Stutters`.

`AudioReplayProofs.tla`, for any size of a frame, any block that is a multiple of it, any
pool, any writes below 64 KiB (`AudioConstantsOK`, `AudioSizesOK`):

- `TypeCorrect`: `Spec => []TypeOK`;
- `HandlerKeepsPhase`: `Spec => []PhaseKept`;
- `PlaysInOrder`: `Spec => []PlayedInOrder`;
- `StopLosesOneFrame`: `Spec => []StopCutsOneFrame`.

The invariant follows a unit from the application to the engine. What was written is
what was copied, then the queue, then the block, in this order (`StreamOK`); every block
is free, begun or queued (`QueueOK`). All items but the last of a stop are whole frames
(`ItemsOK`), so a frame is never made of two items. This is why `pos`, taken back
after an under-run by the piece copied last and moved on by a frame (`audio.c:71`),
stays inside the buffer. `BufferOK` says what the buffer holds from where the engine is:
what was copied and not played, in order, silence behind it. `PhaseKept` is part of the
invariant, because what the handler overwrites is only then played already; and at
most one frame is copied and not played when a stop is acknowledged, which bounds what
it cuts off. Phase, buffer and cut are those of a handler and an engine that have not
lost each other (`slipped`): with an interrupt a whole half late, an end that
`pdma_isr` serves twice, or a restart with `pos` in the wrong half, the code keeps no
promise about them. A start may fail; `EngineOK` says that a stop is acknowledged,
and a flag up, only while the engine runs. `FlatAppend` and `FlatCons` are the facts about `FlattenSeq` that the stream needs, proved from its
definition by a least counterexample.

What each proof takes from the code is in the named assumptions of the modules, which
TLC evaluates in every run. Only the theorems of `PdmaSgTables` have a hypothesis
beyond them, `~FreeAfterUse`; the runs give this constant the value assumed. What the
code does not keep after an event it cannot rule out is in the properties themselves,
as a history variable: `twice`, `overtaken`, `strayed`, `hurried`, `missed`, `hushed` and
`slipped` each name such an event, at the action where it happens.

Only model-checked is liveness: `CallsReturn` of `PdmaMemfun` and of `AudioReplay`,
`WritesReturn` of `SerialDmaTx` and of `CanDevice`, `QuietLineIsReported` of `UartDmaRx`.
They rest on fairness and on when actions are enabled, which the prover does not
reason about. The four violations are counterexamples of TLC.

## 6. Not modelled

Registration and hijacking of callbacks, the event filter, memory-control fields
and timeout registers of `drv_pdma.c` (assignments by one owner before a
transfer); data caches (the part has none in the path); priority inheritance
(it changes who runs, never who holds what); deletion of kernel objects; the
register-level drivers, the vendor library, the USB stack, graphics and the
example applications. These are most of the repository's lines: fonts, pictures,
sound tables, register headers and vendored packages.

Of the serial framework: polling and interrupt modes, opening and closing a device
while it sends, refusals of a transfer by `dma_transmit`. Of CAN: private mode,
filters with lists of their own (`RT_CAN_USING_HDR`), open, close and control; a
write whose size is not a whole number of frames, which never ends, for `_can_int_tx`
takes a frame off the size until exactly nothing is left (`can.c:141`, `196`);
`TX_FAIL`, which this driver cannot raise, for no event FIFO and no time-out counter
is ever set up. Of audio: the record stream, two threads on one device, writes of
64 KiB and more. `hazards` names what each of these would
break.

## 7. Plan

The modules planned at first are written. Next, in this order:

1. Proofs: all invariants of the passing runs are proved. What is left is the safety
   half of the liveness properties: that a thread inside a call always has a step to
   come or somebody to wake it.
2. Models: closing a serial device while it sends; the record stream of audio; a CAN
   write of part of a frame.
