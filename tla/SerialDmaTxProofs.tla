-------------------------- MODULE SerialDmaTxProofs -------------------------
(***************************************************************************)
(* What holds of SerialDmaTx for every set of writers, every size and low  *)
(* water mark of the queue, and any number of writes.                      *)
(***************************************************************************)
EXTENDS SerialDmaTx, SequenceTheorems, TLAPS

(***************************************************************************)
(* The inductive invariant. The flags of the ring say what its indices     *)
(* mean and every occupied slot holds a buffer, so the handler never       *)
(* starts an empty slot; the writers in the list are suspended, each of    *)
(* them once, so resuming one disturbs no writer at work.                  *)
(***************************************************************************)
Occupied(p, g, empty) ==
  {i \in 0 .. QueueSize - 1 :
     ~empty /\ IF g < p THEN g <= i /\ i < p ELSE i < p \/ g <= i}

RingOK ==
  /\ isEmpty => put = get
  /\ isFull <=> (~isEmpty /\ put = get)
  /\ \A i \in Occupied(put, get, isEmpty) : slots[i] \in Buffers

WritersOK ==
  /\ \A w \in Writers : pc[w] # "idle" => made[w] # 0
  /\ \A i \in 1 .. Len(pushQ) : pc[pushQ[i]] = "suspended"
  /\ \A i, j \in 1 .. Len(pushQ) : pushQ[i] = pushQ[j] => i = j

(* While the flag is up or pdma_isr is entered, no writer is about to      *)
(* start the channel; and as long as each end served was cleared, the flag *)
(* and the handler are about a buffer that was sent to its end.            *)
IsrOK ==
  /\ moving => engine # NoBuffer
  /\ done \/ isr # "out" => Starting = {}
  /\ isr = "raised" => done
  /\ ~twice => /\ done => engine # NoBuffer /\ ~moving
               /\ isr = "serve" => engine # NoBuffer /\ ~moving /\ ~done

IInv == TypeOK /\ RingOK /\ WritersOK /\ IsrOK /\ ActivatedIffBusy
        /\ QueueIsServed /\ SuspendedIsServed

-----------------------------------------------------------------------------
(* The ring                                                                *)

(* The next index stays inside the ring.                                   *)
LEMMA SuccInRing ==
  ASSUME NEW i \in 0 .. QueueSize - 1
  PROVE  Succ(i) \in 0 .. QueueSize - 1
BY SerialConstantsOK DEF Succ, SerialConstantsOK

(* No buffer of a writer is the pair that stands for none.                 *)
LEMMA NoBufferIsNone == NoBuffer \notin Buffers
BY SerialConstantsOK DEF NoBuffer, Buffers, SerialConstantsOK

(* A push occupies one more slot, the one it fills.                        *)
LEMMA PushOccupies ==
  ASSUME NEW p \in 0 .. QueueSize - 1, NEW g \in 0 .. QueueSize - 1,
         NEW e \in BOOLEAN, e => p = g, e \/ p # g
  PROVE  Occupied(Succ(p), g, FALSE) \subseteq Occupied(p, g, e) \cup {p}
BY SerialConstantsOK DEF Occupied, Succ, SerialConstantsOK

(* A pop frees the slot it reads and occupies none.                        *)
LEMMA PopFrees ==
  ASSUME NEW p \in 0 .. QueueSize - 1, NEW g \in 0 .. QueueSize - 1
  PROVE  /\ g \in Occupied(p, g, FALSE)
         /\ Occupied(p, Succ(g), p = Succ(g)) \subseteq Occupied(p, g, FALSE)
BY SerialConstantsOK DEF Occupied, Succ, SerialConstantsOK

(* A writer that has begun a write has a buffer.                           *)
LEMMA WriterHasBuffer ==
  ASSUME TypeOK, WritersOK, NEW w \in Writers, pc[w] # "idle"
  PROVE  Buffer(w) \in Buffers
<1>1. made[w] \in 0 .. MaxWrites /\ made[w] # 0
  BY DEF TypeOK, WritersOK
<1>2. made[w] \in 1 .. MaxWrites
  BY <1>1, SerialConstantsOK DEF SerialConstantsOK
<1> QED BY <1>2 DEF Buffer, Buffers

-----------------------------------------------------------------------------
(* The invariant holds at the start and every action keeps it.             *)

LEMMA InitIInv == Init => IInv
<1> SUFFICES ASSUME Init PROVE IInv
  OBVIOUS
<1>1. TypeOK
  <2>1. 0 \in 0 .. QueueSize - 1 /\ 0 \in 0 .. MaxWrites /\ 0 \in 0 .. MaxNoise
    BY SerialConstantsOK DEF SerialConstantsOK
  <2>2. <<>> \in Seq(Writers)
    BY EmptySeq
  <2> QED BY <2>1, <2>2 DEF Init, TypeOK, Locations, IsrPlaces
<1>2. RingOK /\ WritersOK /\ IsrOK
  BY DEF Init, RingOK, WritersOK, IsrOK, Occupied
<1>3. ActivatedIffBusy /\ QueueIsServed /\ SuspendedIsServed
  BY DEF Init, ActivatedIffBusy, Starting, QueueIsServed, SuspendedIsServed
<1> QED BY <1>1, <1>2, <1>3 DEF IInv

(* A step of a writer between idle and its push.                           *)
LEMMA WriteKeeps ==
  ASSUME IInv, NEW w \in Writers, Write(w)
  PROVE  IInv'
<1> USE DEF IInv
<1>1. /\ pc \in [Writers -> Locations] /\ pc[w] = "idle"
      /\ isr = "out" /\ ~done
      /\ pc' = [pc EXCEPT ![w] = "push"]
      /\ UNCHANGED <<slots, put, get, isEmpty, isFull, pushQ, activated, engine,
                    moving, done, isr, noise, named, overtaken, twice>>
  BY DEF Write, At, Goto, TypeOK, queueVars, engineVars, isrVars, historyVars
<1>2. made' \in [Writers -> 0 .. MaxWrites] /\ made'[w] # 0
      /\ \A v \in Writers \ {w} : made'[v] = made[v]
  BY SerialConstantsOK DEF Write, TypeOK, SerialConstantsOK
<1>3. TypeOK'
  BY <1>1, <1>2 DEF TypeOK, Locations
<1>4. RingOK' /\ IsrOK'
  BY <1>1 DEF RingOK, IsrOK, Occupied
<1>5. WritersOK'
  <2>1. \A i \in 1 .. Len(pushQ) : pushQ[i] \in Writers
    BY ElementOfSeq DEF TypeOK
  <2> QED BY <1>1, <1>2, <2>1 DEF WritersOK
<1>6. ActivatedIffBusy' /\ QueueIsServed' /\ SuspendedIsServed'
  BY <1>1 DEF ActivatedIffBusy, Starting, QueueIsServed, SuspendedIsServed
<1> QED BY <1>3, <1>4, <1>5, <1>6

(* A push on a full queue: the writer is suspended, and the queue is not   *)
(* empty.                                                                  *)
LEMMA SuspendKeeps ==
  ASSUME IInv, NEW w \in Writers, Push(w), isFull
  PROVE  IInv'
<1> USE DEF IInv
<1>1. /\ pc \in [Writers -> Locations] /\ pc[w] = "push"
      /\ isr = "out" /\ ~done
      /\ pc' = [pc EXCEPT ![w] = "suspended"]
      /\ pushQ' = Append(pushQ, w)
      /\ UNCHANGED <<made, slots, put, get, isEmpty, isFull, activated, engine,
                    moving, done, isr, noise, named, overtaken, twice>>
  BY DEF Push, At, Goto, TypeOK, engineVars, isrVars, historyVars
<1>2. /\ pushQ' \in Seq(Writers)
      /\ Len(pushQ') = Len(pushQ) + 1 /\ Len(pushQ) \in Nat
      /\ \A i \in 1 .. Len(pushQ) : pushQ'[i] = pushQ[i] /\ pushQ[i] \in Writers
      /\ pushQ'[Len(pushQ) + 1] = w
  BY <1>1, AppendProperties, ElementOfSeq, LenProperties DEF TypeOK
<1>3. TypeOK'
  BY <1>1, <1>2 DEF TypeOK, Locations
<1>4. RingOK' /\ IsrOK'
  BY <1>1 DEF RingOK, IsrOK, Occupied
<1>5. WritersOK'
  <2>1. \A i \in 1 .. Len(pushQ) : pushQ[i] # w /\ pc[pushQ[i]] = "suspended"
    BY <1>1 DEF WritersOK
  <2>2. \A v \in Writers : pc'[v] # "idle" => made'[v] # 0
    BY <1>1 DEF WritersOK
  <2>3. \A i \in 1 .. Len(pushQ') : pc'[pushQ'[i]] = "suspended"
    BY <1>1, <1>2, <2>1
  <2>4. \A i, j \in 1 .. Len(pushQ') : pushQ'[i] = pushQ'[j] => i = j
    <3> SUFFICES ASSUME NEW i \in 1 .. Len(pushQ) + 1, NEW j \in 1 .. Len(pushQ) + 1,
                        pushQ'[i] = pushQ'[j]
                 PROVE  i = j
      BY <1>2
    <3>1. CASE i \in 1 .. Len(pushQ) /\ j \in 1 .. Len(pushQ)
      BY <3>1, <1>2 DEF WritersOK
    <3>2. CASE i = Len(pushQ) + 1 \/ j = Len(pushQ) + 1
      BY <3>2, <1>2, <2>1
    <3> QED BY <3>1, <3>2, <1>2
  <2> QED BY <2>2, <2>3, <2>4 DEF WritersOK
<1>6. ActivatedIffBusy' /\ QueueIsServed'
  BY <1>1 DEF ActivatedIffBusy, Starting, QueueIsServed
<1>7. SuspendedIsServed'
  BY <1>1 DEF SuspendedIsServed, RingOK
<1> QED BY <1>3, <1>4, <1>5, <1>6, <1>7

(* A push that stores its item: the queue is not empty, and the writer is  *)
(* about to look at `activated`.                                           *)
LEMMA StoreKeeps ==
  ASSUME IInv, NEW w \in Writers, Push(w), ~isFull
  PROVE  IInv'
<1> USE DEF IInv
<1>1. /\ pc \in [Writers -> Locations] /\ pc[w] = "push"
      /\ isr = "out" /\ ~done
      /\ pc' = [pc EXCEPT ![w] = "test"]
      /\ slots' = [slots EXCEPT ![put] = Buffer(w)]
      /\ put' = Succ(put) /\ isEmpty' = FALSE /\ isFull' = (Succ(put) = get)
      /\ UNCHANGED <<made, get, pushQ, activated, engine, moving, done, isr, noise, named, overtaken, twice>>
  BY DEF Push, Store, At, Goto, TypeOK, engineVars, isrVars, historyVars
<1>2. Buffer(w) \in Buffers
  BY <1>1, WriterHasBuffer
<1>3. put \in 0 .. QueueSize - 1 /\ get \in 0 .. QueueSize - 1
      /\ put' \in 0 .. QueueSize - 1
  BY <1>1, SuccInRing DEF TypeOK
<1>4. TypeOK'
  BY <1>1, <1>2, <1>3 DEF TypeOK, Locations
<1>5. RingOK'
  <2>1. Occupied(put', get', isEmpty') \subseteq Occupied(put, get, isEmpty) \cup {put}
    BY <1>1, <1>3, PushOccupies DEF RingOK, TypeOK
  <2>2. \A i \in Occupied(put', get', isEmpty') : slots'[i] \in Buffers
    <3> SUFFICES ASSUME NEW i \in Occupied(put', get', isEmpty')
                 PROVE  slots'[i] \in Buffers
      OBVIOUS
    <3>1. i \in 0 .. QueueSize - 1
      BY DEF Occupied
    <3>2. CASE i = put
      BY <3>1, <3>2, <1>1, <1>2 DEF TypeOK
    <3>3. CASE i # put
      <4>1. slots'[i] = slots[i]
        BY <3>1, <3>3, <1>1 DEF TypeOK
      <4> QED BY <4>1, <3>3, <2>1 DEF RingOK
    <3> QED BY <3>2, <3>3
  <2> QED BY <1>1, <2>2 DEF RingOK
<1>6. IsrOK'
  BY <1>1 DEF IsrOK
<1>7. WritersOK'
  <2>1. \A i \in 1 .. Len(pushQ) : pushQ[i] \in Writers
    BY ElementOfSeq DEF TypeOK
  <2> QED BY <1>1, <2>1 DEF WritersOK
<1>8. ActivatedIffBusy' /\ QueueIsServed' /\ SuspendedIsServed'
  BY <1>1 DEF ActivatedIffBusy, Starting, QueueIsServed, SuspendedIsServed
<1> QED BY <1>4, <1>5, <1>6, <1>7, <1>8

(* The look at `activated`: it goes up together with a writer at "start",  *)
(* which finds no channel running and no other writer there.               *)
LEMMA TestKeeps ==
  ASSUME IInv, NEW w \in Writers, Test(w)
  PROVE  IInv'
<1> USE DEF IInv
<1>1. /\ pc \in [Writers -> Locations] /\ pc[w] = "test"
      /\ isr = "out" /\ ~done
      /\ pc' = [pc EXCEPT ![w] = IF activated THEN "idle" ELSE "start"]
      /\ activated' = TRUE
      /\ overtaken' \in BOOLEAN
      /\ UNCHANGED <<made, slots, put, get, isEmpty, isFull, pushQ, engine, moving, done,
                    isr, noise, named, twice>>
  BY DEF Test, At, Goto, TypeOK, queueVars, isrVars
<1>2. TypeOK'
  BY <1>1 DEF TypeOK, Locations
<1>3. RingOK' /\ IsrOK'
  BY <1>1 DEF RingOK, IsrOK, Occupied
<1>4. WritersOK'
  <2>1. \A i \in 1 .. Len(pushQ) : pushQ[i] \in Writers
    BY ElementOfSeq DEF TypeOK
  <2> QED BY <1>1, <2>1 DEF WritersOK
<1>5. ActivatedIffBusy'
  <2>1. CASE activated
    <3>1. Starting' = Starting
      BY <2>1, <1>1 DEF Starting
    <3> QED BY <2>1, <3>1, <1>1 DEF ActivatedIffBusy
  <2>2. CASE ~activated
    <3>1. Starting = {} /\ engine = NoBuffer
      BY <2>2 DEF ActivatedIffBusy
    <3>2. Starting' = {w}
      BY <2>2, <3>1, <1>1 DEF Starting
    <3> QED BY <3>1, <3>2, <1>1 DEF ActivatedIffBusy
  <2> QED BY <2>1, <2>2
<1>6. QueueIsServed' /\ SuspendedIsServed'
  BY <1>1 DEF QueueIsServed, SuspendedIsServed
<1> QED BY <1>2, <1>3, <1>4, <1>5, <1>6

(* The writer at "start" is the only one; it leaves and the channel runs.  *)
LEMMA StartKeeps ==
  ASSUME IInv, NEW w \in Writers, Start(w)
  PROVE  IInv'
<1> USE DEF IInv
<1>1. /\ pc \in [Writers -> Locations] /\ pc[w] = "start"
      /\ isr = "out" /\ ~done
      /\ pc' = [pc EXCEPT ![w] = "idle"]
      /\ engine' = Buffer(w)
      /\ moving' = TRUE
      /\ UNCHANGED <<made, slots, put, get, isEmpty, isFull, pushQ, activated, done,
                    isr, noise, named, overtaken, twice>>
  BY DEF Start, At, Goto, TypeOK, queueVars, isrVars, historyVars
<1>2. Buffer(w) \in Buffers /\ Buffer(w) # NoBuffer
  BY <1>1, WriterHasBuffer, NoBufferIsNone
<1>3. TypeOK'
  BY <1>1, <1>2 DEF TypeOK, Locations
<1>4. RingOK' /\ IsrOK'
  BY <1>1, <1>2 DEF RingOK, IsrOK, Occupied
<1>5. WritersOK'
  <2>1. \A i \in 1 .. Len(pushQ) : pushQ[i] \in Writers
    BY ElementOfSeq DEF TypeOK
  <2> QED BY <1>1, <2>1 DEF WritersOK
<1>6. ActivatedIffBusy'
  <2>1. Starting = {w} /\ activated
    BY <1>1 DEF ActivatedIffBusy, Starting
  <2>2. Starting' = {}
    BY <1>1, <2>1 DEF Starting
  <2> QED BY <1>1, <1>2, <2>1, <2>2 DEF ActivatedIffBusy
<1>7. QueueIsServed' /\ SuspendedIsServed'
  BY <1>1 DEF QueueIsServed, SuspendedIsServed
<1> QED BY <1>3, <1>4, <1>5, <1>6, <1>7

(* The end of a transfer only raises a flag.                               *)
LEMMA EngineDoneKeeps ==
  ASSUME IInv, EngineDone
  PROVE  IInv'
<1> USE DEF IInv
<1>1. /\ moving /\ engine # NoBuffer /\ moving' = FALSE /\ done' = TRUE
      /\ UNCHANGED <<pc, made, slots, put, get, isEmpty, isFull, pushQ, activated,
                    engine, isr, noise, named, overtaken, twice>>
  BY DEF EngineDone, IsrOK, queueVars, isrVars, historyVars
<1>2. TypeOK' /\ RingOK' /\ WritersOK'
  BY <1>1 DEF TypeOK, RingOK, WritersOK, Occupied
<1>3. Starting' = Starting /\ Starting = {}
  BY <1>1 DEF ActivatedIffBusy, Starting
<1>4. IsrOK'
  BY <1>1, <1>3 DEF IsrOK
<1>5. ActivatedIffBusy' /\ QueueIsServed' /\ SuspendedIsServed'
  BY <1>1, <1>3 DEF ActivatedIffBusy, QueueIsServed, SuspendedIsServed
<1> QED BY <1>2, <1>4, <1>5

(* pdma_isr up to the handler moves nothing but the flag.                  *)
LEMMA IsrKeeps ==
  ASSUME IInv, Interrupt \/ OtherInterrupt \/ IsrReadTdsts
  PROVE  IInv'
<1> USE DEF IInv
<1>1. UNCHANGED <<pc, made, slots, put, get, isEmpty, isFull, pushQ, activated,
                  engine, moving, named, overtaken>>
  BY DEF Interrupt, OtherInterrupt, IsrReadTdsts, queueVars, engineVars, historyVars
<1>2. RingOK' /\ WritersOK' /\ QueueIsServed' /\ SuspendedIsServed'
  BY <1>1 DEF RingOK, WritersOK, Occupied, QueueIsServed, SuspendedIsServed
<1>3. Starting' = Starting
  BY <1>1 DEF Starting
<1>4. /\ done' \in BOOLEAN /\ isr' \in IsrPlaces /\ noise' \in 0 .. MaxNoise
      /\ twice' \in BOOLEAN
  <2>1. CASE Interrupt
    BY <2>1 DEF Interrupt, IsrPlaces, TypeOK, engineVars, historyVars
  <2>2. CASE OtherInterrupt
    BY <2>2, SerialConstantsOK
       DEF OtherInterrupt, IsrPlaces, TypeOK, engineVars, historyVars, SerialConstantsOK
  <2>3. CASE IsrReadTdsts
    BY <2>3 DEF IsrReadTdsts, IsrPlaces, TypeOK
  <2> QED BY <2>1, <2>2, <2>3
<1>5. TypeOK'
  BY <1>1, <1>4 DEF TypeOK
<1>6. IsrOK'
  <2>1. CASE Interrupt
    BY <1>1, <1>3, <2>1 DEF Interrupt, IsrOK, engineVars, historyVars
  <2>2. CASE OtherInterrupt
    BY <1>1, <1>3, <2>2 DEF OtherInterrupt, IsrOK, ActivatedIffBusy, engineVars, historyVars
  <2>3. CASE IsrReadTdsts
    BY <1>1, <1>3, <2>3 DEF IsrReadTdsts, IsrOK, TypeOK
  <2> QED BY <2>1, <2>2, <2>3
<1>7. ActivatedIffBusy'
  BY <1>1, <1>3, <1>6 DEF ActivatedIffBusy, IsrOK
<1> QED BY <1>2, <1>5, <1>6, <1>7

(* A resumed writer comes from the head of the list, and leaves a list of  *)
(* suspended writers behind.                                               *)
LEMMA ResumeKeeps ==
  ASSUME TypeOK, WritersOK, NEW n, Resume(n)
  PROVE  /\ pc' \in [Writers -> Locations] /\ pushQ' \in Seq(Writers)
         /\ \A w \in Writers : pc'[w] = pc[w] \/ (pc[w] = "suspended" /\ pc'[w] = "push")
         /\ \A i \in 1 .. Len(pushQ') : pc'[pushQ'[i]] = "suspended"
         /\ \A i, j \in 1 .. Len(pushQ') : pushQ'[i] = pushQ'[j] => i = j
         /\ n <= Lwm /\ pushQ # <<>> => \E w \in Writers : pc'[w] = "push"
<1>0. pc \in [Writers -> Locations] /\ pushQ \in Seq(Writers)
  BY DEF TypeOK
<1>1. CASE n <= Lwm /\ pushQ # <<>>
  <2>1. pushQ' = Tail(pushQ) /\ pc' = [pc EXCEPT ![Head(pushQ)] = "push"]
    BY <1>1 DEF Resume
  <2>2. /\ Head(pushQ) = pushQ[1] /\ pushQ[1] \in Writers
        /\ pushQ' \in Seq(Writers) /\ Len(pushQ') = Len(pushQ) - 1 /\ Len(pushQ) \in Nat
        /\ \A i \in 1 .. Len(pushQ') : pushQ'[i] = pushQ[i + 1] /\ pushQ'[i] \in Writers
    BY <1>0, <1>1, <2>1, HeadTailProperties, ElementOfSeq, LenProperties, EmptySeq
  <2>3. \A i \in 1 .. Len(pushQ') : i + 1 \in 1 .. Len(pushQ) /\ i + 1 # 1
    BY <2>2
  <2>4. 1 \in 1 .. Len(pushQ)
    BY <1>0, <1>1, <2>2, EmptySeq
  <2>5. pc[pushQ[1]] = "suspended"
    BY <2>4 DEF WritersOK
  <2>6. \A i \in 1 .. Len(pushQ') : pushQ'[i] # pushQ[1] /\ pc[pushQ'[i]] = "suspended"
    BY <2>2, <2>3, <2>4 DEF WritersOK
  <2>7. pc' \in [Writers -> Locations] /\ pc'[pushQ[1]] = "push"
        /\ \A v \in Writers : v # pushQ[1] => pc'[v] = pc[v]
    BY <1>0, <2>1, <2>2 DEF Locations
  <2>8. \A i, j \in 1 .. Len(pushQ') : pushQ'[i] = pushQ'[j] => i = j
    <3> SUFFICES ASSUME NEW i \in 1 .. Len(pushQ'), NEW j \in 1 .. Len(pushQ'),
                        pushQ'[i] = pushQ'[j]
                 PROVE  i = j
      OBVIOUS
    <3>1. pushQ[i + 1] = pushQ[j + 1]
      BY <2>2
    <3>2. i + 1 = j + 1
      BY <3>1, <2>3 DEF WritersOK
    <3> QED BY <3>2
  <2> QED BY <2>2, <2>5, <2>6, <2>7, <2>8
<1>2. CASE ~(n <= Lwm /\ pushQ # <<>>)
  <2>1. UNCHANGED <<pushQ, pc>>
    BY <1>2 DEF Resume
  <2> QED BY <1>0, <1>2, <2>1 DEF WritersOK
<1> QED BY <1>1, <1>2

(* The handler on an empty queue: nothing is resumed and nothing runs.     *)
LEMMA PopFailsKeeps ==
  ASSUME IInv, TxDmaDone, isEmpty
  PROVE  IInv'
<1> USE DEF IInv
<1>1. /\ isr = "serve" /\ isr' = "out" /\ named' = Wild
      /\ engine' = NoBuffer /\ moving' = FALSE /\ activated' = FALSE
      /\ UNCHANGED <<pc, made, slots, put, get, isEmpty, isFull, pushQ, done, noise,
                    overtaken, twice>>
  BY DEF TxDmaDone, Pop, TransmitNext
<1>2. TypeOK' /\ RingOK' /\ WritersOK'
  BY <1>1 DEF TypeOK, RingOK, WritersOK, Occupied, IsrPlaces
<1>3. Starting = {} /\ Starting' = {}
  BY <1>1 DEF IsrOK, Starting
<1>4. IsrOK' /\ ActivatedIffBusy' /\ QueueIsServed' /\ SuspendedIsServed'
  BY <1>1, <1>3 DEF IsrOK, ActivatedIffBusy, QueueIsServed, SuspendedIsServed
<1> QED BY <1>2, <1>4

(* The handler on a queue with an item: `activated` follows what is left   *)
(* on the queue, and an emptied queue is at or below its low water mark,   *)
(* so that a suspended writer is resumed.                                  *)
LEMMA PopKeeps ==
  ASSUME IInv, TxDmaDone, ~isEmpty
  PROVE  IInv'
<1> USE DEF IInv
<1> DEFINE n == Length(put, Succ(get), put = Succ(get))
<1>1. /\ isr = "serve" /\ isr' = "out" /\ named' = slots[get]
      /\ get' = Succ(get) /\ isFull' = FALSE /\ isEmpty' = (put = Succ(get))
      /\ engine' = (IF isEmpty' THEN NoBuffer ELSE slots[get'])
      /\ activated' = ~isEmpty' /\ moving' = (engine' # NoBuffer)
      /\ Resume(n)
      /\ UNCHANGED <<made, slots, put, done, noise, overtaken, twice>>
  BY DEF TxDmaDone, Pop, TransmitNext
<1>2. put \in 0 .. QueueSize - 1 /\ get \in 0 .. QueueSize - 1
      /\ get' \in 0 .. QueueSize - 1
  BY <1>1, SuccInRing DEF TypeOK
<1>3. /\ pc' \in [Writers -> Locations] /\ pushQ' \in Seq(Writers)
      /\ \A w \in Writers : pc'[w] = pc[w] \/ (pc[w] = "suspended" /\ pc'[w] = "push")
      /\ \A i \in 1 .. Len(pushQ') : pc'[pushQ'[i]] = "suspended"
      /\ \A i, j \in 1 .. Len(pushQ') : pushQ'[i] = pushQ'[j] => i = j
      /\ n <= Lwm /\ pushQ # <<>> => \E w \in Writers : pc'[w] = "push"
  BY <1>1, ResumeKeeps
<1>4. RingOK'
  BY <1>1, <1>2, PopFrees DEF RingOK, Occupied
<1>5. slots[get] \in Buffers /\ (~isEmpty' => slots[get'] \in Buffers)
  <2>1. slots[get] \in Buffers
    BY <1>2, PopFrees DEF RingOK, Occupied
  <2>2. ~isEmpty' => get' \in Occupied(put', get', isEmpty')
    BY <1>1, <1>2, PopFrees
  <2> QED BY <1>1, <2>1, <2>2, <1>4 DEF RingOK
<1>6. TypeOK'
  BY <1>1, <1>2, <1>3, <1>5 DEF TypeOK, IsrPlaces
<1>7. WritersOK'
  BY <1>1, <1>3 DEF WritersOK
<1>8. IsrOK' /\ ActivatedIffBusy'
  <2>1. Starting = {}
    BY <1>1 DEF IsrOK
  <2>2. Starting' = {}
    BY <2>1, <1>3 DEF Starting
  <2>3. IsrOK'
    BY <1>1, <2>2 DEF IsrOK
  <2> QED BY <1>1, <1>5, <2>2, <2>3, NoBufferIsNone DEF ActivatedIffBusy
<1>9. QueueIsServed'
  BY <1>1 DEF QueueIsServed
<1>10. SuspendedIsServed'
  <2>1. CASE isEmpty'
    <3>1. n <= Lwm
      <4>1. put = Succ(get)
        BY <2>1, <1>1
      <4>2. n = 0
        BY <4>1 DEF Length
      <4> QED BY <4>2, SerialConstantsOK DEF SerialConstantsOK
    <3>2. pushQ' # <<>> => pushQ # <<>>
      BY <1>1 DEF Resume
    <3> QED BY <3>1, <3>2, <1>3 DEF SuspendedIsServed
  <2>2. CASE ~isEmpty'
    BY <2>2 DEF SuspendedIsServed
  <2> QED BY <2>1, <2>2
<1> QED BY <1>4, <1>6, <1>7, <1>8, <1>9, <1>10

(* Every step keeps the invariant.                                         *)
LEMMA NextKeepsIInv == IInv /\ [Next]_vars => IInv'
<1> SUFFICES ASSUME IInv, [Next]_vars PROVE IInv'
  OBVIOUS
<1>1. ASSUME NEW w \in Writers, Writer(w) PROVE IInv'
  <2>1. CASE Write(w)
    BY <2>1, WriteKeeps
  <2>2. CASE Push(w)
    BY <2>2, SuspendKeeps, StoreKeeps
  <2>3. CASE Test(w)
    BY <2>3, TestKeeps
  <2>4. CASE Start(w)
    BY <2>4, StartKeeps
  <2> QED BY <1>1, <2>1, <2>2, <2>3, <2>4 DEF Writer
<1>2. CASE EngineDone
  BY <1>2, EngineDoneKeeps
<1>3. CASE TxDmaDone
  BY <1>3, PopFailsKeeps, PopKeeps
<1>4. CASE Interrupt \/ OtherInterrupt \/ IsrReadTdsts
  BY <1>4, IsrKeeps
<1>5. CASE UNCHANGED vars
  <2>1. UNCHANGED <<pc, made, slots, put, get, isEmpty, isFull, pushQ, activated,
                    engine, moving, done, isr, noise, named, overtaken, twice>>
    BY <1>5 DEF vars, queueVars, engineVars, isrVars, historyVars
  <2>2. TypeOK' /\ RingOK' /\ WritersOK' /\ IsrOK'
    BY <2>1 DEF IInv, TypeOK, RingOK, WritersOK, IsrOK, Occupied, Starting
  <2>3. ActivatedIffBusy' /\ QueueIsServed' /\ SuspendedIsServed'
    BY <2>1 DEF IInv, ActivatedIffBusy, Starting, QueueIsServed, SuspendedIsServed
  <2> QED BY <2>2, <2>3 DEF IInv
<1> QED BY <1>1, <1>2, <1>3, <1>4, <1>5 DEF Next, Isr

(* The invariant holds in every state.                                     *)
LEMMA IInvHolds == Spec => []IInv
BY InitIInv, NextKeepsIInv, PTL DEF Spec

-----------------------------------------------------------------------------
(* What the transmitter promises, for every value of the constants.        *)

(* Every variable has its type: both indices stay inside the ring.         *)
THEOREM TypeCorrect == Spec => []TypeOK
<1>1. IInv => TypeOK
  BY DEF IInv
<1> QED BY <1>1, IInvHolds, PTL

(* `activated` is up exactly while the channel runs or one writer is about *)
(* to start it: nobody programs the channel over a running transfer,       *)
(* however the writers and the handler interleave.                         *)
THEOREM ActivatedIsTrue == Spec => []ActivatedIffBusy
<1>1. IInv => ActivatedIffBusy
  BY DEF IInv
<1> QED BY <1>1, IInvHolds, PTL

(* No buffer stays on the queue with nobody to look at it.                 *)
THEOREM QueueIsNeverLeft == Spec => []QueueIsServed
<1>1. IInv => QueueIsServed
  BY DEF IInv
<1> QED BY <1>1, IInvHolds, PTL

(* No writer stays suspended with nobody to resume it, whatever the low    *)
(* water mark.                                                             *)
THEOREM SuspendedAreNeverLeft == Spec => []SuspendedIsServed
<1>1. IInv => SuspendedIsServed
  BY DEF IInv
<1> QED BY <1>1, IInvHolds, PTL

-----------------------------------------------------------------------------
(***************************************************************************)
(* The transmitter as a line. Until a writer starts a buffer that is not   *)
(* the first on the queue, whatever is given to the channel is the first   *)
(* on the queue.                                                           *)
(***************************************************************************)
HeadIsSent ==
  ~overtaken => /\ engine # NoBuffer => AtHead(engine)
                /\ \A w \in Starting : AtHead(Buffer(w))

(* A position of the ring is a slot of it.                                 *)
LEMMA PositionInRing ==
  ASSUME NEW g \in 0 .. QueueSize - 1, NEW i \in 1 .. QueueSize
  PROVE  Position(g, i) \in 0 .. QueueSize - 1
BY SerialConstantsOK DEF Position, SerialConstantsOK

(* The n items of a ring from g on are a sequence of length n.             *)
LEMMA ContentIsSeq ==
  ASSUME NEW S, NEW s \in [0 .. QueueSize - 1 -> S],
         NEW g \in 0 .. QueueSize - 1, NEW n \in 0 .. QueueSize
  PROVE  Content(s, g, n) \in Seq(S) /\ Len(Content(s, g, n)) = n
<1>1. \A i \in 1 .. n : Position(g, i) \in 0 .. QueueSize - 1
  BY SerialConstantsOK, PositionInRing DEF SerialConstantsOK
<1>2. Content(s, g, n) \in [1 .. n -> S]
  BY <1>1 DEF Content
<1> QED BY <1>2, SerialConstantsOK, LenProperties, SeqDef DEF SerialConstantsOK

(* A buffer stored behind the last item is appended.                       *)
LEMMA StoreAppends ==
  ASSUME NEW S, NEW s \in [0 .. QueueSize - 1 -> S], NEW b \in S,
         NEW g \in 0 .. QueueSize - 1, NEW n \in 0 .. QueueSize - 1
  PROVE  Content([s EXCEPT ![Position(g, n + 1)] = b], g, n + 1)
           = Append(Content(s, g, n), b)
<1> DEFINE t == [s EXCEPT ![Position(g, n + 1)] = b]
<1>1. n \in 0 .. QueueSize /\ n + 1 \in 0 .. QueueSize
  BY SerialConstantsOK DEF SerialConstantsOK
<1>2. /\ Position(g, n + 1) \in 0 .. QueueSize - 1
      /\ \A i \in 1 .. n : Position(g, i) \in 0 .. QueueSize - 1
      /\ \A i \in 1 .. n : Position(g, i) # Position(g, n + 1)
  BY SerialConstantsOK DEF Position, SerialConstantsOK
<1>3. /\ t \in [0 .. QueueSize - 1 -> S]
      /\ t[Position(g, n + 1)] = b
      /\ \A i \in 1 .. n : t[Position(g, i)] = s[Position(g, i)]
  BY <1>2
<1> HIDE DEF t
<1>4. Content(s, g, n) \in Seq(S) /\ Len(Content(s, g, n)) = n
  BY <1>1, ContentIsSeq
<1>5. Content(t, g, n + 1) \in Seq(S) /\ Len(Content(t, g, n + 1)) = n + 1
  BY <1>1, <1>3, ContentIsSeq
<1>6. /\ \A i \in 1 .. n : Content(s, g, n)[i] = s[Position(g, i)]
      /\ \A i \in 1 .. n + 1 : Content(t, g, n + 1)[i] = t[Position(g, i)]
  BY DEF Content
<1> DEFINE old == Content(s, g, n)
           new == Content(t, g, n + 1)
<1> HIDE DEF old, new
<1>7. /\ Append(old, b) \in Seq(S) /\ Len(Append(old, b)) = n + 1
      /\ \A i \in 1 .. n : Append(old, b)[i] = old[i]
      /\ Append(old, b)[n + 1] = b
  BY <1>4, AppendProperties DEF old
<1>8. \A i \in 1 .. n + 1 : new[i] = Append(old, b)[i]
  <2> SUFFICES ASSUME NEW i \in 1 .. n + 1 PROVE new[i] = Append(old, b)[i]
    OBVIOUS
  <2>1. CASE i = n + 1
    <3>1. new[i] = t[Position(g, i)]
      BY <1>6 DEF new
    <3>2. t[Position(g, i)] = b
      BY <2>1, <1>3
    <3>3. Append(old, b)[i] = b
      BY <2>1, <1>7
    <3> QED BY <3>1, <3>2, <3>3
  <2>2. CASE i \in 1 .. n
    BY <2>2, <1>3, <1>6, <1>7 DEF old, new
  <2>3. i = n + 1 \/ i \in 1 .. n
    BY SerialConstantsOK DEF SerialConstantsOK
  <2> QED BY <2>1, <2>2, <2>3
<1>9. new = Append(old, b)
  BY <1>5, <1>7, <1>8, SeqEqual DEF new
<1> QED BY <1>9 DEF old, new, t

(* The items from the next index on are the tail.                          *)
LEMMA NextIsTail ==
  ASSUME NEW S, NEW s \in [0 .. QueueSize - 1 -> S],
         NEW g \in 0 .. QueueSize - 1, NEW n \in 1 .. QueueSize
  PROVE  /\ Content(s, g, n) # <<>>
         /\ Head(Content(s, g, n)) = s[g]
         /\ Content(s, Succ(g), n - 1) = Tail(Content(s, g, n))
<1> DEFINE h == Succ(g)
<1>1. /\ h \in 0 .. QueueSize - 1
      /\ n \in 0 .. QueueSize /\ n - 1 \in 0 .. QueueSize
      /\ Position(g, 1) = g
      /\ \A i \in 1 .. n - 1 : Position(h, i) = Position(g, i + 1)
  BY SerialConstantsOK DEF Position, Succ, SerialConstantsOK
<1> HIDE DEF h
<1>2. Content(s, g, n) \in Seq(S) /\ Len(Content(s, g, n)) = n
  BY <1>1, ContentIsSeq
<1>3. Content(s, h, n - 1) \in Seq(S) /\ Len(Content(s, h, n - 1)) = n - 1
  BY <1>1, ContentIsSeq
<1>4. /\ \A i \in 1 .. n : Content(s, g, n)[i] = s[Position(g, i)]
      /\ \A i \in 1 .. n - 1 : Content(s, h, n - 1)[i] = s[Position(h, i)]
  BY DEF Content
<1> DEFINE old == Content(s, g, n)
           new == Content(s, h, n - 1)
<1> HIDE DEF old, new
<1>5. old # <<>> /\ Head(old) = old[1] /\ old[1] = s[g]
  BY <1>1, <1>2, <1>4, EmptySeq DEF old
<1>6. /\ Tail(old) \in Seq(S) /\ Len(Tail(old)) = n - 1
      /\ \A i \in 1 .. n - 1 : Tail(old)[i] = old[i + 1]
  BY <1>2, <1>5, HeadTailProperties DEF old
<1>7. \A i \in 1 .. n - 1 : new[i] = Tail(old)[i]
  <2> SUFFICES ASSUME NEW i \in 1 .. n - 1 PROVE new[i] = Tail(old)[i]
    OBVIOUS
  <2>1. i + 1 \in 1 .. n
    OBVIOUS
  <2> QED BY <2>1, <1>1, <1>4, <1>6 DEF old, new
<1>8. new = Tail(old)
  BY <1>3, <1>6, <1>7, SeqEqual DEF new
<1> QED BY <1>5, <1>8 DEF old, new, h

(* The length of an empty queue, of one with items, of one with room: what *)
(* a pop and a push do to it, and where the put index is.                  *)
LEMMA LengthOfEmpty ==
  ASSUME TypeOK, RingOK, isEmpty
  PROVE  Length(put, get, isEmpty) = 0
BY DEF Length

LEMMA LengthAfterPop ==
  ASSUME TypeOK, RingOK, ~isEmpty
  PROVE  /\ Length(put, get, isEmpty) \in 1 .. QueueSize
         /\ Length(put, Succ(get), put = Succ(get)) = Length(put, get, isEmpty) - 1
<1>1. /\ put \in 0 .. QueueSize - 1 /\ get \in 0 .. QueueSize - 1
      /\ QueueSize \in Nat \ {0}
  BY SerialConstantsOK DEF TypeOK, SerialConstantsOK
<1>2. Length(put, get, isEmpty) = IF put > get THEN put - get ELSE QueueSize + put - get
  BY DEF Length
<1>3. Length(put, get, isEmpty) \in 1 .. QueueSize
  BY <1>1, <1>2
<1>4. Length(put, Succ(get), put = Succ(get)) = Length(put, get, isEmpty) - 1
  BY <1>1, <1>2 DEF Length, Succ
<1> QED BY <1>3, <1>4

LEMMA LengthAfterPush ==
  ASSUME TypeOK, RingOK, ~isFull
  PROVE  /\ Length(put, get, isEmpty) \in 0 .. QueueSize - 1
         /\ Length(Succ(put), get, FALSE) = Length(put, get, isEmpty) + 1
         /\ put = Position(get, Length(put, get, isEmpty) + 1)
<1>1. /\ put \in 0 .. QueueSize - 1 /\ get \in 0 .. QueueSize - 1
      /\ QueueSize \in Nat \ {0}
  BY SerialConstantsOK DEF TypeOK, SerialConstantsOK
<1>2. CASE isEmpty
  <2>1. put = get /\ Length(put, get, isEmpty) = 0
    BY <1>2, LengthOfEmpty DEF RingOK
  <2>2. Length(Succ(put), get, FALSE) = 1 /\ put = Position(get, 1)
    BY <1>1, <2>1 DEF Length, Succ, Position
  <2>3. 0 \in 0 .. QueueSize - 1 /\ 0 + 1 = 1
    BY <1>1
  <2> QED BY <2>1, <2>2, <2>3, Zenon
<1>3. CASE ~isEmpty
  <2>1. Length(put, get, isEmpty) = IF put > get THEN put - get ELSE QueueSize + put - get
    BY <1>3 DEF Length
  <2>2. put # get
    BY <1>3 DEF RingOK
  <2>3. Length(put, get, isEmpty) \in 0 .. QueueSize - 1
    BY <1>1, <2>1, <2>2
  <2>4. Length(Succ(put), get, FALSE) = Length(put, get, isEmpty) + 1
    BY <1>1, <2>1, <2>2 DEF Length, Succ
  <2>5. put = Position(get, Length(put, get, isEmpty) + 1)
    BY <1>1, <2>1, <2>2 DEF Position
  <2> QED BY <2>3, <2>4, <2>5
<1> QED BY <1>2, <1>3

(* What the channel is given stays the first on the queue until the        *)
(* handler pops it: a push fills a slot that is not the first.             *)
LEMMA HeadKeeps == IInv /\ HeadIsSent /\ [Next]_vars => HeadIsSent'
<1> SUFFICES ASSUME IInv, HeadIsSent, [Next]_vars, ~overtaken' PROVE HeadIsSent'
  BY DEF HeadIsSent
<1> USE DEF IInv
<1>1. ASSUME NEW w \in Writers, Write(w) PROVE HeadIsSent'
  <2>1. /\ UNCHANGED <<slots, get, isEmpty, engine, overtaken>>
        /\ pc[w] = "idle" /\ pc' = [pc EXCEPT ![w] = "push"]
        /\ made' = [made EXCEPT ![w] = @ + 1]
        /\ pc \in [Writers -> Locations] /\ made \in [Writers -> 0 .. MaxWrites]
    BY <1>1 DEF Write, At, Goto, TypeOK, queueVars, engineVars, isrVars, historyVars
  <2>2. Starting' = Starting /\ w \notin Starting
    BY <2>1 DEF Starting
  <2>3. \A v \in Starting : Buffer(v)' = Buffer(v)
    BY <2>1, <2>2 DEF Starting, Buffer
  <2> QED BY <2>1, <2>2, <2>3 DEF HeadIsSent, AtHead
<1>2. ASSUME NEW w \in Writers, Push(w) PROVE HeadIsSent'
  <2>1. /\ UNCHANGED <<made, get, engine, overtaken>>
        /\ pc[w] = "push" /\ pc \in [Writers -> Locations]
        /\ \/ pc' = [pc EXCEPT ![w] = "suspended"]
           \/ pc' = [pc EXCEPT ![w] = "test"]
    BY <1>2 DEF Push, Store, At, Goto, TypeOK, engineVars, isrVars, historyVars
  <2>2. Starting' = Starting
    BY <2>1 DEF Starting
  <2>3. \A v \in Starting : Buffer(v)' = Buffer(v)
    BY <2>1 DEF Starting, Buffer
  <2>4. ASSUME NEW b, AtHead(b) PROVE AtHead(b)'
    <3>1. CASE isFull
      BY <3>1, <2>4, <1>2 DEF AtHead, Push
    <3>2. CASE ~isFull
      <4>1. put # get /\ slots' = [slots EXCEPT ![put] = Buffer(w)] /\ isEmpty' = FALSE
        BY <3>2, <2>4, <1>2 DEF AtHead, Push, Store, RingOK
      <4>2. slots'[get] = slots[get]
        BY <4>1 DEF TypeOK
      <4> QED BY <4>1, <4>2, <2>1, <2>4 DEF AtHead
    <3> QED BY <3>1, <3>2
  <2> QED BY <2>1, <2>2, <2>3, <2>4 DEF HeadIsSent
<1>3. ASSUME NEW w \in Writers, Test(w) PROVE HeadIsSent'
  <2>1. /\ UNCHANGED <<made, slots, get, isEmpty, engine>>
        /\ overtaken' = (overtaken \/ (~activated /\ ~AtHead(Buffer(w))))
        /\ pc \in [Writers -> Locations]
        /\ pc' = [pc EXCEPT ![w] = IF activated THEN "idle" ELSE "start"]
    BY <1>3 DEF Test, At, Goto, TypeOK, queueVars, isrVars
  <2>2. ~overtaken /\ (activated \/ AtHead(Buffer(w)))
    BY <2>1
  <2>3. \A v \in Starting' : v \in Starting \/ (v = w /\ ~activated)
    BY <2>1 DEF Starting
  <2>4. \A v \in Starting' : AtHead(Buffer(v))
    BY <2>2, <2>3 DEF HeadIsSent
  <2>5. \A v \in Starting' : AtHead(Buffer(v))'
    BY <2>1, <2>4 DEF AtHead, Buffer
  <2> QED BY <2>1, <2>2, <2>5 DEF HeadIsSent, AtHead
<1>4. ASSUME NEW w \in Writers, Start(w) PROVE HeadIsSent'
  <2>1. /\ UNCHANGED <<made, slots, get, isEmpty, overtaken>>
        /\ engine' = Buffer(w) /\ pc[w] = "start"
        /\ pc \in [Writers -> Locations] /\ pc' = [pc EXCEPT ![w] = "idle"]
    BY <1>4 DEF Start, At, Goto, TypeOK, queueVars, isrVars, historyVars
  <2>2. w \in Starting /\ Starting' \subseteq Starting
    BY <2>1 DEF Starting
  <2>3. AtHead(Buffer(w)) /\ \A v \in Starting' : AtHead(Buffer(v))
    BY <2>1, <2>2 DEF HeadIsSent
  <2> QED BY <2>1, <2>3 DEF HeadIsSent, AtHead, Buffer
<1>5. CASE EngineDone
  BY <1>5 DEF EngineDone, HeadIsSent, AtHead, Starting, Buffer, queueVars, isrVars, historyVars
<1>6. CASE TxDmaDone
  <2>1. Starting = {}
    BY <1>6 DEF TxDmaDone, IsrOK
  <2>2. Starting' = {}
    <3>1. CASE isEmpty
      BY <3>1, <2>1, <1>6 DEF TxDmaDone, Pop, Starting
    <3>2. CASE ~isEmpty
      <4>1. Resume(Length(put, Succ(get), put = Succ(get)))
        BY <3>2, <1>6 DEF TxDmaDone, Pop
      <4>2. \A v \in Writers : pc'[v] = pc[v] \/ pc'[v] = "push"
        BY <4>1, ResumeKeeps
      <4> QED BY <4>2, <2>1 DEF Starting
    <3> QED BY <3>1, <3>2
  <2>3. engine' # NoBuffer => AtHead(engine)'
    BY <1>6 DEF TxDmaDone, TransmitNext, AtHead
  <2> QED BY <2>2, <2>3 DEF HeadIsSent
<1>7. CASE Interrupt \/ OtherInterrupt \/ IsrReadTdsts
  <2>1. UNCHANGED <<pc, made, slots, get, isEmpty, engine, overtaken>>
    BY <1>7 DEF Interrupt, OtherInterrupt, IsrReadTdsts, queueVars, engineVars, historyVars
  <2> QED BY <2>1 DEF HeadIsSent, AtHead, Starting, Buffer
<1>8. CASE UNCHANGED vars
  BY <1>8 DEF vars, HeadIsSent, AtHead, Starting, Buffer, queueVars, engineVars, historyVars
<1> QED BY <1>1, <1>2, <1>3, <1>4, <1>5, <1>6, <1>7, <1>8 DEF Next, Writer, Isr

(* A push that stores its item is a Take of the line.                      *)
LEMMA PushTakes ==
  ASSUME IInv, NEW w \in Writers, Push(w), ~isFull
  PROVE  Line!Take
<1> USE DEF IInv
<1> DEFINE n == Length(put, get, isEmpty)
<1>1. /\ slots \in [0 .. QueueSize - 1 -> Buffers \cup {NoBuffer}]
      /\ get \in 0 .. QueueSize - 1
      /\ slots' = [slots EXCEPT ![put] = Buffer(w)]
      /\ put' = Succ(put) /\ isEmpty' = FALSE
      /\ UNCHANGED <<get, named, moving, engine>> /\ pc[w] = "push"
  BY DEF TypeOK, Push, Store, At, engineVars, historyVars
<1>2. Buffer(w) \in Buffers
  BY <1>1, WriterHasBuffer
<1>3. /\ n \in 0 .. QueueSize - 1
      /\ Length(Succ(put), get, FALSE) = n + 1
      /\ put = Position(get, n + 1)
  BY LengthAfterPush
<1> HIDE DEF n
<1>4. Queued = Content(slots, get, n)
  BY DEF Queued, n
<1>5. Queued' = Content([slots EXCEPT ![Position(get, n + 1)] = Buffer(w)], get, n + 1)
  BY <1>1, <1>3 DEF Queued
<1>6. Queued' = Append(Queued, Buffer(w))
  <2>1. Buffer(w) \in Buffers \cup {NoBuffer}
    BY <1>2
  <2> QED BY <1>1, <1>3, <1>4, <1>5, <2>1, StoreAppends
<1>7. Len(Queued) < QueueSize
  <2>1. n \in 0 .. QueueSize /\ n < QueueSize
    BY <1>3, SerialConstantsOK DEF SerialConstantsOK
  <2>2. Len(Queued) = n
    BY <1>1, <1>4, <2>1, ContentIsSeq
  <2> QED BY <2>1, <2>2
<1>8. UNCHANGED <<Reporting, named>>
  BY <1>1 DEF Reporting
<1> QED BY <1>2, <1>6, <1>7, <1>8 DEF Line!Take

(* What the queue holds when it is not empty.                              *)
LEMMA QueuedHead ==
  ASSUME TypeOK, RingOK, ~isEmpty
  PROVE  /\ Queued # <<>> /\ Head(Queued) = slots[get]
         /\ Content(slots, Succ(get), Length(put, Succ(get), put = Succ(get))) = Tail(Queued)
<1> DEFINE n == Length(put, get, isEmpty)
<1>1. /\ slots \in [0 .. QueueSize - 1 -> Buffers \cup {NoBuffer}]
      /\ get \in 0 .. QueueSize - 1
  BY DEF TypeOK
<1>2. n \in 1 .. QueueSize /\ Length(put, Succ(get), put = Succ(get)) = n - 1
  BY LengthAfterPop
<1>3. Queued = Content(slots, get, n)
  BY DEF Queued
<1> HIDE DEF n
<1>4. /\ Content(slots, get, n) # <<>> /\ Head(Content(slots, get, n)) = slots[get]
      /\ Content(slots, Succ(get), n - 1) = Tail(Content(slots, get, n))
  BY <1>1, <1>2, NextIsTail
<1> QED BY <1>2, <1>3, <1>4

(* The end of a transfer is a Send of the line.                            *)
LEMMA EngineSends ==
  ASSUME IInv, HeadIsSent, ~overtaken, EngineDone
  PROVE  Line!Send
<1> USE DEF IInv
<1>1. /\ engine # NoBuffer /\ moving /\ moving' = FALSE
      /\ UNCHANGED <<slots, put, get, isEmpty, engine, named>>
  BY DEF EngineDone, IsrOK, queueVars, historyVars
<1>2. Queued # <<>> /\ Head(Queued) = engine
  BY <1>1, QueuedHead DEF HeadIsSent, AtHead
<1>3. Queued' = Queued /\ Reporting = NoBuffer /\ Reporting' = engine
  BY <1>1 DEF Queued, Reporting, Content
<1> QED BY <1>1, <1>2, <1>3 DEF Line!Send

(* The handler of the finished transfer is a Report of the line.           *)
LEMMA HandlerReports ==
  ASSUME IInv, HeadIsSent, ~overtaken, ~twice, TxDmaDone
  PROVE  Line!Report
<1> USE DEF IInv
<1>1. ~moving /\ engine # NoBuffer /\ moving' = (engine' # NoBuffer)
      /\ UNCHANGED <<slots, put>>
  BY DEF TxDmaDone, IsrOK
<1>2. ~isEmpty /\ slots[get] = engine
  BY <1>1 DEF HeadIsSent, AtHead
<1>3. named' = slots[get] /\ get' = Succ(get) /\ isEmpty' = (put = Succ(get))
  BY <1>2 DEF TxDmaDone, Pop
<1>4. Queued' = Tail(Queued)
  <2>1. Queued' = Content(slots, Succ(get), Length(put, Succ(get), put = Succ(get)))
    BY <1>1, <1>3 DEF Queued
  <2> QED BY <1>2, <2>1, QueuedHead
<1>5. Reporting = engine /\ Reporting' = NoBuffer
  BY <1>1 DEF Reporting
<1> QED BY <1>1, <1>2, <1>3, <1>4, <1>5 DEF Line!Report

(* Every step is a step of the line or invisible to it, up to the first    *)
(* buffer that is started out of turn or end that is served uncleared.     *)
LEMMA StepIsLineStep ==
  IInv /\ HeadIsSent /\ [Next]_vars
    => [overtaken' \/ twice' \/ Line!Next]_<<Queued, Reporting, named>>
<1> SUFFICES ASSUME IInv, HeadIsSent, [Next]_vars, ~overtaken', ~twice'
             PROVE  Line!Next \/ UNCHANGED <<Queued, Reporting, named>>
  OBVIOUS
<1>1. ASSUME NEW w \in Writers, Write(w) \/ Test(w) \/ Start(w)
      PROVE  UNCHANGED <<Queued, Reporting, named>>
  <2>1. UNCHANGED <<slots, put, get, isEmpty, named>>
    BY <1>1 DEF Write, Test, Start, queueVars, historyVars
  <2>2. CASE Start(w)
    <3>1. w \in Starting /\ moving' = TRUE
      BY <2>2 DEF Start, At, Starting
    <3>2. Reporting = NoBuffer /\ Reporting' = NoBuffer
      BY <3>1 DEF IInv, ActivatedIffBusy, Reporting
    <3> QED BY <2>1, <3>2 DEF Queued, Content
  <2>3. CASE Write(w) \/ Test(w)
    <3>1. UNCHANGED <<engine, moving>>
      BY <2>3 DEF Write, Test, engineVars
    <3> QED BY <2>1, <3>1 DEF Queued, Content, Reporting
  <2> QED BY <1>1, <2>2, <2>3
<1>2. ASSUME NEW w \in Writers, Push(w)
      PROVE  Line!Next \/ UNCHANGED <<Queued, Reporting, named>>
  <2>1. CASE isFull
    <3>1. UNCHANGED <<slots, put, get, isEmpty, moving, engine, named>>
      BY <2>1, <1>2 DEF Push, engineVars, historyVars
    <3> QED BY <3>1 DEF Queued, Content, Reporting
  <2>2. CASE ~isFull
    BY <2>2, <1>2, PushTakes DEF Line!Next
  <2> QED BY <2>1, <2>2
<1>3. CASE EngineDone
  <2>1. ~overtaken
    BY <1>3 DEF EngineDone, historyVars
  <2> QED BY <1>3, <2>1, EngineSends DEF Line!Next
<1>4. CASE TxDmaDone
  <2>1. ~overtaken /\ ~twice
    BY <1>4 DEF TxDmaDone
  <2> QED BY <1>4, <2>1, HandlerReports DEF Line!Next
<1>5. CASE Interrupt \/ OtherInterrupt \/ IsrReadTdsts
  <2>1. UNCHANGED <<slots, put, get, isEmpty, moving, engine, named>>
    BY <1>5 DEF Interrupt, OtherInterrupt, IsrReadTdsts, queueVars, engineVars, historyVars
  <2> QED BY <2>1 DEF Queued, Content, Reporting
<1>6. CASE UNCHANGED vars
  BY <1>6 DEF vars, queueVars, engineVars, historyVars, Queued, Content, Reporting
<1> QED BY <1>1, <1>2, <1>3, <1>4, <1>5, <1>6 DEF Next, Writer, Isr

(* Until a writer starts a buffer that is not the first on the queue, or   *)
(* pdma_isr serves an end it does not clear, the transmitter is a line:    *)
(* with any number of writers, every buffer is sent once, in the order of  *)
(* the pushes, and reported after it was sent.                             *)
THEOREM ImplementsLine == Spec => LineUntilDisturbed
<1>1. Init => Line!Init
  <2> SUFFICES ASSUME Init PROVE Line!Init
    OBVIOUS
  <2>1. Length(put, get, isEmpty) = 0
    BY DEF Init, Length
  <2>2. Queued = <<>>
    BY <2>1 DEF Queued, Content
  <2> QED BY <2>2 DEF Init, Line!Init, Reporting
<1>2. Init => HeadIsSent
  BY DEF Init, HeadIsSent, Starting
<1> QED BY <1>1, <1>2, IInvHolds, HeadKeeps, StepIsLineStep, PTL
    DEF Spec, LineUntilDisturbed
=============================================================================
