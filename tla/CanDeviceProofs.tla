--------------------------- MODULE CanDeviceProofs --------------------------
(***************************************************************************)
(* Proofs about CanDevice for any set of writers, any number of frames in  *)
(* a call, any depth of the FIFO and any number of boxes.                  *)
(***************************************************************************)
EXTENDS CanDevice, FiniteSetTheorems, SequenceTheorems, TLAPS

-----------------------------------------------------------------------------
(* The inductive invariant, in parts.                                      *)

Flags == {"TC", "RF0N", "RF0L"}
Answers == {"none", "refused", "timeout", "ok", "failed"}

(* Types, as far as they do not depend on the bounds.                      *)
TypesOK ==
  /\ wpc \in [Writers -> Steps]
  /\ sem \in Nat /\ semQueue \in Seq(Writers)
  /\ boxFree \in BOOLEAN /\ completed \in BOOLEAN /\ sndchange \in BOOLEAN
  /\ result \in {"WAIT", "OK"}
  /\ pending \subseteq Writers
  /\ ir \subseteq Flags /\ status \subseteq Flags
  /\ answer \in [Writers -> Answers]
  /\ sent \in [Writers -> BOOLEAN] /\ missed \in [Writers -> BOOLEAN]

(* One writer at most is past the semaphore, and then it has no token.     *)
OneOwner ==
  \/ sem = 1 /\ Owners = {}
  \/ sem = 0 /\ \E w \in Writers : Owners = {w}

(* Writers on the queue of the semaphore are suspended on it, each once.   *)
QueueOK ==
  /\ \A i \in 1 .. Len(semQueue) : wpc[semQueue[i]] = "queued"
  /\ \A i, j \in 1 .. Len(semQueue) : semQueue[i] = semQueue[j] => i = j

BoxOK == boxFree <=> \A w \in Owners : OnList(w)

TokensOK == OneOwner /\ QueueOK /\ BoxOK

(* The receive boxes are on one of two lists or with the reader.           *)
ListsOK ==
  /\ free \in Nat /\ uselist \in Seq(Nat) /\ held \in Seq(Nat)
  /\ hwFifo \in Seq(Nat) /\ arrived \in Nat
  /\ freenumbers = free
  /\ free + Len(uselist) + Len(held) = MsgBoxes
  /\ Len(held) <= 1

(* A frame has left the hardware and the handler has not credited it.      *)
Ended == "TC" \in ir \/ "TC" \in status

Sending == {"change", "wait", "asleep", "late", "expired"}
Sent == Sending \union {"woken", "collect"}

(* The frame in the hardware is that of the writer that waits for one, or  *)
(* of one that gave it up; then the bit that credits frames is down.       *)
FrameOK ==
  /\ Ended => pending = {}
  /\ ~("TC" \in ir /\ "TC" \in status)
  /\ \A w \in pending :
       /\ ~sent[w]
       /\ wpc[w] \in Sending \/ (answer[w] \in {"timeout", "refused"} /\ ~sndchange)
  /\ \A w \in Writers : wpc[w] \in Sent => pending \subseteq {w}

(* The box's result belongs to the frame of the writer that has the box.   *)
ResultOK ==
  /\ Ended /\ sndchange => \E w \in Writers : wpc[w] \in Sending /\ sent[w]
  /\ \A w \in Writers :
       /\ wpc[w] \in {"init", "send"} => result = "WAIT"
       /\ wpc[w] \in Sent /\ result = "OK" => sent[w]
       /\ wpc[w] \in {"woken", "collect"} => result = "OK"
       /\ wpc[w] \in Sent \union {"send"} /\ completed => result = "OK"
       /\ wpc[w] \in {"wait", "asleep"} => sndchange

(* A frame that was sent is credited, or will be, or is missed.            *)
CreditOK ==
  \A w \in Writers :
    /\ wpc[w] \in {"late", "expired"} /\ sent[w] => missed[w]
    /\ wpc[w] \in {"change", "wait"} /\ sent[w] =>
         missed[w] \/ completed \/ (Ended /\ sndchange)
    /\ wpc[w] = "asleep" /\ sent[w] => missed[w] \/ Ended
    /\ answer[w] = "ok" => sent[w]
    /\ answer[w] # "failed"
    /\ answer[w] = "timeout" /\ sent[w] => missed[w]

IInv == TypesOK /\ TokensOK /\ FrameOK /\ ResultOK /\ CreditOK

-----------------------------------------------------------------------------
(* Helpers.                                                                *)

(* A queue without its head.                                               *)
LEMMA QueueTail ==
  ASSUME NEW q \in Seq(Writers), q # <<>>
  PROVE  /\ Head(q) \in Writers /\ Head(q) = q[1] /\ 1 \in 1 .. Len(q)
         /\ Tail(q) \in Seq(Writers)
         /\ \A i \in 1 .. Len(Tail(q)) : i + 1 \in 1 .. Len(q) /\ Tail(q)[i] = q[i + 1]
<1>1. Len(q) \in Nat \ {0} /\ Len(Tail(q)) = Len(q) - 1
  BY HeadTailProperties, EmptySeq, LenProperties
<1>2. Head(q) \in Writers /\ Tail(q) \in Seq(Writers)
  BY HeadTailProperties
<1>3. \A i \in 1 .. Len(Tail(q)) : Tail(q)[i] = q[i + 1]
  BY HeadTailProperties, <1>1
<1> QED BY <1>1, <1>2, <1>3

(* The ways a writer leaves the middle of a call: it releases the token,   *)
(* and the first writer suspended on the semaphore goes to its box.        *)
LEMMA Release ==
  ASSUME TypesOK, TokensOK, NEW w \in Writers, NEW step \in {"idle", "take"},
         w \in Owners, ReleaseAndGoto(w, step), boxFree' = TRUE
  PROVE  /\ wpc' \in [Writers -> Steps] /\ sem' \in Nat /\ semQueue' \in Seq(Writers)
         /\ TokensOK'
         /\ \A v \in Writers : \/ wpc'[v] = wpc[v]
                               \/ v = w /\ wpc'[v] = step
                               \/ wpc'[v] = "box"
<1>1. sem = 0 /\ Owners = {w} /\ wpc[w] # "queued"
  BY DEF TokensOK, OneOwner, Owners
<1>2. CASE semQueue = <<>>
  <2>1. sem' = sem + 1 /\ wpc' = [wpc EXCEPT ![w] = step] /\ semQueue' = semQueue
    BY <1>2 DEF ReleaseAndGoto, Goto
  <2>2. Owners' = {}
    BY <1>1, <2>1 DEF Owners, TypesOK
  <2>3. Len(semQueue') = 0
    BY <1>2, <2>1
  <2>4. OneOwner' /\ QueueOK' /\ BoxOK'
    BY <1>1, <2>1, <2>2, <2>3 DEF OneOwner, QueueOK, BoxOK
  <2>5. wpc' \in [Writers -> Steps]
    BY <2>1 DEF TypesOK, Steps
  <2>6. \A v \in Writers : wpc'[v] = wpc[v] \/ (v = w /\ wpc'[v] = step)
    BY <2>1 DEF TypesOK
  <2> QED BY <1>1, <2>1, <2>4, <2>5, <2>6 DEF TypesOK, TokensOK
<1>3. CASE semQueue # <<>>
  <2> DEFINE v == Head(semQueue)
  <2>1. /\ v \in Writers /\ v = semQueue[1] /\ 1 \in 1 .. Len(semQueue)
        /\ Tail(semQueue) \in Seq(Writers)
        /\ \A i \in 1 .. Len(Tail(semQueue)) :
             i + 1 \in 1 .. Len(semQueue) /\ Tail(semQueue)[i] = semQueue[i + 1]
    BY <1>3, QueueTail DEF TypesOK
  <2>2. wpc[v] = "queued" /\ v # w
    BY <1>1, <2>1 DEF TokensOK, QueueOK
  <2>3. /\ wpc' = [wpc EXCEPT ![w] = step, ![v] = "box"]
        /\ semQueue' = Tail(semQueue) /\ sem' = sem
    BY <1>3 DEF ReleaseAndGoto
  <2> HIDE DEF v
  <2>4. /\ wpc'[v] = "box" /\ wpc'[w] = step
        /\ \A u \in Writers \ {v, w} : wpc'[u] = wpc[u]
        /\ wpc' \in [Writers -> Steps]
    BY <2>1, <2>2, <2>3 DEF TypesOK, Steps
  <2>5. Owners' = {v}
    BY <1>1, <2>1, <2>2, <2>4 DEF Owners, Steps
  <2>6. OneOwner' /\ BoxOK'
    BY <1>1, <2>1, <2>3, <2>4, <2>5 DEF OneOwner, BoxOK, OnList
  <2>7. \A i \in 1 .. Len(semQueue') : semQueue'[i] \in Writers \ {v, w} /\ wpc[semQueue'[i]] = "queued"
    <3> TAKE i \in 1 .. Len(semQueue')
    <3>1. i + 1 \in 1 .. Len(semQueue) /\ semQueue'[i] = semQueue[i + 1] /\ i \in Nat /\ i # 0
      BY <2>1, <2>3
    <3>2. semQueue[i + 1] \in Writers /\ wpc[semQueue[i + 1]] = "queued"
      BY <3>1, ElementOfSeq DEF TypesOK, TokensOK, QueueOK
    <3>3. semQueue[i + 1] # v
      BY <2>1, <3>1 DEF TokensOK, QueueOK
    <3> QED BY <1>1, <3>1, <3>2, <3>3
  <2>8. QueueOK'
    <3>1. \A i \in 1 .. Len(semQueue') : wpc'[semQueue'[i]] = "queued"
      BY <2>4, <2>7
    <3>2. ASSUME NEW i \in 1 .. Len(semQueue'), NEW j \in 1 .. Len(semQueue'),
                 semQueue'[i] = semQueue'[j]
          PROVE  i = j
      BY <2>1, <2>3, <3>2 DEF TokensOK, QueueOK
    <3> QED BY <3>1, <3>2 DEF QueueOK
  <2>9. \A u \in Writers : \/ wpc'[u] = wpc[u]
                           \/ u = w /\ wpc'[u] = step
                           \/ wpc'[u] = "box"
    BY <2>4
  <2> QED BY <2>1, <2>3, <2>4, <2>6, <2>8, <2>9 DEF TypesOK, TokensOK
<1> QED BY <1>2, <1>3

(* A step of one writer that neither takes nor releases the token.         *)
LEMMA Moves ==
  ASSUME TypesOK, TokensOK, NEW w \in Writers, NEW step \in Steps,
         wpc' = [wpc EXCEPT ![w] = step],
         wpc[w] # "queued", step # "queued",
         step \in {"idle", "take"} <=> wpc[w] \in {"idle", "take"},
         sem' = sem, semQueue' = semQueue,
         \/ boxFree' = boxFree /\ wpc[w] # "box" /\ step # "box"
         \/ boxFree' = FALSE /\ wpc[w] = "box" /\ step # "box"
  PROVE  /\ wpc' \in [Writers -> Steps] /\ sem' \in Nat /\ semQueue' \in Seq(Writers)
         /\ TokensOK'
         /\ \A v \in Writers : wpc'[v] = wpc[v] \/ (v = w /\ wpc'[v] = step)
<1>1. /\ wpc'[w] = step /\ wpc' \in [Writers -> Steps]
      /\ \A v \in Writers \ {w} : wpc'[v] = wpc[v]
  BY DEF TypesOK
<1>2. Owners' = Owners
  BY <1>1 DEF Owners, TypesOK, Steps
<1>3. OneOwner'
  BY <1>2 DEF TokensOK, OneOwner
<1>4. QueueOK'
  <2>1. \A i \in 1 .. Len(semQueue) : semQueue[i] \in Writers /\ wpc[semQueue[i]] = "queued"
    BY ElementOfSeq DEF TypesOK, TokensOK, QueueOK
  <2>2. \A i \in 1 .. Len(semQueue) : wpc'[semQueue[i]] = "queued"
    BY <1>1, <2>1
  <2> QED BY <2>2 DEF TokensOK, QueueOK
<1>5. BoxOK'
  <2>1. CASE w \in Owners
    <3>1. Owners = {w}
      BY <2>1 DEF TokensOK, OneOwner
    <3> QED BY <1>1, <1>2, <3>1 DEF TokensOK, BoxOK, OnList
  <2>2. CASE w \notin Owners
    <3>1. wpc[w] # "box"
      BY <2>2 DEF Owners, Steps
    <3> QED BY <1>1, <1>2, <2>2, <3>1 DEF TokensOK, BoxOK, OnList, Owners
  <2> QED BY <2>1, <2>2
<1> QED BY <1>1, <1>3, <1>4, <1>5 DEF TypesOK, TokensOK

(* Token, queue and box agree after every step.                            *)
LEMMA StepTokens ==
  ASSUME TypesOK, TokensOK, [Next]_vars
  PROVE  /\ wpc' \in [Writers -> Steps] /\ sem' \in Nat /\ semQueue' \in Seq(Writers)
         /\ TokensOK'
<1> DEFINE Goal == /\ wpc' \in [Writers -> Steps] /\ sem' \in Nat
                   /\ semQueue' \in Seq(Writers) /\ TokensOK'
<1>1. ASSUME NEW w \in Writers, Write(w) PROVE Goal
  <2>1. /\ wpc[w] = "idle" /\ wpc' = [wpc EXCEPT ![w] = "take"]
        /\ sem' = sem /\ semQueue' = semQueue /\ boxFree' = boxFree
    BY <1>1 DEF Write, Goto, boxVars, semVars
  <2> QED BY <2>1, Moves DEF Steps
<1>2. ASSUME NEW w \in Writers, Take(w) PROVE Goal
  <2>1. wpc[w] = "take" /\ boxFree' = boxFree
    BY <1>2 DEF Take
  <2>2. CASE sem > 0
    <3>1. sem = 1 /\ Owners = {}
      BY <2>2 DEF TokensOK, OneOwner
    <3>2. sem' = sem - 1 /\ wpc' = [wpc EXCEPT ![w] = "box"] /\ semQueue' = semQueue
      BY <1>2, <2>2 DEF Take, Goto
    <3>3. /\ wpc'[w] = "box" /\ wpc' \in [Writers -> Steps]
          /\ \A v \in Writers \ {w} : wpc'[v] = wpc[v]
      BY <3>2 DEF TypesOK, Steps
    <3>4. Owners' = {w}
      BY <3>1, <3>3 DEF Owners, Steps
    <3>5. OneOwner' /\ BoxOK'
      BY <2>1, <3>1, <3>2, <3>3, <3>4 DEF TokensOK, OneOwner, BoxOK, OnList
    <3>6. QueueOK'
      <4>1. \A i \in 1 .. Len(semQueue) : semQueue[i] \in Writers /\ wpc[semQueue[i]] = "queued"
        BY ElementOfSeq DEF TypesOK, TokensOK, QueueOK
      <4>2. \A i \in 1 .. Len(semQueue) : wpc'[semQueue[i]] = "queued"
        BY <2>1, <3>3, <4>1
      <4> QED BY <3>2, <4>2 DEF TokensOK, QueueOK
    <3> QED BY <3>1, <3>2, <3>3, <3>5, <3>6 DEF TypesOK, TokensOK
  <2>3. CASE ~(sem > 0)
    <3>1. /\ sem' = sem /\ wpc' = [wpc EXCEPT ![w] = "queued"]
          /\ semQueue' = Append(semQueue, w)
      BY <1>2, <2>3 DEF Take, Goto
    <3>2. /\ wpc'[w] = "queued" /\ wpc' \in [Writers -> Steps]
          /\ \A v \in Writers \ {w} : wpc'[v] = wpc[v]
      BY <3>1 DEF TypesOK, Steps
    <3>3. Owners' = Owners
      BY <2>1, <3>2 DEF Owners, Steps
    <3>4. OneOwner' /\ BoxOK'
      BY <2>1, <3>1, <3>2, <3>3 DEF TokensOK, OneOwner, BoxOK, OnList, Owners
    <3>5. /\ semQueue' \in Seq(Writers) /\ Len(semQueue') = Len(semQueue) + 1
          /\ Len(semQueue) \in Nat
          /\ semQueue'[Len(semQueue) + 1] = w
          /\ \A i \in 1 .. Len(semQueue) : semQueue'[i] = semQueue[i]
      BY <3>1, AppendProperties, LenProperties DEF TypesOK
    <3>6. \A i \in 1 .. Len(semQueue) : semQueue[i] \in Writers \ {w} /\ wpc[semQueue[i]] = "queued"
      BY <2>1, ElementOfSeq DEF TypesOK, TokensOK, QueueOK
    <3>7. \A i \in 1 .. Len(semQueue') : \/ i \in 1 .. Len(semQueue)
                                         \/ i = Len(semQueue) + 1
      BY <3>5
    <3>8. \A i \in 1 .. Len(semQueue') : wpc'[semQueue'[i]] = "queued"
      BY <3>2, <3>5, <3>6, <3>7
    <3>9. ASSUME NEW i \in 1 .. Len(semQueue'), NEW j \in 1 .. Len(semQueue'),
                 semQueue'[i] = semQueue'[j]
          PROVE  i = j
      BY <3>5, <3>6, <3>7, <3>9 DEF TokensOK, QueueOK
    <3>10. QueueOK'
      BY <3>8, <3>9 DEF QueueOK
    <3> QED BY <3>1, <3>2, <3>4, <3>5, <3>10 DEF TypesOK, TokensOK
  <2> QED BY <2>2, <2>3
<1>3. ASSUME NEW w \in Writers, TakeBox(w) PROVE Goal
  <2>1. /\ wpc[w] = "box" /\ wpc' = [wpc EXCEPT ![w] = "init"]
        /\ sem' = sem /\ semQueue' = semQueue /\ boxFree' = FALSE
    BY <1>3 DEF TakeBox, Goto, semVars
  <2> QED BY <2>1, Moves DEF Steps
<1>4. ASSUME NEW w \in Writers, InitCompletion(w) PROVE Goal
  <2>1. /\ wpc[w] = "init" /\ wpc' = [wpc EXCEPT ![w] = "send"]
        /\ sem' = sem /\ semQueue' = semQueue /\ boxFree' = boxFree
    BY <1>4 DEF InitCompletion, Goto, boxVars, semVars
  <2> QED BY <2>1, Moves DEF Steps
<1>5. ASSUME NEW w \in Writers, Refuse(w) PROVE Goal
  <2>1. w \in Owners /\ ReleaseAndGoto(w, "idle") /\ boxFree' = TRUE
    BY <1>5 DEF Refuse, Owners, Steps
  <2> QED BY <2>1, Release
<1>6. ASSUME NEW w \in Writers, Send(w) PROVE Goal
  <2>1. /\ wpc[w] = "send" /\ wpc' = [wpc EXCEPT ![w] = "change"]
        /\ sem' = sem /\ semQueue' = semQueue /\ boxFree' = boxFree
    BY <1>6 DEF Send, Goto, boxVars, semVars
  <2> QED BY <2>1, Moves DEF Steps
<1>7. ASSUME NEW w \in Writers, SetChange(w) PROVE Goal
  <2>1. /\ wpc[w] = "change" /\ wpc' = [wpc EXCEPT ![w] = "wait"]
        /\ sem' = sem /\ semQueue' = semQueue /\ boxFree' = boxFree
    BY <1>7 DEF SetChange, Goto, boxVars, semVars
  <2> QED BY <2>1, Moves DEF Steps
<1>8. ASSUME NEW w \in Writers, Wait(w) PROVE Goal
  <2>1. /\ wpc[w] = "wait"
        /\ \/ wpc' = [wpc EXCEPT ![w] = "collect"]
           \/ wpc' = [wpc EXCEPT ![w] = "asleep"]
        /\ sem' = sem /\ semQueue' = semQueue /\ boxFree' = boxFree
    BY <1>8 DEF Wait, Goto, boxVars, semVars
  <2> QED BY <2>1, Moves DEF Steps
<1>9. ASSUME NEW w \in Writers, TimerExpires(w) PROVE Goal
  <2>1. /\ wpc[w] = "asleep" /\ wpc' = [wpc EXCEPT ![w] = "late"]
        /\ sem' = sem /\ semQueue' = semQueue /\ boxFree' = boxFree
    BY <1>9 DEF TimerExpires, Goto, boxVars, semVars
  <2> QED BY <2>1, Moves DEF Steps
<1>10. ASSUME NEW w \in Writers, LeaveWait(w) PROVE Goal
  <2>1. /\ wpc[w] \in {"woken", "late"}
        /\ \/ wpc' = [wpc EXCEPT ![w] = "expired"]
           \/ wpc' = [wpc EXCEPT ![w] = "collect"]
        /\ sem' = sem /\ semQueue' = semQueue /\ boxFree' = boxFree
    BY <1>10 DEF LeaveWait, Goto, boxVars, semVars
  <2> QED BY <2>1, Moves DEF Steps
<1>11. ASSUME NEW w \in Writers, GiveUp(w) PROVE Goal
  <2>1. w \in Owners /\ ReleaseAndGoto(w, "idle") /\ boxFree' = TRUE
    BY <1>11 DEF GiveUp, Owners, Steps
  <2> QED BY <2>1, Release
<1>12. ASSUME NEW w \in Writers, Collect(w) PROVE Goal
  <2> DEFINE step == IF result = "OK" /\ left[w] > 1 THEN "take" ELSE "idle"
  <2>1. w \in Owners /\ ReleaseAndGoto(w, step) /\ boxFree' = TRUE
    BY <1>12 DEF Collect, Owners, Steps
  <2>2. step \in {"idle", "take"}
    OBVIOUS
  <2> HIDE DEF step
  <2> QED BY <2>1, <2>2, Release
<1>13. ASSUME IsrTxDone PROVE Goal
  <2>1. sem' = sem /\ semQueue' = semQueue /\ boxFree' = boxFree
    BY <1>13 DEF IsrTxDone, boxVars, semVars
  <2>2. /\ wpc' \in [Writers -> Steps]
        /\ \A v \in Writers : wpc'[v] = wpc[v] \/ (wpc[v] = "asleep" /\ wpc'[v] = "woken")
    BY <1>13 DEF IsrTxDone, TypesOK, Steps
  <2>3. Owners' = Owners
    BY <2>2 DEF Owners, Steps
  <2>4. QueueOK'
    <3>1. \A i \in 1 .. Len(semQueue) : semQueue[i] \in Writers /\ wpc[semQueue[i]] = "queued"
      BY ElementOfSeq DEF TypesOK, TokensOK, QueueOK
    <3>2. \A i \in 1 .. Len(semQueue) : wpc'[semQueue[i]] = "queued"
      BY <2>2, <3>1
    <3> QED BY <2>1, <3>2 DEF TokensOK, QueueOK
  <2>5. OneOwner' /\ BoxOK'
    BY <2>1, <2>2, <2>3 DEF TokensOK, OneOwner, BoxOK, OnList, Owners
  <2> QED BY <2>1, <2>2, <2>4, <2>5 DEF TypesOK, TokensOK
<1>14. ASSUME \/ FrameGoesOut \/ FrameArrives \/ IsrReadStatus
              \/ IsrRxInd \/ IsrRxOverflow \/ ReadTake \/ ReadPut \/ UNCHANGED vars
       PROVE  Goal
  <2>1. UNCHANGED <<wpc, sem, semQueue, boxFree>>
    BY <1>14 DEF FrameGoesOut, FrameArrives, IsrReadStatus, IsrRxInd, IsrRxOverflow,
                 ReadTake, ReadPut, vars, txVars, boxVars, semVars
  <2>2. Owners' = Owners
    BY <2>1 DEF Owners
  <2>3. OneOwner' /\ QueueOK' /\ BoxOK'
    BY <2>1, <2>2 DEF TokensOK, OneOwner, QueueOK, BoxOK, OnList
  <2> QED BY <2>1, <2>3 DEF TypesOK, TokensOK
<1> QED BY <1>1, <1>2, <1>3, <1>4, <1>5, <1>6, <1>7, <1>8, <1>9, <1>10, <1>11,
           <1>12, <1>13, <1>14 DEF Next, Writer

-----------------------------------------------------------------------------
(* Who is credited.                                                        *)

(* Two writers past the semaphore are one.                                 *)
LEMMA Sole ==
  ASSUME TokensOK, NEW v \in Owners, NEW w \in Owners
  PROVE  v = w
BY DEF TokensOK, OneOwner

(* A writer that is at its box, sends or has sent is past the semaphore.   *)
LEMMA SentOwn ==
  ASSUME NEW w \in Writers, wpc[w] \in Sent \union {"box", "init", "send"}
  PROVE  w \in Owners
BY DEF Owners, Steps, Sent, Sending

(* The rest of the types.                                                  *)
LEMMA StepTypes ==
  ASSUME TypesOK, TokensOK, [Next]_vars
  PROVE  TypesOK'
<1>1. wpc' \in [Writers -> Steps] /\ sem' \in Nat /\ semQueue' \in Seq(Writers)
  BY StepTokens
<1> DEFINE Waits == /\ boxFree' \in BOOLEAN /\ completed' \in BOOLEAN
                    /\ sndchange' \in BOOLEAN /\ result' \in {"WAIT", "OK"}
           Bus == pending' \subseteq Writers /\ ir' \subseteq Flags /\ status' \subseteq Flags
           Histories == /\ answer' \in [Writers -> Answers]
                        /\ sent' \in [Writers -> BOOLEAN] /\ missed' \in [Writers -> BOOLEAN]
<1> USE DEF boxVars, waitVars, txVars, rxVars, txHistory, rxHistory, busVars, otherVars
<1>2. ASSUME NEW w \in Writers, Write(w) \/ Take(w) \/ TakeBox(w) \/ InitCompletion(w)
                                 \/ Refuse(w) \/ Send(w) \/ SetChange(w)
      PROVE  Waits /\ Bus /\ Histories
  BY <1>2 DEF TypesOK, Answers, Write, Take, TakeBox, InitCompletion, Refuse, Send, SetChange
<1>3. ASSUME NEW w \in Writers, Wait(w) \/ TimerExpires(w) \/ LeaveWait(w)
                                 \/ GiveUp(w) \/ Collect(w)
      PROVE  Waits /\ Bus /\ Histories
  BY <1>3 DEF TypesOK, Answers, Wait, TimerExpires, LeaveWait, GiveUp, Collect
<1>4. ASSUME FrameGoesOut \/ FrameArrives \/ IsrReadStatus \/ IsrTxDone
      PROVE  Waits /\ Bus /\ Histories
  BY <1>4 DEF TypesOK, Flags, Answers, FrameGoesOut, FrameArrives, IsrReadStatus, IsrTxDone
<1>5. ASSUME IsrRxInd \/ IsrRxOverflow \/ ReadTake \/ ReadPut
      PROVE  Waits /\ Bus /\ Histories
  BY <1>5 DEF TypesOK, IsrRxInd, IsrRxOverflow, ReceiveOne, ReadTake, ReadPut
<1>6. ASSUME UNCHANGED vars
      PROVE  Waits /\ Bus /\ Histories
  BY <1>6 DEF TypesOK, vars
<1>7. Waits /\ Bus /\ Histories
  BY <1>2, <1>3, <1>4, <1>5, <1>6 DEF Next, Writer
<1> QED BY <1>1, <1>7 DEF TypesOK

(* A writer's step, seen from the parts below: only it changes its place,  *)
(* but for a suspended writer that is handed the token.                    *)
LEMMA OthersStay ==
  ASSUME TypesOK, TokensOK, NEW w \in Writers, Writer(w) \/ Write(w) \/ TimerExpires(w)
  PROVE  \A v \in Writers \ {w} : wpc'[v] = wpc[v] \/ wpc'[v] = "box"
<1>1. CASE \/ Write(w) \/ Take(w) \/ TakeBox(w) \/ InitCompletion(w) \/ Send(w)
           \/ SetChange(w) \/ Wait(w) \/ TimerExpires(w) \/ LeaveWait(w)
  BY <1>1 DEF TypesOK, Write, Take, TakeBox, InitCompletion, Send, SetChange, Wait,
              TimerExpires, LeaveWait, Goto
<1>2. CASE Refuse(w)
  <2>1. w \in Owners /\ ReleaseAndGoto(w, "idle") /\ boxFree' = TRUE
    BY <1>2 DEF Refuse, Owners, Steps
  <2> QED BY <2>1, Release
<1>3. CASE GiveUp(w)
  <2>1. w \in Owners /\ ReleaseAndGoto(w, "idle") /\ boxFree' = TRUE
    BY <1>3 DEF GiveUp, Owners, Steps
  <2> QED BY <2>1, Release
<1>4. CASE Collect(w)
  <2> DEFINE step == IF result = "OK" /\ left[w] > 1 THEN "take" ELSE "idle"
  <2>1. w \in Owners /\ ReleaseAndGoto(w, step) /\ boxFree' = TRUE
    BY <1>4 DEF Collect, Owners, Steps
  <2>2. step \in {"idle", "take"}
    OBVIOUS
  <2> HIDE DEF step
  <2> QED BY <2>1, <2>2, Release
<1> QED BY <1>1, <1>2, <1>3, <1>4 DEF Writer

(* Where a writer goes that leaves the middle of a call.                   *)
LEMMA LeaverGoes ==
  ASSUME TypesOK, TokensOK, NEW w \in Writers, Refuse(w) \/ GiveUp(w) \/ Collect(w)
  PROVE  wpc'[w] \in {"idle", "take", "box"}
<1>1. CASE Refuse(w) \/ GiveUp(w)
  <2>1. w \in Owners /\ ReleaseAndGoto(w, "idle") /\ boxFree' = TRUE
    BY <1>1 DEF Refuse, GiveUp, Owners, Steps
  <2>2. wpc[w] \in {"send", "expired"}
    BY <1>1 DEF Refuse, GiveUp
  <2> QED BY <2>1, <2>2 DEF ReleaseAndGoto, Goto, TypesOK
<1>2. CASE Collect(w)
  <2> DEFINE step == IF result = "OK" /\ left[w] > 1 THEN "take" ELSE "idle"
  <2>1. ReleaseAndGoto(w, step)
    BY <1>2 DEF Collect
  <2>2. step \in {"idle", "take"}
    OBVIOUS
  <2> HIDE DEF step
  <2> QED BY <2>1, <2>2 DEF ReleaseAndGoto, Goto, TypesOK
<1> QED BY <1>1, <1>2

(* The frame in the hardware stays that of its writer.                     *)
LEMMA StepFrame ==
  ASSUME IInv, [Next]_vars
  PROVE  FrameOK'
<1> USE DEF IInv, TypesOK, FrameOK, ResultOK, Ended, Sent, Sending
<1> USE DEF txVars, boxVars, waitVars, txHistory, rxVars, rxHistory, busVars, otherVars
<1>1. ASSUME NEW w \in Writers, Write(w) \/ Writer(w) \/ TimerExpires(w)
      PROVE  FrameOK'
  <2> USE DEF ThreadsRun, Enabled
  <2>1. \A v \in Writers \ {w} : wpc'[v] = wpc[v] \/ wpc'[v] = "box"
    BY <1>1, OthersStay
  <2>2. w \in Owners => \A v \in Writers \ {w} : v \notin Owners
    BY Sole
  <2>3. CASE Write(w)
    BY <2>1, <2>2, <2>3, SentOwn DEF Write, Goto
  <2>4. CASE Take(w)
    BY <2>1, <2>2, <2>4, SentOwn DEF Take, Goto
  <2>5. CASE TakeBox(w)
    BY <2>1, <2>2, <2>5, SentOwn DEF TakeBox, Goto
  <2>6. CASE InitCompletion(w)
    BY <2>1, <2>2, <2>6, SentOwn DEF InitCompletion, Goto
  <2>7. CASE Send(w)
    BY <2>1, <2>2, <2>7, SentOwn DEF Send, Goto
  <2>8. CASE SetChange(w)
    BY <2>1, <2>2, <2>8, SentOwn DEF SetChange, Goto
  <2>9. CASE Wait(w)
    BY <2>1, <2>2, <2>9, SentOwn DEF Wait, Goto
  <2>10. CASE TimerExpires(w)
    BY <2>1, <2>2, <2>10, SentOwn DEF TimerExpires, Goto
  <2>11. CASE LeaveWait(w)
    BY <2>1, <2>2, <2>11, SentOwn DEF LeaveWait, Goto
  <2>12. CASE Refuse(w)
    BY <2>1, <2>2, <2>12, LeaverGoes, SentOwn DEF Refuse
  <2>13. CASE GiveUp(w)
    BY <2>1, <2>2, <2>13, LeaverGoes, SentOwn DEF GiveUp
  <2>14. CASE Collect(w)
    BY <2>1, <2>2, <2>14, LeaverGoes, SentOwn DEF Collect
  <2> QED BY <1>1, <2>3, <2>4, <2>5, <2>6, <2>7, <2>8, <2>9, <2>10,
             <2>11, <2>12, <2>13, <2>14 DEF Writer
<1>2. ASSUME FrameGoesOut PROVE FrameOK'
  BY <1>2, Sole, SentOwn DEF FrameGoesOut, Flags
<1>3. ASSUME FrameArrives PROVE FrameOK'
  BY <1>3, Sole, SentOwn DEF FrameArrives, Flags
<1>4. ASSUME IsrReadStatus PROVE FrameOK'
  BY <1>4, Sole, SentOwn DEF IsrReadStatus, Flags
<1>5. ASSUME IsrTxDone PROVE FrameOK'
  BY <1>5, Sole, SentOwn DEF IsrTxDone, Flags
<1>6. ASSUME IsrRxInd PROVE FrameOK'
  BY <1>6, Sole, SentOwn DEF IsrRxInd, ReceiveOne, Flags
<1>7. ASSUME IsrRxOverflow PROVE FrameOK'
  BY <1>7, Sole, SentOwn DEF IsrRxOverflow, ReceiveOne, Flags
<1>8. ASSUME ReadTake \/ ReadPut \/ UNCHANGED vars PROVE FrameOK'
  BY <1>8 DEF ReadTake, ReadPut, vars
<1> QED BY <1>1, <1>2, <1>3, <1>4, <1>5, <1>6, <1>7, <1>8 DEF Next


(* The result stays that of the box's writer.                              *)
LEMMA StepResult ==
  ASSUME IInv, [Next]_vars
  PROVE  ResultOK'
<1> USE DEF IInv, TypesOK, FrameOK, ResultOK, Ended, Sent, Sending
<1> USE DEF txVars, boxVars, waitVars, txHistory, rxVars, rxHistory, busVars, otherVars
<1>1. ASSUME NEW w \in Writers, Write(w) \/ Writer(w) \/ TimerExpires(w)
      PROVE  ResultOK'
  <2> USE DEF ThreadsRun, Enabled
  <2>1. \A v \in Writers \ {w} : wpc'[v] = wpc[v] \/ wpc'[v] = "box"
    BY <1>1, OthersStay
  <2>2. w \in Owners => \A v \in Writers \ {w} : v \notin Owners
    BY Sole
  <2>3. CASE Write(w)
    BY <2>1, <2>2, <2>3, SentOwn DEF Write, Goto
  <2>4. CASE Take(w)
    BY <2>1, <2>2, <2>4, SentOwn DEF Take, Goto
  <2>5. CASE TakeBox(w)
    BY <2>1, <2>2, <2>5, SentOwn DEF TakeBox, Goto
  <2>6. CASE InitCompletion(w)
    BY <2>1, <2>2, <2>6, SentOwn DEF InitCompletion, Goto
  <2>7. CASE Send(w)
    BY <2>1, <2>2, <2>7, SentOwn DEF Send, Goto
  <2>8. CASE SetChange(w)
    BY <2>1, <2>2, <2>8, SentOwn DEF SetChange, Goto
  <2>9. CASE Wait(w)
    BY <2>1, <2>2, <2>9, SentOwn DEF Wait, Goto
  <2>10. CASE TimerExpires(w)
    BY <2>1, <2>2, <2>10, SentOwn DEF TimerExpires, Goto
  <2>11. CASE LeaveWait(w)
    BY <2>1, <2>2, <2>11, SentOwn DEF LeaveWait, Goto
  <2>12. CASE Refuse(w)
    BY <2>1, <2>2, <2>12, LeaverGoes, SentOwn DEF Refuse
  <2>13. CASE GiveUp(w)
    BY <2>1, <2>2, <2>13, LeaverGoes, SentOwn DEF GiveUp
  <2>14. CASE Collect(w)
    BY <2>1, <2>2, <2>14, LeaverGoes, SentOwn DEF Collect
  <2> QED BY <1>1, <2>3, <2>4, <2>5, <2>6, <2>7, <2>8, <2>9, <2>10,
             <2>11, <2>12, <2>13, <2>14 DEF Writer
<1>2. ASSUME FrameGoesOut PROVE ResultOK'
  BY <1>2, Sole, SentOwn DEF FrameGoesOut, Flags
<1>3. ASSUME FrameArrives PROVE ResultOK'
  BY <1>3, Sole, SentOwn DEF FrameArrives, Flags
<1>4. ASSUME IsrReadStatus PROVE ResultOK'
  BY <1>4, Sole, SentOwn DEF IsrReadStatus, Flags
<1>5. ASSUME IsrTxDone PROVE ResultOK'
  BY <1>5, Sole, SentOwn DEF IsrTxDone, Flags
<1>6. ASSUME IsrRxInd PROVE ResultOK'
  BY <1>6, Sole, SentOwn DEF IsrRxInd, ReceiveOne, Flags
<1>7. ASSUME IsrRxOverflow PROVE ResultOK'
  BY <1>7, Sole, SentOwn DEF IsrRxOverflow, ReceiveOne, Flags
<1>8. ASSUME ReadTake \/ ReadPut \/ UNCHANGED vars PROVE ResultOK'
  BY <1>8 DEF ReadTake, ReadPut, vars
<1> QED BY <1>1, <1>2, <1>3, <1>4, <1>5, <1>6, <1>7, <1>8 DEF Next


(* No frame that could be credited is reported lost.                       *)
LEMMA StepCredit ==
  ASSUME IInv, [Next]_vars
  PROVE  CreditOK'
<1> USE DEF IInv, TypesOK, FrameOK, ResultOK, CreditOK, Ended, Sent, Sending
<1> USE DEF txVars, boxVars, waitVars, txHistory, rxVars, rxHistory, busVars, otherVars
<1>1. ASSUME NEW w \in Writers, Write(w) \/ Writer(w) \/ TimerExpires(w)
      PROVE  CreditOK'
  <2> USE DEF ThreadsRun, Enabled
  <2>1. \A v \in Writers \ {w} : wpc'[v] = wpc[v] \/ wpc'[v] = "box"
    BY <1>1, OthersStay
  <2>2. w \in Owners => \A v \in Writers \ {w} : v \notin Owners
    BY Sole
  <2>3. CASE Write(w)
    BY <2>1, <2>2, <2>3, SentOwn DEF Write, Goto
  <2>4. CASE Take(w)
    BY <2>1, <2>2, <2>4, SentOwn DEF Take, Goto
  <2>5. CASE TakeBox(w)
    BY <2>1, <2>2, <2>5, SentOwn DEF TakeBox, Goto
  <2>6. CASE InitCompletion(w)
    BY <2>1, <2>2, <2>6, SentOwn DEF InitCompletion, Goto
  <2>7. CASE Send(w)
    BY <2>1, <2>2, <2>7, SentOwn DEF Send, Goto
  <2>8. CASE SetChange(w)
    BY <2>1, <2>2, <2>8, SentOwn DEF SetChange, Goto
  <2>9. CASE Wait(w)
    BY <2>1, <2>2, <2>9, SentOwn DEF Wait, Goto
  <2>10. CASE TimerExpires(w)
    BY <2>1, <2>2, <2>10, SentOwn DEF TimerExpires, Goto
  <2>11. CASE LeaveWait(w)
    BY <2>1, <2>2, <2>11, SentOwn DEF LeaveWait, Goto
  <2>12. CASE Refuse(w)
    BY <2>1, <2>2, <2>12, LeaverGoes, SentOwn DEF Refuse
  <2>13. CASE GiveUp(w)
    BY <2>1, <2>2, <2>13, LeaverGoes, SentOwn DEF GiveUp
  <2>14. CASE Collect(w)
    BY <2>1, <2>2, <2>14, LeaverGoes, SentOwn DEF Collect
  <2> QED BY <1>1, <2>3, <2>4, <2>5, <2>6, <2>7, <2>8, <2>9, <2>10,
             <2>11, <2>12, <2>13, <2>14 DEF Writer
<1>2. ASSUME FrameGoesOut PROVE CreditOK'
  BY <1>2, Sole, SentOwn DEF FrameGoesOut, Flags
<1>3. ASSUME FrameArrives PROVE CreditOK'
  BY <1>3, Sole, SentOwn DEF FrameArrives, Flags
<1>4. ASSUME IsrReadStatus PROVE CreditOK'
  BY <1>4, Sole, SentOwn DEF IsrReadStatus, Flags
<1>5. ASSUME IsrTxDone PROVE CreditOK'
  BY <1>5, Sole, SentOwn DEF IsrTxDone, Flags
<1>6. ASSUME IsrRxInd PROVE CreditOK'
  BY <1>6, Sole, SentOwn DEF IsrRxInd, ReceiveOne, Flags
<1>7. ASSUME IsrRxOverflow PROVE CreditOK'
  BY <1>7, Sole, SentOwn DEF IsrRxOverflow, ReceiveOne, Flags
<1>8. ASSUME ReadTake \/ ReadPut \/ UNCHANGED vars PROVE CreditOK'
  BY <1>8 DEF ReadTake, ReadPut, vars
<1> QED BY <1>1, <1>2, <1>3, <1>4, <1>5, <1>6, <1>7, <1>8 DEF Next

-----------------------------------------------------------------------------
(* The theorems.                                                           *)

(* No writer has called yet.                                               *)
LEMMA InitInvariant == Init => IInv
<1> SUFFICES ASSUME Init PROVE IInv
  OBVIOUS
<1>1. Owners = {} /\ \A w \in Writers : wpc[w] = "idle"
  BY DEF Init, Owners
<1>2. TypesOK
  BY EmptySeq DEF Init, TypesOK, Steps, Answers
<1>3. Len(semQueue) = 0
  BY DEF Init
<1>4. TokensOK
  BY <1>1, <1>3 DEF Init, TokensOK, OneOwner, QueueOK, BoxOK
<1>5. FrameOK /\ ResultOK /\ CreditOK
  BY <1>1 DEF Init, FrameOK, ResultOK, CreditOK, Ended, Sent, Sending
<1> QED BY <1>2, <1>4, <1>5 DEF IInv

(* Every step keeps the invariant.                                         *)
LEMMA StepInvariant == IInv /\ [Next]_vars => IInv'
BY StepTypes, StepTokens, StepFrame, StepResult, StepCredit DEF IInv

(* All boxes are free at first.                                            *)
LEMMA InitLists == Init => ListsOK
<1> SUFFICES ASSUME Init PROVE ListsOK
  OBVIOUS
<1>1. /\ free = MsgBoxes /\ freenumbers = MsgBoxes /\ arrived = 0
      /\ uselist = <<>> /\ held = <<>> /\ hwFifo = <<>>
  BY DEF Init
<1>2. <<>> \in Seq(Nat) /\ Len(<<>>) = 0
  BY EmptySeq
<1>3. MsgBoxes \in Nat
  BY CanConstantsOK DEF CanConstantsOK
<1> QED BY <1>1, <1>2, <1>3 DEF ListsOK

(* A received frame finds a box, and none is lost or made.                 *)
LEMMA StoreKeeps ==
  ASSUME ListsOK, NEW f \in Nat, NEW n, Store(f, n), UNCHANGED held
  PROVE  /\ free' \in Nat /\ uselist' \in Seq(Nat) /\ freenumbers' = free'
         /\ free' + Len(uselist') + Len(held') = MsgBoxes
<1>1. CASE free > 0
  <2>1. free' = free - 1 /\ freenumbers' = freenumbers - 1 /\ uselist' = Append(uselist, f)
    BY <1>1 DEF Store, ListsOK
  <2>2. uselist' \in Seq(Nat) /\ Len(uselist') = Len(uselist) + 1
    BY <2>1, AppendProperties DEF ListsOK
  <2> QED BY <1>1, <2>1, <2>2, LenProperties DEF ListsOK
<1>2. CASE free = 0 /\ uselist # <<>>
  <2>1. free' = free /\ freenumbers' = freenumbers /\ uselist' = Append(Tail(uselist), f)
    BY <1>2 DEF Store
  <2>2. Tail(uselist) \in Seq(Nat) /\ Len(Tail(uselist)) = Len(uselist) - 1
    BY <1>2, HeadTailProperties DEF ListsOK
  <2>3. uselist' \in Seq(Nat) /\ Len(uselist') = Len(Tail(uselist)) + 1
    BY <2>1, <2>2, AppendProperties
  <2> QED BY <2>1, <2>2, <2>3, LenProperties DEF ListsOK
<1>3. CASE free = 0 /\ uselist = <<>>
  <2>1. free' = free /\ freenumbers' = freenumbers /\ uselist' = uselist
    BY <1>3 DEF Store
  <2> QED BY <2>1 DEF ListsOK
<1> QED BY <1>1, <1>2, <1>3 DEF ListsOK

(* Every step keeps the receive boxes.                                     *)
LEMMA StepLists == ListsOK /\ [Next]_vars => ListsOK'
<1> SUFFICES ASSUME ListsOK, [Next]_vars PROVE ListsOK'
  OBVIOUS
<1>1. ASSUME NEW n, ReceiveOne(n), UNCHANGED <<held, arrived>> PROVE ListsOK'
  <2>1. CASE hwFifo = <<>>
    BY <1>1, <2>1 DEF ReceiveOne, ListsOK
  <2>2. CASE hwFifo # <<>>
    <3>1. hwFifo' = Tail(hwFifo) /\ Store(Head(hwFifo), n)
      BY <1>1, <2>2 DEF ReceiveOne
    <3>2. Head(hwFifo) \in Nat /\ Tail(hwFifo) \in Seq(Nat)
      BY <2>2, HeadTailProperties DEF ListsOK
    <3>3. /\ free' \in Nat /\ uselist' \in Seq(Nat) /\ freenumbers' = free'
          /\ free' + Len(uselist') + Len(held') = MsgBoxes
      BY <1>1, <3>1, <3>2, StoreKeeps
    <3> QED BY <1>1, <3>1, <3>2, <3>3 DEF ListsOK
  <2> QED BY <2>1, <2>2
<1>2. ASSUME IsrRxInd PROVE ListsOK'
  BY <1>1, <1>2 DEF IsrRxInd
<1>3. ASSUME IsrRxOverflow PROVE ListsOK'
  BY <1>1, <1>3 DEF IsrRxOverflow
<1>4. ASSUME FrameArrives PROVE ListsOK'
  <2>1. arrived' = arrived + 1 /\ arrived' \in Nat /\ UNCHANGED rxVars
    BY <1>4 DEF FrameArrives, ListsOK
  <2>2. CASE Len(hwFifo) < HwDepth
    <3>1. hwFifo' = Append(hwFifo, arrived + 1)
      BY <1>4, <2>2 DEF FrameArrives
    <3>2. hwFifo \in Seq(Nat) /\ arrived + 1 \in Nat
      BY <2>1 DEF ListsOK
    <3>3. hwFifo' \in Seq(Nat)
      BY <3>1, <3>2, AppendProperties
    <3> QED BY <2>1, <3>3 DEF ListsOK, rxVars
  <2>3. CASE ~(Len(hwFifo) < HwDepth)
    <3>1. hwFifo' = hwFifo
      BY <1>4, <2>3 DEF FrameArrives
    <3> QED BY <2>1, <3>1 DEF ListsOK, rxVars
  <2> QED BY <2>2, <2>3
<1>5. ASSUME ReadTake PROVE ListsOK'
  <2>1. /\ Head(uselist) \in Nat /\ Tail(uselist) \in Seq(Nat)
        /\ Len(Tail(uselist)) = Len(uselist) - 1 /\ Len(uselist) \in Nat
    BY <1>5, HeadTailProperties, LenProperties DEF ReadTake, ListsOK
  <2>2. held' \in Seq(Nat) /\ Len(held') = 1 /\ Len(held) = 0
    BY <1>5, <2>1 DEF ReadTake
  <2> QED BY <1>5, <2>1, <2>2 DEF ReadTake, ListsOK, busVars
<1>6. ASSUME ReadPut PROVE ListsOK'
  <2>1. Len(held) = 1
    <3>1. held \in Seq(Nat) /\ held # <<>> /\ Len(held) <= 1
      BY <1>6 DEF ReadPut, ListsOK
    <3>2. Len(Tail(held)) = Len(held) - 1 /\ Tail(held) \in Seq(Nat)
      BY <3>1, HeadTailProperties
    <3>3. Len(Tail(held)) \in Nat /\ Len(held) \in Nat
      BY <3>1, <3>2, LenProperties
    <3> QED BY <3>1, <3>2, <3>3
  <2>2. held' \in Seq(Nat) /\ Len(held') = 0
    BY <1>6 DEF ReadPut
  <2> QED BY <1>6, <2>1, <2>2 DEF ReadPut, ListsOK, busVars
<1>7. ASSUME \/ \E w \in Writers : Write(w) \/ Writer(w) \/ TimerExpires(w)
             \/ FrameGoesOut \/ IsrReadStatus \/ IsrTxDone \/ UNCHANGED vars
      PROVE  ListsOK'
  <2>1. UNCHANGED <<free, freenumbers, uselist, held, hwFifo, arrived>>
    BY <1>7 DEF Writer, Write, Take, TakeBox, InitCompletion, Refuse, Send, SetChange,
                Wait, TimerExpires, LeaveWait, GiveUp, Collect, FrameGoesOut,
                IsrReadStatus, IsrTxDone, vars, otherVars, rxVars, busVars
  <2> QED BY <2>1 DEF ListsOK
<1> QED BY <1>2, <1>3, <1>4, <1>5, <1>6, <1>7 DEF Next

-----------------------------------------------------------------------------
(* What the reader gets, and what is lost.                                 *)

Frames == 1 .. MaxFrames

(* Frames are numbers of frames that have come.                            *)
CountsOK ==
  /\ arrived \in 0 .. MaxFrames
  /\ hwFifo \in Seq(Frames) /\ uselist \in Seq(Frames) /\ held \in Seq(Frames)
  /\ Len(hwFifo) <= HwDepth
  /\ dropped \in Nat /\ given \in Nat /\ merged \in Nat /\ last \in Nat
  /\ merged <= arrived /\ last <= arrived
  /\ inOrder \in BOOLEAN /\ hushed \in BOOLEAN

(* From the reader over the boxes to the FIFO frames stand in the order    *)
(* they came in.                                                           *)
Rising(s) == \A i, j \in 1 .. Len(s) : i < j => s[i] < s[j]
Before(s, t) == \A i \in 1 .. Len(s), j \in 1 .. Len(t) : s[i] < t[j]
Within(s, low, high) == \A i \in 1 .. Len(s) : low < s[i] /\ s[i] <= high

OrderOK ==
  /\ inOrder
  /\ Rising(hwFifo) /\ Rising(uselist)
  /\ Before(held, uselist) /\ Before(held, hwFifo) /\ Before(uselist, hwFifo)
  /\ Within(held, last, arrived) /\ Within(uselist, last, arrived)
  /\ Within(hwFifo, last, arrived)

(* A loss is counted, or its flag waits to be counted, once or more often; *)
(* or the flag was cleared unseen.                                         *)
Flagged(set, flag) == IF flag \in set THEN 1 ELSE 0

LossOK ==
  /\ dropped + Flagged(ir, "RF0L") + Flagged(status, "RF0L") <= Gone
  /\ Gone > 0 => hushed \/ dropped > 0 \/ "RF0L" \in ir \/ "RF0L" \in status

(* For each frame in the FIFO a flag is up, but for those that found it so;*)
(* while the FIFO is full one is, and a loss never waits without one.      *)
FlagOK ==
  /\ Len(hwFifo) <= merged + Flagged(ir, "RF0N") + Flagged(status, "RF0N")
  /\ Len(hwFifo) = HwDepth => "RF0N" \in ir \/ "RF0N" \in status
  /\ "RF0L" \in ir => "RF0N" \in ir \/ ("RF0N" \in status /\ hwFifo # <<>>)

RxInv == ListsOK /\ CountsOK /\ OrderOK /\ LossOK /\ FlagOK

LEMMA FlaggedType ==
  ASSUME NEW set, NEW flag
  PROVE  /\ Flagged(set, flag) \in 0 .. 1
         /\ Flagged(set, flag) = 1 <=> flag \in set
         /\ Flagged(set, flag) = 0 <=> flag \notin set
BY DEF Flagged

(* What Head, Tail and Append make of a list of frames.                    *)
LEMMA TailFacts ==
  ASSUME NEW s \in Seq(Frames), s # <<>>
  PROVE  /\ Head(s) \in Frames /\ Head(s) = s[1] /\ 1 \in 1 .. Len(s)
         /\ Tail(s) \in Seq(Frames) /\ Len(s) \in Nat \ {0} /\ Len(Tail(s)) = Len(s) - 1
         /\ \A i \in 1 .. Len(Tail(s)) :
              i \in Nat /\ i + 1 \in 1 .. Len(s) /\ Tail(s)[i] = s[i + 1]
<1>1. Len(s) \in Nat \ {0} /\ Len(Tail(s)) = Len(s) - 1
  BY HeadTailProperties, EmptySeq, LenProperties
<1>2. Head(s) \in Frames /\ Tail(s) \in Seq(Frames)
  BY HeadTailProperties
<1>3. \A i \in 1 .. Len(Tail(s)) : Tail(s)[i] = s[i + 1]
  BY HeadTailProperties, <1>1
<1> QED BY <1>1, <1>2, <1>3

LEMMA AppendFacts ==
  ASSUME NEW s \in Seq(Frames), NEW e \in Frames
  PROVE  /\ Append(s, e) \in Seq(Frames) /\ Len(s) \in Nat
         /\ Len(Append(s, e)) = Len(s) + 1
         /\ \A i \in 1 .. Len(Append(s, e)) :
              \/ i \in 1 .. Len(s) /\ Append(s, e)[i] = s[i]
              \/ i = Len(s) + 1 /\ Append(s, e)[i] = e
<1>1. /\ Append(s, e) \in Seq(Frames) /\ Len(s) \in Nat
      /\ Len(Append(s, e)) = Len(s) + 1
      /\ Append(s, e)[Len(s) + 1] = e
      /\ \A i \in 1 .. Len(s) : Append(s, e)[i] = s[i]
  BY AppendProperties, LenProperties
<1> QED BY <1>1

LEMMA FrameType ==
  ASSUME NEW s \in Seq(Frames)
  PROVE  Len(s) \in Nat /\ \A i \in 1 .. Len(s) : s[i] \in Nat
<1>1. \A i \in 1 .. Len(s) : s[i] \in Frames
  BY ElementOfSeq
<1> QED BY <1>1, LenProperties DEF Frames

(* A list without its head keeps its order, and stands behind the head.    *)
LEMMA TailOrder ==
  ASSUME NEW s \in Seq(Frames), s # <<>>, Rising(s)
  PROVE  Rising(Tail(s)) /\ Within(Tail(s), Head(s), MaxFrames)
<1> DEFINE t == Tail(s)
           h == Head(s)
<1>1. /\ h = s[1] /\ 1 \in 1 .. Len(s) /\ t \in Seq(Frames)
      /\ \A i \in 1 .. Len(t) : i \in Nat /\ i + 1 \in 1 .. Len(s) /\ t[i] = s[i + 1]
  BY TailFacts
<1>2. \A i \in 1 .. Len(t) : t[i] \in Frames
  BY <1>1, ElementOfSeq
<1> HIDE DEF t, h
<1>3. Rising(t)
  BY <1>1 DEF Rising
<1>4. Within(t, h, MaxFrames)
  <2> SUFFICES ASSUME NEW i \in 1 .. Len(t) PROVE h < t[i] /\ t[i] <= MaxFrames
    BY DEF Within
  <2>1. i \in Nat /\ i + 1 \in 1 .. Len(s) /\ t[i] = s[i + 1] /\ 1 < i + 1
    BY <1>1
  <2>2. s[1] < s[i + 1]
    BY <1>1, <2>1 DEF Rising
  <2> QED BY <1>1, <1>2, <2>1, <2>2, CanConstantsOK DEF Frames, CanConstantsOK
<1> QED BY <1>3, <1>4 DEF t, h

LEMMA TailBefore ==
  ASSUME NEW s \in Seq(Frames), s # <<>>, NEW t \in Seq(Frames), Before(s, t)
  PROVE  Before(Tail(s), t) /\ \A j \in 1 .. Len(t) : Head(s) < t[j]
BY TailFacts DEF Before

LEMMA BeforeTail ==
  ASSUME NEW s \in Seq(Frames), NEW t \in Seq(Frames), t # <<>>, Before(s, t)
  PROVE  Before(s, Tail(t)) /\ \A i \in 1 .. Len(s) : s[i] < Head(t)
BY TailFacts DEF Before

LEMMA TailWithin ==
  ASSUME NEW s \in Seq(Frames), s # <<>>, NEW low, NEW high, Within(s, low, high)
  PROVE  Within(Tail(s), low, high) /\ low < Head(s) /\ Head(s) <= high
BY TailFacts DEF Within

(* A list with a later frame at its end keeps its order.                   *)
LEMMA AppendOrder ==
  ASSUME NEW s \in Seq(Frames), NEW e \in Frames, Rising(s),
         \A i \in 1 .. Len(s) : s[i] < e
  PROVE  Rising(Append(s, e))
<1> DEFINE t == Append(s, e)
<1>1. /\ Len(s) \in Nat /\ Len(t) = Len(s) + 1
      /\ \A i \in 1 .. Len(t) : \/ i \in 1 .. Len(s) /\ t[i] = s[i]
                                \/ i = Len(s) + 1 /\ t[i] = e
  BY AppendFacts
<1> HIDE DEF t
<1>2. ASSUME NEW i \in 1 .. Len(t), NEW j \in 1 .. Len(t), i < j PROVE t[i] < t[j]
  <2>1. i \in 1 .. Len(s) /\ t[i] = s[i]
    BY <1>1, <1>2
  <2>2. CASE j \in 1 .. Len(s) /\ t[j] = s[j]
    BY <1>2, <2>1, <2>2 DEF Rising
  <2>3. CASE j = Len(s) + 1 /\ t[j] = e
    BY <2>1, <2>3
  <2> QED BY <1>1, <2>2, <2>3
<1> QED BY <1>2 DEF Rising, t

LEMMA AppendBefore ==
  ASSUME NEW s \in Seq(Frames), NEW e \in Frames, NEW t \in Seq(Frames), Before(s, t),
         \A j \in 1 .. Len(t) : e < t[j]
  PROVE  Before(Append(s, e), t)
BY AppendFacts DEF Before

LEMMA BeforeAppend ==
  ASSUME NEW s \in Seq(Frames), NEW t \in Seq(Frames), NEW e \in Frames, Before(s, t),
         \A i \in 1 .. Len(s) : s[i] < e
  PROVE  Before(s, Append(t, e))
BY AppendFacts DEF Before

LEMMA AppendWithin ==
  ASSUME NEW s \in Seq(Frames), NEW e \in Frames, NEW low, NEW high,
         Within(s, low, high), low < e, e <= high
  PROVE  Within(Append(s, e), low, high)
BY AppendFacts DEF Within

(* Nothing has come yet.                                                   *)
LEMMA InitRx == Init => RxInv
<1> SUFFICES ASSUME Init PROVE RxInv
  OBVIOUS
<1>1. /\ hwFifo = <<>> /\ uselist = <<>> /\ held = <<>> /\ arrived = 0 /\ given = 0
      /\ dropped = 0 /\ merged = 0 /\ last = 0 /\ inOrder = TRUE /\ hushed = FALSE
      /\ ir = {} /\ status = {}
  BY DEF Init
<1>2. <<>> \in Seq(Frames) /\ Len(<<>>) = 0
  BY EmptySeq
<1>3. CountsOK
  <2>1. 0 \in 0 .. MaxFrames /\ 0 <= HwDepth
    BY CanConstantsOK DEF CanConstantsOK
  <2>2. Len(hwFifo) <= HwDepth
    BY <1>1, <1>2, <2>1
  <2>3. merged <= arrived /\ last <= arrived
    BY <1>1
  <2>4. hwFifo \in Seq(Frames) /\ uselist \in Seq(Frames) /\ held \in Seq(Frames)
    BY <1>1, <1>2
  <2> QED BY <1>1, <2>1, <2>2, <2>3, <2>4 DEF CountsOK
<1>4. OrderOK
  BY <1>1, <1>2 DEF OrderOK, Rising, Before, Within
<1>5. Gone = 0
  <2>1. Len(hwFifo) = 0 /\ Len(uselist) = 0 /\ Len(held) = 0
    BY <1>1, <1>2
  <2>2. arrived = 0 /\ given = 0
    BY <1>1
  <2> QED BY <2>1, <2>2 DEF Gone
<1>6. LossOK
  BY <1>1, <1>5 DEF LossOK, Flagged
<1>7. FlagOK
  BY <1>1, <1>2, CanConstantsOK DEF FlagOK, Flagged, CanConstantsOK
<1> QED BY <1>3, <1>4, <1>6, <1>7, InitLists DEF RxInv

(* The lengths that Gone counts.                                           *)
LEMMA GoneType ==
  ASSUME RxInv
  PROVE  /\ Len(hwFifo) \in Nat /\ Len(uselist) \in Nat /\ Len(held) \in 0 .. 1
         /\ arrived \in Nat /\ given \in Nat /\ Gone \in Int
<1>1. Len(hwFifo) \in Nat /\ Len(uselist) \in Nat /\ Len(held) \in Nat
  BY LenProperties DEF RxInv, CountsOK
<1>2. Len(held) <= 1 /\ arrived \in Nat /\ given \in Nat
  BY DEF RxInv, ListsOK, CountsOK
<1> QED BY <1>1, <1>2 DEF Gone

(* One frame goes from the FIFO to a box. If it takes the box of an older  *)
(* one, that one is counted; there is always a box, for the reader holds   *)
(* one at most.                                                            *)
LEMMA StoreOrder ==
  ASSUME RxInv, NEW n \in Nat, hwFifo # <<>>, hwFifo' = Tail(hwFifo),
         Store(Head(hwFifo), n), UNCHANGED <<held, arrived, given, last, inOrder, merged>>
  PROVE  /\ hwFifo' \in Seq(Frames) /\ uselist' \in Seq(Frames)
         /\ Len(hwFifo) \in Nat \ {0} /\ Len(hwFifo') = Len(hwFifo) - 1
         /\ OrderOK'
         /\ \/ dropped' = n /\ Gone' = Gone
            \/ dropped' = n + 1 /\ Gone' = Gone + 1
<1> USE DEF RxInv
<1> DEFINE f == Head(hwFifo)
           u == uselist
           h == hwFifo
<1>1. h \in Seq(Frames) /\ u \in Seq(Frames) /\ held \in Seq(Frames)
  BY DEF CountsOK
<1>2. /\ f \in Frames /\ hwFifo' \in Seq(Frames)
      /\ Len(h) \in Nat \ {0} /\ Len(hwFifo') = Len(h) - 1
  BY <1>1, TailFacts
<1>3. Rising(hwFifo') /\ Within(hwFifo', f, MaxFrames)
  BY <1>1, TailOrder DEF OrderOK
<1>4. Before(u, hwFifo') /\ \A i \in 1 .. Len(u) : u[i] < f
  BY <1>1, BeforeTail DEF OrderOK
<1>5. Before(held, hwFifo') /\ \A i \in 1 .. Len(held) : held[i] < f
  BY <1>1, BeforeTail DEF OrderOK
<1>6. Within(hwFifo', last, arrived) /\ last < f /\ f <= arrived
  BY <1>1, TailWithin DEF OrderOK
<1>7. \A j \in 1 .. Len(hwFifo') : f < hwFifo'[j]
  BY <1>3 DEF Within
<1> HIDE DEF f
<1>8. ASSUME NEW t \in Seq(Frames), uselist' = Append(t, f), Rising(t), Before(held, t),
             Before(t, hwFifo'), Within(t, last, arrived), \A i \in 1 .. Len(t) : t[i] < f
      PROVE  /\ uselist' \in Seq(Frames) /\ Len(uselist') = Len(t) + 1 /\ Len(t) \in Nat
             /\ OrderOK'
  <2>1. uselist' \in Seq(Frames) /\ Len(uselist') = Len(t) + 1 /\ Len(t) \in Nat
    BY <1>2, <1>8, AppendFacts
  <2>2. Rising(uselist')
    BY <1>2, <1>8, AppendOrder
  <2>3. Before(uselist', hwFifo')
    BY <1>2, <1>7, <1>8, AppendBefore
  <2>4. Before(held, uselist')
    BY <1>1, <1>2, <1>5, <1>8, BeforeAppend
  <2>5. Within(uselist', last, arrived)
    BY <1>2, <1>6, <1>8, AppendWithin
  <2>6. /\ inOrder' /\ Before(held', uselist') /\ Before(held', hwFifo')
        /\ Within(held', last', arrived') /\ Within(uselist', last', arrived')
        /\ Within(hwFifo', last', arrived')
    BY <1>5, <1>6, <2>4, <2>5 DEF OrderOK
  <2>7. OrderOK'
    BY <1>3, <2>2, <2>3, <2>6 DEF OrderOK, Rising, Before, Within
  <2> QED BY <2>1, <2>7
<1>9. /\ Len(u) \in Nat /\ Len(held) \in 0 .. 1 /\ free \in Nat
      /\ free + Len(u) + Len(held) = MsgBoxes /\ arrived \in Nat /\ given \in Nat
  BY GoneType DEF ListsOK
<1>10. CASE free > 0
  <2>1. uselist' = Append(u, f) /\ dropped' = n
    BY <1>9, <1>10 DEF Store, f
  <2>2. uselist' \in Seq(Frames) /\ Len(uselist') = Len(u) + 1 /\ OrderOK'
    BY <1>1, <1>4, <1>8, <2>1 DEF OrderOK
  <2>3. Gone' = Gone
    BY <1>2, <1>9, <2>2 DEF Gone
  <2> QED BY <1>2, <2>1, <2>2, <2>3
<1>11. CASE free = 0
  <2>1. u # <<>>
    <3>1. Len(u) # 0
      <4>1. MsgBoxes \in Nat /\ MsgBoxes > 1
        BY CanConstantsOK DEF CanConstantsOK
      <4>2. 0 + Len(u) + Len(held) = MsgBoxes
        BY <1>9, <1>11
      <4> DEFINE m == Len(u)
                 k == Len(held)
      <4>3. m \in Nat /\ k \in 0 .. 1 /\ 0 + m + k = MsgBoxes
        BY <1>9, <4>2
      <4> HIDE DEF m, k
      <4>4. m # 0
        BY <4>1, <4>3
      <4> QED BY <4>4 DEF m
    <3>2. Len(<<>>) = 0
      BY EmptySeq
    <3> QED BY <3>1, <3>2
  <2>2. uselist' = Append(Tail(u), f) /\ dropped' = n + 1
    BY <1>11, <2>1 DEF Store, f
  <2>3. /\ Tail(u) \in Seq(Frames) /\ Len(Tail(u)) = Len(u) - 1
        /\ \A i \in 1 .. Len(Tail(u)) : i + 1 \in 1 .. Len(u) /\ Tail(u)[i] = u[i + 1]
    BY <1>1, <2>1, TailFacts
  <2>4. Rising(Tail(u))
    BY <1>1, <2>1, TailOrder DEF OrderOK
  <2>5. Before(held, Tail(u))
    BY <1>1, <2>1, BeforeTail DEF OrderOK
  <2>6. Before(Tail(u), hwFifo')
    BY <1>1, <1>2, <1>4, <2>1, TailBefore
  <2>7. Within(Tail(u), last, arrived)
    BY <1>1, <2>1, TailWithin DEF OrderOK
  <2>8. \A i \in 1 .. Len(Tail(u)) : Tail(u)[i] < f
    BY <1>4, <2>3
  <2>9. uselist' \in Seq(Frames) /\ Len(uselist') = Len(Tail(u)) + 1 /\ OrderOK'
    BY <1>8, <2>2, <2>3, <2>4, <2>5, <2>6, <2>7, <2>8
  <2>10. Gone' = Gone + 1
    BY <1>2, <1>9, <2>3, <2>9 DEF Gone
  <2> QED BY <1>2, <2>2, <2>9, <2>10
<1> QED BY <1>9, <1>10, <1>11

(* What recvmsg does, all in all.                                          *)
LEMMA Received ==
  ASSUME RxInv, NEW n \in Nat, ReceiveOne(n),
         UNCHANGED <<held, arrived, given, last, inOrder, merged>>
  PROVE  /\ CountsOK' /\ OrderOK'
         /\ \/ /\ hwFifo = <<>> /\ hwFifo' = <<>> /\ ir' = ir /\ hushed' = hushed
               /\ dropped' = n /\ Gone' = Gone
            \/ /\ Len(hwFifo) \in Nat \ {0} /\ Len(hwFifo') = Len(hwFifo) - 1
               /\ ir' = ir \ {"RF0L"} /\ (hushed \/ "RF0L" \in ir => hushed')
               /\ \/ dropped' = n /\ Gone' = Gone
                  \/ dropped' = n + 1 /\ Gone' = Gone + 1
<1>1. CASE hwFifo = <<>>
  <2>1. dropped' = n /\ UNCHANGED <<ir, hwFifo, hushed, free, freenumbers, uselist>>
    BY <1>1 DEF ReceiveOne
  <2>2. CountsOK' /\ OrderOK'
    BY <2>1 DEF RxInv, CountsOK, OrderOK, Rising, Before, Within
  <2>3. Gone' = Gone
    BY <2>1 DEF Gone
  <2> QED BY <1>1, <2>1, <2>2, <2>3
<1>2. CASE hwFifo # <<>>
  <2>1. /\ hwFifo' = Tail(hwFifo) /\ ir' = ir \ {"RF0L"}
        /\ hushed' = (hushed \/ "RF0L" \in ir) /\ Store(Head(hwFifo), n)
    BY <1>2 DEF ReceiveOne
  <2>2. hushed' \in BOOLEAN /\ (hushed \/ "RF0L" \in ir => hushed')
    BY <2>1, Zenon DEF RxInv, CountsOK
  <2>3. /\ hwFifo' \in Seq(Frames) /\ uselist' \in Seq(Frames)
        /\ Len(hwFifo) \in Nat \ {0} /\ Len(hwFifo') = Len(hwFifo) - 1
        /\ OrderOK'
        /\ \/ dropped' = n /\ Gone' = Gone
           \/ dropped' = n + 1 /\ Gone' = Gone + 1
    BY <1>2, <2>1, StoreOrder
  <2>4. Len(hwFifo') <= HwDepth /\ dropped' \in Nat
    BY <2>3, CanConstantsOK DEF RxInv, CountsOK, CanConstantsOK
  <2>5. CountsOK'
    BY <2>2, <2>3, <2>4 DEF RxInv, CountsOK
  <2> QED BY <2>1, <2>2, <2>3, <2>5
<1> QED BY <1>1, <1>2

(* The arithmetic of flags: a loss counted, or its flag cleared.           *)
LEMMA LossCounted ==
  ASSUME NEW d \in Nat, NEW g \in Int, NEW d2, NEW g2,
         NEW a \in 0 .. 1, NEW b \in 0 .. 1, NEW a2 \in 0 .. 1, NEW c \in 0 .. 1,
         d + a + b <= g, a2 <= a, c <= b,
         \/ d2 = d + c /\ g2 = g
         \/ d2 = d + c + 1 /\ g2 = g + 1
  PROVE  d2 + a2 + (b - c) <= g2 /\ d2 \in Nat /\ d2 >= d /\ (c = 1 => d2 > 0)
         /\ (g2 # g => d2 > 0)
OBVIOUS

(* The handler reads a frame for a flag, and counts a loss for the other.  *)
LEMMA IsrRxKeeps ==
  ASSUME RxInv, IsrRxInd \/ IsrRxOverflow, ListsOK'
  PROVE  RxInv'
<1> DEFINE F(flag) == Flagged(ir, flag)
           G(flag) == Flagged(status, flag)
<1>1. UNCHANGED <<held, arrived, given, last, inOrder, merged>>
  BY DEF IsrRxInd, IsrRxOverflow, readHistory
<1>2. /\ dropped \in Nat /\ Gone \in Int /\ merged \in Nat /\ Len(hwFifo) \in Nat
      /\ HwDepth \in Nat \ {0} /\ Len(hwFifo) <= HwDepth
  BY GoneType, CanConstantsOK DEF RxInv, CountsOK, CanConstantsOK
<1>3. PICK c \in 0 .. 1 :
        /\ ReceiveOne(dropped + c)
        /\ c = 0 => status' = status \ {"RF0N"}
        /\ c = 1 => status = {"RF0L"} /\ status' = {}
  <2>1. CASE IsrRxInd
    <3>1. ReceiveOne(dropped + 0) /\ status' = status \ {"RF0N"}
      BY <1>2, <2>1 DEF IsrRxInd
    <3> QED BY <3>1
  <2>2. CASE IsrRxOverflow
    <3>1. ReceiveOne(dropped + 1) /\ status = {"RF0L"} /\ status' = {}
      BY <2>2 DEF IsrRxOverflow
    <3> QED BY <3>1
  <2> QED BY <2>1, <2>2
<1>4. c \in Nat /\ dropped + c \in Nat
  BY <1>2
<1>5. /\ CountsOK' /\ OrderOK'
      /\ \/ /\ hwFifo = <<>> /\ hwFifo' = <<>> /\ ir' = ir /\ hushed' = hushed
            /\ dropped' = dropped + c /\ Gone' = Gone
         \/ /\ Len(hwFifo) \in Nat \ {0} /\ Len(hwFifo') = Len(hwFifo) - 1
            /\ ir' = ir \ {"RF0L"} /\ (hushed \/ "RF0L" \in ir => hushed')
            /\ \/ dropped' = dropped + c /\ Gone' = Gone
               \/ dropped' = (dropped + c) + 1 /\ Gone' = Gone + 1
  BY <1>1, <1>3, <1>4, Received
<1>6. /\ F("RF0L") \in 0 .. 1 /\ F("RF0N") \in 0 .. 1 /\ G("RF0L") \in 0 .. 1 /\ G("RF0N") \in 0 .. 1
      /\ Flagged(ir', "RF0L") \in 0 .. 1 /\ Flagged(status', "RF0L") \in 0 .. 1
  BY FlaggedType
<1>7. /\ Flagged(status', "RF0L") = G("RF0L") - c /\ c <= G("RF0L")
      /\ Flagged(ir', "RF0L") <= F("RF0L")
      /\ Flagged(ir', "RF0N") = F("RF0N")
  <2>1. Flagged(status', "RF0L") = G("RF0L") - c /\ c <= G("RF0L")
    <3>1. CASE c = 0
      <4>1. "RF0L" \in status' <=> "RF0L" \in status
        BY <1>3, <3>1
      <4>2. Flagged(status', "RF0L") = G("RF0L")
        BY <4>1, Zenon DEF Flagged
      <4> QED BY <1>6, <3>1, <4>2
    <3>2. CASE c = 1
      <4>1. "RF0L" \in status /\ "RF0L" \notin status'
        BY <1>3, <3>2
      <4>2. G("RF0L") = 1 /\ Flagged(status', "RF0L") = 0
        BY <4>1 DEF Flagged
      <4> QED BY <3>2, <4>2
    <3> QED BY <3>1, <3>2
  <2>2. ("RF0L" \in ir' => "RF0L" \in ir) /\ ("RF0N" \in ir' <=> "RF0N" \in ir)
    BY <1>5
  <2>3. Flagged(ir', "RF0N") = F("RF0N")
    BY <2>2, Zenon DEF Flagged
  <2>4. Flagged(ir', "RF0L") <= F("RF0L")
    BY <2>2 DEF Flagged
  <2> QED BY <2>1, <2>3, <2>4
<1>8. LossOK'
  <2>0. dropped + F("RF0L") + G("RF0L") <= Gone
    BY DEF RxInv, LossOK
  <2>1. \/ dropped' = dropped + c /\ Gone' = Gone
        \/ dropped' = dropped + c + 1 /\ Gone' = Gone + 1
    BY <1>5
  <2>2. /\ dropped' + Flagged(ir', "RF0L") + (G("RF0L") - c) <= Gone'
        /\ dropped' \in Nat /\ dropped' >= dropped /\ (c = 1 => dropped' > 0)
        /\ (Gone' # Gone => dropped' > 0)
    <3> DEFINE d == dropped
               g == Gone
               d2 == dropped'
               g2 == Gone'
               a == F("RF0L")
               b == G("RF0L")
               a2 == Flagged(ir', "RF0L")
    <3>1. /\ d \in Nat /\ g \in Int /\ a \in 0 .. 1 /\ b \in 0 .. 1 /\ a2 \in 0 .. 1 /\ c \in 0 .. 1
          /\ d + a + b <= g /\ a2 <= a /\ c <= b
          /\ \/ d2 = d + c /\ g2 = g
             \/ d2 = d + c + 1 /\ g2 = g + 1
      BY <1>2, <1>6, <1>7, <2>0, <2>1
    <3> HIDE DEF d, g, d2, g2, a, b, a2
    <3>2. /\ d2 + a2 + (b - c) <= g2 /\ d2 \in Nat /\ d2 >= d /\ (c = 1 => d2 > 0)
          /\ (g2 # g => d2 > 0)
      BY ONLY <3>1, LossCounted
    <3> QED BY <3>2 DEF d, g, d2, g2, a, b, a2
  <2>3. dropped' + Flagged(ir', "RF0L") + Flagged(status', "RF0L") <= Gone'
    BY <1>7, <2>2
  <2>4. ASSUME Gone' > 0, ~(dropped' > 0)
        PROVE  hushed' \/ "RF0L" \in ir' \/ "RF0L" \in status'
    <3>1. Gone' = Gone /\ c = 0 /\ ~(dropped > 0)
      BY <1>2, <2>2, <2>4
    <3>2. hushed \/ "RF0L" \in ir \/ "RF0L" \in status
      BY <2>4, <3>1 DEF RxInv, LossOK
    <3>3. "RF0L" \in status => "RF0L" \in status'
      BY <1>3, <3>1
    <3>4. hushed => hushed'
      BY <1>5
    <3>5. "RF0L" \in ir => hushed' \/ "RF0L" \in ir'
      BY <1>5
    <3> QED BY <3>2, <3>3, <3>4, <3>5
  <2> QED BY <2>3, <2>4 DEF LossOK
<1>9. FlagOK'
  <2> DEFINE l == Len(hwFifo)
             l2 == Len(hwFifo')
             f == F("RF0N")
             g == G("RF0N")
             g2 == Flagged(status', "RF0N")
  <2>1. (l2 = 0 \/ l2 = l - 1) /\ l2 \in Nat
    <3>1. Len(<<>>) = 0
      BY EmptySeq
    <3>2. l \in Nat
      BY <1>2
    <3> QED BY <1>5, <3>1, <3>2
  <2>2. g2 \in 0 .. 1 /\ f \in 0 .. 1 /\ g \in 0 .. 1
    BY FlaggedType
  <2>3. l <= merged + f + g
    BY DEF RxInv, FlagOK
  <2>4. l2 <= merged + f + g2
    <3>1. g <= 1 /\ merged \in Nat /\ l \in Nat
      BY <1>2, <2>2
    <3> HIDE DEF l, l2, f, g, g2
    <3> QED BY <2>1, <2>2, <2>3, <3>1
  <2>5. Len(hwFifo') <= merged' + Flagged(ir', "RF0N") + Flagged(status', "RF0N")
    BY <1>1, <1>7, <2>4
  <2>6. Len(hwFifo') # HwDepth
    <3>1. l \in Nat /\ l <= HwDepth /\ HwDepth \in Nat \ {0}
      BY <1>2
    <3> HIDE DEF l, l2
    <3>2. l2 # HwDepth
      BY <2>1, <3>1
    <3> QED BY <3>2 DEF l2
  <2>7. "RF0L" \in ir' => "RF0N" \in ir'
    BY <1>5 DEF RxInv, FlagOK
  <2> QED BY <2>5, <2>6, <2>7 DEF FlagOK
<1> QED BY <1>5, <1>8, <1>9 DEF RxInv

(* A frame that finds no place leaves a flag that waits for the reading of *)
(* those it found in its place.                                            *)
LEMMA ArrivesKeeps ==
  ASSUME RxInv, FrameArrives, ListsOK'
  PROVE  RxInv'
<1> USE DEF RxInv
<1>1. /\ arrived < MaxFrames /\ arrived' = arrived + 1
      /\ UNCHANGED <<status, free, freenumbers, uselist, held, dropped, last, given,
                     inOrder, hushed>>
  BY DEF FrameArrives, rxVars, readHistory
<1>2. /\ arrived \in Nat /\ MaxFrames \in Nat /\ last \in Nat /\ merged \in Nat
      /\ last <= arrived /\ merged <= arrived
      /\ hwFifo \in Seq(Frames) /\ uselist \in Seq(Frames) /\ held \in Seq(Frames)
  BY CanConstantsOK DEF CountsOK, CanConstantsOK
<1>3. arrived' \in 0 .. MaxFrames /\ last' <= arrived' /\ arrived + 1 \in Frames
  BY <1>1, <1>2 DEF Frames
<1>4. /\ Len(hwFifo) \in Nat /\ Len(uselist) \in Nat /\ Len(held) \in Nat
      /\ given \in Nat /\ Gone \in Int /\ dropped \in Nat
  BY GoneType DEF CountsOK
<1>5. /\ \A i \in 1 .. Len(hwFifo) : hwFifo[i] \in Nat /\ hwFifo[i] <= arrived
      /\ \A i \in 1 .. Len(uselist) : uselist[i] \in Nat /\ uselist[i] <= arrived
      /\ \A i \in 1 .. Len(held) : held[i] \in Nat /\ held[i] <= arrived
  BY <1>2, FrameType DEF OrderOK, Within
<1>6. /\ \A i \in 1 .. Len(hwFifo) : hwFifo[i] < arrived + 1 /\ hwFifo[i] <= arrived + 1
      /\ \A i \in 1 .. Len(uselist) : uselist[i] < arrived + 1 /\ uselist[i] <= arrived + 1
      /\ \A i \in 1 .. Len(held) : held[i] < arrived + 1 /\ held[i] <= arrived + 1
  BY <1>2, <1>5
<1>7. Within(held, last, arrived + 1) /\ Within(uselist, last, arrived + 1)
      /\ Within(hwFifo, last, arrived + 1)
  BY <1>6 DEF OrderOK, Within
<1>8. CASE Len(hwFifo) < HwDepth
  <2> DEFINE e == arrived + 1
  <2>1. /\ hwFifo' = Append(hwFifo, e) /\ ir' = ir \union {"RF0N"}
        /\ merged' = IF "RF0N" \in ir THEN merged + 1 ELSE merged
    BY <1>8 DEF FrameArrives
  <2>2. hwFifo' \in Seq(Frames) /\ Len(hwFifo') = Len(hwFifo) + 1
    BY <1>2, <1>3, <2>1, AppendFacts
  <2>3. merged' \in Nat /\ merged' <= arrived'
    BY <1>1, <1>2, <2>1
  <2>4. CountsOK'
    <3>1. Len(hwFifo') <= HwDepth
      BY <1>4, <1>8, <2>2, CanConstantsOK DEF CanConstantsOK
    <3> QED BY <1>1, <1>3, <2>2, <2>3, <3>1 DEF CountsOK
  <2>5. OrderOK'
    <3>1. Rising(hwFifo')
      BY <1>2, <1>3, <1>6, <2>1, AppendOrder DEF OrderOK
    <3>2. Before(uselist, hwFifo')
      BY <1>2, <1>3, <1>6, <2>1, BeforeAppend DEF OrderOK
    <3>3. Before(held, hwFifo')
      BY <1>2, <1>3, <1>6, <2>1, BeforeAppend DEF OrderOK
    <3>4. last < e /\ e <= e
      BY <1>2
    <3>5. Within(hwFifo', last, e)
      BY <1>2, <1>3, <1>7, <2>1, <3>4, AppendWithin
    <3>6. /\ Within(hwFifo', last', arrived') /\ Within(uselist', last', arrived')
          /\ Within(held', last', arrived')
      BY <1>1, <1>7, <3>5
    <3>7. Rising(uselist') /\ Before(held', uselist') /\ Before(held', hwFifo')
          /\ Before(uselist', hwFifo') /\ inOrder'
      BY <1>1, <3>2, <3>3 DEF OrderOK
    <3> QED BY <3>1, <3>6, <3>7 DEF OrderOK, Rising, Before, Within
  <2>6. Gone' = Gone
    BY <1>1, <1>2, <1>4, <2>2 DEF Gone
  <2>7. "RF0L" \in ir' <=> "RF0L" \in ir
    BY <2>1
  <2>8. LossOK'
    BY <1>1, <2>6, <2>7 DEF LossOK, Flagged
  <2>9. FlagOK'
    <3> DEFINE g == Flagged(status, "RF0N")
    <3>1. "RF0N" \in ir'
      BY <2>1
    <3>2. Flagged(ir', "RF0N") = 1 /\ Flagged(status', "RF0N") = g /\ g \in 0 .. 1
      BY <1>1, <3>1, FlaggedType DEF Flagged
    <3>3. Len(hwFifo) <= merged + Flagged(ir, "RF0N") + g
      BY DEF FlagOK
    <3>4. Len(hwFifo') <= merged' + 1 + g
      <4>1. CASE "RF0N" \in ir
        <5>1. merged' = merged + 1 /\ Flagged(ir, "RF0N") = 1
          BY <2>1, <4>1 DEF Flagged
        <5> QED BY <1>2, <1>4, <2>2, <3>2, <3>3, <5>1
      <4>2. CASE "RF0N" \notin ir
        <5>1. merged' = merged /\ Flagged(ir, "RF0N") = 0
          BY <2>1, <4>2 DEF Flagged
        <5> QED BY <1>2, <1>4, <2>2, <3>2, <3>3, <5>1
      <4> QED BY <4>1, <4>2
    <3> QED BY <3>1, <3>2, <3>4 DEF FlagOK
  <2> QED BY <2>4, <2>5, <2>8, <2>9
<1>9. CASE ~(Len(hwFifo) < HwDepth)
  <2>1. ir' = ir \union {"RF0L"} /\ UNCHANGED <<hwFifo, merged>>
    BY <1>9 DEF FrameArrives
  <2>2. merged' <= arrived'
    BY <1>1, <1>2, <2>1
  <2>3. CountsOK'
    BY <1>1, <1>3, <2>1, <2>2 DEF CountsOK
  <2>4. OrderOK'
    BY <1>1, <1>7, <2>1 DEF OrderOK, Rising, Before, Within
  <2>5. Gone' = Gone + 1
    BY <1>1, <1>2, <1>4, <2>1 DEF Gone
  <2>6. "RF0L" \in ir' /\ ("RF0N" \in ir' <=> "RF0N" \in ir)
    BY <2>1
  <2>7. LossOK'
    <3> DEFINE b == Flagged(status, "RF0L")
               a == Flagged(ir, "RF0L")
    <3>1. a \in 0 .. 1 /\ b \in 0 .. 1
      BY FlaggedType
    <3>2. dropped + a + b <= Gone
      BY DEF LossOK
    <3>3. Flagged(ir', "RF0L") = 1 /\ Flagged(status', "RF0L") = b
      BY <1>1, <2>6 DEF Flagged
    <3>4. dropped + 1 + b <= Gone + 1
      <4> HIDE DEF a, b
      <4> QED BY <1>4, <3>1, <3>2
    <3>5. dropped' + Flagged(ir', "RF0L") + Flagged(status', "RF0L") <= Gone'
      BY <1>1, <2>5, <3>3, <3>4
    <3> QED BY <2>6, <3>5 DEF LossOK
  <2>8. FlagOK'
    <3>1. Len(hwFifo) = HwDepth /\ hwFifo # <<>>
      <4>1. Len(hwFifo) = HwDepth /\ HwDepth # 0
        BY <1>4, <1>9, CanConstantsOK DEF CountsOK, CanConstantsOK
      <4>2. Len(<<>>) = 0
        BY EmptySeq
      <4> QED BY <4>1, <4>2
    <3>2. Flagged(ir', "RF0N") = Flagged(ir, "RF0N")
      BY <2>6, Zenon DEF Flagged
    <3>3. Len(hwFifo') <= merged' + Flagged(ir', "RF0N") + Flagged(status', "RF0N")
      BY <1>1, <2>1, <3>2 DEF FlagOK
    <3>4. "RF0N" \in ir \/ "RF0N" \in status
      BY <3>1 DEF FlagOK
    <3> QED BY <1>1, <2>1, <2>6, <3>1, <3>3, <3>4 DEF FlagOK
  <2> QED BY <2>3, <2>4, <2>7, <2>8
<1> QED BY <1>8, <1>9

(* The snapshot takes all flags along.                                     *)
LEMMA ReadStatusKeeps ==
  ASSUME RxInv, IsrReadStatus, ListsOK'
  PROVE  RxInv'
<1> USE DEF RxInv
<1>1. /\ status = {} /\ status' = ir /\ ir' = {}
      /\ UNCHANGED <<arrived, hwFifo, free, freenumbers, uselist, held, dropped, last,
                     given, inOrder, merged, hushed>>
  BY DEF IsrReadStatus, rxVars, rxHistory, readHistory
<1>2. CountsOK' /\ OrderOK'
  BY <1>1 DEF CountsOK, OrderOK, Rising, Before, Within
<1>3. Gone' = Gone
  BY <1>1 DEF Gone
<1>4. \A flag : /\ Flagged(ir', flag) = 0 /\ Flagged(status, flag) = 0
                /\ Flagged(status', flag) = Flagged(ir, flag)
  BY <1>1 DEF Flagged
<1>5. LossOK'
  <2>1. dropped + Flagged(ir, "RF0L") + 0 <= Gone
    BY <1>4 DEF LossOK
  <2>2. dropped + 0 + Flagged(ir, "RF0L") <= Gone
    BY <2>1, GoneType, FlaggedType DEF CountsOK
  <2>3. dropped' + Flagged(ir', "RF0L") + Flagged(status', "RF0L") <= Gone'
    BY <1>1, <1>3, <1>4, <2>2
  <2> QED BY <1>1, <1>3, <2>3 DEF LossOK
<1>6. FlagOK'
  <2>1. Len(hwFifo) <= merged + Flagged(ir, "RF0N") + 0
    BY <1>4 DEF FlagOK
  <2>2. Len(hwFifo) <= merged + 0 + Flagged(ir, "RF0N")
    BY <2>1, GoneType, FlaggedType DEF CountsOK
  <2>3. Len(hwFifo') <= merged' + Flagged(ir', "RF0N") + Flagged(status', "RF0N")
    BY <1>1, <1>4, <2>2
  <2> QED BY <1>1, <2>3 DEF FlagOK
<1> QED BY <1>2, <1>5, <1>6

(* The reader takes the oldest frame there is.                             *)
LEMMA ReadTakeKeeps ==
  ASSUME RxInv, ReadTake, ListsOK'
  PROVE  RxInv'
<1> USE DEF RxInv
<1> DEFINE f == Head(uselist)
<1>1. /\ uselist # <<>> /\ held = <<>> /\ held' = <<f>> /\ uselist' = Tail(uselist)
      /\ UNCHANGED <<arrived, hwFifo, ir, status, dropped, last, given, inOrder, merged, hushed>>
  BY DEF ReadTake, busVars, rxHistory, readHistory
<1>2. uselist \in Seq(Frames) /\ hwFifo \in Seq(Frames)
  BY DEF CountsOK
<1>3. f \in Frames /\ uselist' \in Seq(Frames) /\ Len(uselist) \in Nat /\ Len(uselist') = Len(uselist) - 1
  BY <1>1, <1>2, TailFacts
<1>4. held' \in Seq(Frames) /\ Len(held') = 1 /\ Len(held) = 0 /\ held'[1] = f
  <2> HIDE DEF f
  <2>1. Len(<<>>) = 0
    BY EmptySeq
  <2> QED BY <1>1, <1>3, <2>1
<1>5. Rising(uselist') /\ Within(uselist', f, MaxFrames)
  BY <1>1, <1>2, TailOrder DEF OrderOK
<1>6. Before(uselist', hwFifo) /\ \A j \in 1 .. Len(hwFifo) : f < hwFifo[j]
  BY <1>1, <1>2, TailBefore DEF OrderOK
<1>7. Within(uselist', last, arrived) /\ last < f /\ f <= arrived
  BY <1>1, <1>2, TailWithin DEF OrderOK
<1> HIDE DEF f
<1>8. \A i \in 1 .. Len(held') : held'[i] = f
  BY <1>4
<1>9. Before(held', uselist') /\ Before(held', hwFifo) /\ Within(held', last, arrived)
  BY <1>5, <1>6, <1>7, <1>8 DEF Before, Within
<1>10. CountsOK'
  BY <1>1, <1>3, <1>4 DEF CountsOK
<1>11. OrderOK'
  <2>1. /\ inOrder' /\ Before(held', hwFifo') /\ Before(uselist', hwFifo') /\ Rising(hwFifo')
        /\ Within(held', last', arrived') /\ Within(uselist', last', arrived')
        /\ Within(hwFifo', last', arrived')
    BY <1>1, <1>6, <1>7, <1>9 DEF OrderOK, Rising, Before, Within
  <2> QED BY <1>5, <1>9, <2>1 DEF OrderOK, Rising, Before, Within
<1>12. Gone' = Gone
  BY <1>1, <1>3, <1>4, GoneType DEF Gone
<1>13. LossOK' /\ FlagOK'
  BY <1>1, <1>12 DEF LossOK, FlagOK, Flagged
<1> QED BY <1>10, <1>11, <1>13

LEMMA ReadPutKeeps ==
  ASSUME RxInv, ReadPut, ListsOK'
  PROVE  RxInv'
<1> USE DEF RxInv
<1> DEFINE f == Head(held)
<1>1. /\ held # <<>> /\ held' = <<>> /\ last' = f /\ given' = given + 1
      /\ inOrder' = (inOrder /\ f > last)
      /\ UNCHANGED <<arrived, hwFifo, ir, status, uselist, dropped, merged, hushed>>
  BY DEF ReadPut, busVars
<1>2. uselist \in Seq(Frames) /\ hwFifo \in Seq(Frames) /\ held \in Seq(Frames)
  BY DEF CountsOK
<1>3. f \in Frames /\ f = held[1] /\ 1 \in 1 .. Len(held) /\ Len(held) \in Nat \ {0}
  BY <1>1, <1>2, TailFacts
<1>4. held' \in Seq(Frames) /\ Len(held') = 0
  BY <1>1, EmptySeq
<1>5. last < f /\ f <= arrived /\ f \in Nat /\ last \in Nat /\ arrived \in Nat
  BY <1>3 DEF OrderOK, Within, CountsOK, Frames
<1> HIDE DEF f
<1>6. f > last /\ inOrder
  BY <1>5 DEF OrderOK
<1>7. inOrder' = TRUE
  BY <1>1, <1>6, Zenon
<1>8. CountsOK'
  BY <1>1, <1>4, <1>5, <1>7 DEF CountsOK
<1>9. Within(uselist, f, arrived) /\ Within(hwFifo, f, arrived)
  BY <1>3 DEF OrderOK, Before, Within
<1>10. OrderOK'
  <2>1. Within(held', last', arrived') /\ Before(held', uselist') /\ Before(held', hwFifo')
    BY <1>4 DEF Within, Before
  <2>2. /\ Rising(hwFifo') /\ Rising(uselist') /\ Before(uselist', hwFifo')
        /\ Within(uselist', last', arrived') /\ Within(hwFifo', last', arrived')
    BY <1>1, <1>9 DEF OrderOK
  <2> QED BY <1>7, <2>1, <2>2 DEF OrderOK, Rising, Before, Within
<1>11. Gone' = Gone
  <2>1. Len(held) = 1
    <3>1. Len(held) \in 0 .. 1 /\ Len(held) # 0
      BY <1>3, GoneType
    <3> QED BY <3>1
  <2> QED BY <1>1, <1>4, <2>1, GoneType DEF Gone
<1>12. LossOK' /\ FlagOK'
  BY <1>1, <1>11 DEF LossOK, FlagOK, Flagged
<1> QED BY <1>8, <1>10, <1>12

(* What concerns frames that are sent does not touch those received.       *)
LEMMA OthersKeep ==
  ASSUME RxInv, ListsOK',
         \/ \E w \in Writers : Write(w) \/ Writer(w) \/ TimerExpires(w)
         \/ FrameGoesOut \/ IsrTxDone \/ UNCHANGED vars
  PROVE  RxInv'
<1>1. UNCHANGED <<arrived, hwFifo, free, freenumbers, uselist, held, dropped, last,
                  given, inOrder, merged, hushed>>
  BY DEF Writer, Write, Take, TakeBox, InitCompletion, Refuse, Send, SetChange,
         Wait, TimerExpires, LeaveWait, GiveUp, Collect, FrameGoesOut,
         IsrTxDone, vars, otherVars, rxVars, busVars, rxHistory, readHistory
<1>2. /\ ir' = ir \/ ir' = ir \union {"TC"}
      /\ status' = status \/ status' = status \ {"TC"}
  BY DEF Writer, Write, Take, TakeBox, InitCompletion, Refuse, Send, SetChange,
         Wait, TimerExpires, LeaveWait, GiveUp, Collect, FrameGoesOut,
         IsrTxDone, vars, otherVars, busVars
<1>3. \A flag \in {"RF0N", "RF0L"} : (flag \in ir' <=> flag \in ir) /\ (flag \in status' <=> flag \in status)
  BY <1>2
<1>4. CountsOK' /\ OrderOK'
  BY <1>1 DEF RxInv, CountsOK, OrderOK, Rising, Before, Within
<1>5. Gone' = Gone
  BY <1>1 DEF Gone
<1>6. \A flag \in {"RF0N", "RF0L"} : /\ Flagged(ir', flag) = Flagged(ir, flag)
                                    /\ Flagged(status', flag) = Flagged(status, flag)
  BY <1>3, Zenon DEF Flagged
<1>7. LossOK' /\ FlagOK'
  BY <1>1, <1>3, <1>5, <1>6 DEF RxInv, LossOK, FlagOK
<1> QED BY <1>4, <1>7 DEF RxInv

LEMMA StepRx == RxInv /\ [Next]_vars => RxInv'
<1> SUFFICES ASSUME RxInv, [Next]_vars PROVE RxInv'
  OBVIOUS
<1>1. ListsOK'
  BY StepLists DEF RxInv
<1> QED BY <1>1, IsrRxKeeps, ArrivesKeeps, ReadStatusKeeps, ReadTakeKeeps, ReadPutKeeps,
           OthersKeep DEF Next

(* For any writers: what a writer is told of its frame is true. A frame    *)
(* reported sent was sent, no other writer's frame is taken for it, and a  *)
(* frame that timed out went out, if at all, when nobody could credit it.  *)
THEOREM AnswersAreTrue == Spec => []AnswerIsTrue
<1>1. IInv => AnswerIsTrue
  BY DEF IInv, CreditOK, AnswerIsTrue
<1> QED BY <1>1, InitInvariant, StepInvariant, PTL DEF Spec

(* For any writers and any number of boxes: the token of the semaphore,    *)
(* the send box and its list agree, and every receive box is on one list   *)
(* or with the reader, as freenumbers says.                                *)
THEOREM BoxesAreCounted == Spec => []BoxesCounted
<1>1. IInv /\ ListsOK => BoxesCounted
  <2> SUFFICES ASSUME IInv, ListsOK PROVE BoxesCounted
    OBVIOUS
  <2>1. sem + Cardinality(Owners) = 1
    <3>1. Cardinality({}) = 0 /\ \A w \in Writers : Cardinality({w}) = 1
      BY FS_EmptySet, FS_Singleton
    <3> QED BY <3>1 DEF IInv, TokensOK, OneOwner
  <2> QED BY <2>1 DEF IInv, TokensOK, BoxOK, ListsOK, BoxesCounted
<1> QED BY <1>1, InitInvariant, StepInvariant, InitLists, StepLists, PTL DEF Spec

-----------------------------------------------------------------------------
(* What is left of a call, and of the types.                               *)

(* In a call a writer has a frame left to send.                            *)
LeftOK ==
  /\ left \in [Writers -> 0 .. Msgs]
  /\ \A w \in Writers : wpc[w] # "idle" => left[w] # 0

OnePending == pending = {} \/ \E w \in Writers : pending = {w}

LEMMA InitLeft == Init => LeftOK /\ OnePending
BY CanConstantsOK DEF Init, LeftOK, OnePending, CanConstantsOK

(* Who releases the token and goes to step leaves the others in their call *)
(* or out of it.                                                           *)
LEMMA ReleasedCalls ==
  ASSUME TypesOK, TokensOK, NEW w \in Writers, NEW step \in {"idle", "take"},
         w \in Owners, ReleaseAndGoto(w, step)
  PROVE  /\ \A v \in Writers \ {w} : wpc'[v] # "idle" => wpc[v] # "idle"
         /\ wpc'[w] = step
<1>1. wpc \in [Writers -> Steps] /\ wpc[w] # "queued"
  BY DEF TypesOK, Owners, Steps
<1>2. CASE semQueue = <<>>
  BY <1>1, <1>2 DEF ReleaseAndGoto, Goto
<1>3. CASE semQueue # <<>>
  <2> DEFINE v == Head(semQueue)
  <2>1. v \in Writers /\ wpc[v] = "queued"
    BY <1>3, QueueTail DEF TypesOK, TokensOK, QueueOK
  <2>2. wpc' = [wpc EXCEPT ![w] = step, ![v] = "box"]
    BY <1>3 DEF ReleaseAndGoto
  <2> HIDE DEF v
  <2> QED BY <1>1, <2>1, <2>2
<1> QED BY <1>2, <1>3

LEMMA StepLeft == IInv /\ LeftOK /\ OnePending /\ [Next]_vars => LeftOK' /\ OnePending'
<1> SUFFICES ASSUME IInv, LeftOK, OnePending, [Next]_vars PROVE LeftOK' /\ OnePending'
  OBVIOUS
<1> USE DEF IInv
<1>1. wpc \in [Writers -> Steps] /\ left \in [Writers -> 0 .. Msgs] /\ Msgs \in Nat \ {0}
  BY CanConstantsOK DEF TypesOK, LeftOK, CanConstantsOK
<1>2. OnePending'
  <2>1. pending' = pending \/ pending' = {} \/ \E w \in Writers : pending' = {w}
    BY DEF Next, Writer, Write, Take, TakeBox, InitCompletion, Refuse, Send, SetChange, Wait,
       TimerExpires, LeaveWait, GiveUp, Collect, FrameGoesOut, FrameArrives, IsrReadStatus,
       IsrTxDone, IsrRxInd, IsrRxOverflow, ReadTake, ReadPut, vars, otherVars, busVars
  <2> QED BY <2>1 DEF OnePending
<1>3. ASSUME NEW w \in Writers, Write(w) PROVE LeftOK'
  <2>1. left' = [left EXCEPT ![w] = Msgs] /\ wpc' = [wpc EXCEPT ![w] = "take"]
    BY <1>3 DEF Write, Goto
  <2> QED BY <1>1, <2>1 DEF LeftOK
<1>4. ASSUME NEW w \in Writers, Refuse(w) \/ GiveUp(w) PROVE LeftOK'
  <2>1. w \in Owners
    BY <1>4 DEF Refuse, GiveUp, Owners, Steps
  <2>2. left' = [left EXCEPT ![w] = 0] /\ ReleaseAndGoto(w, "idle")
    BY <1>4 DEF Refuse, GiveUp
  <2>3. wpc'[w] = "idle" /\ \A v \in Writers \ {w} : wpc'[v] # "idle" => wpc[v] # "idle"
    BY <2>1, <2>2, ReleasedCalls
  <2> QED BY <1>1, <2>2, <2>3 DEF LeftOK
<1>5. ASSUME NEW w \in Writers, Collect(w) PROVE LeftOK'
  <2> DEFINE step == IF result = "OK" /\ left[w] > 1 THEN "take" ELSE "idle"
             n == IF result = "OK" THEN left[w] - 1 ELSE 0
  <2>1. w \in Owners /\ wpc[w] # "idle"
    BY <1>5 DEF Collect, Owners, Steps
  <2>2. left' = [left EXCEPT ![w] = n] /\ ReleaseAndGoto(w, step)
    BY <1>5 DEF Collect
  <2>3. step \in {"idle", "take"}
    OBVIOUS
  <2>4. left[w] \in 1 .. Msgs
    BY <1>1, <2>1 DEF LeftOK
  <2>5. n \in 0 .. Msgs /\ (step = "take" => n # 0)
    BY <1>1, <2>4
  <2> HIDE DEF step, n
  <2>6. wpc'[w] = step /\ \A v \in Writers \ {w} : wpc'[v] # "idle" => wpc[v] # "idle"
    BY <2>1, <2>2, <2>3, ReleasedCalls
  <2>7. left' \in [Writers -> 0 .. Msgs] /\ left'[w] = n /\ \A v \in Writers \ {w} : left'[v] = left[v]
    BY <1>1, <2>2, <2>5
  <2>8. ASSUME NEW v \in Writers, wpc'[v] # "idle" PROVE left'[v] # 0
    <3>1. CASE v = w
      BY <2>3, <2>5, <2>6, <2>7, <2>8, <3>1
    <3>2. CASE v # w
      BY <2>6, <2>7, <2>8, <3>2 DEF LeftOK
    <3> QED BY <3>1, <3>2
  <2> QED BY <2>7, <2>8 DEF LeftOK
<1>6. ASSUME NEW w \in Writers,
             \/ Take(w) \/ TakeBox(w) \/ InitCompletion(w) \/ Send(w) \/ SetChange(w)
             \/ Wait(w) \/ TimerExpires(w) \/ LeaveWait(w)
      PROVE LeftOK'
  <2>1. left' = left /\ wpc[w] # "idle" /\ \A v \in Writers \ {w} : wpc'[v] = wpc[v]
    BY <1>1, <1>6 DEF Take, TakeBox, InitCompletion, Send, SetChange, Wait, TimerExpires,
       LeaveWait, Goto, txVars
  <2> QED BY <2>1 DEF LeftOK
<1>7. ASSUME IsrTxDone PROVE LeftOK'
  <2>1. left' = left /\ \A w \in Writers : wpc'[w] # "idle" => wpc[w] # "idle"
    BY <1>1, <1>7 DEF IsrTxDone
  <2> QED BY <2>1 DEF LeftOK
<1>8. ASSUME \/ FrameGoesOut \/ FrameArrives \/ IsrReadStatus
             \/ IsrRxInd \/ IsrRxOverflow \/ ReadTake \/ ReadPut \/ UNCHANGED vars
      PROVE  LeftOK'
  <2>1. left' = left /\ wpc' = wpc
    BY <1>8 DEF FrameGoesOut, FrameArrives, IsrReadStatus, IsrRxInd, IsrRxOverflow,
       ReadTake, ReadPut, vars, txVars
  <2> QED BY <2>1 DEF LeftOK
<1>9. LeftOK'
  BY <1>3, <1>4, <1>5, <1>6, <1>7, <1>8 DEF Next, Writer
<1> QED BY <1>2, <1>9

(* For any writers, depth of the FIFO and number of boxes: every variable  *)
(* keeps its type. No more frames are counted as read or dropped than have *)
(* come, a call ends at its last frame, and freenumbers stays within what  *)
(* can.c asserts of it.                                                    *)
THEOREM TypeCorrect == Spec => []TypeOK
<1>1. IInv /\ LeftOK /\ OnePending /\ RxInv => TypeOK
  <2> SUFFICES ASSUME IInv, LeftOK, OnePending, RxInv PROVE TypeOK
    OBVIOUS
  <2>1. sem \in 0 .. 1
    BY DEF IInv, TokensOK, OneOwner
  <2>2. Cardinality(pending) <= 1
    <3>1. Cardinality({}) = 0 /\ \A w \in Writers : Cardinality({w}) = 1
      BY FS_EmptySet, FS_Singleton
    <3> QED BY <3>1 DEF OnePending
  <2>3. {hwFifo, uselist, held} \subseteq Seq(1 .. MaxFrames) /\ Len(hwFifo) <= HwDepth /\ Len(held) <= 1
    BY DEF RxInv, CountsOK, ListsOK, Frames
  <2>4. {free, freenumbers} \subseteq 0 .. MsgBoxes
    <3>1. free \in Nat /\ freenumbers = free /\ free + Len(uselist) + Len(held) = MsgBoxes
      BY DEF RxInv, ListsOK
    <3>2. free <= MsgBoxes
      BY <3>1, GoneType
    <3> QED BY <3>1, <3>2, CanConstantsOK DEF CanConstantsOK
  <2>5. {dropped, last, given, merged} \subseteq 0 .. MaxFrames
    <3>1. /\ arrived \in 0 .. MaxFrames /\ dropped \in Nat /\ given \in Nat /\ merged \in Nat
          /\ last \in Nat /\ merged <= arrived /\ last <= arrived
      BY DEF RxInv, CountsOK
    <3> DEFINE a == Flagged(ir, "RF0L")
               b == Flagged(status, "RF0L")
               k == Len(hwFifo) + Len(uselist) + Len(held)
    <3>2. a \in 0 .. 1 /\ b \in 0 .. 1
      BY FlaggedType
    <3>3. k \in Nat
      BY GoneType
    <3>4. dropped + a + b <= arrived - given - k
      BY DEF RxInv, LossOK, Gone
    <3> HIDE DEF a, b, k
    <3>5. dropped <= arrived /\ given <= arrived
      BY <3>1, <3>2, <3>3, <3>4
    <3> QED BY <3>1, <3>5, CanConstantsOK DEF CanConstantsOK
  <2>6. /\ {boxFree, completed, sndchange} \subseteq BOOLEAN /\ {inOrder, hushed} \subseteq BOOLEAN
        /\ {ir, status} \subseteq SUBSET {"TC", "RF0N", "RF0L"}
        /\ {sent, missed} \subseteq [Writers -> BOOLEAN]
    BY DEF IInv, TypesOK, RxInv, CountsOK, Flags
  <2>7. /\ wpc \in [Writers -> Steps] /\ left \in [Writers -> 0 .. Msgs] /\ semQueue \in Seq(Writers)
        /\ result \in {"WAIT", "OK"} /\ pending \subseteq Writers /\ arrived \in 0 .. MaxFrames
        /\ answer \in [Writers -> {"none", "refused", "timeout", "ok", "failed"}]
    BY DEF IInv, TypesOK, LeftOK, RxInv, CountsOK, Answers
  <2> QED BY <2>1, <2>2, <2>3, <2>4, <2>5, <2>6, <2>7 DEF TypeOK
<1> QED BY <1>1, InitInvariant, StepInvariant, InitLeft, StepLeft, InitRx, StepRx, PTL DEF Spec

(* For any depth of the FIFO and any number of boxes: frames are read in   *)
(* the order they came in, each once; none is counted as dropped that was  *)
(* not lost; a loss shows unless its flag was cleared unseen; and reading  *)
(* one frame for each flag leaves no frame behind but those that found a   *)
(* flag up, nor a FIFO so full that no flag rises again.                   *)
THEOREM FramesAreAccounted == Spec => []FramesAccounted
<1>1. RxInv /\ TypesOK => FramesAccounted
  <2> SUFFICES ASSUME RxInv, TypesOK PROVE FramesAccounted
    OBVIOUS
  <2>1. inOrder
    BY DEF RxInv, OrderOK
  <2>2. dropped <= Gone
    <3> DEFINE a == Flagged(ir, "RF0L")
               b == Flagged(status, "RF0L")
               g == Gone
    <3>1. a \in 0 .. 1 /\ b \in 0 .. 1
      BY FlaggedType
    <3>2. dropped + a + b <= g /\ g \in Int /\ dropped \in Nat
      BY GoneType DEF RxInv, LossOK, CountsOK
    <3> HIDE DEF a, b, g
    <3>3. dropped <= g
      BY <3>1, <3>2
    <3> QED BY <3>3 DEF g
  <2>3. ThreadsRun => ir = {} /\ status = {}
    <3> SUFFICES ASSUME ThreadsRun PROVE ir = {}
      BY DEF ThreadsRun
    <3>1. "TC" \notin ir /\ "RF0N" \notin ir /\ status = {}
      BY DEF ThreadsRun, Enabled
    <3>2. "RF0L" \notin ir
      BY <3>1 DEF RxInv, FlagOK
    <3> QED BY <3>1, <3>2 DEF TypesOK, Flags
  <2>4. ThreadsRun /\ Gone > 0 /\ ~hushed => dropped > 0
    BY <2>3 DEF RxInv, LossOK
  <2>5. ThreadsRun => Len(hwFifo) <= merged /\ Len(hwFifo) < HwDepth
    <3> SUFFICES ASSUME ThreadsRun PROVE Len(hwFifo) <= merged /\ Len(hwFifo) < HwDepth
      OBVIOUS
    <3>1. Flagged(ir, "RF0N") = 0 /\ Flagged(status, "RF0N") = 0
      BY <2>3 DEF Flagged
    <3>2. Len(hwFifo) <= merged + 0 + 0
      BY <3>1 DEF RxInv, FlagOK
    <3>3. Len(hwFifo) # HwDepth
      BY <2>3 DEF RxInv, FlagOK
    <3>4. Len(hwFifo) \in Nat /\ merged \in Nat /\ Len(hwFifo) <= HwDepth /\ HwDepth \in Nat
      BY GoneType, CanConstantsOK DEF RxInv, CountsOK, CanConstantsOK
    <3> QED BY <3>2, <3>3, <3>4
  <2> QED BY <2>1, <2>2, <2>3, <2>4, <2>5 DEF FramesAccounted
<1>2. IInv => TypesOK
  BY DEF IInv
<1> QED BY <1>1, <1>2, InitInvariant, StepInvariant, InitRx, StepRx, PTL DEF Spec
=============================================================================
