----------------------- MODULE PdmaMemfunServiceProofs ----------------------
(***************************************************************************)
(* What a caller of nu_pdma_memfun gets, for every number of threads and   *)
(* of actors: an actor's transfer, its flags and its semaphore are one     *)
(* token that passes from the engine through pdma_isr to the thread that   *)
(* waits. It holds of every actor whose end was not reported twice, for    *)
(* flags that rise anywhere between the handler's reads and for every      *)
(* cause of the interrupt; until the first double report the pool          *)
(* implements CopyService.                                                 *)
(***************************************************************************)
EXTENDS PdmaMemfunProofs

(* The flags of ended transfers, those the handler has just read included. *)
Done == td \cup snap.tdsts
Aborted == abt \cup snap.abtsts

(* A flag that pdma_isr has read and left up is one it serves twice.       *)
HandlerOK ==
  /\ isr \in {"off", "abtsts"} => snap.abtsts = {}
  /\ isr # "serve" => snap.tdsts = {}
  /\ isr = "serve" => (td \cap snap.tdsts) \cup (abt \cap snap.abtsts) \subseteq twice

(* Finished transfers alone leave no flag standing.                        *)
QuietOK ==
  noise = 0 => /\ Aborted = {} /\ ~reqto /\ twice = {}
               /\ isr \in {"abtsts", "tdsts"} => snap.td

(* An actor's token is in one place, and somebody waits for it.            *)
Busy(a) == job[a] # NoThread \/ a \in Done \cup Aborted \/ actorSem[a] # 0

ActorOK ==
  \A a \in Actors \ twice :
    /\ actorSem[a] \in {0, 1}
    /\ job[a] # NoThread => a \notin Done \cup Aborted
    /\ a \in Done => a \notin Aborted
    /\ job[a] # NoThread \/ a \in Done \cup Aborted => actorSem[a] = 0
    /\ Busy(a) => \E t \in Threads : pc[t] = "wait" /\ mine[t] = a

(* Steps of a request before its transfer, and what is known of a request. *)
Before == {"employ", "poolWait", "employLock", "employLockWait", "scan",
           "mark", "employUnlock", "setup", "start"}

Unemployed == {"idle", "employ", "poolWait", "employLock", "employLockWait", "scan"}

OwnOK(t) ==
  /\ pc[t] \in Before => moved[t] = "no"
  /\ pc[t] = "wait" =>
       /\ job[mine[t]] # NoThread => job[mine[t]] = t /\ moved[t] = "no"
       /\ mine[t] \in Done => moved[t] = "done"
       /\ mine[t] \in Aborted => moved[t] = "abort"
       /\ actorSem[mine[t]] # 0 =>
            moved[t] # "no" /\ result[mine[t]] = {moved[t]}
  /\ pc[t] = "account" =>
       moved[t] # "no" /\ result[mine[t]] = {moved[t]}

RequestOK ==
  \A t \in Threads :
    /\ pc[t] \in Unemployed => mine[t] = NoActor
    /\ pc[t] \in Before \cup {"wait", "account"} => ret[t] = "none"
    /\ mine[t] \notin twice => OwnOK(t)

Exact == HandlerOK /\ QuietOK /\ ActorOK /\ RequestOK

-----------------------------------------------------------------------------
(* Once reported twice, always so.                                         *)
LEMMA TwiceStays == ASSUME [Next]_vars PROVE twice \subseteq twice'
BY DEF Next, vars, Thread, Call, TakePool, LockToEmploy, Scan, Mark, UnlockAfterEmploy,
  Setup, Start, WaitDone, Account, LockToFire, Clear, UnlockAfterFire, Fire, EngineDone,
  EngineAbort, OtherTimeout, Isr, IsrReadIntsts, IsrReadAbtsts, IsrReadTdsts, IsrServe, isrVars

(* The moves inside the pool leave actors, engine and handler alone, start *)
(* and end nobody's wait, and leave each thread in the same phase of its   *)
(* request; only a thread without an actor gets one.                       *)
Stays(u) ==
  /\ pc'[u] = "idle" <=> pc[u] = "idle"
  /\ pc'[u] = "wait" <=> pc[u] = "wait"
  /\ pc'[u] = "account" <=> pc[u] = "account"
  /\ pc'[u] \in Before <=> pc[u] \in Before
  /\ pc'[u] \in Unemployed => mine'[u] = NoActor
  /\ pc[u] \in {"wait", "account"} => mine'[u] = mine[u]
  /\ mine'[u] # mine[u] => mine[u] = NoActor

Leaves(u) == pc'[u] = "idle" /\ mine'[u] = NoActor

LEMMA NoActorIsNone == NoActor \notin Actors
BY ConstantsOK DEF ConstantsOK, Actors, NoActor

LEMMA ElsewhereStep ==
  ASSUME TypeOK, Exact, UNCHANGED <<ret, doneVars, hwVars, isrVars>>,
         \A u \in Threads : Stays(u) \/ (Leaves(u) /\ pc[u] \notin {"wait", "account"})
  PROVE  Exact'
<1> USE DEF Exact, doneVars, hwVars, isrVars, Done, Aborted
<1>1. HandlerOK' /\ QuietOK'
  BY DEF HandlerOK, QuietOK
<1>2. ActorOK'
  <2>1. \A u \in Threads : pc[u] = "wait" => pc'[u] = "wait" /\ mine'[u] = mine[u]
    BY DEF Stays
  <2> QED BY <2>1 DEF ActorOK, Busy
<1>3. ASSUME NEW u \in Threads, Leaves(u)
      PROVE  /\ (pc[u] \in Unemployed => mine[u] = NoActor)'
             /\ (pc[u] \in Before \cup {"wait", "account"} => ret[u] = "none")'
             /\ (mine[u] \notin twice => OwnOK(u))'
  BY <1>3 DEF Leaves, OwnOK, Before
<1>4. ASSUME NEW u \in Threads, Stays(u)
      PROVE  /\ (pc[u] \in Unemployed => mine[u] = NoActor)'
             /\ (pc[u] \in Before \cup {"wait", "account"} => ret[u] = "none")'
             /\ (mine[u] \notin twice => OwnOK(u))'
  <2>1. (pc[u] \in Unemployed => mine[u] = NoActor)'
    BY <1>4 DEF Stays
  <2>2. (pc[u] \in Before \cup {"wait", "account"} => ret[u] = "none")'
    BY <1>4 DEF Stays, RequestOK
  <2>3. mine'[u] \notin twice' => OwnOK(u)
    BY <1>4, NoActorIsNone DEF Stays, RequestOK, TypeOK
  <2>4. OwnOK(u) => OwnOK(u)'
    BY <1>4 DEF Stays, OwnOK
  <2> QED BY <2>1, <2>2, <2>3, <2>4
<1>5. RequestOK'
  BY <1>3, <1>4 DEF RequestOK
<1> QED BY <1>1, <1>2, <1>5

LEMMA PoolMoves ==
  ASSUME IInv, Exact, NEW t \in Threads,
         \/ TakePool(t) \/ LockToEmploy(t) \/ Scan(t) \/ Mark(t)
         \/ UnlockAfterEmploy(t) \/ LockToFire(t) \/ Clear(t)
         \/ UnlockAfterFire(t)
  PROVE  /\ UNCHANGED <<ret, doneVars, hwVars, isrVars>>
         /\ \A u \in Threads : Stays(u)
<1>1. TypeOK /\ QueuesOK /\ \A u \in Threads : pc[u] \in Unemployed => mine[u] = NoActor
  BY DEF IInv, Exact, RequestOK
<1> USE DEF Goto, At, Stays
<1>2. CASE TakePool(t) \/ LockToEmploy(t) \/ Mark(t) \/ LockToFire(t) \/ Clear(t)
  BY <1>1, <1>2 DEF TakePool, LockToEmploy, TakeLock, Mark, LockToFire, Clear,
     Before, Unemployed, TypeOK
<1>3. CASE Scan(t)
  <2>1. mine[t] = NoActor /\ pc[t] = "scan" /\ UNCHANGED <<ret, doneVars, hwVars, isrVars>>
    BY <1>1, <1>3 DEF Scan, Unemployed
  <2>2. PICK l \in {"employUnlock", "mark"} : pc' = [pc EXCEPT ![t] = l]
    BY <1>3 DEF Scan
  <2>3. mine' = [mine EXCEPT ![t] = Cto(mask)]
    BY <1>3 DEF Scan
  <2> QED BY <1>1, <2>1, <2>2, <2>3 DEF Before, Unemployed, TypeOK
<1>4. CASE UnlockAfterEmploy(t) \/ UnlockAfterFire(t)
  <2>1. PICK l \in {"employ", "setup", "fire"} :
          /\ ReleaseLock(t, l)
          /\ (pc[t] = "fireUnlock" /\ l = "fire") \/ (pc[t] = "employUnlock" /\ l # "fire")
          /\ l = "employ" => mine[t] = NoActor
    <3>1. CASE UnlockAfterEmploy(t) /\ mine[t] = NoActor
      BY <3>1 DEF UnlockAfterEmploy
    <3>2. CASE UnlockAfterEmploy(t) /\ mine[t] # NoActor
      BY <3>2 DEF UnlockAfterEmploy
    <3>3. CASE UnlockAfterFire(t)
      BY <3>3 DEF UnlockAfterFire
    <3> QED BY <1>4, <3>1, <3>2, <3>3
  <2>2. /\ UNCHANGED <<mine, ret, doneVars, hwVars, isrVars>>
        /\ l \in Locations /\ pc[t] \notin LockWait
    BY <1>4, <2>1 DEF UnlockAfterEmploy, UnlockAfterFire, Locations, LockWait
  <2>3. CASE lockQ = <<>>
    BY <1>1, <2>1, <2>2, <2>3 DEF ReleaseLock, Before, Unemployed, TypeOK
  <2>4. CASE lockQ # <<>>
    <3>1. \A v \in Threads :
            pc'[v] = IF v = t THEN l
                     ELSE IF v = Head(lockQ) THEN Resumed(pc[v]) ELSE pc[v]
      BY <1>1, <2>1, <2>2, <2>4, Handover
    <3>2. pc[Head(lockQ)] \in LockWait
      BY <1>1, <2>1, <2>2, <2>4, Handover
    <3> QED BY <1>1, <2>1, <2>2, <3>1, <3>2 DEF Resumed, LockWait, Before, Unemployed
  <2> QED BY <2>3, <2>4
<1> QED BY <1>2, <1>3, <1>4

LEMMA FireMoves ==
  ASSUME IInv, Exact, NEW t \in Threads, Fire(t)
  PROVE  /\ UNCHANGED <<ret, doneVars, hwVars, isrVars>>
         /\ pc[t] = "fire" /\ Leaves(t)
         /\ \A u \in Threads \ {t} : Stays(u)
<1>1. TypeOK /\ QueuesOK /\ \A u \in Threads : pc[u] \in Unemployed => mine[u] = NoActor
  BY DEF IInv, Exact, RequestOK
<1> USE DEF Goto, At, Stays, Leaves
<1>2. CASE poolQ = <<>>
  BY <1>1, <1>2 DEF Fire, Before, Unemployed, TypeOK
<1>3. CASE poolQ # <<>>
  <2>1. Head(poolQ) = poolQ[1] /\ 1 \in 1 .. Len(poolQ) /\ Head(poolQ) \in Threads
    BY <1>1, <1>3, QueueTail DEF TypeOK, QueuesOK
  <2>2. pc[Head(poolQ)] = "poolWait"
    BY <1>1, <2>1 DEF QueuesOK
  <2>3. pc' = [pc EXCEPT ![t] = "idle", ![Head(poolQ)] = "employLock"]
    BY <1>3 DEF Fire
  <2> QED BY <1>1, <2>1, <2>2, <2>3 DEF Fire, Before, Unemployed, TypeOK
<1> QED BY <1>2, <1>3

LEMMA PoolSteps ==
  ASSUME IInv, Exact, NEW t \in Threads,
         \/ TakePool(t) \/ LockToEmploy(t) \/ Scan(t) \/ Mark(t)
         \/ UnlockAfterEmploy(t) \/ LockToFire(t) \/ Clear(t)
         \/ UnlockAfterFire(t) \/ Fire(t)
  PROVE  Exact'
<1>1. TypeOK
  BY DEF IInv
<1>2. CASE Fire(t)
  <2>1. /\ UNCHANGED <<ret, doneVars, hwVars, isrVars>>
        /\ pc[t] = "fire" /\ Leaves(t)
        /\ \A u \in Threads \ {t} : Stays(u)
    BY <1>2, FireMoves
  <2>2. \A u \in Threads : Stays(u) \/ (Leaves(u) /\ pc[u] \notin {"wait", "account"})
    BY <2>1
  <2> QED BY <1>1, <2>1, <2>2, ElsewhereStep
<1>3. CASE ~Fire(t)
  BY <1>1, <1>3, PoolMoves, ElsewhereStep
<1> QED BY <1>2, <1>3

(* Two threads at work never have one actor.                               *)
LEMMA OwnActor ==
  ASSUME IInv, NEW t \in Threads, NEW u \in Threads,
         pc[t] \in Employing, pc[u] \in Employing, mine[t] = mine[u]
  PROVE  t = u
<1>1. mine[t] \in Actors /\ mine[u] \in Actors /\ NoActor \notin Actors
  BY NoActorIsNone DEF IInv, ChoiceOK
<1> QED BY <1>1 DEF IInv, ActorExclusive, Employers

(* A thread that waits or has waited has an actor of its own.              *)
LEMMA OthersActors ==
  ASSUME IInv, NEW t \in Threads, pc[t] \in Employing
  PROVE  /\ mine[t] \in Actors
         /\ \A u \in Threads : u # t /\ pc[u] \in {"wait", "account"} =>
              mine[u] \in Actors /\ mine[u] # mine[t]
BY OwnActor DEF Employing, IInv, ChoiceOK

LEMMA CallStep ==
  ASSUME IInv, Exact, NEW t \in Threads, Call(t) PROVE Exact'
<1> USE DEF Exact, Call, doneVars, isrVars, Done, Aborted, At, Goto, IInv, TypeOK
<1>1. HandlerOK' /\ QuietOK'
  BY DEF HandlerOK, QuietOK
<1>2. ActorOK'
  BY DEF ActorOK, Busy
<1>3. RequestOK'
  BY DEF RequestOK, OwnOK, Unemployed
<1> QED BY <1>1, <1>2, <1>3

(* What a thread writes before its transfer is of an actor at rest.        *)
LEMMA RestBefore ==
  ASSUME IInv, Exact, NEW t \in Threads, pc[t] \in Employing \ {"wait"},
         mine[t] \in Actors \ twice
  PROVE  ~Busy(mine[t])
BY OwnActor DEF Exact, ActorOK, Employing

LEMMA SetupStep ==
  ASSUME IInv, Exact, NEW t \in Threads, Setup(t) PROVE Exact'
<1> USE DEF Exact, Setup, hwVars, isrVars, Done, Aborted, At, Goto
<1>1. HandlerOK' /\ QuietOK'
  BY DEF HandlerOK, QuietOK
<1>2. ActorOK'
  BY DEF ActorOK, Busy, IInv, TypeOK
<1>3. \A u \in Threads : pc[u] \in {"wait", "account"} => mine[u] \in Actors /\ mine[u] # mine[t]
  BY OthersActors DEF Employing
<1>4. RequestOK'
  BY <1>3 DEF RequestOK, OwnOK, Before, Unemployed, IInv, TypeOK
<1> QED BY <1>1, <1>2, <1>4

LEMMA StartStep ==
  ASSUME IInv, Exact, NEW t \in Threads, Start(t) PROVE Exact'
<1> USE DEF Exact, Start, doneVars, isrVars, Done, Aborted, At, Goto
<1>1. HandlerOK' /\ QuietOK'
  BY DEF HandlerOK, QuietOK
<1>2. mine[t] \in Actors /\ (mine[t] \notin twice => ~Busy(mine[t]))
  BY RestBefore DEF Employing, IInv, ChoiceOK
<1>3. ActorOK'
  BY <1>2 DEF ActorOK, Busy, IInv, TypeOK
<1>4. \A u \in Threads : u # t /\ pc[u] \in {"wait", "account"} => mine[u] \in Actors /\ mine[u] # mine[t]
  BY OthersActors DEF Employing
<1>5. RequestOK'
  BY <1>2, <1>4 DEF RequestOK, OwnOK, Before, Unemployed, Busy, IInv, TypeOK
<1> QED BY <1>1, <1>3, <1>5

LEMMA WaitDoneStep ==
  ASSUME IInv, Exact, NEW t \in Threads, WaitDone(t) PROVE Exact'
<1> USE DEF Exact, WaitDone, hwVars, isrVars, Done, Aborted, At, Goto
<1>1. HandlerOK' /\ QuietOK'
  BY DEF HandlerOK, QuietOK
<1>2. mine[t] \in Actors
  BY DEF Employing, IInv, ChoiceOK
<1>3. /\ actorSem' = [actorSem EXCEPT ![mine[t]] = actorSem[mine[t]] - 1]
      /\ mine[t] \notin twice => actorSem[mine[t]] = 1 /\ actorSem'[mine[t]] = 0
  <2>1. actorSem' = [actorSem EXCEPT ![mine[t]] = actorSem[mine[t]] - 1]
    OBVIOUS
  <2>2. mine[t] \notin twice => actorSem[mine[t]] \in {0, 1} /\ actorSem[mine[t]] > 0
    BY <1>2 DEF ActorOK
  <2>3. mine[t] \notin twice => actorSem[mine[t]] = 1
    BY <2>2
  <2> QED BY <1>2, <2>1, <2>3 DEF IInv, TypeOK
<1>4. \A u \in Threads : u # t /\ pc[u] \in {"wait", "account"} => mine[u] \in Actors /\ mine[u] # mine[t]
  BY OthersActors DEF Employing
<1>5. ActorOK'
  BY <1>2, <1>3, <1>4 DEF ActorOK, Busy, IInv, TypeOK
<1>6. RequestOK'
  BY <1>2, <1>3, <1>4 DEF RequestOK, OwnOK, Before, Unemployed, IInv, TypeOK
<1> QED BY <1>1, <1>5, <1>6

LEMMA AccountStep ==
  ASSUME IInv, Exact, NEW t \in Threads, Account(t)
  PROVE  Exact' /\ (mine[t] \notin twice => UNCHANGED job)
<1> USE DEF Exact, Account, doneVars, isrVars, Done, Aborted, At, Goto
<1>1. HandlerOK' /\ QuietOK'
  BY DEF HandlerOK, QuietOK
<1>2. mine[t] \in Actors /\ (mine[t] \notin twice => ~Busy(mine[t]))
  BY RestBefore DEF Employing, IInv, ChoiceOK
<1>3. /\ mine[t] \notin twice => UNCHANGED job
      /\ \A a \in Actors \ twice : job'[a] = job[a]
  BY <1>2 DEF Busy, IInv, TypeOK
<1>4. ActorOK'
  BY <1>2, <1>3 DEF ActorOK, Busy, IInv, TypeOK
<1>5. \A u \in Threads : pc[u] = "wait" => mine[u] \in Actors
  BY DEF IInv, ChoiceOK, Employing
<1>6. RequestOK'
  BY <1>3, <1>5 DEF RequestOK, OwnOK, Before, Unemployed, IInv, TypeOK
<1> QED BY <1>1, <1>3, <1>4, <1>6

-----------------------------------------------------------------------------
(* The engine raises a flag for the thread that waits for it.              *)
LEMMA EngineStep ==
  ASSUME IInv, Exact, NEW a \in Actors, EngineDone(a) \/ EngineAbort(a)
  PROVE  Exact'
<1> USE DEF Exact, Done, Aborted, doneVars, isrVars, threadVars
<1>1. noise' = 0 => noise = 0 /\ EngineDone(a)
  BY DEF EngineDone, EngineAbort, IInv, TypeOK
<1>2. HandlerOK'
  BY DEF HandlerOK, ActorOK, EngineDone, EngineAbort, MayEnd
<1>3. QuietOK'
  BY <1>1 DEF QuietOK, EngineDone
<1>4. /\ job' = [job EXCEPT ![a] = NoThread]
      /\ UNCHANGED <<actorSem, result, pc, mine, ret, twice>>
      /\ job[a] \in Threads
      /\ \A u \in Threads : mine[u] # a => moved'[u] = moved[u]
      /\ \A u \in Threads : job[a] # u => moved'[u] = moved[u]
      /\ \/ /\ Done' = Done \cup {a} /\ Aborted' = Aborted
            /\ mine[job[a]] = a => moved'[job[a]] = "done"
         \/ /\ Aborted' = Aborted \cup {a} /\ Done' = Done
            /\ mine[job[a]] = a => moved'[job[a]] = "abort"
  BY DEF EngineDone, EngineAbort, Ended, MayEnd, IInv, TypeOK
<1>5. a \notin twice => /\ pc[job[a]] = "wait" /\ mine[job[a]] = a
                       /\ \A u \in Threads : u # job[a] /\ pc[u] \in {"wait", "account"} => mine[u] # a
  <2>1. a \notin twice => \E t \in Threads : pc[t] = "wait" /\ mine[t] = a
    BY DEF ActorOK, Busy, EngineDone, EngineAbort, MayEnd
  <2>2. ASSUME a \notin twice, NEW t \in Threads, pc[t] = "wait", mine[t] = a PROVE job[a] = t
    BY <2>2 DEF RequestOK, OwnOK, EngineDone, EngineAbort, MayEnd
  <2> QED BY <2>1, <2>2, OthersActors, <1>4 DEF Employing
<1>6. \A u \in Threads : pc[u] \in {"wait", "account"} => mine[u] \in Actors
  BY DEF Employing, IInv, ChoiceOK
<1>7. a \notin twice => a \notin Done \cup Aborted /\ actorSem[a] = 0
  BY DEF ActorOK, EngineDone, EngineAbort, MayEnd
<1>8. job[a] # NoThread /\ NoThread \notin Threads /\ job \in [Actors -> Threads \cup {NoThread}]
  BY ConstantsOK DEF ConstantsOK, EngineDone, EngineAbort, MayEnd, IInv, TypeOK
<1> HIDE DEF Done, Aborted
<1>9. ActorOK'
  <2> SUFFICES ASSUME NEW b \in Actors \ twice
               PROVE (/\ actorSem[b] \in {0, 1}
                      /\ job[b] # NoThread => b \notin Done \cup Aborted
                      /\ b \in Done => b \notin Aborted
                      /\ job[b] # NoThread \/ b \in Done \cup Aborted => actorSem[b] = 0
                      /\ Busy(b) => \E t \in Threads : pc[t] = "wait" /\ mine[t] = b)'
    BY <1>4 DEF ActorOK
  <2>1. CASE b = a
    BY <1>4, <1>5, <1>7, <1>8, <2>1 DEF Busy
  <2>2. CASE b # a
    BY <1>4, <1>8, <2>2 DEF ActorOK, Busy
  <2> QED BY <2>1, <2>2
<1>10. ASSUME NEW u \in Threads, mine[u] \notin twice PROVE OwnOK(u)'
  <2>1. OwnOK(u)
    BY <1>10 DEF RequestOK
  <2>2. CASE mine[u] # a
    BY <1>4, <1>6, <1>8, <2>1, <2>2 DEF OwnOK
  <2>3. CASE mine[u] = a /\ u = job[a]
    BY <1>4, <1>5, <1>7, <1>8, <1>10, <2>3 DEF OwnOK, Before
  <2>4. CASE mine[u] = a /\ u # job[a]
    BY <1>4, <1>5, <1>10, <2>1, <2>4 DEF OwnOK
  <2> QED BY <2>2, <2>3, <2>4
<1>11. RequestOK'
  BY <1>4, <1>10 DEF RequestOK
<1> QED BY <1>2, <1>3, <1>9, <1>11

LEMMA OtherTimeoutStep ==
  ASSUME IInv, Exact, OtherTimeout PROVE Exact'
<1> USE DEF Exact, Done, Aborted, doneVars, isrVars, threadVars, OtherTimeout
<1>1. noise' # 0
  BY DEF IInv, TypeOK
<1>2. HandlerOK' /\ QuietOK'
  BY <1>1 DEF HandlerOK, QuietOK
<1>3. ActorOK' /\ RequestOK'
  BY DEF ActorOK, RequestOK, OwnOK, Busy
<1> QED BY <1>2, <1>3

(* pdma_isr moves the flags it has read into the semaphores.               *)
LEMMA ReadStep ==
  ASSUME IInv, Exact, IsrReadIntsts \/ IsrReadAbtsts \/ IsrReadTdsts PROVE Exact'
<1>1. /\ snap \in [td : BOOLEAN, abt : BOOLEAN, tdsts : SUBSET Actors, abtsts : SUBSET Actors]
      /\ HandlerOK /\ QuietOK
  BY DEF Exact, IInv, TypeOK
<1>2. /\ UNCHANGED <<pc, mine, ret, moved, job, actorSem, result, noise>>
      /\ reqto' => reqto
  BY DEF IsrReadIntsts, IsrReadAbtsts, IsrReadTdsts, threadVars, doneVars, hwVars
<1>3. /\ HandlerOK' /\ QuietOK' /\ Done' = Done /\ Aborted' = Aborted
      /\ twice \subseteq twice'
  <2>1. CASE IsrReadIntsts
    <3>1. /\ isr = "off" /\ isr' = "abtsts" /\ UNCHANGED <<td, abt, twice>> /\ Pending
          /\ snap' = [td |-> td # {}, abt |-> abt # {}, tdsts |-> {}, abtsts |-> {}]
      BY <2>1 DEF IsrReadIntsts, NoSnap
    <3> QED BY <1>1, <1>2, <3>1 DEF HandlerOK, QuietOK, Done, Aborted, Pending
  <2>2. CASE IsrReadAbtsts
    <3>1. /\ isr = "abtsts" /\ isr' = "tdsts" /\ UNCHANGED <<td, abt, twice>>
          /\ snap' = [snap EXCEPT !.abtsts = abt]
      BY <2>2 DEF IsrReadAbtsts, hwVars
    <3>2. snap'.td = snap.td /\ snap'.abt = snap.abt /\ snap'.tdsts = snap.tdsts /\ snap'.abtsts = abt
      BY <1>1, <3>1
    <3> QED BY <1>1, <1>2, <3>1, <3>2 DEF HandlerOK, QuietOK, Done, Aborted
  <2>3. CASE IsrReadTdsts
    <3>1. /\ isr = "tdsts" /\ isr' = "serve" /\ snap' = [snap EXCEPT !.tdsts = td]
          /\ td' = IF snap.td THEN {} ELSE td
          /\ abt' = IF snap.abt THEN abt \ snap.abtsts ELSE abt
          /\ twice' = twice \cup (IF snap.td THEN {} ELSE td)
                           \cup (IF snap.abt THEN {} ELSE snap.abtsts)
      BY <2>3 DEF IsrReadTdsts
    <3>2. /\ snap'.td = snap.td /\ snap'.abt = snap.abt /\ snap'.tdsts = td
          /\ snap'.abtsts = snap.abtsts /\ snap.tdsts = {}
      BY <1>1, <3>1 DEF HandlerOK
    <3>3. Done' = Done /\ Aborted' = Aborted
      BY <3>1, <3>2 DEF Done, Aborted
    <3>4. HandlerOK'
      BY <3>1, <3>2 DEF HandlerOK
    <3>5. QuietOK'
      BY <1>1, <1>2, <3>1, <3>3 DEF QuietOK, Aborted
    <3> QED BY <3>1, <3>3, <3>4, <3>5
  <2> QED BY <2>1, <2>2, <2>3
<1>4. ActorOK'
  BY <1>2, <1>3 DEF Exact, ActorOK, Busy
<1>5. RequestOK'
  BY <1>2, <1>3 DEF Exact, RequestOK, OwnOK
<1> QED BY <1>3, <1>4, <1>5 DEF Exact

LEMMA ServeStep ==
  ASSUME IInv, Exact, IsrServe PROVE Exact'
<1> USE DEF Exact, IsrServe, threadVars, poolVars, hwVars
<1>1. HandlerOK' /\ QuietOK'
  BY DEF HandlerOK, QuietOK, Aborted, NoSnap
<1>2. \A a \in Actors \ twice :
        /\ a \in snap.tdsts => a \notin snap.abtsts
        /\ a \in Done' <=> a \in Done /\ a \notin snap.tdsts
        /\ a \in Aborted' <=> a \in Aborted /\ a \notin snap.abtsts
  BY DEF ActorOK, HandlerOK, Done, Aborted, NoSnap
<1>3. \A a \in Actors \ twice :
        /\ a \in snap.tdsts => Events(a) = {"done"}
        /\ a \in snap.abtsts => Events(a) = {"abort"}
        /\ a \notin snap.tdsts \cup snap.abtsts => Events(a) = {}
  BY <1>2 DEF Events
<1>4. snap.tdsts \subseteq Done /\ snap.abtsts \subseteq Aborted
  BY DEF Done, Aborted
<1>5. ASSUME NEW a \in Actors \ twice
      PROVE  IF a \in snap.tdsts \cup snap.abtsts
             THEN actorSem[a] = 0 /\ actorSem'[a] = 1 /\ result'[a] = Events(a) /\ job[a] = NoThread
             ELSE actorSem'[a] = actorSem[a] /\ result'[a] = result[a]
  <2>1. actorSem[a] \in Nat
    BY DEF IInv, TypeOK
  <2>2. /\ actorSem'[a] = actorSem[a] + (IF Events(a) = {} THEN 0 ELSE 1)
        /\ result'[a] = IF Events(a) = {} THEN result[a] ELSE Events(a)
    OBVIOUS
  <2>3. CASE a \in snap.tdsts \cup snap.abtsts
    <3>1. actorSem[a] = 0 /\ job[a] = NoThread
      BY <2>3 DEF ActorOK, Done, Aborted
    <3> QED BY <1>3, <2>2, <2>3, <3>1
  <2>4. CASE a \notin snap.tdsts \cup snap.abtsts
    BY <1>3, <2>1, <2>2, <2>4
  <2> QED BY <2>3, <2>4
<1>6. UNCHANGED <<pc, mine, ret, job, moved, twice>>
  BY DEF isrVars
<1>7. ActorOK'
  BY <1>2, <1>4, <1>5, <1>6 DEF ActorOK, Busy
<1>8. \A t \in Threads : pc[t] \in {"wait", "account"} => mine[t] \in Actors
  BY DEF Employing, IInv, ChoiceOK
<1>9. \A t \in Threads : pc[t] = "account" /\ mine[t] \notin twice => ~Busy(mine[t])
  BY <1>8, RestBefore DEF Employing
<1>10. ASSUME NEW t \in Threads, mine[t] \notin twice PROVE OwnOK(t)'
  <2>1. OwnOK(t)
    BY <1>10 DEF RequestOK
  <2>2. CASE pc[t] = "account"
    BY <1>4, <1>5, <1>6, <1>8, <1>9, <1>10, <2>1, <2>2 DEF OwnOK, Busy, Before
  <2>3. CASE pc[t] = "wait"
    BY <1>2, <1>3, <1>4, <1>5, <1>6, <1>8, <1>10, <2>1, <2>3 DEF OwnOK, Before
  <2>4. CASE pc[t] \notin {"wait", "account"}
    BY <1>6, <2>1, <2>4 DEF OwnOK
  <2> QED BY <2>2, <2>3, <2>4
<1>11. RequestOK'
  BY <1>6, <1>10 DEF RequestOK
<1> QED BY <1>1, <1>7, <1>11

-----------------------------------------------------------------------------
LEMMA ExactInit == Init => Exact
<1> SUFFICES ASSUME Init PROVE Exact
  OBVIOUS
<1> USE DEF Exact, Init, Done, Aborted, NoSnap
<1>1. HandlerOK /\ QuietOK
  BY DEF HandlerOK, QuietOK
<1>2. ActorOK
  BY DEF ActorOK, Busy
<1>3. RequestOK
  BY DEF RequestOK, OwnOK, Before
<1> QED BY <1>1, <1>2, <1>3

LEMMA ExactStep == IInv /\ Exact /\ [Next]_vars => Exact'
<1> SUFFICES ASSUME IInv, Exact, [Next]_vars PROVE Exact'
  OBVIOUS
<1>1. ASSUME NEW t \in Threads, Thread(t) PROVE Exact'
  BY <1>1, PoolSteps, CallStep, SetupStep, StartStep, WaitDoneStep, AccountStep DEF Thread
<1>2. CASE UNCHANGED vars
  BY <1>2 DEF vars, Exact, HandlerOK, QuietOK, ActorOK, RequestOK, OwnOK, Done, Aborted, Busy,
    threadVars, doneVars, hwVars, isrVars
<1> QED BY <1>1, <1>2, EngineStep, OtherTimeoutStep, ReadStep, ServeStep DEF Next, Isr

(* The token of each actor whose end was not reported twice is where its   *)
(* waiting thread can get it.                                              *)
THEOREM ExactInvariant == Spec => []Exact
<1>1. Init => IInv /\ Exact
  BY IInvInit, ExactInit
<1>2. IInv /\ Exact /\ [Next]_vars => (IInv /\ Exact)'
  BY IInvStep, ExactStep
<1> QED BY <1>1, <1>2, PTL DEF Spec

LEMMA ExactIsExact ==
  ASSUME IInv, Exact PROVE WaitedForOwnTransfer /\ FreeActorAtRest
<1>1. WaitedForOwnTransfer
  BY DEF Exact, RequestOK, OwnOK, WaitedForOwnTransfer
<1>2. FreeActorAtRest
  <2> SUFFICES ASSUME NEW a \in Actors \ (mask \cup twice) PROVE ~Busy(a)
    BY DEF FreeActorAtRest, Busy, Done, Aborted
  <2>1. ASSUME NEW t \in Threads, pc[t] = "wait", mine[t] = a PROVE FALSE
    <3>1. t \in Employers
      BY <2>1, ConstantsOK DEF ConstantsOK, Employers, Employing, Actors, NoActor
    <3> QED BY <2>1, <3>1 DEF IInv, ActorExclusive
  <2> QED BY <2>1 DEF Exact, ActorOK
<1> QED BY <1>1, <1>2

(* As long as nothing but finished transfers interrupts, no end is         *)
(* reported twice, wherever in pdma_isr the engine raises its flags: every *)
(* thread leaves its wait for its own transfer's end and with its result,  *)
(* and every free actor is at rest.                                        *)
THEOREM QuietPoolExact == Spec => []QuietPoolIsExact
<1>1. IInv /\ Exact => QuietPoolIsExact
  BY ExactIsExact DEF Exact, QuietOK, QuietPoolIsExact
<1> QED BY <1>1, Inductive, ExactInvariant, PTL

(* With aborts and other drivers' time-outs as well, a thread leaves its   *)
(* wait early, or with another's result, only if the end of its own        *)
(* actor's transfer was reported twice.                                    *)
THEOREM WaitsForOwnTransfer == Spec => []WaitedForOwnTransfer
<1>1. IInv /\ Exact => WaitedForOwnTransfer
  BY ExactIsExact
<1> QED BY <1>1, Inductive, ExactInvariant, PTL

(* And only such an actor can have a transfer, a flag or a token left for  *)
(* its next employer to meet.                                              *)
THEOREM FreeActorsRest == Spec => []FreeActorAtRest
<1>1. IInv /\ Exact => FreeActorAtRest
  BY ExactIsExact
<1> QED BY <1>1, Inductive, ExactInvariant, PTL

-----------------------------------------------------------------------------
(* The refinement, while no end has been reported twice: the phase of a    *)
(* request by the place of its thread.                                     *)
Single == Exact /\ twice = {}

PhaseAt(t) ==
  IF pc[t] = "idle" THEN "idle"
  ELSE IF pc[t] \in Before THEN "asked"
  ELSE IF pc[t] = "account" THEN "moved"
  ELSE IF pc[t] # "wait" THEN "answered"
  ELSE IF job[mine[t]] = t THEN "running"
  ELSE IF moved[t] = "no" THEN "asked" ELSE "moved"

PlaceTellsPhase == \A t \in Threads : Phase(t) = PhaseAt(t)

LEMMA PhaseByPlace == IInv /\ Single => PlaceTellsPhase
<1> SUFFICES ASSUME IInv, Single, NEW t \in Threads PROVE Phase(t) = PhaseAt(t)
  BY DEF PlaceTellsPhase
<1>1. NoThread \notin Threads /\ pc[t] \in Locations
  BY ConstantsOK DEF ConstantsOK, IInv, TypeOK
<1>2. (\E a \in Actors : job[a] = t) <=> (pc[t] = "wait" /\ job[mine[t]] = t)
  <2>1. ASSUME NEW a \in Actors, job[a] = t PROVE pc[t] = "wait" /\ mine[t] = a
    <3>1. PICK u \in Threads : pc[u] = "wait" /\ mine[u] = a
      BY <1>1, <2>1 DEF Single, Exact, ActorOK, Busy
    <3> QED BY <1>1, <2>1, <3>1 DEF Single, Exact, RequestOK, OwnOK
  <2>2. pc[t] = "wait" => mine[t] \in Actors
    BY DEF IInv, ChoiceOK, Employing
  <2> QED BY <2>1, <2>2
<1>3. CASE pc[t] = "idle"
  BY <1>3 DEF Phase, PhaseAt
<1>4. CASE pc[t] \in Before
  <2>1. moved[t] = "no" /\ pc[t] # "wait"
    BY <1>4 DEF Single, Exact, RequestOK, OwnOK, Before
  <2>2. Phase(t) = "asked"
    BY <1>2, <1>4, <2>1 DEF Phase, Before
  <2> QED BY <1>4, <2>2 DEF PhaseAt, Before
<1>5. CASE pc[t] = "account"
  <2>1. moved[t] # "no"
    BY <1>5 DEF Single, Exact, RequestOK, OwnOK
  <2> QED BY <1>2, <1>5, <2>1 DEF Phase, PhaseAt, Before
<1>6. CASE pc[t] = "wait"
  <2>1. CASE job[mine[t]] = t
    BY <1>2, <1>6, <2>1 DEF Phase, PhaseAt, Before
  <2>2. CASE job[mine[t]] # t
    BY <1>2, <1>6, <2>2 DEF Phase, PhaseAt, Before
  <2> QED BY <2>1, <2>2
<1>7. CASE pc[t] \in {"fireLock", "fireLockWait", "clear", "fireUnlock", "fire"}
  BY <1>7 DEF Phase, PhaseAt, Before
<1> QED BY <1>1, <1>3, <1>4, <1>5, <1>6, <1>7 DEF Before, Locations, Suspended

LEMMA PhaseByPlaceNext == IInv' /\ Single' => PlaceTellsPhase'
BY PhaseByPlace, PTL

PhaseMap == [u \in Threads |-> Phase(u)]

(* A step that changes the place of one thread only, as far as the service *)
(* can tell.                                                               *)
LEMMA PhaseMoves ==
  ASSUME PlaceTellsPhase, PlaceTellsPhase', NEW t \in Threads,
         \A u \in Threads \ {t} : PhaseAt(u)' = PhaseAt(u)
  PROVE  PhaseMap[t] = PhaseAt(t) /\ PhaseMap' = [PhaseMap EXCEPT ![t] = PhaseAt(t)']
<1> HIDE DEF PhaseAt
<1>1. \A u \in Threads : Phase(u) = PhaseAt(u) /\ Phase(u)' = PhaseAt(u)'
  BY DEF PlaceTellsPhase
<1> QED BY <1>1 DEF PhaseMap

LEMMA PhasesStay ==
  ASSUME PlaceTellsPhase, PlaceTellsPhase', UNCHANGED <<moved, ret>>,
         \A u \in Threads : PhaseAt(u)' = PhaseAt(u)
  PROVE  UNCHANGED Service!vars
<1> HIDE DEF PhaseAt
<1>1. \A u \in Threads : Phase(u)' = Phase(u)
  BY DEF PlaceTellsPhase
<1> QED BY <1>1 DEF Service!vars

(* The actor is free for one more transfer when the service is.            *)
LEMMA RoomToRun ==
  ASSUME IInv, Single, NEW t \in Threads, pc[t] = "start"
  PROVE  Cardinality({u \in Threads : PhaseMap[u] = "running"}) < NumActors
<1> DEFINE Run == {u \in Threads : PhaseMap[u] = "running"}
<1>1. Run \subseteq {u \in Threads : pc[u] = "wait"}
  BY PhaseByPlace DEF PlaceTellsPhase, PhaseMap, PhaseAt
<1> HIDE DEF Run
<1>2. \A u \in Run \cup {t} : u \in Threads /\ pc[u] \in Employing /\ mine[u] \in Actors
  BY <1>1 DEF IInv, ChoiceOK, Employing
<1> DEFINE F == [u \in Run \cup {t} |-> mine[u]]
<1>3. F \in Injection(Run \cup {t}, Actors)
  <2>1. F \in [Run \cup {t} -> Actors]
    BY <1>2
  <2>2. \A u, v \in Run \cup {t} : mine[u] = mine[v] => u = v
    BY <1>2, OwnActor
  <2> QED BY <2>1, <2>2 DEF Injection, IsInjective
<1>4. IsFiniteSet(Run \cup {t}) /\ Cardinality(Run \cup {t}) <= NumActors
  BY <1>3, ActorsFinite, FS_Injection
<1>5. IsFiniteSet(Run) /\ t \notin Run
  BY <1>1, <1>4, FS_Subset
<1>6. Cardinality(Run \cup {t}) = Cardinality(Run) + 1 /\ Cardinality(Run) \in Nat
  BY <1>5, FS_AddElement, FS_CardinalityType
<1>7. NumActors \in Nat
  BY ConstantsOK DEF ConstantsOK
<1> QED BY <1>4, <1>6, <1>7 DEF Run

(* Each step, seen from the service.                                       *)
LEMMA CallIsAsk ==
  ASSUME IInv, PlaceTellsPhase, PlaceTellsPhase', NEW t \in Threads, Call(t)
  PROVE  Service!Ask(t)
<1> USE DEF Call, At, Goto, IInv, TypeOK
<1>1. \A u \in Threads \ {t} : PhaseAt(u)' = PhaseAt(u)
  BY DEF PhaseAt
<1>2. PhaseAt(t) = "idle" /\ PhaseAt(t)' = "asked"
  BY DEF PhaseAt, Before
<1> HIDE DEF IInv, TypeOK, PhaseAt
<1> QED BY <1>1, <1>2, PhaseMoves DEF Service!Ask, Service!Step, PhaseMap

(* The service counts with the same Cardinality.                           *)
LEMMA SameCount == ASSUME NEW S PROVE Service!Cardinality(S) = Cardinality(S)
BY DEF Service!Cardinality, Cardinality

LEMMA StartIsRun ==
  ASSUME IInv, Single, PlaceTellsPhase, PlaceTellsPhase', NEW t \in Threads, Start(t)
  PROVE  Service!Run(t) \/ UNCHANGED Service!vars
<1>1. /\ pc[t] = "start" /\ pc' = [pc EXCEPT ![t] = "wait"]
      /\ UNCHANGED <<mine, moved, ret>> /\ moved[t] = "no"
      /\ job' = [job EXCEPT ![mine[t]] = t] \/ job' = job
  BY DEF Start, At, Goto, Single, Exact, RequestOK, OwnOK, Before
<1>2. mine[t] \in Actors /\ ~Busy(mine[t])
  BY <1>1, RestBefore DEF Employing, IInv, ChoiceOK, Single
<1>3. pc \in [Threads -> Locations] /\ job \in [Actors -> Threads \cup {NoThread}]
  BY DEF IInv, TypeOK
<1>4. \A u \in Threads : u # t /\ pc[u] = "wait" => mine[u] \in Actors /\ mine[u] # mine[t]
  BY <1>1, OwnActor DEF Employing, IInv, ChoiceOK
<1>5. \A u \in Threads \ {t} : PhaseAt(u)' = PhaseAt(u)
  BY <1>1, <1>2, <1>3, <1>4 DEF PhaseAt
<1>6. PhaseAt(t) = "asked"
  BY <1>1 DEF PhaseAt, Before
<1>7. CASE job' = [job EXCEPT ![mine[t]] = t]
  <2>1. PhaseAt(t)' = "running"
    BY <1>1, <1>2, <1>3, <1>7 DEF PhaseAt, Before
  <2> HIDE DEF PhaseAt
  <2>2. Cardinality({u \in Threads : PhaseMap[u] = "running"}) < NumActors
    BY <1>1, RoomToRun
  <2>3. Service!Step(t, "asked", "running")
    BY <1>5, <1>6, <2>1, PhaseMoves DEF Service!Step, PhaseMap
  <2>4. Cardinality({u \in Threads : [v \in Threads |-> Phase(v)][u] = "running"}) < NumActors
    BY <2>2, Zenon DEF PhaseMap
  <2> QED BY <1>1, <2>3, <2>4, SameCount, Zenon DEF Service!Run
<1>8. CASE job' = job
  <2>1. NoThread \notin Threads
    BY ConstantsOK DEF ConstantsOK
  <2>2. PhaseAt(t)' = "asked"
    BY <1>1, <1>2, <1>3, <1>8, <2>1 DEF PhaseAt, Before, Busy
  <2> HIDE DEF PhaseAt
  <2> QED BY <1>1, <1>5, <1>6, <2>2, PhasesStay
<1> QED BY <1>1, <1>7, <1>8

LEMMA EngineIsMove ==
  ASSUME IInv, Single, PlaceTellsPhase, PlaceTellsPhase', NEW a \in Actors,
         EngineDone(a) \/ EngineAbort(a)
  PROVE  \E t \in Threads : Service!Move(t)
<1>1. PICK t \in Threads : pc[t] = "wait" /\ mine[t] = a /\ job[a] = t
  BY DEF Single, Exact, ActorOK, RequestOK, OwnOK, Busy, EngineDone, EngineAbort, MayEnd
<1>2. /\ job' = [job EXCEPT ![a] = NoThread] /\ UNCHANGED <<pc, mine, ret>>
      /\ \E e \in {"done", "abort"} : moved' = [moved EXCEPT ![t] = e]
  BY <1>1 DEF EngineDone, EngineAbort, Ended, threadVars
<1>3. /\ pc \in [Threads -> Locations] /\ job \in [Actors -> Threads \cup {NoThread}]
      /\ moved \in [Threads -> {"no", "done", "abort"}] /\ NoThread \notin Threads
  BY ConstantsOK DEF ConstantsOK, IInv, TypeOK
<1>4. \A u \in Threads : u # t /\ pc[u] = "wait" => mine[u] \in Actors /\ mine[u] # a
  BY <1>1, OwnActor DEF Employing, IInv, ChoiceOK
<1>5. \A u \in Threads \ {t} : PhaseAt(u)' = PhaseAt(u)
  BY <1>1, <1>2, <1>3, <1>4 DEF PhaseAt
<1>6. PhaseAt(t) = "running" /\ PhaseAt(t)' = "moved"
  BY <1>1, <1>2, <1>3 DEF PhaseAt, Before
<1> HIDE DEF PhaseAt
<1> QED BY <1>2, <1>5, <1>6, PhaseMoves DEF Service!Move, Service!Step, PhaseMap

LEMMA AccountIsAnswer ==
  ASSUME IInv, Single, PlaceTellsPhase, PlaceTellsPhase', NEW t \in Threads, Account(t)
  PROVE  Service!Answer(t)
<1>1. UNCHANGED job /\ pc[t] = "account" /\ pc' = [pc EXCEPT ![t] = "fireLock"] /\ UNCHANGED <<mine, moved>>
  BY AccountStep DEF Account, At, Goto, Single
<1>2. ret' = [ret EXCEPT ![t] = IF moved[t] = "done" THEN "all" ELSE "less"]
  <2>1. result[mine[t]] = {moved[t]}
    BY <1>1 DEF Single, Exact, RequestOK, OwnOK
  <2>2. "done" \in result[mine[t]] <=> moved[t] = "done"
    BY <2>1
  <2>3. ret' = [ret EXCEPT ![t] = IF "done" \in result[mine[t]] THEN "all" ELSE "less"]
    BY DEF Account
  <2> QED BY <2>2, <2>3
<1>3. pc \in [Threads -> Locations]
  BY DEF IInv, TypeOK
<1>4. \A u \in Threads \ {t} : PhaseAt(u)' = PhaseAt(u)
  BY <1>1, <1>3 DEF PhaseAt
<1>5. PhaseAt(t) = "moved" /\ PhaseAt(t)' = "answered"
  BY <1>1, <1>3 DEF PhaseAt, Before
<1> HIDE DEF PhaseAt
<1> QED BY <1>1, <1>2, <1>4, <1>5, PhaseMoves DEF Service!Answer, Service!Step, PhaseMap

LEMMA FireIsLeave ==
  ASSUME IInv, Single, PlaceTellsPhase, PlaceTellsPhase', NEW t \in Threads, Fire(t)
  PROVE  Service!Leave(t)
<1>1. \A u \in Threads \ {t} : PhaseAt(u)' = PhaseAt(u)
  BY FireMoves DEF PhaseAt, Stays, hwVars, Single
<1>2. PhaseAt(t) = "answered" /\ PhaseAt(t)' = "idle" /\ UNCHANGED <<moved, ret>>
  BY FireMoves DEF PhaseAt, Before, hwVars, Leaves, Single
<1> HIDE DEF PhaseAt
<1> QED BY <1>1, <1>2, PhaseMoves DEF Service!Leave, Service!Step, PhaseMap

(* Everything else happens behind the service's back.                      *)
LEMMA PoolIsInvisible ==
  ASSUME IInv, Single, PlaceTellsPhase, PlaceTellsPhase', NEW t \in Threads,
         \/ TakePool(t) \/ LockToEmploy(t) \/ Scan(t) \/ Mark(t)
         \/ UnlockAfterEmploy(t) \/ LockToFire(t) \/ Clear(t)
         \/ UnlockAfterFire(t) \/ Setup(t) \/ WaitDone(t)
  PROVE  UNCHANGED Service!vars
<1>1. CASE Setup(t)
  <2>1. \A u \in Threads : PhaseAt(u)' = PhaseAt(u)
    BY <1>1 DEF Setup, At, Goto, PhaseAt, Before, hwVars, IInv, TypeOK
  <2> QED BY <1>1, <2>1, PhasesStay DEF Setup, hwVars
<1>2. CASE WaitDone(t)
  <2>1. moved[t] # "no" /\ job[mine[t]] # t
    <3>1. mine[t] \in Actors /\ pc[t] = "wait" /\ actorSem[mine[t]] # 0
      BY <1>2 DEF WaitDone, At, Employing, IInv, ChoiceOK
    <3> QED BY <1>2, <3>1, ConstantsOK DEF ConstantsOK, Single, Exact, ActorOK, RequestOK,
         OwnOK
  <2>2. \A u \in Threads : PhaseAt(u)' = PhaseAt(u)
    BY <1>2, <2>1 DEF WaitDone, At, Goto, PhaseAt, Before, hwVars, IInv, TypeOK
  <2> QED BY <1>2, <2>2, PhasesStay DEF WaitDone, hwVars
<1>3. CASE ~Setup(t) /\ ~WaitDone(t)
  <2>1. UNCHANGED <<ret, hwVars>> /\ \A u \in Threads : Stays(u)
    BY <1>3, PoolMoves DEF Single
  <2>2. \A u \in Threads : PhaseAt(u)' = PhaseAt(u)
    BY <2>1 DEF PhaseAt, Stays, hwVars
  <2> QED BY <2>1, <2>2, PhasesStay DEF hwVars
<1> QED BY <1>1, <1>2, <1>3

LEMMA InterruptIsInvisible ==
  ASSUME PlaceTellsPhase, PlaceTellsPhase', OtherTimeout \/ Isr \/ UNCHANGED vars
  PROVE  UNCHANGED Service!vars
<1>1. UNCHANGED <<pc, mine, ret, job, moved>>
  BY DEF OtherTimeout, Isr, IsrReadIntsts, IsrReadAbtsts, IsrReadTdsts, IsrServe,
     threadVars, hwVars, vars
<1>2. \A u \in Threads : PhaseAt(u)' = PhaseAt(u)
  BY <1>1 DEF PhaseAt
<1> QED BY <1>1, <1>2, PhasesStay

LEMMA StepIsServed ==
  ASSUME IInv, Single, IInv', Single', [Next]_vars
  PROVE  [Service!Next]_(Service!vars)
<1>1. PlaceTellsPhase /\ PlaceTellsPhase'
  BY PhaseByPlace, PhaseByPlaceNext
<1>2. ASSUME NEW t \in Threads, Thread(t) PROVE Service!Next \/ UNCHANGED Service!vars
  <2>1. CASE Call(t)
    BY <1>1, <2>1, CallIsAsk DEF Service!Next
  <2>2. CASE Start(t)
    BY <1>1, <2>2, StartIsRun DEF Service!Next
  <2>3. CASE Account(t)
    BY <1>1, <2>3, AccountIsAnswer DEF Service!Next
  <2>4. CASE Fire(t)
    BY <1>1, <2>4, FireIsLeave DEF Service!Next
  <2> QED BY <1>1, <1>2, <2>1, <2>2, <2>3, <2>4, PoolIsInvisible DEF Thread
<1>3. ASSUME NEW a \in Actors, EngineDone(a) \/ EngineAbort(a) PROVE Service!Next
  BY <1>1, <1>3, EngineIsMove DEF Service!Next
<1> QED BY <1>1, <1>2, <1>3, InterruptIsInvisible DEF Next

LEMMA InitIsServed == Init => Service!Init
BY DEF Init, Service!Init, Phase

(* Until an end is first reported twice, what threads, mutex, semaphores   *)
(* and handler do together is a copy service: a request runs once, at most *)
(* NumActors of them at a time, and its answer tells what the engine did   *)
(* for it.                                                                 *)
THEOREM ImplementsService == Spec => ServiceUntilTwice
<1> DEFINE Served == [twice' # {} \/ Service!Next]_(Service!vars)
<1>1. ASSUME IInv, Exact, IInv', Exact', [Next]_vars PROVE Served
  <2>1. CASE twice' # {}
    BY <2>1
  <2>2. CASE twice' = {}
    <3>1. Single /\ Single'
      BY <1>1, <2>2, TwiceStays DEF Single
    <3> QED BY <1>1, <3>1, StepIsServed
  <2> QED BY <2>1, <2>2
<1>2. IInv /\ Exact /\ IInv' /\ Exact' /\ [Next]_vars => Served
  BY <1>1
<1> QED BY <1>2, Inductive, ExactInvariant, InitIsServed, PTL DEF Spec, ServiceUntilTwice

=============================================================================
