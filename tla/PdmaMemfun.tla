----------------------------- MODULE PdmaMemfun -----------------------------
(***************************************************************************)
(* Memory-to-memory copies through a pool of PDMA channels:                *)
(* nu_pdma_memfun() of drv_pdma.c, the actors it employs, the PDMA engine  *)
(* that moves the data and pdma_isr() that reports the end of a transfer.  *)
(*                                                                         *)
(* A thread takes a token of the pool semaphore, then, under the pool      *)
(* mutex, the first free bit of the actor mask; it programs the actor's    *)
(* channel, waits on the actor's own semaphore, reads the result the       *)
(* interrupt handler left, clears its bit and gives the token back.        *)
(* There is one core: no thread runs while the interrupt handler does, but *)
(* the engine keeps running and may raise a flag between any two reads of  *)
(* the handler.                                                            *)
(***************************************************************************)
EXTENDS Integers, Sequences, FiniteSets

CONSTANTS
  Threads,     (* the threads that call nu_pdma_memcpy or nu_pdma_mempush   *)
  NoThread,    (* no thread: a free mutex, a channel at rest                *)
  NumActors,   (* nu_pdma_memfun_actor_maxnum: the channels of the pool     *)
  Prio,        (* the threads' priorities, a smaller number more urgent     *)
  Requests,    (* requests made: "ok", or "bad": nu_pdma_transfer refuses   *)
  Noise,       (* what may raise the interrupt beside a finished transfer:  *)
               (* "abort" (an AHB bus error ends it), "timeout" (another    *)
               (* driver's channel on the same interrupt)                   *)
  MaxNoise     (* bound: aborts and timeouts in a behaviour                 *)

ASSUME ConstantsOK ==
  /\ NumActors \in Nat \ {0}
  /\ Prio \in [Threads -> Nat]
  /\ NoThread \notin Threads
  /\ IsFiniteSet(Threads)
  /\ Requests \subseteq {"ok", "bad"}
  /\ Noise \subseteq {"abort", "timeout"}
  /\ MaxNoise \in Nat

Actors  == 0 .. NumActors - 1
NoActor == NumActors    \* what nu_cto returns for a mask without a zero bit

VARIABLES
  pc,         \* where each thread is in nu_pdma_memfun
  mine,       \* idx, the actor each thread employs
  mask,       \* nu_pdma_memfun_actor_mask: the bits that are set
  poolSem,    \* value of nu_pdma_memfun_actor_pool_sem
  poolQ,      \* its suspended threads, first come first served
  owner,      \* owner of nu_pdma_memfun_actor_pool_lock
  lockQ,      \* its suspended threads, in order of priority
  actorSem,   \* value of each actor's m_psSemMemFun
  result,     \* each actor's m_u32Result
  ret,        \* what the thread's last call returned: all it asked for or less
  job,        \* engine: the thread whose transfer runs on the actor's channel
  td,         \* engine: TDSTS, channels whose transfer is done
  abt,        \* engine: ABTSTS, channels whose transfer was aborted
  reqto,      \* engine: REQTOF of a channel that is not in the pool
  isr,        \* where pdma_isr is
  snap,       \* the status registers pdma_isr has read
  noise,      \* aborts and timeouts raised so far
  moved,      \* history: how the engine ended the thread's current transfer
  twice       \* history: channels whose flag was served and left standing

threadVars == <<pc, mine, ret>>
poolVars   == <<mask, poolSem, poolQ, owner, lockQ>>
doneVars   == <<actorSem, result>>
hwVars     == <<job, td, abt, reqto, noise, moved>>
isrVars    == <<isr, snap, twice>>
vars == <<threadVars, poolVars, doneVars, hwVars, isrVars>>

Suspended == {"poolWait", "employLockWait", "fireLockWait"}
Locations ==
  Suspended \cup
  {"idle", "employ", "employLock", "scan", "mark", "employUnlock", "setup",
   "start", "wait", "account", "fireLock", "clear", "fireUnlock", "fire"}

NoSnap == [td |-> FALSE, abt |-> FALSE, tdsts |-> {}, abtsts |-> {}]

Init ==
  /\ pc = [t \in Threads |-> "idle"]
  /\ mine = [t \in Threads |-> NoActor]
  /\ mask = {}
  /\ poolSem = NumActors
  /\ poolQ = <<>>
  /\ owner = NoThread
  /\ lockQ = <<>>
  /\ actorSem = [a \in Actors |-> 0]
  /\ result = [a \in Actors |-> {}]
  /\ ret = [t \in Threads |-> "none"]
  /\ job = [a \in Actors |-> NoThread]
  /\ td = {}
  /\ abt = {}
  /\ reqto = FALSE
  /\ isr = "off"
  /\ snap = NoSnap
  /\ noise = 0
  /\ moved = [t \in Threads |-> "no"]
  /\ twice = {}

-----------------------------------------------------------------------------
(* The kernel's semaphore and mutex, as far as the pool uses them.         *)

Goto(t, l) == pc' = [pc EXCEPT ![t] = l]

(* A thread runs at `l` only while the interrupt line is down: the handler *)
(* preempts it, and comes back at once while a flag is still up.           *)
Pending == td # {} \/ abt # {} \/ reqto
At(t, l) == isr = "off" /\ ~Pending /\ pc[t] = l

(* _ipc_list_suspend with RT_IPC_FLAG_PRIO: before the first thread that   *)
(* is less urgent, after those as urgent as t.                             *)
ByPriority(q, t) ==
  LET k == Cardinality({i \in 1 .. Len(q) : Prio[q[i]] <= Prio[t]})
  IN  SubSeq(q, 1, k) \o <<t>> \o SubSeq(q, k + 1, Len(q))

(* rt_mutex_take: own a free mutex, else be suspended until it is handed   *)
(* over.                                                                   *)
TakeLock(t, got, waiting) ==
  \/ /\ owner = NoThread
     /\ owner' = t
     /\ Goto(t, got)
     /\ UNCHANGED lockQ
  \/ /\ owner # NoThread
     /\ lockQ' = ByPriority(lockQ, t)
     /\ Goto(t, waiting)
     /\ UNCHANGED owner

(* rt_mutex_release: the first suspended thread becomes the owner and      *)
(* returns from its rt_mutex_take.                                         *)
Resumed(l) == IF l = "employLockWait" THEN "scan" ELSE "clear"

ReleaseLock(t, next) ==
  \/ /\ lockQ = <<>>
     /\ owner' = NoThread
     /\ Goto(t, next)
     /\ UNCHANGED lockQ
  \/ /\ lockQ # <<>>
     /\ owner' = Head(lockQ)
     /\ lockQ' = Tail(lockQ)
     /\ pc' = [pc EXCEPT ![t] = next, ![Head(lockQ)] = Resumed(@)]

-----------------------------------------------------------------------------
(* nu_pdma_memfun_employ                                                   *)

Call(t) ==
  /\ At(t, "idle")
  /\ Goto(t, "employ")
  /\ ret' = [ret EXCEPT ![t] = "none"]
  /\ moved' = [moved EXCEPT ![t] = "no"]
  /\ UNCHANGED <<mine, poolVars, doneVars, job, td, abt, reqto, noise, isrVars>>

(* Mutant of TakePool: the semaphore is tested and not decremented.        *)
TakePoolUncounted(t) ==
  /\ At(t, "employ")
  /\ \/ /\ poolSem > 0
        /\ Goto(t, "employLock")
        /\ UNCHANGED <<poolSem, poolQ>>
     \/ /\ poolSem = 0
        /\ poolQ' = Append(poolQ, t)
        /\ Goto(t, "poolWait")
        /\ UNCHANGED poolSem
  /\ UNCHANGED <<mine, ret, mask, owner, lockQ, doneVars, hwVars, isrVars>>

(* rt_sem_take(nu_pdma_memfun_actor_pool_sem, RT_WAITING_FOREVER)          *)
TakePool(t) ==
  /\ At(t, "employ")
  /\ \/ /\ poolSem > 0
        /\ poolSem' = poolSem - 1
        /\ Goto(t, "employLock")
        /\ UNCHANGED poolQ
     \/ /\ poolSem = 0
        /\ poolQ' = Append(poolQ, t)
        /\ Goto(t, "poolWait")
        /\ UNCHANGED poolSem
  /\ UNCHANGED <<mine, ret, mask, owner, lockQ, doneVars, hwVars, isrVars>>

(* Mutant of LockToEmploy: the mask is searched without the mutex.         *)
EmployUnlocked(t) ==
  /\ At(t, "employLock")
  /\ Goto(t, "scan")
  /\ UNCHANGED <<mine, ret, poolVars, doneVars, hwVars, isrVars>>

LockToEmploy(t) ==
  /\ At(t, "employLock")
  /\ TakeLock(t, "scan", "employLockWait")
  /\ UNCHANGED <<mine, ret, mask, poolSem, poolQ, doneVars, hwVars, isrVars>>

(* nu_cto: the first zero bit, or one past the last when all are set.      *)
Cto(m) ==
  IF Actors \subseteq m THEN NoActor
  ELSE CHOOSE a \in Actors \ m : \A b \in Actors \ m : a <= b

Scan(t) ==
  /\ At(t, "scan")
  /\ mine' = [mine EXCEPT ![t] = Cto(mask)]
  /\ Goto(t, IF Cto(mask) = NoActor THEN "employUnlock" ELSE "mark")
  /\ UNCHANGED <<ret, poolVars, doneVars, hwVars, isrVars>>

Mark(t) ==
  /\ At(t, "mark")
  /\ mask' = mask \cup {mine[t]}
  /\ Goto(t, "employUnlock")
  /\ UNCHANGED <<mine, ret, poolSem, poolQ, owner, lockQ, doneVars, hwVars, isrVars>>

(* A negative idx sends the caller's loop back to the pool semaphore.      *)
UnlockAfterEmploy(t) ==
  /\ At(t, "employUnlock")
  /\ ReleaseLock(t, IF mine[t] = NoActor THEN "employ" ELSE "setup")
  /\ UNCHANGED <<mine, ret, mask, poolSem, poolQ, doneVars, hwVars, isrVars>>

-----------------------------------------------------------------------------
(* nu_pdma_memfun, once an actor is employed                               *)

(* Memory control, filter, callback and m_u32Result of the actor.          *)
Setup(t) ==
  /\ At(t, "setup")
  /\ result' = [result EXCEPT ![mine[t]] = {}]
  /\ Goto(t, "start")
  /\ UNCHANGED <<mine, ret, poolVars, actorSem, hwVars, isrVars>>

(* nu_pdma_transfer, whose return value is dropped: a request it refuses   *)
(* (no item, an address off the data width) leaves the channel at rest.    *)
Start(t) ==
  /\ At(t, "start")
  /\ \/ /\ "ok" \in Requests
        /\ job' = [job EXCEPT ![mine[t]] = t]
     \/ /\ "bad" \in Requests
        /\ UNCHANGED job
  /\ Goto(t, "wait")
  /\ UNCHANGED <<mine, ret, poolVars, doneVars, td, abt, reqto, noise, moved, isrVars>>

(* Mutant of WaitDone: a wait that gives up after a while.                 *)
WaitWithTimeout(t) ==
  /\ At(t, "wait")
  /\ actorSem' = [actorSem EXCEPT ![mine[t]] = IF @ > 0 THEN @ - 1 ELSE 0]
  /\ Goto(t, "account")
  /\ UNCHANGED <<mine, ret, poolVars, result, hwVars, isrVars>>

(* rt_sem_take(psMemFunActor->m_psSemMemFun, RT_WAITING_FOREVER)           *)
WaitDone(t) ==
  /\ At(t, "wait")
  /\ actorSem[mine[t]] > 0
  /\ actorSem' = [actorSem EXCEPT ![mine[t]] = @ - 1]
  /\ Goto(t, "account")
  /\ UNCHANGED <<mine, ret, poolVars, result, hwVars, isrVars>>

(* Mutant of Account: the result is not looked at.                         *)
AccountAll(t) ==
  /\ At(t, "account")
  /\ ret' = [ret EXCEPT ![t] = "all"]
  /\ Goto(t, "fireLock")
  /\ UNCHANGED <<mine, poolVars, doneVars, hwVars, isrVars>>

(* The count returned; nu_pdma_channel_terminate after an abort resets the *)
(* channel, so nothing runs on it any more.                                *)
Account(t) ==
  /\ At(t, "account")
  /\ ret' = [ret EXCEPT ![t] = IF "done" \in result[mine[t]] THEN "all" ELSE "less"]
  /\ job' = IF "abort" \in result[mine[t]]
            THEN [job EXCEPT ![mine[t]] = NoThread] ELSE job
  /\ Goto(t, "fireLock")
  /\ UNCHANGED <<mine, poolVars, doneVars, td, abt, reqto, noise, moved, isrVars>>

LockToFire(t) ==
  /\ At(t, "fireLock")
  /\ TakeLock(t, "clear", "fireLockWait")
  /\ UNCHANGED <<mine, ret, mask, poolSem, poolQ, doneVars, hwVars, isrVars>>

(* Mutant of Clear: an actor whose transfer was aborted keeps its bit.     *)
ClearUnlessAborted(t) ==
  /\ At(t, "clear")
  /\ mask' = IF "abort" \in result[mine[t]] THEN mask ELSE mask \ {mine[t]}
  /\ Goto(t, "fireUnlock")
  /\ UNCHANGED <<mine, ret, poolSem, poolQ, owner, lockQ, doneVars, hwVars, isrVars>>

Clear(t) ==
  /\ At(t, "clear")
  /\ mask' = mask \ {mine[t]}
  /\ Goto(t, "fireUnlock")
  /\ UNCHANGED <<mine, ret, poolSem, poolQ, owner, lockQ, doneVars, hwVars, isrVars>>

UnlockAfterFire(t) ==
  /\ At(t, "fireUnlock")
  /\ ReleaseLock(t, "fire")
  /\ UNCHANGED <<mine, ret, mask, poolSem, poolQ, doneVars, hwVars, isrVars>>

(* Mutant of Fire: the token is counted as well as handed over.            *)
FireTwice(t) ==
  /\ At(t, "fire")
  /\ mine' = [mine EXCEPT ![t] = NoActor]
  /\ poolSem' = poolSem + 1
  /\ \/ /\ poolQ = <<>>
        /\ Goto(t, "idle")
        /\ UNCHANGED poolQ
     \/ /\ poolQ # <<>>
        /\ poolQ' = Tail(poolQ)
        /\ pc' = [pc EXCEPT ![t] = "idle", ![Head(poolQ)] = "employLock"]
  /\ UNCHANGED <<ret, mask, owner, lockQ, doneVars, hwVars, isrVars>>

(* Mutant of Fire: the semaphore counts up and nobody is resumed.          *)
FireSilently(t) ==
  /\ At(t, "fire")
  /\ mine' = [mine EXCEPT ![t] = NoActor]
  /\ poolSem' = poolSem + 1
  /\ Goto(t, "idle")
  /\ UNCHANGED <<ret, mask, poolQ, owner, lockQ, doneVars, hwVars, isrVars>>

(* rt_sem_release(nu_pdma_memfun_actor_pool_sem): the token goes to the    *)
(* first suspended thread, if there is one.                                *)
Fire(t) ==
  /\ At(t, "fire")
  /\ mine' = [mine EXCEPT ![t] = NoActor]
  /\ \/ /\ poolQ = <<>>
        /\ poolSem' = poolSem + 1
        /\ Goto(t, "idle")
        /\ UNCHANGED poolQ
     \/ /\ poolQ # <<>>
        /\ poolQ' = Tail(poolQ)
        /\ pc' = [pc EXCEPT ![t] = "idle", ![Head(poolQ)] = "employLock"]
        /\ UNCHANGED poolSem
  /\ UNCHANGED <<ret, mask, owner, lockQ, doneVars, hwVars, isrVars>>

Thread(t) ==
  \/ Call(t) \/ TakePool(t) \/ LockToEmploy(t) \/ Scan(t) \/ Mark(t)
  \/ UnlockAfterEmploy(t) \/ Setup(t) \/ Start(t) \/ WaitDone(t) \/ Account(t)
  \/ LockToFire(t) \/ Clear(t) \/ UnlockAfterFire(t) \/ Fire(t)

-----------------------------------------------------------------------------
(* The PDMA engine: it runs next to the core, whatever the core does.      *)

(* The engine never waits for the handler: it ends a transfer and raises   *)
(* the flag between any two of pdma_isr's reads. The history records the   *)
(* end for the call that asked for it, not for a later call of a thread    *)
(* that left before its transfer had ended.                                *)
MayEnd(a) == job[a] # NoThread
Ended(a, how) ==
  moved' = IF mine[job[a]] = a THEN [moved EXCEPT ![job[a]] = how] ELSE moved

EngineDone(a) ==
  /\ MayEnd(a)
  /\ td' = td \cup {a}
  /\ Ended(a, "done")
  /\ job' = [job EXCEPT ![a] = NoThread]
  /\ UNCHANGED <<threadVars, poolVars, doneVars, abt, reqto, noise, isrVars>>

EngineAbort(a) ==
  /\ "abort" \in Noise
  /\ noise < MaxNoise
  /\ noise' = noise + 1
  /\ MayEnd(a)
  /\ abt' = abt \cup {a}
  /\ Ended(a, "abort")
  /\ job' = [job EXCEPT ![a] = NoThread]
  /\ UNCHANGED <<threadVars, poolVars, doneVars, td, reqto, isrVars>>

(* The idle timeout of a channel that serves another driver, such as the   *)
(* receiver of a UART: the same interrupt, and no business of the pool.    *)
OtherTimeout ==
  /\ "timeout" \in Noise
  /\ noise < MaxNoise
  /\ reqto' = TRUE
  /\ noise' = noise + 1
  /\ UNCHANGED <<threadVars, poolVars, doneVars, job, td, abt, moved, isrVars>>

-----------------------------------------------------------------------------
(* pdma_isr reads INTSTS, then ABTSTS, then TDSTS, clears what it decided  *)
(* to clear and calls back for every channel it saw.                       *)

IsrReadIntsts ==
  /\ isr = "off"
  /\ Pending
  /\ snap' = [NoSnap EXCEPT !.td = (td # {}), !.abt = (abt # {})]
  /\ reqto' = FALSE
  /\ isr' = "abtsts"
  /\ UNCHANGED <<threadVars, poolVars, doneVars, job, td, abt, noise, moved, twice>>

IsrReadAbtsts ==
  /\ isr = "abtsts"
  /\ snap' = [snap EXCEPT !.abtsts = abt]
  /\ isr' = "tdsts"
  /\ UNCHANGED <<threadVars, poolVars, doneVars, hwVars, twice>>

(* Mutant of IsrReadTdsts: one flag is cleared, and all are served.        *)
IsrReadTdstsClearOne ==
  /\ isr = "tdsts"
  /\ snap' = [snap EXCEPT !.tdsts = td]
  /\ td' = {a \in td : \E b \in td : b < a}
  /\ isr' = "serve"
  /\ UNCHANGED <<threadVars, poolVars, doneVars, job, abt, reqto, noise, moved, twice>>

(* A flag is cleared only when its summary bit was up in INTSTS; one that  *)
(* rose since is served all the same and brings the handler back for the   *)
(* same end.                                                               *)
IsrReadTdsts ==
  /\ isr = "tdsts"
  /\ snap' = [snap EXCEPT !.tdsts = td]
  /\ td' = IF snap.td THEN {} ELSE td
  /\ abt' = IF snap.abt THEN abt \ snap.abtsts ELSE abt
  /\ twice' = twice \cup (IF snap.td THEN {} ELSE td)
                   \cup (IF snap.abt THEN {} ELSE snap.abtsts)
  /\ isr' = "serve"
  /\ UNCHANGED <<threadVars, poolVars, doneVars, job, reqto, noise, moved>>

(* nu_pdma_memfun_cb for every channel seen: no thread runs before the     *)
(* last of them, so the loop over the channels is one step.                *)
Events(a) == (IF a \in snap.abtsts THEN {"abort"} ELSE {}) \cup
             (IF a \in snap.tdsts  THEN {"done"}  ELSE {})

(* Mutant of IsrServe: the thread is woken before its result is written.   *)
IsrServeNoResult ==
  /\ isr = "serve"
  /\ actorSem' = [a \in Actors |-> actorSem[a] + (IF Events(a) = {} THEN 0 ELSE 1)]
  /\ isr' = "off"
  /\ snap' = NoSnap
  /\ UNCHANGED <<threadVars, poolVars, result, hwVars, twice>>

IsrServe ==
  /\ isr = "serve"
  /\ result' = [a \in Actors |-> IF Events(a) = {} THEN result[a] ELSE Events(a)]
  /\ actorSem' = [a \in Actors |-> actorSem[a] + (IF Events(a) = {} THEN 0 ELSE 1)]
  /\ isr' = "off"
  /\ snap' = NoSnap
  /\ UNCHANGED <<threadVars, poolVars, hwVars, twice>>

Isr == IsrReadIntsts \/ IsrReadAbtsts \/ IsrReadTdsts \/ IsrServe

Next ==
  \/ \E t \in Threads : Thread(t)
  \/ \E a \in Actors : EngineDone(a) \/ EngineAbort(a)
  \/ OtherTimeout
  \/ Isr

Spec == Init /\ [][Next]_vars

(***************************************************************************)
(* Fairness: a pending interrupt is taken and runs to its end, the engine  *)
(* finishes what it started whatever the handler does meanwhile, and a     *)
(* thread the interrupts preempt again and again still runs: the handler   *)
(* returns to it each time, and threads of one priority share the core in  *)
(* turns. A thread need not call.                                          *)
(***************************************************************************)
Fairness ==
  /\ WF_vars(Isr)
  /\ \A a \in Actors : WF_vars(EngineDone(a))
  /\ \A t \in Threads : SF_vars(Thread(t) /\ pc[t] # "idle")

LiveSpec == Spec /\ Fairness

-----------------------------------------------------------------------------
(* What the pool promises.                                                 *)

(* Every variable has its type.                                            *)
TypeOK ==
  /\ pc \in [Threads -> Locations]
  /\ mine \in [Threads -> Actors \cup {NoActor}]
  /\ mask \in SUBSET Actors
  /\ poolSem \in 0 .. NumActors
  /\ poolQ \in Seq(Threads)
  /\ owner \in Threads \cup {NoThread}
  /\ lockQ \in Seq(Threads)
  /\ actorSem \in [Actors -> Nat]
  /\ result \in [Actors -> SUBSET {"done", "abort"}]
  /\ ret \in [Threads -> {"none", "all", "less"}]
  /\ job \in [Actors -> Threads \cup {NoThread}]
  /\ td \in SUBSET Actors
  /\ abt \in SUBSET Actors
  /\ reqto \in BOOLEAN
  /\ isr \in {"off", "abtsts", "tdsts", "serve"}
  /\ snap \in [td : BOOLEAN, abt : BOOLEAN,
               tdsts : SUBSET Actors, abtsts : SUBSET Actors]
  /\ noise \in 0 .. MaxNoise
  /\ moved \in [Threads -> {"no", "done", "abort"}]
  /\ twice \in SUBSET Actors

(* Threads whose bit is set in the mask; threads that hold a token of the  *)
(* pool semaphore; threads inside the pool mutex.                          *)
Employing == {"employUnlock", "setup", "start", "wait", "account", "fireLock",
              "fireLockWait", "clear"}
Employers == {t \in Threads : pc[t] \in Employing /\ mine[t] # NoActor}
Holding == Locations \ {"idle", "employ", "poolWait"}
Holders == {t \in Threads : pc[t] \in Holding}
Critical == {"scan", "mark", "employUnlock", "clear", "fireUnlock"}

(* Two calls never share an actor, and the mask is the set of the actors   *)
(* that are employed: drv_pdma.c hands each bit to one thread only.        *)
ActorExclusive ==
  /\ \A t, u \in Employers : t # u => mine[t] # mine[u]
  /\ mask = {mine[t] : t \in Employers}

(* A thread that got past the pool semaphore finds a free bit: the loop    *)
(* `while ((idx = nu_pdma_memfun_employ()) < 0)` never goes round, so no   *)
(* token is ever taken without an actor to show for it.                    *)
EmployFindsActor ==
  \A t \in Threads : pc[t] = "scan" => Cto(mask) # NoActor

(* Tokens are neither lost nor made: those in the semaphore and those held *)
(* by threads add up to the number of actors, and a thread is suspended on *)
(* the semaphore only while it is empty.                                   *)
TokensConserved ==
  /\ poolSem + Cardinality(Holders) = NumActors
  /\ poolQ # <<>> => poolSem = 0

(* A thread leaves its wait only after the engine has ended this very      *)
(* transfer, and with the result of that ending - unless pdma_isr served a *)
(* flag of its actor without clearing it (drv_pdma.c:998-1018), and so     *)
(* reported one end twice. A double report of another actor does no harm.  *)
WaitedForOwnTransfer ==
  \A t \in Threads :
    pc[t] = "account" /\ mine[t] \notin twice => result[mine[t]] = {moved[t]}

(* An actor nobody employs is at rest: nothing runs on its channel, no     *)
(* flag of it waits for the handler, and its semaphore is drained, so the  *)
(* next employer cannot be woken by the previous one's transfer. Only an   *)
(* actor whose end was reported twice may keep a token too many.           *)
FreeActorAtRest ==
  \A a \in Actors \ (mask \cup twice) :
    /\ job[a] = NoThread
    /\ a \notin td \cup abt \cup snap.tdsts \cup snap.abtsts
    /\ actorSem[a] = 0

(* As long as finished transfers are the only cause of the interrupt, no   *)
(* end is reported twice, whenever the engine raises its flags, and both   *)
(* hold of every actor.                                                    *)
QuietPoolIsExact ==
  noise = 0 => twice = {} /\ WaitedForOwnTransfer /\ FreeActorAtRest

(* "Wait it done." says the comment over the wait of nu_pdma_memfun        *)
(* (drv_pdma.c:1208): a thread is past it only when the engine has ended   *)
(* its transfer. The code does not keep this: an end reported twice leaves *)
(* a token that lets the actor's next employer pass at once.               *)
WaitIsDone == \A t \in Threads : pc[t] = "account" => moved[t] # "no"

(* Every copy returns, whatever the other threads do.                      *)
CallsReturn == \A t \in Threads : pc[t] = "employ" ~> pc[t] = "idle"

-----------------------------------------------------------------------------
(* The pool as a copy service, CopyService.tla: a request is asked, run,   *)
(* moved and answered.                                                     *)
Phase(t) ==
  IF pc[t] = "idle" THEN "idle"
  ELSE IF pc[t] \in {"fireLock", "fireLockWait", "clear", "fireUnlock", "fire"} THEN "answered"
  ELSE IF \E a \in Actors : job[a] = t THEN "running"
  ELSE IF moved[t] = "no" THEN "asked" ELSE "moved"

Service == INSTANCE CopyService WITH
  Clients <- Threads, Width <- NumActors,
  phase <- [t \in Threads |-> Phase(t)], ending <- moved, answer <- ret

(* Until pdma_isr first reports an end twice, each step of the pool is a   *)
(* step of the copy service or invisible to it: at most NumActors          *)
(* transfers run, and an answer tells what the engine did for the request  *)
(* it answers.                                                             *)
ServiceUntilTwice ==
  Service!Init /\ [][twice' # {} \/ Service!Next]_(Service!vars)
=============================================================================
