-------------------------- MODULE PdmaMemfunProofs --------------------------
(***************************************************************************)
(* What holds of PdmaMemfun for every number of threads and of actors,     *)
(* every assignment of priorities and every request and disturbance.       *)
(***************************************************************************)
EXTENDS PdmaMemfun, FiniteSetTheorems, SequenceTheorems, WellFoundedInduction,
        TLAPS

(***************************************************************************)
(* The inductive invariant. A thread inside the critical section owns the  *)
(* mutex; the threads in a queue are suspended on it, each of them once;   *)
(* a free bit that nu_cto found stays free until it is set.                *)
(***************************************************************************)
NoDup(q) == \A i, j \in 1 .. Len(q) : q[i] = q[j] => i = j

LockOK ==
  /\ \A t \in Threads : pc[t] \in Critical => owner = t
  /\ lockQ # <<>> => owner # NoThread

QueuesOK ==
  /\ NoDup(lockQ) /\ NoDup(poolQ)
  /\ \A i \in 1 .. Len(lockQ) : pc[lockQ[i]] \in {"employLockWait", "fireLockWait"}
  /\ \A i \in 1 .. Len(poolQ) : pc[poolQ[i]] = "poolWait"

ChoiceOK ==
  \A t \in Threads :
    /\ pc[t] = "mark" => mine[t] \in Actors \ mask
    /\ pc[t] \in Employing \cup {"fireUnlock", "fire"} => mine[t] \in Actors

IInv == TypeOK /\ LockOK /\ QueuesOK /\ ChoiceOK /\ TokensConserved /\ ActorExclusive

-----------------------------------------------------------------------------
(* The helpers of the model                                                *)

(* The pool has NumActors actors.                                          *)
LEMMA ActorsFinite == IsFiniteSet(Actors) /\ Cardinality(Actors) = NumActors
BY ConstantsOK, FS_Interval DEF Actors, ConstantsOK

(* nu_cto returns a bit that is clear, unless all of them are set.         *)
LEMMA CtoFindsFree ==
  ASSUME NEW m \in SUBSET Actors
  PROVE  /\ Cto(m) = NoActor => m = Actors
         /\ Cto(m) # NoActor => Cto(m) \in Actors \ m
<1>0. NoActor \notin Actors /\ Actors \subseteq Nat
  BY ConstantsOK DEF ConstantsOK, Actors, NoActor
<1>1. CASE Actors \subseteq m
  BY <1>1 DEF Cto
<1>2. CASE ~(Actors \subseteq m)
  <2>1. Actors \ m # {} /\ Actors \ m \subseteq Nat
    BY <1>2, <1>0
  <2>2. PICK a \in Actors \ m : \A b \in Actors \ m : ~(<<b, a>> \in OpToRel(<, Nat))
    BY <2>1, WFMin, NatLessThanWellFounded
  <2>3. \A b \in Actors \ m : a <= b
    <3> SUFFICES ASSUME NEW b \in Actors \ m PROVE a <= b
      OBVIOUS
    <3>1. a \in Nat /\ b \in Nat
      BY <1>0
    <3>2. ~(b < a)
      BY <2>2, <3>1 DEF OpToRel
    <3> QED BY <3>1, <3>2
  <2>4. (CHOOSE x \in Actors \ m : \A b \in Actors \ m : x <= b) \in Actors \ m
    BY <2>3
  <2> QED BY <2>4, <1>2, <1>0 DEF Cto
<1> QED BY <1>1, <1>2

(* _ipc_list_suspend by priority puts t somewhere into the queue and       *)
(* leaves everyone else in it, in order.                                   *)
LEMMA ByPriorityInserts ==
  ASSUME NEW q \in Seq(Threads), NEW t \in Threads
  PROVE  /\ ByPriority(q, t) \in Seq(Threads)
         /\ ByPriority(q, t) # <<>>
         /\ \E k \in 0 .. Len(q) :
              /\ Len(ByPriority(q, t)) = Len(q) + 1
              /\ \A i \in 1 .. Len(q) + 1 :
                   ByPriority(q, t)[i] = IF i <= k THEN q[i]
                                         ELSE IF i = k + 1 THEN t ELSE q[i - 1]
<1> DEFINE ahead == {i \in 1 .. Len(q) : Prio[q[i]] <= Prio[t]}
           k == Cardinality(ahead)
           front == SubSeq(q, 1, k)
           back == SubSeq(q, k + 1, Len(q))
<1>1. k \in 0 .. Len(q)
  <2>1. IsFiniteSet(1 .. Len(q)) /\ Cardinality(1 .. Len(q)) = Len(q)
    <3>1. Len(q) \in Nat
      BY LenProperties
    <3> QED BY <3>1, FS_Interval
  <2>2. IsFiniteSet(ahead) /\ k <= Len(q)
    BY <2>1, FS_Subset
  <2> QED BY <2>2, FS_CardinalityType, LenProperties
<1> HIDE DEF k
<1>2. /\ front \in Seq(Threads) /\ Len(front) = k
      /\ \A i \in 1 .. k : front[i] = q[i]
  <2>1. \A i \in 1 .. k : q[i] \in Threads
    BY <1>1, ElementOfSeq
  <2> QED BY <1>1, <2>1, SubSeqProperties
<1>3. /\ back \in Seq(Threads) /\ Len(back) = Len(q) - k
      /\ \A i \in 1 .. Len(q) - k : back[i] = q[k + i]
  <2>1. \A i \in k + 1 .. Len(q) : q[i] \in Threads
    BY <1>1, ElementOfSeq
  <2> QED BY <1>1, <2>1, SubSeqProperties
<1> HIDE DEF front, back
<1>4. /\ front \o <<t>> \in Seq(Threads) /\ Len(front \o <<t>>) = k + 1
      /\ \A i \in 1 .. k + 1 : (front \o <<t>>)[i] = IF i <= k THEN q[i] ELSE t
  BY <1>1, <1>2, ConcatProperties
<1>5. ByPriority(q, t) = (front \o <<t>>) \o back
  BY DEF ByPriority, k, front, back
<1>6. /\ ByPriority(q, t) \in Seq(Threads)
      /\ Len(ByPriority(q, t)) = Len(q) + 1
      /\ \A i \in 1 .. Len(q) + 1 :
           ByPriority(q, t)[i] = IF i <= k + 1 THEN (front \o <<t>>)[i]
                                 ELSE back[i - (k + 1)]
  <2>1. k \in Nat /\ Len(q) \in Nat /\ (k + 1) + (Len(q) - k) = Len(q) + 1
    BY <1>1, LenProperties
  <2> QED BY <1>3, <1>4, <1>5, <2>1, ConcatProperties
<1>7. \A i \in 1 .. Len(q) + 1 :
        ByPriority(q, t)[i] = IF i <= k THEN q[i]
                              ELSE IF i = k + 1 THEN t ELSE q[i - 1]
  <2> SUFFICES ASSUME NEW i \in 1 .. Len(q) + 1
               PROVE  ByPriority(q, t)[i] = IF i <= k THEN q[i]
                                 ELSE IF i = k + 1 THEN t ELSE q[i - 1]
    OBVIOUS
  <2>1. CASE i <= k + 1
    BY <2>1, <1>1, <1>4, <1>6
  <2>2. CASE i > k + 1
    <3>1. i - (k + 1) \in 1 .. Len(q) - k /\ k + (i - (k + 1)) = i - 1
      BY <2>2, <1>1, LenProperties
    <3>2. ByPriority(q, t)[i] = back[i - (k + 1)]
      BY <2>2, <1>1, <1>6
    <3>3. back[i - (k + 1)] = q[i - 1]
      BY <3>1, <1>3
    <3> QED BY <3>2, <3>3, <2>2, <1>1
  <2> QED BY <2>1, <2>2, <1>1
<1> QED BY <1>1, <1>6, <1>7, EmptySeq

(* A queue stays without repetition when one who is not in it comes in,    *)
(* by priority or at the end, and when its head leaves.                    *)
LEMMA QueueInsert ==
  ASSUME NEW q \in Seq(Threads), NEW t \in Threads,
         NoDup(q), \A i \in 1 .. Len(q) : q[i] # t
  PROVE  /\ NoDup(ByPriority(q, t))
         /\ \A i \in 1 .. Len(ByPriority(q, t)) :
              \/ ByPriority(q, t)[i] = t
              \/ \E j \in 1 .. Len(q) : ByPriority(q, t)[i] = q[j]
<1> DEFINE b == ByPriority(q, t)
<1>1. PICK k \in 0 .. Len(q) :
        /\ Len(b) = Len(q) + 1
        /\ \A i \in 1 .. Len(q) + 1 :
             b[i] = IF i <= k THEN q[i] ELSE IF i = k + 1 THEN t ELSE q[i - 1]
  BY ByPriorityInserts
<1>2. Len(q) \in Nat
  BY LenProperties
<1> HIDE DEF b
<1>3. \A i \in 1 .. Len(q) + 1 :
        \/ i <= k /\ i \in 1 .. Len(q) /\ b[i] = q[i]
        \/ i = k + 1 /\ b[i] = t
        \/ i > k + 1 /\ i - 1 \in 1 .. Len(q) /\ b[i] = q[i - 1]
  BY <1>1, <1>2
<1>4. NoDup(b)
  <2> SUFFICES ASSUME NEW i \in 1 .. Len(q) + 1, NEW j \in 1 .. Len(q) + 1, b[i] = b[j]
               PROVE  i = j
    BY <1>1 DEF NoDup
  <2>1. \/ i <= k /\ i \in 1 .. Len(q) /\ b[i] = q[i]
        \/ i = k + 1 /\ b[i] = t
        \/ i > k + 1 /\ i - 1 \in 1 .. Len(q) /\ b[i] = q[i - 1]
    BY <1>3
  <2>2. \/ j <= k /\ j \in 1 .. Len(q) /\ b[j] = q[j]
        \/ j = k + 1 /\ b[j] = t
        \/ j > k + 1 /\ j - 1 \in 1 .. Len(q) /\ b[j] = q[j - 1]
    BY <1>3
  <2>3. \A m, n \in 1 .. Len(q) : q[m] = q[n] => m = n
    BY DEF NoDup
  <2>4. CASE i = k + 1 \/ j = k + 1
    BY <2>1, <2>2, <2>4, <1>2
  <2>5. CASE i # k + 1 /\ j # k + 1
    <3>1. PICK m \in 1 .. Len(q) : b[i] = q[m] /\ m = IF i <= k THEN i ELSE i - 1
      BY <2>1, <2>5, <1>2
    <3>2. PICK n \in 1 .. Len(q) : b[j] = q[n] /\ n = IF j <= k THEN j ELSE j - 1
      BY <2>2, <2>5, <1>2
    <3>3. m = n
      BY <3>1, <3>2, <2>3
    <3> QED BY <3>1, <3>2, <3>3, <2>1, <2>2, <2>5, <1>2
  <2> QED BY <2>4, <2>5
<1>5. \A i \in 1 .. Len(b) : b[i] = t \/ \E j \in 1 .. Len(q) : b[i] = q[j]
  BY <1>1, <1>3
<1> QED BY <1>4, <1>5 DEF b

(* rt_sem_take of an empty pool semaphore: the thread goes to the end of   *)
(* the queue, everyone else stays in it.                                   *)
LEMMA QueueAppend ==
  ASSUME NEW q \in Seq(Threads), NEW t \in Threads,
         NoDup(q), \A i \in 1 .. Len(q) : q[i] # t
  PROVE  /\ NoDup(Append(q, t))
         /\ \A i \in 1 .. Len(Append(q, t)) :
              \/ Append(q, t)[i] = t
              \/ \E j \in 1 .. Len(q) : Append(q, t)[i] = q[j]
<1>1. Len(q) \in Nat
  BY LenProperties
<1>2. /\ Len(Append(q, t)) = Len(q) + 1
      /\ \A i \in 1 .. Len(q) : Append(q, t)[i] = q[i]
      /\ Append(q, t)[Len(q) + 1] = t
  BY AppendProperties
<1> QED BY <1>1, <1>2 DEF NoDup

(* A resumed thread leaves the head of its queue and is not in it twice.   *)
LEMMA QueueTail ==
  ASSUME NEW q \in Seq(Threads), q # <<>>, NoDup(q)
  PROVE  /\ Head(q) = q[1] /\ 1 \in 1 .. Len(q) /\ Head(q) \in Threads
         /\ Tail(q) \in Seq(Threads)
         /\ NoDup(Tail(q))
         /\ \A i \in 1 .. Len(Tail(q)) :
              /\ Tail(q)[i] # Head(q)
              /\ \E j \in 1 .. Len(q) : Tail(q)[i] = q[j]
<1>1. /\ Len(q) \in Nat \ {0} /\ Len(Tail(q)) = Len(q) - 1
      /\ \A i \in 1 .. Len(Tail(q)) : Tail(q)[i] = q[i + 1]
      /\ Head(q) \in Threads /\ Tail(q) \in Seq(Threads)
  BY EmptySeq, HeadTailProperties
<1>2. Head(q) = q[1]
  OBVIOUS
<1>3. \A i \in 1 .. Len(Tail(q)) : i + 1 \in 1 .. Len(q) /\ i + 1 # 1
  BY <1>1
<1> QED BY <1>1, <1>2, <1>3 DEF NoDup

-----------------------------------------------------------------------------
(* Tokens of the pool semaphore                                            *)

LockWait == {"employLockWait", "fireLockWait"}

(* What the release of the mutex does when someone is suspended on it.     *)
LEMMA Handover ==
  ASSUME TypeOK, QueuesOK, NEW t \in Threads, NEW l \in Locations,
         pc[t] \notin LockWait, ReleaseLock(t, l), lockQ # <<>>
  PROVE  LET u == Head(lockQ)
         IN  /\ u \in Threads /\ u # t /\ pc[u] \in LockWait
             /\ owner' = u /\ lockQ' = Tail(lockQ)
             /\ pc' \in [Threads -> Locations]
             /\ \A v \in Threads : pc'[v] = IF v = t THEN l
                                            ELSE IF v = u THEN Resumed(pc[u]) ELSE pc[v]
<1> DEFINE u == Head(lockQ)
<1>1. u \in Threads /\ pc[u] \in LockWait
  <2>1. u = lockQ[1] /\ 1 \in 1 .. Len(lockQ) /\ u \in Threads
    BY QueueTail DEF TypeOK, QueuesOK
  <2> QED BY <2>1 DEF QueuesOK, LockWait
<1>2. u # t
  BY <1>1
<1>3. /\ owner' = u /\ lockQ' = Tail(lockQ)
      /\ pc' = [pc EXCEPT ![t] = l, ![u] = Resumed(@)]
  BY DEF ReleaseLock
<1> HIDE DEF u
<1>4. \A v \in Threads : pc'[v] = IF v = t THEN l
                                  ELSE IF v = u THEN Resumed(pc[u]) ELSE pc[v]
  BY <1>1, <1>2, <1>3 DEF TypeOK
<1>5. Resumed(pc[u]) \in Locations
  BY DEF Resumed, Locations
<1>6. pc' \in [Threads -> Locations]
  BY <1>1, <1>2, <1>3, <1>5 DEF TypeOK
<1> QED BY <1>1, <1>2, <1>3, <1>4, <1>6 DEF u

(* It changes nobody's holding of a token.                                 *)
LEMMA ReleaseKeepsHolders ==
  ASSUME TypeOK, QueuesOK, NEW t \in Threads, NEW l \in Holding,
         pc[t] \in Holding \ LockWait, ReleaseLock(t, l)
  PROVE  Holders' = Holders
<1>1. CASE lockQ = <<>>
  BY <1>1 DEF TypeOK, ReleaseLock, Goto, Holders, Holding, Locations, Suspended
<1>2. CASE lockQ # <<>>
  <2> DEFINE u == Head(lockQ)
  <2>1. /\ u \in Threads /\ pc[u] \in LockWait
        /\ \A v \in Threads : pc'[v] = IF v = t THEN l
                                       ELSE IF v = u THEN Resumed(pc[u]) ELSE pc[v]
    BY <1>2, Handover DEF Holding
  <2>2. pc[u] \in Holding /\ Resumed(pc[u]) \in Holding
    BY <2>1 DEF LockWait, Resumed, Holding, Locations, Suspended
  <2> HIDE DEF u
  <2> QED BY <2>1, <2>2 DEF Holders
<1> QED BY <1>1, <1>2

(* The tokens held can be counted, and someone who holds one counts.       *)
LEMMA HoldersFinite ==
  /\ IsFiniteSet(Holders) /\ Cardinality(Holders) \in Nat
  /\ \A t \in Holders : Cardinality(Holders) > 0
<1>1. IsFiniteSet(Holders) /\ Cardinality(Holders) \in Nat
  BY ConstantsOK, FS_Subset, FS_CardinalityType DEF ConstantsOK, Holders
<1> QED BY <1>1, FS_EmptySet

(* No step loses or makes a token of the pool semaphore: TakePool and Fire *)
(* move one, all the others leave its holder where it was.                 *)
LEMMA TokenStep ==
  ASSUME IInv, Next
  PROVE  (poolSem \in 0 .. NumActors)' /\ TokensConserved'
<1> USE ConstantsOK DEF ConstantsOK
<1>a. /\ poolSem \in 0 .. NumActors /\ poolSem + Cardinality(Holders) = NumActors
      /\ poolQ # <<>> => poolSem = 0
  BY DEF IInv, TypeOK, TokensConserved
<1>b. ASSUME Holders' = Holders, UNCHANGED <<poolSem, poolQ>>
      PROVE  (poolSem \in 0 .. NumActors)' /\ TokensConserved'
  BY <1>a, <1>b DEF TokensConserved
<1>c. ASSUME NEW t \in Threads, NEW l \in Locations, Goto(t, l), UNCHANGED <<poolSem, poolQ>>,
             pc[t] \in Holding <=> l \in Holding
      PROVE  Holders' = Holders
  BY <1>c DEF Goto, IInv, TypeOK, Holders
<1>1. ASSUME NEW t \in Threads, TakePool(t)
      PROVE  (poolSem \in 0 .. NumActors)' /\ TokensConserved'
  <2>1. CASE poolSem > 0
    <3>1. Holders' = Holders \cup {t} /\ t \notin Holders
      BY <1>1, <2>1, <1>a DEF TakePool, At, Goto, IInv, TypeOK, Holders, Holding, Locations,
                              Suspended
    <3>2. Cardinality(Holders') = Cardinality(Holders) + 1
      BY <3>1, HoldersFinite, FS_AddElement
    <3>3. poolSem' = poolSem - 1 /\ poolQ' = poolQ
      BY <1>1, <2>1 DEF TakePool
    <3> QED BY <3>2, <3>3, <1>a, <2>1, HoldersFinite DEF TokensConserved
  <2>2. CASE poolSem = 0
    <3>1. Holders' = Holders
      BY <1>1, <2>2 DEF TakePool, At, Goto, IInv, TypeOK, Holders, Holding, Locations,
                        Suspended
    <3> QED BY <3>1, <1>1, <2>2, <1>a DEF TakePool, TokensConserved
  <2> QED BY <2>1, <2>2, <1>a
<1>2. ASSUME NEW t \in Threads, Fire(t)
      PROVE  (poolSem \in 0 .. NumActors)' /\ TokensConserved'
  <2>1. t \in Holders
    BY <1>2 DEF Fire, At, Holders, Holding, Locations, Suspended
  <2>2. CASE poolQ = <<>>
    <3>1. Holders' = Holders \ {t}
      BY <1>2, <2>2 DEF Fire, At, Goto, IInv, TypeOK, Holders, Holding, Locations, Suspended
    <3>2. Cardinality(Holders') = Cardinality(Holders) - 1
      BY <3>1, <2>1, HoldersFinite, FS_RemoveElement
    <3>3. poolSem' = poolSem + 1 /\ poolQ' = <<>>
      BY <1>2, <2>2 DEF Fire
    <3> QED BY <3>2, <3>3, <1>a, <2>1, HoldersFinite DEF TokensConserved
  <2>3. CASE poolQ # <<>>
    <3> DEFINE u == Head(poolQ)
    <3>1. u \in Threads /\ pc[u] = "poolWait"
      BY <2>3, QueueTail DEF IInv, TypeOK, QueuesOK
    <3>2. Holders' = (Holders \ {t}) \cup {u} /\ u \notin Holders
      BY <1>2, <2>3, <3>1 DEF Fire, At, IInv, TypeOK, Holders, Holding, Locations, Suspended
    <3>3. Cardinality(Holders') = Cardinality(Holders)
      <4>1. IsFiniteSet(Holders \ {t}) /\ Cardinality(Holders \ {t}) = Cardinality(Holders) - 1
        BY <2>1, HoldersFinite, FS_RemoveElement
      <4>2. Cardinality((Holders \ {t}) \cup {u}) = (Cardinality(Holders) - 1) + 1
        BY <4>1, <3>2, FS_AddElement
      <4> QED BY <4>2, <3>2, HoldersFinite
    <3>4. poolSem' = poolSem /\ poolSem = 0
      BY <1>2, <2>3, <1>a DEF Fire
    <3> QED BY <3>3, <3>4, <1>a DEF TokensConserved
  <2> QED BY <2>2, <2>3
<1>3. ASSUME NEW t \in Threads, LockToEmploy(t) \/ LockToFire(t)
      PROVE  Holders' = Holders /\ UNCHANGED <<poolSem, poolQ>>
  BY <1>3 DEF LockToEmploy, LockToFire, TakeLock, At, Goto, IInv, TypeOK, Holders,
              Holding, Locations, Suspended
<1>4. ASSUME NEW t \in Threads, UnlockAfterEmploy(t)
      PROVE  (poolSem \in 0 .. NumActors)' /\ TokensConserved'
  <2>1. mine[t] # NoActor
    BY <1>4 DEF UnlockAfterEmploy, At, IInv, ChoiceOK, Employing, Actors, NoActor
  <2>2. Holders' = Holders
    BY <1>4, <2>1, ReleaseKeepsHolders
       DEF UnlockAfterEmploy, At, IInv, Holding, LockWait, Locations, Suspended
  <2> QED BY <2>2, <1>b, <1>4 DEF UnlockAfterEmploy
<1>5. ASSUME NEW t \in Threads, UnlockAfterFire(t)
      PROVE  (poolSem \in 0 .. NumActors)' /\ TokensConserved'
  <2>1. Holders' = Holders
    BY <1>5, ReleaseKeepsHolders DEF UnlockAfterFire, At, IInv, Holding, LockWait, Locations,
                                         Suspended
  <2> QED BY <2>1, <1>b, <1>5 DEF UnlockAfterFire
<1>6. ASSUME NEW t \in Threads,
             \/ Call(t) \/ Scan(t) \/ Mark(t) \/ Setup(t) \/ Start(t)
             \/ WaitDone(t) \/ Account(t) \/ Clear(t)
      PROVE  Holders' = Holders /\ UNCHANGED <<poolSem, poolQ>>
  BY <1>6 DEF Call, Scan, Mark, Setup, Start, WaitDone, Account, Clear, At, Goto, IInv,
              TypeOK, poolVars, Holders, Holding, Locations, Suspended
<1>7. ASSUME Isr \/ OtherTimeout \/ \E a \in Actors : EngineDone(a) \/ EngineAbort(a)
      PROVE  Holders' = Holders /\ UNCHANGED <<poolSem, poolQ>>
  BY <1>7 DEF Isr, IsrReadIntsts, IsrReadAbtsts, IsrReadTdsts, IsrServe, OtherTimeout,
              EngineDone, EngineAbort, threadVars, poolVars, Holders
<1> QED BY <1>1, <1>2, <1>3, <1>4, <1>5, <1>6, <1>7, <1>b DEF Next, Thread

-----------------------------------------------------------------------------
(* The queues and the mutex                                                *)

(* A thread is in a queue only while it is suspended there, and once: no   *)
(* release of the mutex or the semaphore resumes a thread that runs.       *)
LEMMA QueueStep ==
  ASSUME IInv, Next
  PROVE  QueuesOK'
<1>a. /\ lockQ \in Seq(Threads) /\ poolQ \in Seq(Threads) /\ pc \in [Threads -> Locations]
      /\ NoDup(lockQ) /\ NoDup(poolQ)
      /\ \A i \in 1 .. Len(lockQ) : lockQ[i] \in Threads /\ pc[lockQ[i]] \in LockWait
      /\ \A i \in 1 .. Len(poolQ) : poolQ[i] \in Threads /\ pc[poolQ[i]] = "poolWait"
  BY ElementOfSeq DEF IInv, TypeOK, QueuesOK, LockWait
<1> USE DEF LockWait
<1>b. ASSUME NEW t \in Threads, NEW l \in Locations, Goto(t, l), pc[t] \notin Suspended,
             UNCHANGED <<poolQ, lockQ>>
      PROVE  QueuesOK'
  BY <1>a, <1>b DEF Goto, QueuesOK, Suspended, NoDup
<1>c. ASSUME NEW t \in Threads, NEW l \in Locations, pc[t] \notin Suspended,
             ReleaseLock(t, l), UNCHANGED poolQ
      PROVE  QueuesOK'
  <2>1. CASE lockQ = <<>>
    BY <1>b, <1>c, <2>1 DEF ReleaseLock
  <2>2. CASE lockQ # <<>>
    <3> DEFINE u == Head(lockQ)
    <3>1. /\ u \in Threads /\ u # t /\ pc[u] \in LockWait /\ lockQ' = Tail(lockQ)
          /\ \A v \in Threads : pc'[v] = IF v = t THEN l
                                         ELSE IF v = u THEN Resumed(pc[u]) ELSE pc[v]
      BY <1>c, <2>2, Handover DEF IInv, Suspended
    <3>2. /\ NoDup(Tail(lockQ))
          /\ \A i \in 1 .. Len(Tail(lockQ)) :
               Tail(lockQ)[i] # u /\ \E j \in 1 .. Len(lockQ) : Tail(lockQ)[i] = lockQ[j]
      BY <1>a, <2>2, QueueTail
    <3> HIDE DEF u
    <3>3. \A i \in 1 .. Len(lockQ') : pc'[lockQ'[i]] \in LockWait
      BY <3>1, <3>2, <1>a, <1>c DEF Suspended
    <3>4. \A i \in 1 .. Len(poolQ') : pc'[poolQ'[i]] = "poolWait"
      BY <3>1, <1>a, <1>c DEF Suspended
    <3> QED BY <3>1, <3>2, <3>3, <3>4, <1>a, <1>c DEF QueuesOK
  <2> QED BY <2>1, <2>2
<1>d. ASSUME NEW t \in Threads, NEW l \in Locations, NEW w \in LockWait,
             pc[t] \notin Suspended, TakeLock(t, l, w), UNCHANGED poolQ
      PROVE  QueuesOK'
  <2>1. CASE owner = NoThread
    BY <1>b, <1>d, <2>1 DEF TakeLock
  <2>2. CASE owner # NoThread
    <3>1. lockQ' = ByPriority(lockQ, t) /\ pc' = [pc EXCEPT ![t] = w]
      BY <1>d, <2>2 DEF TakeLock, Goto
    <3>2. \A i \in 1 .. Len(lockQ) : lockQ[i] # t
      BY <1>a, <1>d DEF Suspended
    <3>3. /\ NoDup(lockQ')
          /\ \A i \in 1 .. Len(lockQ') :
               lockQ'[i] = t \/ \E j \in 1 .. Len(lockQ) : lockQ'[i] = lockQ[j]
      BY <1>a, <3>1, <3>2, QueueInsert
    <3>4. \A i \in 1 .. Len(lockQ') : pc'[lockQ'[i]] \in LockWait
      BY <1>a, <3>1, <3>3
    <3>5. \A i \in 1 .. Len(poolQ') : pc'[poolQ'[i]] = "poolWait"
      BY <1>a, <1>d, <3>1 DEF Suspended
    <3> QED BY <1>a, <1>d, <3>3, <3>4, <3>5 DEF QueuesOK
  <2> QED BY <2>1, <2>2
<1>1. ASSUME NEW t \in Threads, TakePool(t) PROVE QueuesOK'
  <2>0. pc[t] \notin Suspended
    BY <1>1 DEF TakePool, At, Suspended
  <2>1. CASE poolSem > 0
    BY <1>b, <1>1, <2>0, <2>1 DEF TakePool, Locations
  <2>2. CASE ~(poolSem > 0)
    <3>1. poolQ' = Append(poolQ, t) /\ pc' = [pc EXCEPT ![t] = "poolWait"] /\ lockQ' = lockQ
      BY <1>1, <2>2 DEF TakePool, Goto
    <3>2. \A i \in 1 .. Len(poolQ) : poolQ[i] # t
      BY <1>a, <2>0 DEF Suspended
    <3>3. /\ NoDup(poolQ')
          /\ \A i \in 1 .. Len(poolQ') :
               poolQ'[i] = t \/ \E j \in 1 .. Len(poolQ) : poolQ'[i] = poolQ[j]
      BY <1>a, <3>1, <3>2, QueueAppend
    <3>4. \A i \in 1 .. Len(poolQ') : pc'[poolQ'[i]] = "poolWait"
      BY <1>a, <3>1, <3>3
    <3>5. \A i \in 1 .. Len(lockQ') : pc'[lockQ'[i]] \in LockWait
      BY <1>a, <2>0, <3>1 DEF Suspended
    <3> QED BY <1>a, <3>1, <3>3, <3>4, <3>5 DEF QueuesOK
  <2> QED BY <2>1, <2>2
<1>2. ASSUME NEW t \in Threads, Fire(t) PROVE QueuesOK'
  <2>0. pc[t] \notin Suspended
    BY <1>2 DEF Fire, At, Suspended
  <2>1. CASE poolQ = <<>>
    BY <1>b, <1>2, <2>0, <2>1 DEF Fire, Locations
  <2>2. CASE poolQ # <<>>
    <3> DEFINE u == Head(poolQ)
    <3>1. /\ u \in Threads /\ pc[u] = "poolWait" /\ NoDup(Tail(poolQ))
          /\ \A i \in 1 .. Len(Tail(poolQ)) :
               Tail(poolQ)[i] # u /\ \E j \in 1 .. Len(poolQ) : Tail(poolQ)[i] = poolQ[j]
      BY <1>a, <2>2, QueueTail
    <3>2. /\ poolQ' = Tail(poolQ) /\ lockQ' = lockQ
          /\ pc' = [pc EXCEPT ![t] = "idle", ![u] = "employLock"]
      BY <1>2, <2>2 DEF Fire
    <3> HIDE DEF u
    <3>3. \A v \in Threads : pc'[v] = IF v = u THEN "employLock" ELSE IF v = t THEN "idle" ELSE pc[v]
      BY <1>a, <3>1, <3>2
    <3>4. \A i \in 1 .. Len(poolQ') : pc'[poolQ'[i]] = "poolWait"
      BY <1>a, <2>0, <3>1, <3>2, <3>3 DEF Suspended
    <3>5. \A i \in 1 .. Len(lockQ') : pc'[lockQ'[i]] \in LockWait
      BY <1>a, <2>0, <3>1, <3>2, <3>3 DEF Suspended
    <3> QED BY <1>a, <3>1, <3>2, <3>4, <3>5 DEF QueuesOK
  <2> QED BY <2>1, <2>2
<1>3. ASSUME NEW t \in Threads, LockToEmploy(t) \/ LockToFire(t) PROVE QueuesOK'
  BY <1>3, <1>d DEF LockToEmploy, LockToFire, At, Locations, Suspended
<1>4. ASSUME NEW t \in Threads, UnlockAfterEmploy(t) \/ UnlockAfterFire(t) PROVE QueuesOK'
  BY <1>4, <1>c DEF UnlockAfterEmploy, UnlockAfterFire, At, Locations, Suspended
<1>5. ASSUME NEW t \in Threads,
             \/ Call(t) \/ Scan(t) \/ Mark(t) \/ Setup(t) \/ Start(t)
             \/ WaitDone(t) \/ Account(t) \/ Clear(t)
      PROVE  QueuesOK'
  BY <1>5, <1>b DEF Call, Scan, Mark, Setup, Start, WaitDone, Account, Clear, At,
                    poolVars, Locations, Suspended
<1>6. ASSUME Isr \/ OtherTimeout \/ \E a \in Actors : EngineDone(a) \/ EngineAbort(a)
      PROVE  QueuesOK'
  BY <1>6, <1>a DEF Isr, IsrReadIntsts, IsrReadAbtsts, IsrReadTdsts, IsrServe, OtherTimeout,
              EngineDone, EngineAbort, threadVars, poolVars, QueuesOK, NoDup
<1> QED BY <1>1, <1>2, <1>3, <1>4, <1>5, <1>6 DEF Next, Thread

(* Whoever is between rt_mutex_take and rt_mutex_release owns the mutex,   *)
(* also when a release hands it over.                                      *)
LEMMA LockStep ==
  ASSUME IInv, Next
  PROVE  LockOK'
<1>a. /\ lockQ \in Seq(Threads) /\ pc \in [Threads -> Locations]
      /\ \A t \in Threads : pc[t] \in Critical => owner = t
      /\ lockQ # <<>> => owner # NoThread
      /\ NoThread \notin Threads
  BY ConstantsOK DEF ConstantsOK, IInv, TypeOK, LockOK
<1>b. ASSUME NEW t \in Threads, NEW l \in Locations, Goto(t, l),
             l \in Critical => pc[t] \in Critical, UNCHANGED <<owner, lockQ>>
      PROVE  LockOK'
  BY <1>a, <1>b DEF Goto, LockOK
<1>c. ASSUME NEW t \in Threads, NEW l \in Locations \ Critical, pc[t] \in Critical,
             ReleaseLock(t, l)
      PROVE  LockOK'
  <2>1. CASE lockQ = <<>>
    BY <1>a, <1>c, <2>1 DEF ReleaseLock, Goto, LockOK
  <2>2. CASE lockQ # <<>>
    <3> DEFINE u == Head(lockQ)
    <3>1. /\ u \in Threads /\ owner' = u
          /\ \A v \in Threads : pc'[v] = IF v = t THEN l
                                         ELSE IF v = u THEN Resumed(pc[u]) ELSE pc[v]
      BY <1>c, <2>2, Handover DEF IInv, Critical, LockWait
    <3> HIDE DEF u
    <3>2. ASSUME NEW v \in Threads, v # u PROVE pc'[v] \notin Critical
      BY <1>a, <1>c, <3>1, <3>2
    <3> QED BY <1>a, <3>1, <3>2 DEF LockOK
  <2> QED BY <2>1, <2>2
<1>d. ASSUME NEW t \in Threads, NEW l \in Locations, NEW w \in LockWait, TakeLock(t, l, w)
      PROVE  LockOK'
  <2>1. CASE owner = NoThread
    BY <1>a, <1>d, <2>1 DEF TakeLock, Goto, LockOK
  <2>2. CASE owner # NoThread
    BY <1>a, <1>d, <2>2 DEF TakeLock, Goto, LockOK, LockWait, Critical
  <2> QED BY <2>1, <2>2
<1>1. ASSUME NEW t \in Threads, TakePool(t) PROVE LockOK'
  BY <1>1, <1>b DEF TakePool, Locations, Suspended, Critical
<1>2. ASSUME NEW t \in Threads, Fire(t) PROVE LockOK'
  <2>1. CASE poolQ = <<>>
    BY <1>2, <1>b, <2>1 DEF Fire, Locations, Critical
  <2>2. CASE poolQ # <<>>
    BY <1>a, <1>2, <2>2 DEF Fire, LockOK, Critical
  <2> QED BY <2>1, <2>2
<1>3. ASSUME NEW t \in Threads, LockToEmploy(t) \/ LockToFire(t) PROVE LockOK'
  BY <1>3, <1>d DEF LockToEmploy, LockToFire, Locations, LockWait
<1>4. ASSUME NEW t \in Threads, UnlockAfterEmploy(t) \/ UnlockAfterFire(t) PROVE LockOK'
  BY <1>4, <1>c DEF UnlockAfterEmploy, UnlockAfterFire, At, Locations, Critical
<1>5. ASSUME NEW t \in Threads,
             \/ Call(t) \/ Scan(t) \/ Mark(t) \/ Setup(t) \/ Start(t)
             \/ WaitDone(t) \/ Account(t) \/ Clear(t)
      PROVE  LockOK'
  BY <1>5, <1>b DEF Call, Scan, Mark, Setup, Start, WaitDone, Account, Clear, At,
                    poolVars, Locations, Critical
<1>6. ASSUME Isr \/ OtherTimeout \/ \E a \in Actors : EngineDone(a) \/ EngineAbort(a)
      PROVE  LockOK'
  BY <1>6, <1>a DEF Isr, IsrReadIntsts, IsrReadAbtsts, IsrReadTdsts, IsrServe, OtherTimeout,
              EngineDone, EngineAbort, threadVars, poolVars, LockOK
<1> QED BY <1>1, <1>2, <1>3, <1>4, <1>5, <1>6 DEF Next, Thread

-----------------------------------------------------------------------------
(* The mask and the actors                                                 *)

(* Each actor marked in the mask is some employer's, each employer holds a *)
(* token, and so does the thread that searches: there is a bit left.       *)
LEMMA SearchFindsActor ==
  ASSUME IInv, NEW t \in Threads, pc[t] = "scan"
  PROVE  Cto(mask) \in Actors \ mask /\ Cto(mask) # NoActor
<1> DEFINE f == [u \in Employers |-> mine[u]]
<1>1. t \in Holders /\ t \notin Employers /\ Employers \subseteq Holders
  BY DEF IInv, Holders, Employers, Holding, Employing, Locations, Suspended
<1>2. mask = {mine[u] : u \in Employers} /\ mask \subseteq Actors
  BY DEF IInv, ActorExclusive, TypeOK
<1>3. f \in Surjection(Employers, mask)
  BY <1>2 DEF Surjection
<1>4. Employers \subseteq Holders \ {t}
  BY <1>1
<1>5. IsFiniteSet(Holders \ {t}) /\ Cardinality(Holders \ {t}) = Cardinality(Holders) - 1
  BY <1>1, HoldersFinite, FS_RemoveElement
<1>6. IsFiniteSet(Employers) /\ Cardinality(Employers) <= Cardinality(Holders) - 1
  BY <1>4, <1>5, FS_Subset
<1> HIDE DEF f
<1>7. Cardinality(mask) <= Cardinality(Employers)
  BY <1>3, <1>6, FS_Surjection
<1>8. Cardinality(Holders) <= NumActors
  BY ConstantsOK, HoldersFinite DEF ConstantsOK, IInv, TypeOK, TokensConserved
<1>9. IsFiniteSet(mask) /\ Cardinality(mask) \in Nat /\ Cardinality(Employers) \in Nat
  BY <1>2, <1>6, ActorsFinite, FS_Subset, FS_CardinalityType
<1>10. Cardinality(mask) < NumActors
  BY <1>6, <1>7, <1>8, <1>9, HoldersFinite, ConstantsOK DEF ConstantsOK
<1>11. mask # Actors
  BY <1>10, ActorsFinite, ConstantsOK DEF ConstantsOK
<1> QED BY <1>2, <1>11, CtoFindsFree

Placed == Employing \cup {"fireUnlock", "fire"}

(* The bit nu_cto found is still clear when it is set, for the mutex is    *)
(* held from one to the other.                                             *)
LEMMA ChoiceStep ==
  ASSUME IInv, Next
  PROVE  ChoiceOK'
<1>a. /\ pc \in [Threads -> Locations] /\ mine \in [Threads -> Actors \cup {NoActor}]
      /\ mask \subseteq Actors
      /\ \A t \in Threads : /\ pc[t] = "mark" => mine[t] \in Actors \ mask
                            /\ pc[t] \in Placed => mine[t] \in Actors
  BY DEF IInv, TypeOK, ChoiceOK, Placed
<1>b. ASSUME NEW t \in Threads, NEW l \in Locations \ {"mark"}, Goto(t, l),
             l \in Placed => mine[t] \in Actors, UNCHANGED mine, mask' \subseteq mask
      PROVE  ChoiceOK'
  BY <1>a, <1>b DEF Goto, ChoiceOK, Placed
<1>c. ASSUME NEW t \in Threads, NEW l \in Locations \ {"mark"}, pc[t] \in Critical,
             ReleaseLock(t, l), l \in Placed => mine[t] \in Actors, UNCHANGED <<mine, mask>>
      PROVE  ChoiceOK'
  <2>1. CASE lockQ = <<>>
    BY <1>b, <1>c, <2>1 DEF ReleaseLock
  <2>2. CASE lockQ # <<>>
    <3> DEFINE u == Head(lockQ)
    <3>1. /\ u \in Threads /\ pc[u] \in LockWait
          /\ \A v \in Threads : pc'[v] = IF v = t THEN l
                                         ELSE IF v = u THEN Resumed(pc[u]) ELSE pc[v]
      BY <1>c, <2>2, Handover DEF IInv, Critical, LockWait
    <3> HIDE DEF u
    <3>2. Resumed(pc[u]) # "mark" /\ (Resumed(pc[u]) \in Placed => mine[u] \in Actors)
      BY <1>a, <3>1 DEF Resumed, LockWait, Placed, Employing
    <3> QED BY <1>a, <1>c, <3>1, <3>2 DEF ChoiceOK, Placed
  <2> QED BY <2>1, <2>2
<1>1. ASSUME NEW t \in Threads, TakePool(t) PROVE ChoiceOK'
  BY <1>1, <1>b DEF TakePool, Locations, Suspended, Placed, Employing
<1>2. ASSUME NEW t \in Threads, LockToEmploy(t) PROVE ChoiceOK'
  BY <1>2, <1>b DEF LockToEmploy, TakeLock, Locations, Suspended, Placed, Employing
<1>3. ASSUME NEW t \in Threads, Scan(t) PROVE ChoiceOK'
  <2>1. /\ pc' = [pc EXCEPT ![t] = "mark"] /\ mine' = [mine EXCEPT ![t] = Cto(mask)]
        /\ mask' = mask /\ Cto(mask) \in Actors \ mask
    BY <1>3, SearchFindsActor DEF Scan, At, Goto, poolVars
  <2> QED BY <1>a, <2>1 DEF ChoiceOK, Placed, Employing
<1>4. ASSUME NEW t \in Threads, Mark(t) PROVE ChoiceOK'
  <2>1. /\ pc[t] = "mark" /\ pc' = [pc EXCEPT ![t] = "employUnlock"]
        /\ mine' = mine /\ mask' = mask \cup {mine[t]}
    BY <1>4 DEF Mark, At, Goto
  <2>2. \A u \in Threads : u # t => pc[u] # "mark"
    BY <2>1 DEF IInv, LockOK, Critical
  <2> QED BY <1>a, <2>1, <2>2 DEF ChoiceOK, Placed
<1>5. ASSUME NEW t \in Threads, UnlockAfterEmploy(t) PROVE ChoiceOK'
  <2>1. pc[t] = "employUnlock" /\ mine[t] \in Actors
    BY <1>5, <1>a DEF UnlockAfterEmploy, At, Placed, Employing
  <2> QED BY <1>5, <1>c, <2>1 DEF UnlockAfterEmploy, Locations, Critical
<1>6. ASSUME NEW t \in Threads, UnlockAfterFire(t) PROVE ChoiceOK'
  <2>1. pc[t] = "fireUnlock" /\ mine[t] \in Actors
    BY <1>6, <1>a DEF UnlockAfterFire, At, Placed
  <2> QED BY <1>6, <1>c, <2>1 DEF UnlockAfterFire, Locations, Critical
<1>7. ASSUME NEW t \in Threads,
             Setup(t) \/ Start(t) \/ WaitDone(t) \/ Account(t) \/ LockToFire(t) \/ Clear(t)
      PROVE  ChoiceOK'
  BY <1>7, <1>a, <1>b DEF Setup, Start, WaitDone, Account, LockToFire, TakeLock, Clear, At,
              poolVars, Locations, Suspended, Placed, Employing
<1>8. ASSUME NEW t \in Threads, Call(t) PROVE ChoiceOK'
  BY <1>8, <1>b DEF Call, poolVars, Locations, Placed, Employing
<1>9. ASSUME NEW t \in Threads, Fire(t) PROVE ChoiceOK'
  <2>1. CASE poolQ = <<>>
    BY <1>9, <1>a, <2>1 DEF Fire, At, Goto, ChoiceOK, Placed, Employing
  <2>2. CASE poolQ # <<>>
    <3>1. \A v \in Threads : (pc'[v] = pc[v] /\ v # t) \/ pc'[v] \in {"idle", "employLock"}
      BY <1>9, <1>a, <2>2 DEF Fire
    <3> QED BY <1>9, <1>a, <3>1 DEF Fire, ChoiceOK, Placed, Employing
  <2> QED BY <2>1, <2>2
<1>10. ASSUME Isr \/ OtherTimeout \/ \E a \in Actors : EngineDone(a) \/ EngineAbort(a)
       PROVE  ChoiceOK'
  BY <1>10, <1>a DEF Isr, IsrReadIntsts, IsrReadAbtsts, IsrReadTdsts, IsrServe, OtherTimeout,
              EngineDone, EngineAbort, threadVars, poolVars, ChoiceOK, Placed
<1> QED BY <1>1, <1>2, <1>3, <1>4, <1>5, <1>6, <1>7, <1>8, <1>9, <1>10 DEF Next, Thread

(* The bits set are those of the actors employed, each by one thread: Mark *)
(* adds one that was clear, Clear takes away the thread's own.             *)
LEMMA ActorStep ==
  ASSUME IInv, Next
  PROVE  ActorExclusive'
<1>a. /\ pc \in [Threads -> Locations] /\ mine \in [Threads -> Actors \cup {NoActor}]
      /\ \A t, u \in Employers : t # u => mine[t] # mine[u]
      /\ mask = {mine[t] : t \in Employers}
      /\ NoActor \notin Actors
  BY ConstantsOK DEF ConstantsOK, IInv, TypeOK, ActorExclusive, Actors, NoActor
<1>b. ASSUME Employers' = Employers, \A t \in Employers : mine'[t] = mine[t], mask' = mask
      PROVE  ActorExclusive'
  BY <1>a, <1>b DEF ActorExclusive
<1>c. ASSUME NEW t \in Threads, NEW l \in Locations, pc[t] \in Critical, ReleaseLock(t, l),
             pc[t] \in Employing <=> l \in Employing, UNCHANGED <<mine, mask>>
      PROVE  ActorExclusive'
  <2>1. CASE lockQ = <<>>
    <3>1. Employers' = Employers
      BY <1>a, <1>c, <2>1 DEF ReleaseLock, Goto, Employers
    <3> QED BY <1>b, <1>c, <3>1
  <2>2. CASE lockQ # <<>>
    <3> DEFINE u == Head(lockQ)
    <3>1. /\ u \in Threads /\ u # t /\ pc[u] \in LockWait
          /\ \A v \in Threads : pc'[v] = IF v = t THEN l
                                         ELSE IF v = u THEN Resumed(pc[u]) ELSE pc[v]
      BY <1>c, <2>2, Handover DEF IInv, Critical, LockWait
    <3> HIDE DEF u
    <3>2. pc[u] \in Employing <=> Resumed(pc[u]) \in Employing
      BY <3>1 DEF LockWait, Resumed, Employing
    <3>3. Employers' = Employers
      BY <1>a, <1>c, <3>1, <3>2 DEF Employers
    <3> QED BY <1>b, <1>c, <3>3
  <2> QED BY <2>1, <2>2
<1>1. ASSUME NEW t \in Threads, NEW l \in Locations, Goto(t, l), UNCHANGED <<mine, mask>>,
             pc[t] \in Employing <=> l \in Employing
      PROVE  ActorExclusive'
  <2>1. Employers' = Employers
    BY <1>a, <1>1 DEF Goto, Employers
  <2> QED BY <1>b, <1>1, <2>1
<1>2. ASSUME NEW t \in Threads,
             Call(t) \/ TakePool(t) \/ LockToEmploy(t) \/ Setup(t) \/ Start(t) \/ WaitDone(t)
             \/ Account(t) \/ LockToFire(t)
      PROVE  ActorExclusive'
  BY <1>1, <1>2 DEF Call, TakePool, LockToEmploy, Setup, Start, WaitDone, Account, LockToFire,
              TakeLock, At, poolVars, Locations, Suspended, Employing
<1>3. ASSUME NEW t \in Threads, Scan(t) PROVE ActorExclusive'
  <2>1. /\ pc[t] = "scan" /\ pc' = [pc EXCEPT ![t] = "mark"]
        /\ mine' = [mine EXCEPT ![t] = Cto(mask)] /\ mask' = mask
    BY <1>3, SearchFindsActor DEF Scan, At, Goto, poolVars
  <2>2. Employers' = Employers /\ t \notin Employers
    BY <1>a, <2>1 DEF Employers, Employing
  <2> QED BY <1>a, <1>b, <2>1, <2>2 DEF Employers
<1>4. ASSUME NEW t \in Threads, Mark(t) PROVE ActorExclusive'
  <2>1. /\ pc[t] = "mark" /\ pc' = [pc EXCEPT ![t] = "employUnlock"]
        /\ mine' = mine /\ mask' = mask \cup {mine[t]} /\ mine[t] \in Actors \ mask
    BY <1>4 DEF Mark, At, Goto, IInv, ChoiceOK
  <2>2. Employers' = Employers \cup {t}
    BY <1>a, <2>1 DEF Employers, Employing
  <2> QED BY <1>a, <2>1, <2>2 DEF ActorExclusive
<1>5. ASSUME NEW t \in Threads, Clear(t) PROVE ActorExclusive'
  <2>1. /\ pc[t] = "clear" /\ pc' = [pc EXCEPT ![t] = "fireUnlock"]
        /\ mine' = mine /\ mask' = mask \ {mine[t]} /\ mine[t] \in Actors
    BY <1>5 DEF Clear, At, Goto, IInv, ChoiceOK, Employing
  <2>2. Employers' = Employers \ {t} /\ t \in Employers
    BY <1>a, <2>1 DEF Employers, Employing
  <2> QED BY <1>a, <2>1, <2>2 DEF ActorExclusive
<1>6. ASSUME NEW t \in Threads, UnlockAfterEmploy(t) PROVE ActorExclusive'
  <2>1. pc[t] = "employUnlock" /\ mine[t] # NoActor
    BY <1>6, <1>a DEF UnlockAfterEmploy, At, IInv, ChoiceOK, Employing
  <2> QED BY <1>6, <1>c, <2>1 DEF UnlockAfterEmploy, Locations, Critical, Employing
<1>7. ASSUME NEW t \in Threads, UnlockAfterFire(t) PROVE ActorExclusive'
  BY <1>7, <1>c DEF UnlockAfterFire, At, Locations, Critical, Employing
<1>8. ASSUME NEW t \in Threads, Fire(t) PROVE ActorExclusive'
  <2>1. pc[t] = "fire" /\ mine' = [mine EXCEPT ![t] = NoActor] /\ mask' = mask
    BY <1>8 DEF Fire, At
  <2>2. Employers' = Employers /\ t \notin Employers
    <3>1. CASE poolQ = <<>>
      BY <1>8, <1>a, <2>1, <3>1 DEF Fire, Goto, Employers, Employing
    <3>2. CASE poolQ # <<>>
      <4> DEFINE u == Head(poolQ)
      <4>1. u \in Threads /\ pc[u] = "poolWait"
        BY <3>2, QueueTail DEF IInv, TypeOK, QueuesOK
      <4>2. pc' = [pc EXCEPT ![t] = "idle", ![u] = "employLock"]
        BY <1>8, <3>2 DEF Fire
      <4> HIDE DEF u
      <4> QED BY <1>a, <2>1, <4>1, <4>2 DEF Employers, Employing
    <3> QED BY <3>1, <3>2
  <2> QED BY <1>a, <1>b, <2>1, <2>2 DEF Employers
<1>9. ASSUME Isr \/ OtherTimeout \/ \E a \in Actors : EngineDone(a) \/ EngineAbort(a)
      PROVE  ActorExclusive'
  BY <1>9, <1>a DEF Isr, IsrReadIntsts, IsrReadAbtsts, IsrReadTdsts, IsrServe, OtherTimeout,
              EngineDone, EngineAbort, threadVars, poolVars, ActorExclusive, Employers
<1> QED BY <1>2, <1>3, <1>4, <1>5, <1>6, <1>7, <1>8, <1>9 DEF Next, Thread

-----------------------------------------------------------------------------
(* Types, and the theorems                                                 *)

(* Every step of the pool, the engine and pdma_isr keeps the types.        *)
LEMMA TypeStep ==
  ASSUME IInv, Next
  PROVE  TypeOK'
<1>a. (poolSem \in 0 .. NumActors)'
  BY TokenStep
<1>t. /\ pc \in [Threads -> Locations] /\ poolQ \in Seq(Threads) /\ lockQ \in Seq(Threads)
      /\ owner \in Threads \cup {NoThread} /\ TypeOK /\ QueuesOK /\ NoDup(lockQ)
  BY DEF IInv, TypeOK, QueuesOK
<1>b. ASSUME NEW t \in Threads, NEW l \in Locations, NEW w \in LockWait, TakeLock(t, l, w)
      PROVE  /\ pc' \in [Threads -> Locations] /\ lockQ' \in Seq(Threads)
             /\ owner' \in Threads \cup {NoThread}
  <2>1. w \in Locations /\ ByPriority(lockQ, t) \in Seq(Threads)
    BY <1>t, ByPriorityInserts DEF LockWait, Locations, Suspended
  <2> QED BY <1>b, <1>t, <2>1 DEF TakeLock, Goto
<1>c. ASSUME NEW t \in Threads, NEW l \in Locations, pc[t] \notin LockWait, ReleaseLock(t, l)
      PROVE  /\ pc' \in [Threads -> Locations] /\ lockQ' \in Seq(Threads)
             /\ owner' \in Threads \cup {NoThread}
  <2>1. CASE lockQ = <<>>
    BY <1>c, <1>t, <2>1 DEF ReleaseLock, Goto
  <2>2. CASE lockQ # <<>>
    <3>1. Tail(lockQ) \in Seq(Threads)
      BY <1>t, <2>2, QueueTail
    <3>2. /\ Head(lockQ) \in Threads /\ owner' = Head(lockQ) /\ lockQ' = Tail(lockQ)
          /\ pc' \in [Threads -> Locations]
      BY <1>c, <1>t, <2>2, Handover
    <3> QED BY <3>1, <3>2
  <2> QED BY <2>1, <2>2
<1>1. ASSUME NEW t \in Threads, TakePool(t) PROVE TypeOK'
  <2>1. pc' \in [Threads -> Locations] /\ poolQ' \in Seq(Threads)
    <3>1. Append(poolQ, t) \in Seq(Threads)
      BY <1>t, AppendProperties
    <3>2. "poolWait" \in Locations /\ "employLock" \in Locations
      BY DEF Locations, Suspended
    <3> QED BY <1>1, <1>t, <3>1, <3>2 DEF IInv, TypeOK, TakePool, Goto
  <2> QED BY <1>1, <1>a, <2>1 DEF IInv, TypeOK, TakePool, doneVars, hwVars, isrVars
<1>2. ASSUME NEW t \in Threads, Fire(t) PROVE TypeOK'
  <2>1. pc' \in [Threads -> Locations] /\ poolQ' \in Seq(Threads)
    <3>1. poolQ # <<>> => Tail(poolQ) \in Seq(Threads)
      BY <1>t, HeadTailProperties
    <3>2. "idle" \in Locations /\ "employLock" \in Locations
      BY DEF Locations
    <3>3. CASE poolQ = <<>>
      BY <1>2, <1>t, <3>2, <3>3 DEF Fire, Goto
    <3>4. CASE poolQ # <<>>
      <4>1. poolQ' = Tail(poolQ) /\ pc' = [pc EXCEPT ![t] = "idle", ![Head(poolQ)] = "employLock"]
        BY <1>2, <3>4 DEF Fire
      <4>2. \A u : [pc EXCEPT ![t] = "idle", ![u] = "employLock"] \in [Threads -> Locations]
        BY <1>t, <3>2
      <4> QED BY <3>1, <3>4, <4>1, <4>2
    <3> QED BY <3>3, <3>4
  <2> QED BY <1>2, <1>a, <2>1 DEF IInv, TypeOK, Fire, doneVars, hwVars, isrVars
<1>3. ASSUME NEW t \in Threads, LockToEmploy(t) \/ LockToFire(t) PROVE TypeOK'
  <2>1. /\ pc' \in [Threads -> Locations] /\ lockQ' \in Seq(Threads)
        /\ owner' \in Threads \cup {NoThread}
    BY <1>3, <1>b DEF IInv, TypeOK, LockToEmploy, LockToFire, LockWait, Locations
  <2> QED BY <1>3, <2>1 DEF IInv, TypeOK, LockToEmploy, LockToFire, doneVars, hwVars, isrVars
<1>4. ASSUME NEW t \in Threads, UnlockAfterEmploy(t) \/ UnlockAfterFire(t) PROVE TypeOK'
  <2>1. /\ pc' \in [Threads -> Locations] /\ lockQ' \in Seq(Threads)
        /\ owner' \in Threads \cup {NoThread}
    BY <1>4, <1>c DEF IInv, TypeOK, UnlockAfterEmploy, UnlockAfterFire, At, LockWait, Locations
  <2> QED BY <1>4, <2>1 DEF IInv, TypeOK, UnlockAfterEmploy, UnlockAfterFire, doneVars, hwVars, isrVars
<1>5. ASSUME NEW t \in Threads, Scan(t) PROVE TypeOK'
  <2>1. Cto(mask) \in Actors
    BY <1>5, SearchFindsActor DEF IInv, TypeOK, Scan, At
  <2> QED BY <1>5, <2>1 DEF IInv, TypeOK, Scan, Goto, Locations, poolVars, doneVars, hwVars, isrVars
<1>6. ASSUME NEW t \in Threads, Mark(t) PROVE TypeOK'
  BY <1>6 DEF IInv, TypeOK, Mark, At, Goto, ChoiceOK, Locations, doneVars, hwVars, isrVars
<1>7. ASSUME NEW t \in Threads, Clear(t) \/ Call(t) PROVE TypeOK'
  BY <1>7 DEF IInv, TypeOK, Clear, Call, Goto, Locations, poolVars, doneVars, hwVars, isrVars
<1>8. ASSUME NEW t \in Threads, Setup(t) PROVE TypeOK'
  <2>1. result' \in [Actors -> SUBSET {"done", "abort"}]
    BY <1>8 DEF IInv, TypeOK, Setup
  <2> QED BY <1>8, <2>1 DEF IInv, TypeOK, Setup, Goto, Locations, poolVars, hwVars, isrVars
<1>15. ASSUME NEW t \in Threads, Start(t) PROVE TypeOK'
  <2>1. job' \in [Actors -> Threads \cup {NoThread}]
    BY <1>15 DEF IInv, TypeOK, Start
  <2> QED BY <1>15, <2>1 DEF IInv, TypeOK, Start, Goto, Locations, poolVars, doneVars, isrVars
<1>9. ASSUME NEW t \in Threads, WaitDone(t) PROVE TypeOK'
  <2>1. mine[t] \in Actors
    BY <1>9 DEF IInv, TypeOK, WaitDone, At, ChoiceOK, Employing
  <2> QED BY <1>9, <2>1 DEF IInv, TypeOK, WaitDone, Goto, Locations, poolVars, hwVars, isrVars
<1>10. ASSUME NEW t \in Threads, Account(t) PROVE TypeOK'
  BY <1>10 DEF IInv, TypeOK, Account, Goto, Locations, poolVars, doneVars, isrVars
<1>11. ASSUME NEW a \in Actors, EngineDone(a) \/ EngineAbort(a) PROVE TypeOK'
  <2>1. noise' \in 0 .. MaxNoise
    BY <1>11, ConstantsOK DEF IInv, TypeOK, ConstantsOK, EngineDone, EngineAbort
  <2>2. job[a] \in Threads
    BY <1>11 DEF IInv, TypeOK, EngineDone, EngineAbort, MayEnd
  <2>3. moved' \in [Threads -> {"no", "done", "abort"}]
    BY <1>11, <2>2 DEF IInv, TypeOK, EngineDone, EngineAbort, Ended
  <2> QED BY <1>11, <2>1, <2>2, <2>3 DEF IInv, TypeOK, EngineDone, EngineAbort, threadVars, poolVars,
    doneVars, isrVars
<1>12. ASSUME OtherTimeout PROVE TypeOK'
  <2>1. noise' \in 0 .. MaxNoise
    BY <1>12, ConstantsOK DEF IInv, TypeOK, ConstantsOK, OtherTimeout
  <2> QED BY <1>12, <2>1 DEF IInv, TypeOK, OtherTimeout, threadVars, poolVars, doneVars, isrVars
<1>13. ASSUME IsrReadIntsts \/ IsrReadAbtsts \/ IsrReadTdsts PROVE TypeOK'
  <2>1. snap' \in [td : BOOLEAN, abt : BOOLEAN, tdsts : SUBSET Actors, abtsts : SUBSET Actors]
    BY <1>13 DEF IInv, TypeOK, IsrReadIntsts, IsrReadAbtsts, IsrReadTdsts, NoSnap
  <2> QED BY <1>13, <2>1 DEF IInv, TypeOK, IsrReadIntsts, IsrReadAbtsts, IsrReadTdsts, threadVars, poolVars,
                             doneVars, hwVars
<1>14. ASSUME IsrServe PROVE TypeOK'
  <2>1. snap' \in [td : BOOLEAN, abt : BOOLEAN, tdsts : SUBSET Actors, abtsts : SUBSET Actors]
    BY <1>14 DEF IInv, TypeOK, IsrServe, NoSnap
  <2>2. result' \in [Actors -> SUBSET {"done", "abort"}] /\ actorSem' \in [Actors -> Nat]
    BY <1>14 DEF IInv, TypeOK, IsrServe, Events
  <2> QED BY <1>14, <2>1, <2>2 DEF IInv, TypeOK, IsrServe, threadVars, poolVars, hwVars
<1> QED BY <1>1, <1>2, <1>3, <1>4, <1>5, <1>6, <1>7, <1>8, <1>9, <1>10, <1>11, <1>12, <1>13,
           <1>14, <1>15 DEF Next, Thread, Isr

(* The pool nu_pdma_memfun_actor_init leaves satisfies the invariant.      *)
LEMMA IInvInit == Init => IInv
<1> SUFFICES ASSUME Init PROVE IInv
  OBVIOUS
<1> USE ConstantsOK DEF ConstantsOK, Init
<1>1. TypeOK
  <2>1. poolQ \in Seq(Threads) /\ lockQ \in Seq(Threads)
    BY EmptySeq
  <2>2. snap \in [td : BOOLEAN, abt : BOOLEAN, tdsts : SUBSET Actors, abtsts : SUBSET Actors]
    BY DEF NoSnap
  <2>3. pc \in [Threads -> Locations]
    BY DEF Locations
  <2>4. poolSem \in 0 .. NumActors /\ noise \in 0 .. MaxNoise
    OBVIOUS
  <2> QED BY <2>1, <2>2, <2>3, <2>4 DEF TypeOK
<1>2. LockOK /\ ChoiceOK
  BY DEF LockOK, ChoiceOK, Critical, Employing
<1>3. QueuesOK
  BY EmptySeq DEF QueuesOK, NoDup
<1>4. Holders = {} /\ Employers = {}
  BY DEF Holders, Holding, Employers, Employing
<1>5. TokensConserved
  BY <1>4, FS_EmptySet DEF TokensConserved
<1>6. ActorExclusive
  BY <1>4 DEF ActorExclusive
<1> QED BY <1>1, <1>2, <1>3, <1>5, <1>6 DEF IInv

(* Every step keeps it.                                                    *)
LEMMA IInvStep == IInv /\ [Next]_vars => IInv'
<1>1. ASSUME IInv, Next PROVE IInv'
  BY <1>1, TypeStep, LockStep, QueueStep, ChoiceStep, TokenStep, ActorStep DEF IInv
<1>2. ASSUME IInv, UNCHANGED vars PROVE IInv'
  BY <1>2 DEF IInv, TypeOK, LockOK, QueuesOK, NoDup, ChoiceOK, TokensConserved, ActorExclusive,
              Holders, Employers, vars, threadVars, poolVars, doneVars, hwVars, isrVars
<1> QED BY <1>1, <1>2

(* So it holds in every state of every behaviour.                          *)
THEOREM Inductive == Spec => []IInv
BY IInvInit, IInvStep, PTL DEF Spec

(* Every variable of nu_pdma_memfun's pool keeps its type; the semaphore   *)
(* never counts more than the actors there are.                            *)
THEOREM TypeCorrect == Spec => []TypeOK
<1>1. IInv => TypeOK
  BY DEF IInv
<1> QED BY <1>1, Inductive, PTL

(* Two calls of nu_pdma_memfun never share an actor, and the bits of the   *)
(* mask are those of the actors employed.                                  *)
THEOREM NoActorIsShared == Spec => []ActorExclusive
<1>1. IInv => ActorExclusive
  BY DEF IInv
<1> QED BY <1>1, Inductive, PTL

(* The tokens of the pool semaphore are neither lost nor made, however     *)
(* threads queue for it.                                                   *)
THEOREM TokensAreConserved == Spec => []TokensConserved
<1>1. IInv => TokensConserved
  BY DEF IInv
<1> QED BY <1>1, Inductive, PTL

(* nu_pdma_memfun_employ finds a free bit whenever it searches: the loop   *)
(* around it never turns a second time.                                    *)
THEOREM EmployNeverFails == Spec => []EmployFindsActor
<1>1. IInv => EmployFindsActor
  BY SearchFindsActor DEF EmployFindsActor
<1> QED BY <1>1, Inductive, PTL

(* Only one thread at a time is between rt_mutex_take and rt_mutex_release *)
(* of the pool mutex, and it is the owner.                                 *)
MutexExclusive == \A t, u \in Threads : pc[t] \in Critical /\ pc[u] \in Critical => t = u

(* So the mask is never read by one thread and written by another at the   *)
(* same time.                                                              *)
THEOREM MutexIsExclusive == Spec => []MutexExclusive
<1>1. IInv => MutexExclusive
  BY DEF IInv, LockOK, MutexExclusive
<1> QED BY <1>1, Inductive, PTL
=============================================================================
