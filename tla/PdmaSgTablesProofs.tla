-------------------------- MODULE PdmaSgTablesProofs ------------------------
(***************************************************************************)
(* Proofs about PdmaSgTables, for any channels, drivers, tables and pool,  *)
(* and whatever the words of the heap: as long as no such word has given   *)
(* back another's descriptor, every descriptor is free or in one place,    *)
(* the engine runs over descriptors of its own channel, and the pool is    *)
(* the one that DescriptorPool describes; and kept tables are always       *)
(* whole. They hold for drivers that do not free a channel after it made a *)
(* chain, as those of this package.                                        *)
(***************************************************************************)
EXTENDS PdmaSgTables, SequenceTheorems, TLAPS

(* The arrays of channels and drivers alike.                               *)
Arr == [h \in Holders |-> Array(h)]

(* DescriptorsAccounted of arrays A and free descriptors F.                *)
Accounted(A, F) ==
  /\ \A k \in Tokens : k \in F \/ \E h \in Holders : \E i \in DOMAIN A[h] : A[h][i] = k
  /\ \A h \in Holders : \A i \in DOMAIN A[h] : A[h][i] \notin F
  /\ \A h, g \in Holders : \A i \in DOMAIN A[h] : \A j \in DOMAIN A[g] :
       A[h][i] \in Tokens /\ A[h][i] = A[g][j] => h = g /\ i = j

Whole(c) == Len(table[c]) = wanted[c] /\ RangeOf(table[c]) \subseteq Tokens

(* What a channel's table and engine are where its driver is.              *)
ChanOK ==
  \A c \in Chans :
    /\ pc[c] \in {"rest", "setup", "drop"} => table[c] = <<>> \/ Whole(c)
    /\ pc[c] = "malloc" => table[c] = <<>>
    /\ pc[c] \in {"allocate", "dry"} => wanted[c] # 0
    /\ wanted[c] = 0 => table[c] = <<>>
    /\ engine[c] # <<>> /\ c \notin hurried => pc[c] = "rest" /\ engine[c] = table[c]

IInv == TypeOK /\ ChanOK /\ (strayed \/ Accounted(Arr, token))

-----------------------------------------------------------------------------
(* Null and a word of the heap are no descriptors.                         *)
LEMMA WordTypes ==
  /\ Tokens \subseteq Int /\ Null \notin Tokens /\ Junk \notin Tokens
  /\ Tokens \subseteq Words /\ {Null, Junk} \subseteq Words
BY ConstantsOK DEF ConstantsOK, Tokens, Null, Junk, Words

(* A long transfer wants a descriptor at least.                            *)
LEMMA WantedType == ASSUME NEW n \in Nat PROVE Wanted(n) \in Nat \ {0}
<1>1. MaxTx \in Nat \ {0}
  BY ConstantsOK DEF ConstantsOK
<1>2. n \div MaxTx \in Nat
  BY <1>1
<1> QED BY <1>2 DEF Wanted

(* A function from an initial segment is a sequence, and back.             *)
LEMMA Functions ==
  ASSUME NEW n \in Nat, NEW S, NEW f \in [1 .. n -> S]
  PROVE  f \in Seq(S) /\ Len(f) = n /\ DOMAIN f = 1 .. n /\ RangeOf(f) \subseteq S
<1>1. f \in Seq(S)
  OBVIOUS
<1>2. DOMAIN f = 1 .. n /\ RangeOf(f) \subseteq S
  BY DEF RangeOf
<1>3. Len(f) = n
  BY <1>1, <1>2, LenProperties
<1> QED BY <1>1, <1>2, <1>3

(* Nothing is on the empty table.                                          *)
LEMMA EmptyTable ==
  /\ DOMAIN <<>> = {} /\ RangeOf(<<>>) = {} /\ Held(<<>>) = {}
  /\ <<>> \in Seq(Words) /\ <<>> \in Seq(Tokens)
<1>1. <<>> \in Seq(Words) /\ <<>> \in Seq(Tokens)
  BY EmptySeq
<1>2. DOMAIN <<>> = {}
  OBVIOUS
<1> QED BY <1>1, <1>2 DEF RangeOf, Held

(* Ascending tokens are all different.                                     *)
LEMMA LowestInjective ==
  ASSUME NEW n \in Nat, NEW f \in [1 .. n -> token], token \subseteq Tokens,
         Lowest(f, token), NEW i \in 1 .. n, NEW j \in 1 .. n, f[i] = f[j]
  PROVE  i = j
<1>1. f[i] \in Int /\ f[j] \in Int /\ DOMAIN f = 1 .. n
  BY WordTypes
<1>2. ~(i < j) /\ ~(j < i)
  BY <1>1 DEF Lowest
<1> QED BY <1>2

-----------------------------------------------------------------------------
(* Giving back all descriptors of an array, and writing no new ones to it. *)
LEMMA GiveBack ==
  ASSUME NEW A, NEW F, Accounted(A, F), F \subseteq Tokens,
         NEW h \in Holders, DOMAIN A = Holders,
         NEW s, RangeOf(s) \cap Tokens = {}
  PROVE  Accounted([A EXCEPT ![h] = s], F \cup Held(A[h]))
<1> DEFINE B == [A EXCEPT ![h] = s]
           G == F \cup Held(A[h])
<1>1. B[h] = s /\ \A g \in Holders : g # h => B[g] = A[g]
  OBVIOUS
<1>2. \A i \in DOMAIN s : s[i] \notin Tokens
  BY DEF RangeOf
<1>3. Held(A[h]) = {A[h][i] : i \in DOMAIN A[h]} \cap Tokens
  BY DEF Held, RangeOf
<1>4. ASSUME NEW k \in Tokens
      PROVE  k \in G \/ \E g \in Holders : \E i \in DOMAIN B[g] : B[g][i] = k
  <2>1. CASE k \in F
    BY <2>1
  <2>2. CASE \E g \in Holders : \E i \in DOMAIN A[g] : A[g][i] = k
    <3>1. PICK g \in Holders : \E i \in DOMAIN A[g] : A[g][i] = k
      BY <2>2
    <3>2. CASE g = h
      BY <3>1, <3>2, <1>3
    <3>3. CASE g # h
      BY <3>1, <3>3, <1>1
    <3> QED BY <3>2, <3>3
  <2> QED BY <2>1, <2>2 DEF Accounted
<1>5. ASSUME NEW g \in Holders, NEW i \in DOMAIN B[g] PROVE B[g][i] \notin G
  <2>1. CASE g = h
    <3>1. B[g][i] \notin Tokens
      BY <1>1, <1>2, <2>1
    <3> QED BY <3>1, <1>3
  <2>2. CASE g # h
    <3>1. B[g] = A[g] /\ A[g][i] \notin F /\ i \in DOMAIN A[g]
      BY <1>1, <2>2 DEF Accounted
    <3>2. A[g][i] \notin Held(A[h])
      BY <1>3, <2>2, <3>1 DEF Accounted
    <3> QED BY <3>1, <3>2
  <2> QED BY <2>1, <2>2
<1>6. ASSUME NEW g1 \in Holders, NEW g2 \in Holders,
             NEW i \in DOMAIN B[g1], NEW j \in DOMAIN B[g2],
             B[g1][i] \in Tokens, B[g1][i] = B[g2][j]
      PROVE  g1 = g2 /\ i = j
  <2>1. g1 # h /\ g2 # h
    BY <1>1, <1>2, <1>6
  <2>2. B[g1] = A[g1] /\ B[g2] = A[g2]
    BY <1>1, <2>1
  <2> QED BY <1>6, <2>2 DEF Accounted
<1>7. Accounted(B, G)
  BY <1>4, <1>5, <1>6 DEF Accounted
<1> QED BY <1>7

(* Writing different free descriptors to an array that has none.           *)
LEMMA TakeOut ==
  ASSUME NEW A, NEW F, Accounted(A, F), F \subseteq Tokens,
         NEW h \in Holders, DOMAIN A = Holders, Held(A[h]) = {},
         NEW s, RangeOf(s) \subseteq F,
         \A i, j \in DOMAIN s : s[i] = s[j] => i = j
  PROVE  Accounted([A EXCEPT ![h] = s], F \ RangeOf(s))
<1> DEFINE B == [A EXCEPT ![h] = s]
           G == F \ RangeOf(s)
<1>1. B[h] = s /\ \A g \in Holders : g # h => B[g] = A[g]
  OBVIOUS
<1>2. \A i \in DOMAIN A[h] : A[h][i] \notin Tokens
  BY DEF Held, RangeOf
<1>3. \A k : k \in RangeOf(s) <=> \E i \in DOMAIN s : s[i] = k
  BY DEF RangeOf
<1>4. ASSUME NEW k \in Tokens
      PROVE  k \in G \/ \E g \in Holders : \E i \in DOMAIN B[g] : B[g][i] = k
  <2>1. CASE k \in RangeOf(s)
    BY <1>1, <1>3, <2>1
  <2>2. CASE k \notin RangeOf(s) /\ k \in F
    BY <2>2
  <2>3. CASE k \notin F
    <3>1. PICK g \in Holders : \E i \in DOMAIN A[g] : A[g][i] = k
      BY <2>3 DEF Accounted
    <3>2. g # h
      BY <1>2, <3>1
    <3> QED BY <1>1, <3>1, <3>2
  <2> QED BY <2>1, <2>2, <2>3
<1>5. ASSUME NEW g \in Holders, NEW i \in DOMAIN B[g] PROVE B[g][i] \notin G
  BY <1>1, <1>3 DEF Accounted
<1>6. ASSUME NEW g1 \in Holders, NEW g2 \in Holders,
             NEW i \in DOMAIN B[g1], NEW j \in DOMAIN B[g2],
             B[g1][i] \in Tokens, B[g1][i] = B[g2][j]
      PROVE  g1 = g2 /\ i = j
  <2>1. \A g \in Holders : g # h => \A m \in DOMAIN B[g] : B[g][m] \notin RangeOf(s)
    BY <1>1 DEF Accounted
  <2>2. CASE g1 = h /\ g2 = h
    BY <1>1, <1>6, <2>2
  <2>3. CASE (g1 = h) # (g2 = h)
    BY <1>1, <1>3, <1>6, <2>1, <2>3
  <2>4. CASE g1 # h /\ g2 # h
    <3>1. B[g1] = A[g1] /\ B[g2] = A[g2]
      BY <1>1, <2>4
    <3> QED BY <1>6, <3>1 DEF Accounted
  <2> QED BY <2>2, <2>3, <2>4
<1>7. Accounted(B, G)
  BY <1>4, <1>5, <1>6 DEF Accounted
<1> QED BY <1>7

-----------------------------------------------------------------------------
(***************************************************************************)
(* Until a heap word strays, a step gives back the array of one holder,    *)
(* fills an empty one with free descriptors, or touches neither.           *)
(***************************************************************************)
Gives(h) ==
  Arr' = [Arr EXCEPT ![h] = <<>>] /\ token' = token \cup Held(Arr[h])

Takes(h, s) ==
  /\ Arr[h] = <<>> /\ Arr' = [Arr EXCEPT ![h] = s]
  /\ RangeOf(s) \subseteq token /\ token' = token \ RangeOf(s)
  /\ \A i, j \in DOMAIN s : s[i] = s[j] => i = j

Same == UNCHANGED <<Arr, token>>

Accounts == Same \/ \E h \in Holders : Gives(h) \/ \E s : Takes(h, s)

(* A channel's driver writes to the channel's array only.                  *)
LEMMA ChanArray ==
  ASSUME IInv, NEW c \in Chans, UNCHANGED own,
         NEW l, pc' = [pc EXCEPT ![c] = l],
         NEW t, table' = [table EXCEPT ![c] = t]
  PROVE  /\ Arr' = [Arr EXCEPT ![c] = IF l \in {"allocate", "dry"} THEN <<>> ELSE t]
         /\ Arr[c] = Array(c) /\ c \in Holders
<1> DEFINE a == IF l \in {"allocate", "dry"} THEN <<>> ELSE t
<1>1. pc \in [Chans -> {"rest", "drop", "malloc", "allocate", "setup", "dry", "exit"}]
      /\ table \in [Chans -> Seq(Words)]
  BY DEF IInv, TypeOK
<1>2. \A h \in Chans : /\ pc'[h] = IF h = c THEN l ELSE pc[h]
                       /\ table'[h] = IF h = c THEN t ELSE table[h]
  BY <1>1
<1>3. ASSUME NEW h \in Holders PROVE Arr'[h] = IF h = c THEN a ELSE Arr[h]
  <2>1. CASE h \in Chans
    BY <1>2, <2>1 DEF Arr, Array
  <2>2. CASE h \notin Chans
    BY <2>2 DEF Arr, Array
  <2> QED BY <2>1, <2>2
<1>4. Arr' = [h \in Holders |-> Arr'[h]]
  BY DEF Arr
<1>5. [Arr EXCEPT ![c] = a] = [h \in Holders |-> IF h = c THEN a ELSE Arr[h]]
  BY DEF Arr
<1>6. Arr[c] = Array(c) /\ c \in Holders
  BY DEF Arr, Holders
<1> QED BY <1>3, <1>4, <1>5, <1>6

(* And a driver with descriptors of its own to its own.                    *)
LEMMA UserArray ==
  ASSUME IInv, NEW u \in Users, UNCHANGED <<pc, table>>,
         NEW s, own' = [own EXCEPT ![u] = s]
  PROVE  Arr' = [Arr EXCEPT ![u] = s] /\ Arr[u] = own[u] /\ u \in Holders
<1>1. u \notin Chans /\ own \in [Users -> Seq(Tokens)]
  BY ConstantsOK DEF ConstantsOK, IInv, TypeOK
<1>2. \A h \in Users : own'[h] = IF h = u THEN s ELSE own[h]
  BY <1>1
<1>3. ASSUME NEW h \in Holders PROVE Arr'[h] = IF h = u THEN s ELSE Arr[h]
  <2>1. CASE h \in Chans
    BY <1>1, <2>1 DEF Arr, Array
  <2>2. CASE h \notin Chans
    BY <1>2, <2>2 DEF Arr, Array, Holders
  <2> QED BY <2>1, <2>2
<1>4. Arr' = [h \in Holders |-> Arr'[h]]
  BY DEF Arr
<1>5. [Arr EXCEPT ![u] = s] = [h \in Holders |-> IF h = u THEN s ELSE Arr[h]]
  BY DEF Arr
<1>6. Arr[u] = own[u] /\ u \in Holders
  BY <1>1 DEF Arr, Array, Holders
<1> QED BY <1>3, <1>4, <1>5, <1>6

(* The array of a channel is what it was, empty or not.                    *)
LEMMA SameArray ==
  ASSUME IInv, NEW c \in Chans, UNCHANGED <<own, token>>,
         NEW l, pc' = [pc EXCEPT ![c] = l],
         NEW t, table' = [table EXCEPT ![c] = t],
         Array(c) = IF l \in {"allocate", "dry"} THEN <<>> ELSE t
  PROVE  Same
<1>1. Arr' = [Arr EXCEPT ![c] = Arr[c]]
  BY ChanArray
<1>2. Arr' = Arr
  BY <1>1 DEF Arr
<1> QED BY <1>2 DEF Same

LEMMA Untouched == ASSUME UNCHANGED <<pc, table, own, token>> PROVE Same
BY DEF Same, Arr, Array

LEMMA StepAccounts ==
  ASSUME ~FreeAfterUse, IInv, [Next]_vars, ~strayed' PROVE Accounts
<1> USE DEF Goto, At
<1>0. /\ pc \in [Chans -> {"rest", "drop", "malloc", "allocate", "setup", "dry", "exit"}]
      /\ table \in [Chans -> Seq(Words)] /\ token \subseteq Tokens
      /\ \A c \in Chans : table = [table EXCEPT ![c] = table[c]]
  BY DEF IInv, TypeOK
<1>1. ASSUME NEW c \in Chans, NEW n \in Counts, Transfer(c, n) PROVE Same
  <2>1. PICK l \in {"setup", "drop", "malloc"} : pc' = [pc EXCEPT ![c] = l]
    BY <1>1 DEF Transfer
  <2>2. Array(c) = table[c] /\ table' = [table EXCEPT ![c] = table[c]]
        /\ UNCHANGED <<own, token>>
    BY <1>0, <1>1 DEF Transfer, Array
  <2> QED BY <2>1, <2>2, SameArray
<1>2. ASSUME NEW c \in Chans, Drop(c) PROVE Same \/ Gives(c)
  <2>1. CASE /\ token' = token \cup Held(table[c]) /\ table' = [table EXCEPT ![c] = <<>>]
             /\ pc' = [pc EXCEPT ![c] = "malloc"]
    <3>1. Array(c) = table[c] /\ UNCHANGED own
      BY <1>2 DEF Drop, Array
    <3> QED BY <2>1, <3>1, ChanArray DEF Gives
  <2>2. CASE UNCHANGED <<pc, token, table>>
    BY <1>2, <2>2, Untouched DEF Drop
  <2> QED BY <1>2, <2>1, <2>2 DEF Drop
<1>3. ASSUME NEW c \in Chans, Malloc(c) PROVE Same
  <2>1. Array(c) = <<>> /\ table[c] = <<>> /\ UNCHANGED <<own, token>>
    BY <1>3 DEF Malloc, Array, IInv, ChanOK
  <2>2. ASSUME NEW words, table' = [table EXCEPT ![c] = words],
               pc' = [pc EXCEPT ![c] = "allocate"]
        PROVE  Same
    BY <2>1, <2>2, SameArray
  <2>3. CASE pc' = [pc EXCEPT ![c] = "rest"] /\ UNCHANGED table
    <3>1. table' = [table EXCEPT ![c] = table[c]]
      BY <1>0, <2>3
    <3> QED BY <2>1, <2>3, <3>1, SameArray
  <2> QED BY <1>3, <2>2, <2>3 DEF Malloc
<1>4. ASSUME NEW c \in Chans, Allocate(c) PROVE Same \/ \E s : Takes(c, s)
  <2>1. Array(c) = <<>> /\ UNCHANGED own /\ wanted[c] \in Nat
    BY <1>4 DEF Allocate, Array, IInv, TypeOK
  <2>2. ASSUME NEW f \in [1 .. wanted[c] -> token], Lowest(f, token),
               table' = [table EXCEPT ![c] = f], token' = token \ RangeOf(f),
               pc' = [pc EXCEPT ![c] = "setup"]
        PROVE  Takes(c, f)
    <3>1. Arr[c] = <<>> /\ Arr' = [Arr EXCEPT ![c] = f]
      <4>1. Arr' = [Arr EXCEPT ![c] = IF "setup" \in {"allocate", "dry"} THEN <<>> ELSE f]
            /\ Arr[c] = Array(c)
        BY <2>1, <2>2, ChanArray
      <4> QED BY <2>1, <4>1
    <3>2. RangeOf(f) \subseteq token /\ DOMAIN f = 1 .. wanted[c]
      BY DEF RangeOf
    <3>3. \A i, j \in DOMAIN f : f[i] = f[j] => i = j
      BY <1>0, <2>1, <2>2, <3>2, LowestInjective
    <3> QED BY <2>2, <3>1, <3>2, <3>3 DEF Takes
  <2>3. CASE /\ table' = [table EXCEPT ![c] = RanDry(@, token)] /\ UNCHANGED token
             /\ pc' = [pc EXCEPT ![c] = "dry"]
    <3>1. table' = [table EXCEPT ![c] = RanDry(table[c], token)]
      BY <2>3
    <3> QED BY <2>1, <2>3, <3>1, SameArray
  <2> QED BY <1>4, <2>2, <2>3 DEF Allocate
<1>5. ASSUME NEW c \in Chans, Setup(c) PROVE Same
  <2>1. CASE UNCHANGED pc
    BY <1>5, <2>1, Untouched DEF Setup
  <2>2. CASE ~ UNCHANGED pc
    <3>1. PICK l \in {"rest", "exit"} : pc' = [pc EXCEPT ![c] = l]
      BY <1>5, <2>2 DEF Setup
    <3>2. Array(c) = table[c] /\ table' = [table EXCEPT ![c] = table[c]]
          /\ UNCHANGED <<own, token>>
      BY <1>0, <1>5 DEF Setup, Array
    <3> QED BY <3>1, <3>2, SameArray
  <2> QED BY <2>1, <2>2
<1>6. ASSUME NEW c \in Chans, Exit(c) PROVE Same \/ Gives(c)
  <2>1. CASE /\ token' = token \cup Held(table[c]) /\ table' = [table EXCEPT ![c] = <<>>]
             /\ pc' = [pc EXCEPT ![c] = "rest"]
             /\ strayed' = (strayed \/ ~ Held(table[c]) \subseteq token \cup Held(Array(c)))
    <3>1. Held(table[c]) \subseteq token \cup Held(Array(c))
      BY <2>1
    <3>2. Held(Array(c)) \subseteq Held(table[c])
      BY EmptyTable DEF Array
    <3>3. token' = token \cup Held(Array(c)) /\ UNCHANGED own
      BY <1>6, <2>1, <3>1, <3>2 DEF Exit
    <3> QED BY <2>1, <3>3, ChanArray DEF Gives
  <2>2. CASE UNCHANGED <<pc, token, table>>
    BY <1>6, <2>2, Untouched DEF Exit
  <2> QED BY <1>6, <2>1, <2>2 DEF Exit
<1>7. ASSUME NEW c \in Chans, EngineStops(c) PROVE Same
  BY <1>7, Untouched DEF EngineStops
<1>8. ASSUME NEW c \in Chans, Reallocate(c) PROVE Same
  <2>1. table[c] = <<>> /\ table' = [table EXCEPT ![c] = <<>>]
    BY <1>8 DEF Reallocate, IInv, ChanOK
  <2>2. UNCHANGED <<pc, table, own, token>>
    BY <1>0, <1>8, <2>1 DEF Reallocate
  <2> QED BY <2>2, Untouched
<1>9. ASSUME NEW u \in Users, UserAllocate(u) PROVE \E s : Takes(u, s)
  <2>1. PICK f \in [1 .. UserNum[u] -> token] :
          /\ Lowest(f, token) /\ own' = [own EXCEPT ![u] = f]
          /\ token' = token \ RangeOf(f)
    BY <1>9 DEF UserAllocate
  <2>2. UserNum[u] \in Nat /\ RangeOf(f) \subseteq token /\ DOMAIN f = 1 .. UserNum[u]
    BY <2>1, ConstantsOK DEF ConstantsOK, RangeOf
  <2>3. ASSUME NEW i \in 1 .. UserNum[u], NEW j \in 1 .. UserNum[u], f[i] = f[j]
        PROVE  i = j
    BY <1>0, <2>1, <2>2, <2>3, LowestInjective
  <2>4. Arr[u] = <<>> /\ Arr' = [Arr EXCEPT ![u] = f]
    BY <1>9, <2>1, UserArray DEF UserAllocate
  <2> QED BY <2>1, <2>2, <2>3, <2>4 DEF Takes
<1>10. ASSUME NEW u \in Users, UserFree(u) PROVE Gives(u)
  BY <1>10, UserArray DEF UserFree, Gives
<1>11. CASE UNCHANGED vars
  BY <1>11, Untouched DEF vars, Accounts
<1>12. ASSUME NEW c \in Chans,
              \/ \E n \in Counts : Transfer(c, n)
              \/ Drop(c) \/ Malloc(c) \/ Allocate(c) \/ Setup(c) \/ Exit(c)
              \/ EngineStops(c) \/ Reallocate(c)
       PROVE  Accounts
  <2>1. c \in Holders
    BY DEF Holders
  <2>2. ASSUME NEW n \in Counts, Transfer(c, n) PROVE Accounts
    BY <1>1, <2>2 DEF Accounts
  <2>3. ASSUME Malloc(c) \/ Setup(c) \/ EngineStops(c) \/ Reallocate(c) PROVE Accounts
    BY <1>3, <1>5, <1>7, <1>8, <2>3 DEF Accounts
  <2>4. ASSUME Drop(c) \/ Exit(c) PROVE Accounts
    BY <1>2, <1>6, <2>1, <2>4 DEF Accounts
  <2>5. ASSUME Allocate(c) PROVE Accounts
    BY <1>4, <2>1, <2>5 DEF Accounts
  <2> QED BY <1>12, <2>2, <2>3, <2>4, <2>5
<1>13. ASSUME NEW u \in Users, UserAllocate(u) \/ UserFree(u) PROVE Accounts
  <2>1. u \in Holders
    BY DEF Holders
  <2> QED BY <1>9, <1>10, <1>13, <2>1 DEF Accounts
<1>14. Same => Accounts
  BY DEF Accounts
<1> QED BY <1>11, <1>12, <1>13, <1>14 DEF Next

(* What has strayed stays so.                                              *)
LEMMA StrayedForGood == ASSUME [Next]_vars, strayed PROVE strayed'
BY DEF Next, vars, Transfer, Drop, Malloc, Allocate, Setup, Exit, EngineStops,
       Reallocate, UserAllocate, UserFree

(* Every step keeps each descriptor free or in one place.                  *)
LEMMA StepAccounted ==
  ASSUME ~FreeAfterUse, IInv, [Next]_vars PROVE strayed' \/ Accounted(Arr', token')
<1> SUFFICES ASSUME ~strayed' PROVE Accounted(Arr', token')
  OBVIOUS
<1>1. Accounted(Arr, token) /\ token \subseteq Tokens /\ DOMAIN Arr = Holders
  BY StrayedForGood DEF IInv, TypeOK, Arr
<1>2. ASSUME NEW h \in Holders, Gives(h) PROVE Accounted(Arr', token')
  <2>1. RangeOf(<<>>) \cap Tokens = {}
    BY EmptyTable
  <2>2. Accounted([Arr EXCEPT ![h] = <<>>], token \cup Held(Arr[h]))
    BY <1>1, <2>1, GiveBack
  <2> QED BY <1>2, <2>2 DEF Gives
<1>3. ASSUME NEW h \in Holders, NEW s, Takes(h, s) PROVE Accounted(Arr', token')
  <2>1. Held(Arr[h]) = {}
    BY <1>3, EmptyTable DEF Takes
  <2>2. Accounted([Arr EXCEPT ![h] = s], token \ RangeOf(s))
    BY <1>1, <1>3, <2>1, TakeOut DEF Takes
  <2> QED BY <1>3, <2>2 DEF Takes
<1>4. CASE Same
  BY <1>1, <1>4 DEF Same
<1> QED BY <1>2, <1>3, <1>4, StepAccounts DEF Accounts

-----------------------------------------------------------------------------
(* Every table a step leaves is a sequence of words.                       *)
LEMMA TableTypes ==
  ASSUME IInv, NEW c \in Chans, NEW n \in Nat,
         NEW s \in [1 .. n -> Words], table' = [table EXCEPT ![c] = s]
  PROVE  table' \in [Chans -> Seq(Words)]
<1>1. s \in Seq(Words)
  BY Functions
<1> QED BY <1>1 DEF IInv, TypeOK

LEMMA TableGone ==
  ASSUME IInv, NEW c \in Chans, table' = [table EXCEPT ![c] = <<>>]
  PROVE  table' \in [Chans -> Seq(Words)]
<1>1. <<>> \in Seq(Words)
  BY EmptyTable
<1>2. table \in [Chans -> Seq(Words)]
  BY DEF IInv, TypeOK
<1> QED BY <1>1, <1>2

(* Every step keeps the types.                                             *)
LEMMA StepTypes == ASSUME IInv, [Next]_vars PROVE TypeOK'
<1> USE DEF Goto
<1>1. ASSUME NEW c \in Chans, NEW n \in Counts, Transfer(c, n) PROVE TypeOK'
  <2>1. n \in Nat
    BY ConstantsOK DEF ConstantsOK
  <2> QED BY <1>1, <2>1 DEF Transfer, IInv, TypeOK
<1>2. ASSUME NEW c \in Chans, Drop(c) PROVE TypeOK'
  <2>1. token' \subseteq Tokens
    BY <1>2 DEF Drop, Held, IInv, TypeOK
  <2>2. table' \in [Chans -> Seq(Words)]
    <3>1. CASE UNCHANGED table
      BY <3>1 DEF IInv, TypeOK
    <3> QED BY <1>2, <3>1, TableGone DEF Drop
  <2>3. pc' \in [Chans -> {"rest", "drop", "malloc", "allocate", "setup", "dry", "exit"}]
    BY <1>2 DEF Drop, IInv, TypeOK
  <2>4. wanted' \in [Chans -> Nat] /\ trap' \in {"none", "assert", "null"}
    <3>1. wanted' = [wanted EXCEPT ![c] = 0] \/ wanted' = wanted
      BY <1>2 DEF Drop
    <3>2. wanted \in [Chans -> Nat]
      BY DEF IInv, TypeOK
    <3>3. wanted' \in [Chans -> Nat]
      BY <3>1, <3>2
    <3>4. trap' \in {"none", "assert", "null"}
      BY <1>2 DEF Drop, IInv, TypeOK
    <3> QED BY <3>3, <3>4
  <2>5. UNCHANGED <<count, own, engine, hurried, strayed>>
    BY <1>2 DEF Drop
  <2> QED BY <2>1, <2>2, <2>3, <2>4, <2>5 DEF IInv, TypeOK
<1>3. ASSUME NEW c \in Chans, Malloc(c) PROVE TypeOK'
  <2>1. count[c] \in Nat /\ HeapWords \subseteq Words
    BY ConstantsOK DEF ConstantsOK, IInv, TypeOK, Words
  <2>2. Wanted(count[c]) \in Nat
    BY <2>1, WantedType
  <2>3. table' \in [Chans -> Seq(Words)]
    <3>1. CASE UNCHANGED table
      BY <3>1 DEF IInv, TypeOK
    <3>2. CASE \E words \in [1 .. Wanted(count[c]) -> HeapWords] :
                 table' = [table EXCEPT ![c] = words]
      <4>1. PICK words \in [1 .. Wanted(count[c]) -> HeapWords] :
              table' = [table EXCEPT ![c] = words]
        BY <3>2
      <4>2. words \in [1 .. Wanted(count[c]) -> Words]
        BY <2>1, <4>1
      <4> QED BY <2>2, <4>1, <4>2, TableTypes
    <3> QED BY <1>3, <3>1, <3>2 DEF Malloc
  <2> QED BY <1>3, <2>2, <2>3 DEF Malloc, IInv, TypeOK
<1>4. ASSUME NEW c \in Chans, Allocate(c) PROVE TypeOK'
  <2>1. wanted[c] \in Nat /\ table[c] \in Seq(Words)
    BY DEF IInv, TypeOK
  <2>2. table' \in [Chans -> Seq(Words)]
    <3>1. ASSUME NEW f \in [1 .. wanted[c] -> token], table' = [table EXCEPT ![c] = f]
          PROVE  table' \in [Chans -> Seq(Words)]
      <4>1. f \in [1 .. wanted[c] -> Words]
        BY WordTypes DEF IInv, TypeOK
      <4> QED BY <2>1, <3>1, <4>1, TableTypes
    <3>2. CASE table' = [table EXCEPT ![c] = RanDry(@, token)]
      <4>1. RanDry(table[c], token) \in [1 .. Len(table[c]) -> Words]
        BY <2>1, WordTypes DEF RanDry
      <4>2. table' = [table EXCEPT ![c] = RanDry(table[c], token)]
        BY <3>2
      <4>3. Len(table[c]) \in Nat
        BY <2>1
      <4> QED BY <4>1, <4>2, <4>3, TableTypes
    <3> QED BY <1>4, <3>1, <3>2 DEF Allocate
  <2>3. token' \subseteq Tokens
    BY <1>4 DEF Allocate, IInv, TypeOK
  <2>4. pc' \in [Chans -> {"rest", "drop", "malloc", "allocate", "setup", "dry", "exit"}]
    BY <1>4 DEF Allocate, IInv, TypeOK
  <2> QED BY <1>4, <2>2, <2>3, <2>4 DEF Allocate, IInv, TypeOK
<1>5. ASSUME NEW c \in Chans, Setup(c) PROVE TypeOK'
  BY <1>5 DEF Setup, IInv, TypeOK
<1>6. ASSUME NEW c \in Chans, Exit(c) PROVE TypeOK'
  <2>1. token' \subseteq Tokens
    BY <1>6 DEF Exit, Held, IInv, TypeOK
  <2>2. table' \in [Chans -> Seq(Words)]
    <3>1. CASE UNCHANGED table
      BY <3>1 DEF IInv, TypeOK
    <3> QED BY <1>6, <3>1, TableGone DEF Exit
  <2>3. pc' \in [Chans -> {"rest", "drop", "malloc", "allocate", "setup", "dry", "exit"}]
    BY <1>6 DEF Exit, IInv, TypeOK
  <2>4. wanted' \in [Chans -> Nat] /\ trap' \in {"none", "assert", "null"}
    <3>1. wanted' = [wanted EXCEPT ![c] = 0] \/ wanted' = wanted
      BY <1>6 DEF Exit
    <3>2. wanted \in [Chans -> Nat]
      BY DEF IInv, TypeOK
    <3>3. wanted' \in [Chans -> Nat]
      BY <3>1, <3>2
    <3>4. trap' \in {"none", "assert", "null"}
      BY <1>6 DEF Exit, IInv, TypeOK
    <3> QED BY <3>3, <3>4
  <2>5. UNCHANGED <<count, own, engine, hurried>> /\ strayed' \in BOOLEAN
    BY <1>6 DEF Exit, IInv, TypeOK
  <2> QED BY <2>1, <2>2, <2>3, <2>4, <2>5 DEF IInv, TypeOK
<1>7. ASSUME NEW c \in Chans, EngineStops(c) \/ Reallocate(c) PROVE TypeOK'
  <2>1. CASE EngineStops(c)
    BY <2>1, EmptyTable DEF EngineStops, IInv, TypeOK
  <2>2. CASE Reallocate(c)
    <3>1. table' \in [Chans -> Seq(Words)]
      BY <2>2, TableGone DEF Reallocate
    <3> QED BY <2>2, <3>1 DEF Reallocate, IInv, TypeOK
  <2> QED BY <1>7, <2>1, <2>2
<1>8. ASSUME NEW u \in Users, UserAllocate(u) PROVE TypeOK'
  <2>1. PICK f \in [1 .. UserNum[u] -> token] :
          own' = [own EXCEPT ![u] = f] /\ token' = token \ RangeOf(f)
    BY <1>8 DEF UserAllocate
  <2>2. UserNum[u] \in Nat /\ f \in [1 .. UserNum[u] -> Tokens]
    BY ConstantsOK DEF ConstantsOK, IInv, TypeOK
  <2>3. f \in Seq(Tokens)
    BY <2>2, Functions
  <2> QED BY <1>8, <2>1, <2>3 DEF UserAllocate, IInv, TypeOK
<1>9. ASSUME NEW u \in Users, UserFree(u) PROVE TypeOK'
  <2>1. token' \subseteq Tokens
    BY <1>9 DEF UserFree, Held, IInv, TypeOK
  <2> QED BY <1>9, <2>1, EmptyTable DEF UserFree, IInv, TypeOK
<1>10. CASE UNCHANGED vars
  BY <1>10 DEF vars, IInv, TypeOK
<1> QED BY <1>1, <1>2, <1>3, <1>4, <1>5, <1>6, <1>7, <1>8, <1>9, <1>10 DEF Next

(* The step of a channel is about that channel.                            *)
LEMMA StepChan ==
  ASSUME ~FreeAfterUse, IInv, [Next]_vars PROVE ChanOK'
<1> USE DEF Goto, At
<1>1. ASSUME NEW c \in Chans, NEW n \in Counts, Transfer(c, n) PROVE ChanOK'
  <2>1. n \in Nat
    BY ConstantsOK DEF ConstantsOK
  <2>2. Wanted(n) \in Nat \ {0}
    BY <2>1, WantedType
  <2>3. \/ wanted[c] = Wanted(n) /\ pc'[c] = "setup"
        \/ wanted[c] > 0 /\ pc'[c] = "drop"
        \/ wanted[c] = 0 /\ pc'[c] = "malloc"
    BY <1>1, <2>2 DEF Transfer, IInv, TypeOK
  <2> QED BY <1>1, <2>3 DEF Transfer, IInv, TypeOK, ChanOK, Whole
<1>2. ASSUME NEW c \in Chans, Drop(c) PROVE ChanOK'
  BY <1>2 DEF Drop, IInv, TypeOK, ChanOK, Whole
<1>3. ASSUME NEW c \in Chans, Malloc(c) PROVE ChanOK'
  <2>1. count[c] \in Nat
    BY DEF IInv, TypeOK
  <2>2. Wanted(count[c]) \in Nat \ {0}
    BY <2>1, WantedType
  <2>3. wanted' = [wanted EXCEPT ![c] = Wanted(count[c])] /\ table[c] = <<>>
    BY <1>3 DEF Malloc, IInv, ChanOK
  <2>4. CASE pc' = [pc EXCEPT ![c] = "rest"] /\ UNCHANGED table
    BY <1>3, <2>2, <2>3, <2>4 DEF Malloc, IInv, TypeOK, ChanOK, Whole
  <2>5. ASSUME NEW words \in [1 .. Wanted(count[c]) -> HeapWords],
               table' = [table EXCEPT ![c] = words], pc' = [pc EXCEPT ![c] = "allocate"]
        PROVE  ChanOK'
    BY <1>3, <2>2, <2>3, <2>5 DEF Malloc, IInv, TypeOK, ChanOK, Whole
  <2> QED BY <1>3, <2>4, <2>5 DEF Malloc
<1>4. ASSUME NEW c \in Chans, Allocate(c) PROVE ChanOK'
  <2>1. wanted[c] \in Nat /\ wanted[c] # 0 /\ token \subseteq Tokens
    BY <1>4 DEF Allocate, IInv, ChanOK, TypeOK
  <2>2. ASSUME NEW f \in [1 .. wanted[c] -> token], table' = [table EXCEPT ![c] = f],
               pc' = [pc EXCEPT ![c] = "setup"]
        PROVE  ChanOK'
    <3>1. Len(f) = wanted[c] /\ RangeOf(f) \subseteq Tokens
      BY <2>1, Functions
    <3> QED BY <1>4, <2>1, <2>2, <3>1 DEF Allocate, IInv, TypeOK, ChanOK, Whole
  <2>3. CASE /\ table' = [table EXCEPT ![c] = RanDry(@, token)]
             /\ pc' = [pc EXCEPT ![c] = "dry"]
    BY <1>4, <2>1, <2>3 DEF Allocate, IInv, TypeOK, ChanOK, Whole
  <2> QED BY <1>4, <2>2, <2>3 DEF Allocate
<1>5. ASSUME NEW c \in Chans, Setup(c) PROVE ChanOK'
  BY <1>5 DEF Setup, IInv, TypeOK, ChanOK, Whole
<1>6. ASSUME NEW c \in Chans, Exit(c) PROVE ChanOK'
  BY <1>6 DEF Exit, IInv, TypeOK, ChanOK, Whole
<1>7. ASSUME NEW c \in Chans, EngineStops(c) PROVE ChanOK'
  BY <1>7 DEF EngineStops, IInv, TypeOK, ChanOK, Whole
<1>8. ASSUME NEW c \in Chans, Reallocate(c) PROVE ChanOK'
  BY <1>8 DEF Reallocate, IInv, TypeOK, ChanOK, Whole
<1>9. ASSUME NEW u \in Users, UserAllocate(u) \/ UserFree(u) PROVE ChanOK'
  BY <1>9 DEF UserAllocate, UserFree, IInv, TypeOK, ChanOK, Whole
<1>10. CASE UNCHANGED vars
  BY <1>10 DEF vars, IInv, TypeOK, ChanOK, Whole
<1> QED BY <1>1, <1>2, <1>3, <1>4, <1>5, <1>6, <1>7, <1>8, <1>9, <1>10 DEF Next

(* All descriptors are free, no channel has a table.                       *)
LEMMA InitInvariant == ASSUME Init PROVE IInv
<1>1. TypeOK /\ ChanOK
  BY EmptyTable DEF Init, TypeOK, ChanOK
<1>2. \A h \in Holders : Arr[h] = <<>>
  BY DEF Init, Arr, Array, Holders
<1>3. Accounted(Arr, token)
  BY <1>2, EmptyTable DEF Init, Accounted
<1> QED BY <1>1, <1>3 DEF IInv

LEMMA StepInvariant == ASSUME ~FreeAfterUse, IInv, [Next]_vars PROVE IInv'
BY StepTypes, StepChan, StepAccounted DEF IInv

-----------------------------------------------------------------------------
(* A place is an entry of a holder's array.                                *)
LEMMA PlacesAreEntries ==
  ASSUME NEW p \in Places
  PROVE  \E h \in Holders : \E i \in DOMAIN Arr[h] :
           p = <<h, i>> /\ Array(p[1])[p[2]] = Arr[h][i]
<1>1. PICK h \in Holders : p \in {<<h, i>> : i \in DOMAIN Array(h)}
  BY DEF Places
<1>2. Arr[h] = Array(h)
  BY DEF Arr
<1>3. PICK i \in DOMAIN Arr[h] : p = <<h, i>>
  BY <1>1, <1>2
<1> QED BY <1>2, <1>3

(* What the arrays hold together with the free ones is the pool.           *)
LEMMA HeldAndFree ==
  ASSUME IInv, ~strayed
  PROVE  Tokens = token \cup UNION {Held(Array(h)) : h \in Holders}
<1> DEFINE T == UNION {Held(Array(h)) : h \in Holders}
<1>1. token \subseteq Tokens
  BY DEF IInv, TypeOK
<1>2. T \subseteq Tokens
  BY DEF Held
<1>3. ASSUME NEW k \in Tokens PROVE k \in token \cup T
  <2>1. CASE k \in token
    BY <2>1
  <2>2. CASE \E h \in Holders : \E i \in DOMAIN Arr[h] : Arr[h][i] = k
    <3>1. PICK h \in Holders : \E i \in DOMAIN Arr[h] : Arr[h][i] = k
      BY <2>2
    <3>2. Arr[h] = Array(h)
      BY DEF Arr
    <3>3. k \in Held(Array(h))
      BY <3>1, <3>2 DEF Held, RangeOf
    <3> QED BY <3>3
  <2> QED BY <2>1, <2>2 DEF IInv, Accounted
<1>4. Tokens = token \cup T
  <2> HIDE DEF T
  <2> QED BY <1>1, <1>2, <1>3
<1> QED BY <1>4

LEMMA InvariantAccounts == ASSUME IInv PROVE DescriptorsAccounted
<1>1. ASSUME ~strayed, NEW p \in Places, NEW q \in Places, Array(p[1])[p[2]] \in Tokens
      PROVE  /\ Array(p[1])[p[2]] \notin token
             /\ Array(p[1])[p[2]] = Array(q[1])[q[2]] => p = q
  <2>1. PICK h \in Holders : \E i \in DOMAIN Arr[h] :
          p = <<h, i>> /\ Array(p[1])[p[2]] = Arr[h][i]
    BY PlacesAreEntries
  <2>2. PICK i \in DOMAIN Arr[h] : p = <<h, i>> /\ Array(p[1])[p[2]] = Arr[h][i]
    BY <2>1
  <2>3. PICK g \in Holders : \E j \in DOMAIN Arr[g] :
          q = <<g, j>> /\ Array(q[1])[q[2]] = Arr[g][j]
    BY PlacesAreEntries
  <2>4. PICK j \in DOMAIN Arr[g] : q = <<g, j>> /\ Array(q[1])[q[2]] = Arr[g][j]
    BY <2>3
  <2> QED BY <1>1, <2>2, <2>4 DEF IInv, Accounted
<1> QED BY <1>1, HeldAndFree DEF DescriptorsAccounted

(* A chain that runs undisturbed is its channel's table, and that is whole.*)
LEMMA InvariantHolds == ASSUME IInv PROVE RunningChainIsHeld
<1> SUFFICES ASSUME ~strayed, NEW c \in Chans \ hurried, NEW k \in RangeOf(engine[c])
             PROVE  /\ k \in Tokens \ token
                    /\ \A h \in Holders : k \in Held(Array(h)) <=> h = c
  BY DEF RunningChainIsHeld
<1>1. engine[c] # <<>>
  BY EmptyTable
<1>2. pc[c] = "rest" /\ engine[c] = table[c] /\ RangeOf(table[c]) \subseteq Tokens
  BY <1>1 DEF IInv, ChanOK, Whole
<1>3. Arr[c] = engine[c] /\ Array(c) = engine[c] /\ c \in Holders
  BY <1>2 DEF Arr, Array, Holders
<1>4. PICK i \in DOMAIN Arr[c] : Arr[c][i] = k
  BY <1>3 DEF RangeOf
<1>5. k \in Tokens /\ k \notin token /\ k \in Held(Array(c))
  BY <1>2, <1>3, <1>4 DEF IInv, Accounted, Held
<1>6. ASSUME NEW h \in Holders, k \in Held(Array(h)) PROVE h = c
  <2>1. PICK j \in DOMAIN Arr[h] : Arr[h][j] = k
    BY <1>6 DEF Held, RangeOf, Arr
  <2> QED BY <1>3, <1>4, <1>5, <2>1 DEF IInv, Accounted
<1> QED BY <1>5, <1>6

(* For any channels, drivers and pool, and whatever fails: every variable  *)
(* has its type.                                                           *)
THEOREM TypeCorrect == ASSUME ~FreeAfterUse PROVE Spec => []TypeOK
<1>1. IInv => TypeOK
  BY DEF IInv
<1>2. Init => IInv
  BY InitInvariant
<1>3. IInv /\ [Next]_vars => IInv'
  BY StepInvariant
<1> QED BY <1>1, <1>2, <1>3, PTL DEF Spec

(* Every descriptor is free or in exactly one place: transfers never share *)
(* one, and no failure of heap, pool or set-up loses one, until a word of  *)
(* the heap has given back another's.                                      *)
THEOREM DescriptorsAreAccounted ==
  ASSUME ~FreeAfterUse PROVE Spec => []DescriptorsAccounted
<1>1. IInv => DescriptorsAccounted
  BY InvariantAccounts
<1>2. Init => IInv
  BY InitInvariant
<1>3. IInv /\ [Next]_vars => IInv'
  BY StepInvariant
<1> QED BY <1>1, <1>2, <1>3, PTL DEF Spec

(* No other holder allocates, or is given, a descriptor of a chain that    *)
(* runs, whatever it fails at.                                             *)
THEOREM RunningChainsAreHeld ==
  ASSUME ~FreeAfterUse PROVE Spec => []RunningChainIsHeld
<1>1. IInv => RunningChainIsHeld
  BY InvariantHolds
<1>2. Init => IInv
  BY InitInvariant
<1>3. IInv /\ [Next]_vars => IInv'
  BY StepInvariant
<1> QED BY <1>1, <1>2, <1>3, PTL DEF Spec

(* A table kept for the next transfer has as many entries as the channel's *)
(* record says, all of them descriptors.                                   *)
THEOREM KeptTablesAreWhole ==
  ASSUME ~FreeAfterUse PROVE Spec => []KeptTableIsWhole
<1>1. IInv => KeptTableIsWhole
  BY DEF IInv, ChanOK, Whole, KeptTableIsWhole
<1>2. Init => IInv
  BY InitInvariant
<1>3. IInv /\ [Next]_vars => IInv'
  BY StepInvariant
<1> QED BY <1>1, <1>2, <1>3, PTL DEF Spec

-----------------------------------------------------------------------------
(***************************************************************************)
(* The refinement: what a holder holds is what its array holds; a step     *)
(* takes a whole array, gives one back, or is no business of the pool.     *)
(***************************************************************************)
Hold == [h \in Holders |-> Held(Array(h))]

(* A step that writes one array changes what its holder holds.             *)
LEMMA ArrayHolds ==
  ASSUME NEW h \in Holders, NEW s, Arr' = [Arr EXCEPT ![h] = s]
  PROVE  Hold' = [Hold EXCEPT ![h] = Held(s)] /\ Hold[h] = Held(Arr[h])
<1>1. \A g \in Holders : Arr'[g] = Array(g)' /\ Arr[g] = Array(g)
  BY DEF Arr
<1>2. ASSUME NEW g \in Holders PROVE Held(Array(g)') = IF g = h THEN Held(s) ELSE Held(Array(g))
  BY <1>1 DEF Arr
<1>3. Hold' = [g \in Holders |-> Held(Array(g)')]
  BY DEF Hold, Held, RangeOf, Tokens
<1>4. [Hold EXCEPT ![h] = Held(s)] = [g \in Holders |-> IF g = h THEN Held(s) ELSE Held(Array(g))]
  BY DEF Hold
<1>5. Hold[h] = Held(Arr[h])
  BY <1>1 DEF Hold
<1> QED BY <1>2, <1>3, <1>4, <1>5

LEMMA StepPool ==
  ASSUME ~FreeAfterUse, IInv, [Next]_vars, ~strayed'
  PROVE  [Pool!Next]_(Pool!vars)
<1>1. token \subseteq Tokens
  BY DEF IInv, TypeOK
<1>2. ASSUME NEW h \in Holders, Gives(h) PROVE Pool!Next
  <2>1. Hold' = [Hold EXCEPT ![h] = {}] /\ token' = token \cup Hold[h]
    BY <1>2, EmptyTable, ArrayHolds DEF Gives
  <2>2. Pool!Drop(h)
    BY <2>1 DEF Pool!Drop, Hold
  <2> QED BY <2>2 DEF Pool!Next
<1>3. ASSUME NEW h \in Holders, NEW s, Takes(h, s) PROVE Pool!Next
  <2>1. Held(s) = RangeOf(s) /\ RangeOf(s) \in SUBSET Tokens
    BY <1>1, <1>3 DEF Takes, Held
  <2>2. Hold' = [Hold EXCEPT ![h] = RangeOf(s)] /\ Hold[h] = {}
    <3>1. Hold' = [Hold EXCEPT ![h] = Held(s)] /\ Hold[h] = Held(Arr[h])
      BY <1>3, ArrayHolds DEF Takes
    <3>2. Held(Arr[h]) = {}
      BY <1>3, EmptyTable DEF Takes
    <3> QED BY <2>1, <3>1, <3>2
  <2>3. Pool!Grab(h, RangeOf(s))
    BY <1>3, <2>2 DEF Takes, Pool!Grab, Hold
  <2> QED BY <2>1, <2>3 DEF Pool!Next
<1>4. ASSUME Same PROVE UNCHANGED Pool!vars
  <2>1. \A g \in Holders : Array(g)' = Array(g)
    <3>1. \A g \in Holders : Arr'[g] = Array(g)' /\ Arr[g] = Array(g)
      BY DEF Arr
    <3> QED BY <1>4, <3>1 DEF Same
  <2>2. Hold' = [g \in Holders |-> Held(Array(g)')]
    BY DEF Hold, Held, RangeOf, Tokens
  <2>3. Hold' = Hold
    BY <2>1, <2>2 DEF Hold
  <2> QED BY <1>4, <2>3 DEF Same, Pool!vars, Hold
<1> QED BY <1>2, <1>3, <1>4, StepAccounts DEF Accounts

(* The chains and tables of drv_pdma.c implement the pool their holders    *)
(* rely on, all they asked for or none and all of it back, until a word of *)
(* the heap has given back another's descriptor.                           *)
THEOREM ImplementsPool == ASSUME ~FreeAfterUse PROVE Spec => PoolUntilStray
<1>1. Init => Pool!Init
  BY EmptyTable DEF Init, Pool!Init, Array, Holders
<1>2. Init => IInv
  BY InitInvariant
<1>3. IInv /\ [Next]_vars => IInv'
  BY StepInvariant
<1>4. IInv /\ [Next]_vars => [strayed' \/ Pool!Next]_(Pool!vars)
  BY StepPool
<1> QED BY <1>1, <1>2, <1>3, <1>4, PTL DEF Spec, PoolUntilStray
=============================================================================
