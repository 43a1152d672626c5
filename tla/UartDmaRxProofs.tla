--------------------------- MODULE UartDmaRxProofs --------------------------
(***************************************************************************)
(* Proofs about UartDmaRx for every length of the ring that fits an index, *)
(* every depth of the FIFO and every number of bytes.                      *)
(***************************************************************************)
EXTENDS UartDmaRx, Integers, TLAPS

-----------------------------------------------------------------------------
(* Arithmetic.                                                             *)

(* Indices have room for the ring.                                         *)
LEMMA TurnType == Turn \in Nat \ {0} /\ Size \in Nat \ {0} /\ Size < Turn
BY RxConstantsOK DEF RxConstantsOK, Turn

(* A remainder is below what it is taken by.                               *)
LEMMA ModType ==
  ASSUME NEW n \in Nat \ {0}, NEW a \in Nat
  PROVE  a % n \in 0 .. n - 1
OBVIOUS

(* A number that fits is its own remainder, and one turn more adds 0.      *)
LEMMA ModTurn ==
  ASSUME NEW n \in Nat \ {0}, NEW a \in 0 .. n - 1
  PROVE  a % n = a /\ (a + n) % n = a
OBVIOUS

(* A difference of two positions of the ring, cut to 16 bits and added to  *)
(* the first in 16 bits, gives the second, also when it is negative.       *)
LEMMA Differences ==
  ASSUME NEW p \in 0 .. Size - 1, NEW end \in 0 .. Size
  PROVE  (p + ((end + Turn - p) % Turn)) % Turn = end
<1>1. CASE end < p
  <2>1. end + Turn - p \in 0 .. Turn - 1
    BY <1>1, TurnType
  <2>2. (end + Turn - p) % Turn = end + Turn - p
    BY <2>1, TurnType, ModTurn
  <2>3. p + (end + Turn - p) = end + Turn /\ end \in 0 .. Turn - 1
    BY TurnType
  <2> QED BY <2>2, <2>3, TurnType, ModTurn
<1>2. CASE end >= p
  <2>1. end - p \in 0 .. Turn - 1 /\ end + Turn - p = (end - p) + Turn
    BY <1>2, TurnType
  <2>2. (end + Turn - p) % Turn = end - p
    BY <2>1, TurnType, ModTurn
  <2>3. p + (end - p) = end /\ end \in 0 .. Turn - 1
    BY TurnType
  <2> QED BY <2>2, <2>3, TurnType, ModTurn
<1> QED BY <1>1, <1>2, TurnType

(* Wrapping the framework's index is the remainder the driver takes.       *)
LEMMA WrapIsMod ==
  ASSUME NEW end \in Nat
  PROVE  Wrap(end) = end % Size
<1>1. CASE end >= Size
  BY <1>1 DEF Wrap
<1>2. CASE end < Size
  <2>1. end % Size = end
    BY <1>2, TurnType, ModTurn
  <2> QED BY <1>2, <2>1, TurnType DEF Wrap
<1> QED BY <1>1, <1>2, TurnType

-----------------------------------------------------------------------------
(***************************************************************************)
(* The inductive invariant: bytes on their way never exceed the bound, so  *)
(* every number is a byte's; both indices are positions of the ring and    *)
(* the same one, so the difference reported is between 0 and Size or, in   *)
(* 16 bits, a negative one, and never one the framework's index misreads.  *)
(***************************************************************************)
OnTheLine == moved + waiting <= MaxBytes

IInv == TypeOK /\ OnTheLine /\ RingsAgree

(* Nothing has arrived, both indices are 0.                                *)
LEMMA InitInvariant == Init => IInv
<1> SUFFICES ASSUME Init PROVE IInv
  OBVIOUS
<1>1. 0 \in 0 .. Size - 1 /\ 0 \in 0 .. MaxBytes /\ 0 \in 0 .. FifoDepth
  BY RxConstantsOK DEF RxConstantsOK
<1>2. ring \in [0 .. Size - 1 -> 0 .. MaxBytes]
  BY <1>1 DEF Init
<1>3. pc \in Steps
  BY DEF Init, Steps
<1>4. /\ {td, idle, armed, tdif, reqto, done} \subseteq BOOLEAN
      /\ {inOrder, overrun, missed} \subseteq BOOLEAN
  BY DEF Init
<1>5. TypeOK
  BY <1>1, <1>2, <1>3, <1>4 DEF Init, TypeOK
<1>6. OnTheLine /\ RingsAgree
  BY RxConstantsOK DEF RxConstantsOK, Init, OnTheLine, RingsAgree
<1> QED BY <1>5, <1>6 DEF IInv

(* Given the same position, an end of a report leaves both at the same.    *)
LEMMA PutAdvances ==
  ASSUME TypeOK, RingsAgree, NEW end \in 0 .. Size,
         put' = end % Size, UpdatePut((end + Turn - put) % Turn)
  PROVE  /\ fifoPut' = put' /\ put' \in 0 .. Size - 1
         /\ fifoGet' \in 0 .. Size - 1 /\ isFull' \in BOOLEAN
<1>1. (fifoPut + ((end + Turn - put) % Turn)) % Turn = end
  BY Differences DEF TypeOK, RingsAgree
<1>2. PutAt(end)
  BY <1>1 DEF UpdatePut
<1>3. end \in Nat /\ end % Size \in 0 .. Size - 1
  BY TurnType, ModType
<1>4. fifoPut' = put' /\ put' \in 0 .. Size - 1
  BY <1>2, <1>3, WrapIsMod DEF PutAt
<1>5. fifoGet' \in 0 .. Size - 1
  BY <1>2, <1>3 DEF PutAt, Overtaken, TypeOK
<1>6. isFull' \in BOOLEAN
  BY <1>2 DEF PutAt, Overtaken, TypeOK
<1> QED BY <1>4, <1>5, <1>6

(* What the reader may ask for: no more than the ring holds.               *)
LEMMA UnreadType ==
  ASSUME TypeOK
  PROVE  Unread \in 0 .. Size
BY TurnType DEF Unread, Received, TypeOK

(* Every step keeps the invariant.                                         *)
LEMMA StepInvariant == IInv /\ [Next]_vars => IInv'
<1> SUFFICES ASSUME IInv, [Next]_vars PROVE IInv'
  OBVIOUS
<1> USE DEF IInv
<1>1. ASSUME Arrive PROVE IInv'
  BY <1>1, RxConstantsOK
  DEF RxConstantsOK, Arrive, TypeOK, OnTheLine, RingsAgree, isrVars, fifoVars, historyVars
<1>1a. ASSUME LineError PROVE IInv'
  BY <1>1a, RxConstantsOK
  DEF RxConstantsOK, LineError, TypeOK, OnTheLine, RingsAgree, isrVars, fifoVars, historyVars
<1>2. ASSUME Move PROVE IInv'
  <2>1. moved + 1 \in 0 .. MaxBytes
    BY <1>2, RxConstantsOK DEF RxConstantsOK, Move, TypeOK, OnTheLine
  <2>2. ring' \in [0 .. Size - 1 -> 0 .. MaxBytes]
    BY <1>2, <2>1 DEF Move, TypeOK
  <2>3. td' \in BOOLEAN /\ missed' \in BOOLEAN /\ overrun' \in BOOLEAN
    BY <1>2 DEF Move, Unseen, TypeOK
  <2>4. moved' = moved + 1 /\ waiting' = waiting - 1 /\ waiting > 0
    BY <1>2 DEF Move
  <2>5. UNCHANGED <<idle, armed, pc, tdif, reqto, done, position, put, fifoPut,
                    fifoGet, isFull, taken, inOrder>>
    BY <1>2 DEF Move, isrVars, fifoVars
  <2>6. TypeOK'
    BY <2>1, <2>2, <2>3, <2>4, <2>5, RxConstantsOK DEF RxConstantsOK, TypeOK
  <2>7. OnTheLine'
    BY <2>4, RxConstantsOK DEF RxConstantsOK, TypeOK, OnTheLine
  <2>8. RingsAgree'
    BY <2>5 DEF RingsAgree
  <2> QED BY <2>6, <2>7, <2>8
<1>3. ASSUME TimeOut PROVE IInv'
  BY <1>3 DEF TimeOut, TypeOK, OnTheLine, RingsAgree, isrVars, fifoVars, historyVars
<1>4. ASSUME IsrReadIntsts PROVE IInv'
  <2>1. pc' \in Steps /\ reqto' \in BOOLEAN /\ tdif' \in BOOLEAN
    BY <1>4 DEF IsrReadIntsts, Steps, TypeOK
  <2>2. UNCHANGED <<engineVars, armed, done, position, put, fifoVars, historyVars>>
    BY <1>4 DEF IsrReadIntsts
  <2> QED BY <2>1, <2>2
          DEF TypeOK, OnTheLine, RingsAgree, engineVars, fifoVars, historyVars
<1>5. ASSUME IsrReadTdsts PROVE IInv'
  <2>1. pc' \in Steps
    BY <1>5 DEF IsrReadTdsts, Steps
  <2>2. {td', idle', armed', done'} \subseteq BOOLEAN
    BY <1>5 DEF IsrReadTdsts, TypeOK
  <2>3. UNCHANGED <<moved, waiting, ring, tdif, reqto, position, put, fifoVars, historyVars>>
    BY <1>5 DEF IsrReadTdsts
  <2> QED BY <2>1, <2>2, <2>3
          DEF TypeOK, OnTheLine, RingsAgree, fifoVars, historyVars
<1>6. ASSUME ReadPosition PROVE IInv'
  <2>1. position' \in 0 .. Size - 1
    BY <1>6, TurnType, ModType DEF ReadPosition, Transferred, TypeOK
  <2>2. pc' \in Steps
    BY <1>6 DEF ReadPosition, Steps
  <2>3. UNCHANGED <<engineVars, armed, tdif, reqto, done, put, fifoVars, historyVars>>
    BY <1>6 DEF ReadPosition
  <2> QED BY <2>1, <2>2, <2>3
          DEF TypeOK, OnTheLine, RingsAgree, engineVars, fifoVars, historyVars
<1>7. ASSUME Report PROVE IInv'
  <2> DEFINE end == IF done THEN Size ELSE position
  <2>1. end \in 0 .. Size
    BY TurnType DEF TypeOK
  <2>2. Count(end) /\ pc' = "none" /\ armed' \in BOOLEAN
        /\ UNCHANGED <<engineVars, tdif, reqto, done, position, historyVars>>
    BY <1>7 DEF Report, Rearm, TypeOK
  <2> HIDE DEF end
  <2>3. \/ UNCHANGED <<put, fifoVars>>
        \/ put' = end % Size /\ UpdatePut((end + Turn - put) % Turn)
    BY <2>2 DEF Count
  <2>4. /\ fifoPut' = put' /\ put' \in 0 .. Size - 1
        /\ fifoGet' \in 0 .. Size - 1 /\ isFull' \in BOOLEAN
    <3>1. CASE UNCHANGED <<put, fifoVars>>
      BY <3>1 DEF fifoVars, TypeOK, RingsAgree
    <3>2. CASE put' = end % Size /\ UpdatePut((end + Turn - put) % Turn)
      BY <3>2, <2>1, PutAdvances
    <3> QED BY <2>3, <3>1, <3>2
  <2> QED BY <2>2, <2>4
          DEF TypeOK, OnTheLine, RingsAgree, engineVars, historyVars, Steps
<1>8. ASSUME NEW length \in 1 .. Size, Read(length) PROVE IInv'
  <2> DEFINE n == IF length < Unread THEN length ELSE Unread
  <2>1. n \in 1 .. Size
    BY <1>8, UnreadType, TurnType DEF Read
  <2>2. /\ fifoGet' = (fifoGet + n) % Size /\ isFull' = FALSE
        /\ taken' = Content(n)[n]
        /\ inOrder' = (inOrder /\ Content(n) = [i \in 1 .. n |-> taken + i])
        /\ UNCHANGED <<engineVars, armed, isrVars, put, fifoPut, overrun, missed>>
    BY <1>8 DEF Read
  <2> HIDE DEF n
  <2>3. fifoGet' \in 0 .. Size - 1
    <3>1. fifoGet + n \in Nat
      BY <2>1, TurnType DEF TypeOK
    <3> QED BY <3>1, <2>2, TurnType, ModType
  <2>4. taken' \in 0 .. MaxBytes
    <3>1. (fifoGet + n - 1) % Size \in 0 .. Size - 1
      BY <2>1, TurnType, ModType DEF TypeOK
    <3>2. taken' = ring[(fifoGet + n - 1) % Size]
      BY <2>1, <2>2 DEF Content
    <3> QED BY <3>1, <3>2 DEF TypeOK
  <2>5. inOrder' \in BOOLEAN
    BY <2>2 DEF TypeOK
  <2> QED BY <2>2, <2>3, <2>4, <2>5
          DEF TypeOK, OnTheLine, RingsAgree, engineVars, isrVars
<1>9. ASSUME UNCHANGED vars PROVE IInv'
  BY <1>9 DEF vars, TypeOK, OnTheLine, RingsAgree, engineVars, isrVars, fifoVars, historyVars
<1> QED BY <1>1, <1>1a, <1>2, <1>3, <1>4, <1>5, <1>6, <1>7, <1>8, <1>9 DEF Next

(* For every length of ring and every line, every variable keeps its type; *)
(* in particular all three indices stay inside the ring.                   *)
THEOREM TypeCorrect == Spec => []TypeOK
<1>1. IInv => TypeOK
  BY DEF IInv
<1> QED BY <1>1, InitInvariant, StepInvariant, PTL DEF Spec

(* For every ring that fits a 16-bit index, the put index of the driver    *)
(* and the put index of the framework never part, though one is told the   *)
(* other only by differences, and those may be negative.                   *)
THEOREM IndicesAgree == Spec => []RingsAgree
<1>1. IInv => RingsAgree
  BY DEF IInv
<1> QED BY <1>1, InitInvariant, StepInvariant, PTL DEF Spec

-----------------------------------------------------------------------------
(* More arithmetic of remainders.                                          *)

LEMMA Divide ==
  ASSUME NEW n \in Nat \ {0}, NEW a \in Nat
  PROVE  a \div n \in Nat /\ a = n * (a \div n) + (a % n) /\ a % n \in 0 .. n - 1
OBVIOUS

LEMMA ModUnique ==
  ASSUME NEW n \in Nat \ {0}, NEW q \in Nat, NEW r \in 0 .. n - 1
  PROVE  (n * q + r) % n = r
OBVIOUS

(* The position of a later byte is found from the position of an earlier.  *)
LEMMA ModSum ==
  ASSUME NEW n \in Nat \ {0}, NEW a \in Nat, NEW b \in Nat
  PROVE  ((a % n) + b) % n = (a + b) % n
<1> DEFINE q == a \div n
           c == (a % n) + b
           d == c \div n
<1>1. q \in Nat /\ a = n * q + (a % n) /\ a % n \in 0 .. n - 1
  BY Divide
<1>2. c \in Nat
  BY <1>1
<1> HIDE DEF c
<1>3. d \in Nat /\ c = n * d + (c % n) /\ c % n \in 0 .. n - 1
  BY <1>2, Divide
<1> HIDE DEF q, d
<1>4. a + b = n * (q + d) + (c % n)
  <2>1. a + b = n * q + c
    BY <1>1 DEF c
  <2>2. n * (q + d) = n * q + n * d
    BY <1>1, <1>3
  <2> QED BY <1>1, <1>3, <2>1, <2>2
<1>5. (a + b) % n = c % n
  <2>1. q + d \in Nat
    BY <1>1, <1>3
  <2>2. (n * (q + d) + (c % n)) % n = c % n
    BY <1>3, <2>1, ModUnique
  <2> QED BY <1>4, <2>2
<1> QED BY <1>5 DEF c

LEMMA ModNext ==
  ASSUME NEW n \in Nat \ {0}, NEW a \in Nat
  PROVE  (a + 1) % n = IF a % n = n - 1 THEN 0 ELSE (a % n) + 1
<1>1. ((a % n) + 1) % n = (a + 1) % n
  BY ModSum
<1>2. a % n \in 0 .. n - 1
  BY ModType
<1>3. CASE a % n = n - 1
  <2>1. (a + 1) % n = n % n
    BY <1>1, <1>3
  <2>2. n % n = 0
    BY ModTurn
  <2> QED BY <1>3, <2>1, <2>2
<1>4. CASE a % n # n - 1
  BY <1>1, <1>2, <1>4, ModTurn
<1> QED BY <1>3, <1>4

(* Bytes less than a lap apart have places of their own.                   *)
LEMMA ModApart ==
  ASSUME NEW n \in Nat \ {0}, NEW a \in Nat, NEW d \in 1 .. n - 1
  PROVE  (a + d) % n # a % n
<1>1. ((a % n) + d) % n = (a + d) % n
  <2>1. d \in Nat
    OBVIOUS
  <2> QED BY <2>1, ModSum
<1>2. a % n \in 0 .. n - 1
  BY ModType
<1>3. CASE (a % n) + d < n
  <2>1. ((a % n) + d) % n = (a % n) + d
    BY <1>2, <1>3, ModTurn
  <2> QED BY <1>1, <1>2, <2>1
<1>4. CASE (a % n) + d >= n
  <2> DEFINE e == (a % n) + d - n
  <2>1. e \in 0 .. n - 1 /\ (a % n) + d = e + n
    BY <1>2, <1>4
  <2> HIDE DEF e
  <2>2. ((a % n) + d) % n = e
    BY <2>1, ModTurn
  <2> QED BY <1>1, <1>2, <2>1, <2>2
<1> QED BY <1>2, <1>3, <1>4

(* Laps are multiples of Size.                                             *)
LEMMA Multiples ==
  ASSUME NEW n \in Nat \ {0}, NEW q \in Nat, NEW l \in Nat, NEW r \in 0 .. n - 1,
         n * (q - l) + r >= 0
  PROVE  (n * (q - l) + r) % n = r
<1>1. q - l \in Nat
  <2>1. SUFFICES ASSUME q - l <= -1 PROVE FALSE
    OBVIOUS
  <2>2. n * (q - l) <= -n
    BY <2>1
  <2> QED BY <2>2
<1> QED BY <1>1, ModUnique

LEMMA WholeLaps ==
  ASSUME NEW n \in Nat \ {0}, NEW m \in Nat
  PROVE  \E q \in Nat : m - (m % n) = n * q
<1> DEFINE q == m \div n
           rest == m % n
<1>1. q \in Nat /\ m = n * q + rest /\ rest \in 0 .. n - 1
  BY Divide
<1> HIDE DEF q, rest
<1>2. n * q \in Int
  BY <1>1
<1>3. m - rest = n * q
  BY <1>1, <1>2
<1> QED BY <1>1, <1>3 DEF rest

LEMMA ModLaps ==
  ASSUME NEW m \in Nat, NEW l \in Nat, NEW r \in 0 .. Size - 1
  PROVE  m - (m % Size) - l * Size + r >= 0
           => (m - (m % Size) - l * Size + r) % Size = r
<1> DEFINE x == m - (m % Size) - l * Size + r
<1> SUFFICES ASSUME x >= 0 PROVE x % Size = r
  OBVIOUS
<1>1. PICK q \in Nat : m - (m % Size) = Size * q
  BY TurnType, WholeLaps
<1>2. Size * (q - l) = Size * q - l * Size
  BY TurnType
<1>3. Size * q \in Int /\ l * Size \in Int
  BY TurnType
<1>4. x = Size * q - l * Size + r
  BY <1>1, <1>3
<1> HIDE DEF x
<1>5. x = Size * (q - l) + r
  BY <1>2, <1>4
<1>6. Size * (q - l) + r >= 0
  BY <1>5
<1>7. (Size * (q - l) + r) % Size = r
  BY <1>6, TurnType, Multiples
<1> QED BY <1>5, <1>7

-----------------------------------------------------------------------------
(***************************************************************************)
(* What readers are given. Reported numbers the bytes reported so far,     *)
(* which no variable holds: the driver's index puts it on the lap that is  *)
(* not yet handled. As long as no lap is missed, the ring offers the last  *)
(* of them, beginning after byte Start; without an overrun Start is the    *)
(* last byte taken, and after one it is at most that, or the ring is full. *)
(***************************************************************************)
Looking == pc \in {"callback", "report"}
Place == moved % Size
LapBytes == (IF td THEN Size ELSE 0) + (IF done /\ Looking THEN Size ELSE 0)
Reported == moved - Place - LapBytes + put
Start == Reported - Unread

(* A lap not yet handled is known to the engine or to the handler, never   *)
(* lost between the two.                                                   *)
LapsOK ==
  /\ LapBytes = 0 => put <= Place
  /\ pc = "tdsts" /\ td => tdif
  /\ pc = "callback" /\ ~done => ~td
  /\ pc = "report" /\ ~done => /\ put <= position
                               /\ LapBytes = 0 => position <= Place

(* Every place of the ring holds the last byte that was put there.         *)
RingOK ==
  \A k \in 1 .. moved :
    /\ ring[(k - 1) % Size] >= k
    /\ k > moved - Size => ring[(k - 1) % Size] = k

FullOK == isFull => fifoGet = fifoPut
StartOK == Start >= 0 /\ Start % Size = fifoGet
WholeOK == Unread = Size \/ Start <= taken
OrderOK == ~overrun => inOrder /\ Start = taken /\ moved <= taken + Size

SeenOK ==
  /\ FullOK /\ RingOK
  /\ ~missed => LapsOK /\ StartOK /\ WholeOK /\ OrderOK

LEMMA PlaceType == ASSUME TypeOK PROVE Place \in 0 .. Size - 1
BY RxConstantsOK, TurnType, ModType DEF RxConstantsOK, TypeOK, Place

LEMMA ReportedType ==
  ASSUME TypeOK, ~missed => LapsOK
  PROVE  /\ Reported \in Int /\ Start \in Int /\ LapBytes \in {0, Size, Size + Size}
         /\ ~missed => Reported <= moved
<1>1. LapBytes \in {0, Size, Size + Size}
  BY TurnType DEF LapBytes
<1>2. Place \in 0 .. Size - 1 /\ moved \in Nat /\ put \in 0 .. Size - 1 /\ Unread \in 0 .. Size
  BY PlaceType, UnreadType, RxConstantsOK DEF RxConstantsOK, TypeOK
<1>3. Reported \in Int /\ Start \in Int
  BY <1>1, <1>2, TurnType DEF Reported, Start
<1>4. ~missed => Reported <= moved
  BY <1>1, <1>2, TurnType DEF Reported, LapsOK
<1> QED BY <1>1, <1>3, <1>4

(* A step that moves no byte and no index, and loses sight of no lap.      *)
LEMMA OtherStep ==
  ASSUME SeenOK, UNCHANGED <<moved, ring, put, fifoVars, historyVars>>,
         ~missed => LapsOK' /\ LapBytes' = LapBytes
  PROVE  SeenOK'
<1> USE DEF fifoVars, historyVars
<1>1. FullOK' /\ RingOK'
  BY DEF SeenOK, FullOK, RingOK
<1>2. ASSUME ~missed PROVE StartOK' /\ WholeOK' /\ OrderOK'
  <2>1. Unread' = Unread
    BY DEF Unread
  <2>2. Reported' = Reported
    BY <1>2 DEF Reported, Place
  <2>3. Start' = Start
    BY <2>1, <2>2 DEF Start
  <2> QED BY <1>2, <2>1, <2>3 DEF SeenOK, StartOK, WholeOK, OrderOK
<1> QED BY <1>1, <1>2 DEF SeenOK

LEMMA SeenInit == Init => SeenOK
<1> SUFFICES ASSUME Init PROVE SeenOK
  OBVIOUS
<1> USE DEF Init
<1>1. FullOK /\ RingOK
  BY DEF FullOK, RingOK
<1>2. Place = 0 /\ LapBytes = 0 /\ Unread = 0
  BY TurnType, ModTurn DEF Place, LapBytes, Looking, Unread, Received
<1>3. Start = 0 /\ 0 % Size = 0
  BY <1>2, TurnType, ModTurn DEF Start, Reported
<1>4. LapsOK
  BY <1>2 DEF LapsOK
<1>5. StartOK /\ WholeOK /\ OrderOK
  BY <1>3, TurnType DEF StartOK, WholeOK, OrderOK
<1> QED BY <1>1, <1>4, <1>5 DEF SeenOK

(* The handler's reads.                                                    *)
LEMMA ReadsStep ==
  ASSUME IInv, SeenOK,
         \/ Arrive \/ LineError \/ TimeOut
         \/ IsrReadIntsts \/ IsrReadTdsts \/ ReadPosition \/ UNCHANGED vars
  PROVE  SeenOK'
<1> USE DEF IInv, fifoVars, historyVars, engineVars, isrVars
<1>1. CASE Arrive \/ LineError \/ TimeOut \/ UNCHANGED vars
  <2>1. UNCHANGED <<moved, ring, put, fifoVars, historyVars, td, isrVars>>
    BY <1>1 DEF Arrive, LineError, TimeOut, vars
  <2>2. LapBytes' = LapBytes
    BY <2>1 DEF LapBytes, Looking
  <2>3. LapsOK' <=> LapsOK
    BY <2>1, <2>2 DEF LapsOK, Place
  <2> QED BY <2>1, <2>2, <2>3, OtherStep DEF SeenOK
<1>2. CASE IsrReadIntsts
  <2>1. /\ UNCHANGED <<moved, ring, put, fifoVars, historyVars, td, done, position>>
        /\ pc = "none" /\ pc' = "tdsts" /\ (td => tdif')
    <3>1. tdif' = td \/ tdif' = TRUE
      BY <1>2 DEF IsrReadIntsts
    <3>2. td => tdif'
      BY <3>1, Zenon
    <3> QED BY <1>2, <3>2 DEF IsrReadIntsts
  <2>2. LapBytes' = LapBytes
    BY <2>1 DEF LapBytes, Looking
  <2>3. LapsOK => LapsOK'
    BY <2>1, <2>2 DEF LapsOK, Place
  <2> QED BY <2>1, <2>2, <2>3, OtherStep DEF SeenOK
<1>3. CASE IsrReadTdsts
  <2>1. /\ UNCHANGED <<moved, ring, put, fifoVars, historyVars, position>>
        /\ pc = "tdsts" /\ pc' \in {"callback", "none"} /\ (td => pc' = "callback")
        /\ done' = td /\ td' = (td /\ ~tdif)
    BY <1>3 DEF IsrReadTdsts
  <2>2. ASSUME LapsOK PROVE LapBytes' = LapBytes /\ LapsOK'
    <3>1. td' = FALSE
      BY <2>1, <2>2 DEF LapsOK
    <3>2. LapBytes' = LapBytes
      BY <2>1, <3>1, TurnType DEF LapBytes, Looking
    <3> QED BY <2>1, <2>2, <3>1, <3>2 DEF LapsOK, Place
  <2> QED BY <2>1, <2>2, OtherStep DEF SeenOK
<1>4. CASE ReadPosition
  <2>1. /\ UNCHANGED <<moved, ring, put, fifoVars, historyVars, td, done>>
        /\ pc = "callback" /\ pc' = "report" /\ position' = Place
    BY <1>4 DEF ReadPosition, Transferred, Place
  <2>2. LapBytes' = LapBytes
    BY <2>1 DEF LapBytes, Looking
  <2>3. ASSUME LapsOK PROVE LapsOK'
    <3>1. ~done => LapBytes = 0 /\ put <= Place
      BY <2>1, <2>3 DEF LapsOK, LapBytes
    <3>2. Place' = Place /\ Place <= Place
      BY <2>1, PlaceType DEF Place
    <3> QED BY <2>1, <2>2, <2>3, <3>1, <3>2 DEF LapsOK
  <2> QED BY <2>1, <2>2, <2>3, OtherStep DEF SeenOK
<1> QED BY <1>1, <1>2, <1>3, <1>4

(* A byte into the ring, the end of a lap included.                        *)
LEMMA MoveStep ==
  ASSUME IInv, SeenOK, Move
  PROVE  SeenOK'
<1> USE DEF IInv
<1>1. /\ moved \in Nat /\ Place \in 0 .. Size - 1 /\ put \in 0 .. Size - 1
      /\ ring \in [0 .. Size - 1 -> 0 .. MaxBytes] /\ Size \in Nat \ {0}
  BY PlaceType, TurnType, RxConstantsOK DEF RxConstantsOK, TypeOK
<1>2. /\ moved' = moved + 1
      /\ ring' = [ring EXCEPT ![Place] = moved + 1]
      /\ overrun' = (overrun \/ moved + 1 > taken + Size)
      /\ \/ Place' = 0 /\ td' = TRUE /\ missed' = (missed \/ Unseen)
         \/ Place' # 0 /\ UNCHANGED <<missed, td>>
      /\ UNCHANGED <<pc, tdif, done, position, put, fifoPut, fifoGet, isFull, taken, inOrder>>
  BY DEF Move, Place, isrVars, fifoVars
<1>3. Place' = IF Place = Size - 1 THEN 0 ELSE Place + 1
  BY <1>1, <1>2, ModNext DEF Place
<1>4. FullOK'
  BY <1>2 DEF SeenOK, FullOK
<1>5. RingOK'
  <2> SUFFICES ASSUME NEW k \in 1 .. moved'
               PROVE  /\ ring'[(k - 1) % Size] >= k
                      /\ k > moved' - Size => ring'[(k - 1) % Size] = k
    BY DEF RingOK
  <2>0. moved' = moved + 1 /\ k \in 1 .. moved + 1
    BY <1>2
  <2>1. (k - 1) % Size \in 0 .. Size - 1
    BY <1>1, <2>0, ModType
  <2>2. CASE (k - 1) % Size = Place
    <3>1. ring'[(k - 1) % Size] = moved + 1
      BY <1>1, <1>2, <2>2
    <3>2. k > moved + 1 - Size => k = moved + 1
      <4> SUFFICES ASSUME k > moved + 1 - Size, k # moved + 1 PROVE FALSE
        OBVIOUS
      <4>1. PICK d \in 1 .. Size - 1 : (k - 1) + d = moved
        <5>1. moved - (k - 1) \in 1 .. Size - 1 /\ (k - 1) + (moved - (k - 1)) = moved
          BY <1>1, <2>0
        <5> QED BY <5>1
      <4>2. k - 1 \in Nat
        BY <1>1, <2>0
      <4>3. ((k - 1) + d) % Size # (k - 1) % Size
        BY <1>1, <4>2, ModApart
      <4> QED BY <4>1, <4>3, <2>2 DEF Place
    <3> QED BY <1>1, <2>0, <3>1, <3>2
  <2>3. CASE (k - 1) % Size # Place
    <3>1. k \in 1 .. moved
      BY <1>1, <2>0, <2>3 DEF Place
    <3>2. ring'[(k - 1) % Size] = ring[(k - 1) % Size]
      BY <1>1, <1>2, <2>1, <2>3
    <3>3. k > moved + 1 - Size => k > moved - Size
      BY <1>1, <3>1
    <3>4. ring[(k - 1) % Size] >= k /\ (k > moved - Size => ring[(k - 1) % Size] = k)
      BY <3>1 DEF SeenOK, RingOK
    <3>5. moved' - Size = moved + 1 - Size
      BY <1>1, <2>0
    <3> QED BY <3>2, <3>3, <3>4, <3>5
  <2> QED BY <2>2, <2>3
<1>6. ASSUME ~missed' PROVE LapsOK' /\ StartOK' /\ WholeOK' /\ OrderOK'
  <2>1. ~missed /\ LapsOK /\ StartOK /\ WholeOK /\ OrderOK
    <3>1. ~missed
      BY <1>2, <1>6, Zenon
    <3> QED BY <3>1 DEF SeenOK
  <2>4. ASSUME Reported' = Reported PROVE StartOK' /\ WholeOK' /\ OrderOK'
    <3>1. Unread' = Unread
      BY <1>2 DEF Unread
    <3>2. Start' = Start
      BY <2>4, <3>1 DEF Start
    <3>3. StartOK' /\ WholeOK'
      BY <1>2, <2>1, <3>1, <3>2 DEF StartOK, WholeOK
    <3>4. ~overrun' => ~overrun /\ ~(moved + 1 > taken + Size)
      BY <1>2, Zenon
    <3>5. taken \in Nat
      BY RxConstantsOK DEF RxConstantsOK, TypeOK
    <3>6. OrderOK'
      BY <1>1, <1>2, <2>1, <3>2, <3>4, <3>5 DEF OrderOK
    <3> QED BY <3>3, <3>6
  <2>2. CASE Place' = 0
    <3>1. ~td /\ td' /\ ~(pc = "tdsts" /\ ~tdif) /\ ~(pc = "callback" /\ ~done)
      BY <1>2, <1>6, <2>2 DEF Unseen
    <3>2. LapBytes' = LapBytes + Size /\ LapBytes \in {0, Size} /\ LapBytes' # 0
      BY <1>1, <1>2, <3>1 DEF LapBytes, Looking
    <3>3. Reported' = Reported
      BY <1>1, <1>2, <1>3, <2>2, <3>2 DEF Reported
    <3>4. LapsOK'
      BY <1>2, <2>1, <3>1, <3>2 DEF LapsOK
    <3> QED BY <3>3, <3>4, <2>4
  <2>3. CASE Place' # 0
    <3>1. LapBytes' = LapBytes /\ Place' = Place + 1 /\ UNCHANGED td
      BY <1>2, <1>3, <2>3 DEF LapBytes, Looking
    <3>2. Reported' = Reported
      BY <1>1, <1>2, <3>1, ReportedType, <2>1 DEF Reported
    <3>3. LapsOK'
      BY <1>1, <1>2, <2>1, <3>1 DEF LapsOK, TypeOK
    <3> QED BY <3>2, <3>3, <2>4
  <2> QED BY <2>2, <2>3
<1> QED BY <1>4, <1>5, <1>6 DEF SeenOK

UnreadFits == Unread \in 0 .. Size

LEMMA UnreadFitsNow == TypeOK => UnreadFits
BY UnreadType DEF UnreadFits

LEMMA UnreadFitsNext == TypeOK' => UnreadFits'
BY UnreadFitsNow, PTL

(* A report ends on a place of the ring, or at its end.                    *)
LEMMA EndWraps ==
  ASSUME NEW end \in 0 .. Size
  PROVE  end % Size = IF end = Size THEN 0 ELSE end
<1>1. Size \in Nat \ {0}
  BY TurnType
<1>2. CASE end = Size
  <2>1. Size % Size = 0
    BY <1>1, ModTurn
  <2> QED BY <1>2, <2>1
<1>3. CASE end # Size
  <2>1. end \in 0 .. Size - 1
    BY <1>1, <1>3
  <2> QED BY <1>1, <1>3, <2>1, ModTurn
<1> QED BY <1>2, <1>3

(* What UpdatePut does to the number of unread bytes: it grows by what is  *)
(* reported, or the ring is full.                                          *)
LEMMA PutCounts ==
  ASSUME NEW p \in 0 .. Size - 1, NEW g \in 0 .. Size - 1, NEW full \in BOOLEAN,
         full => p = g, NEW end \in 0 .. Size, p < end,
         NEW p2, p2 = end % Size,
         NEW full2 \in BOOLEAN,
         full2 <=> \/ full
                   \/ g <= p /\ end >= Size /\ p2 >= g
                   \/ g > p /\ end >= g,
         NEW g2, g2 = IF full2 THEN p2 ELSE g
  PROVE  /\ full2 => /\ p2 = g2 /\ Received(p2, g2, full2) = Size
                     /\ Received(p, g, full) + end - p >= Size
         /\ ~full2 => Received(p2, g2, full2) = Received(p, g, full) + end - p
<1>1. Size \in Nat \ {0}
  BY TurnType
<1>2. p2 = IF end = Size THEN 0 ELSE end
  BY EndWraps
<1>4. CASE full2
  <2>1. p2 = g2 /\ Received(p2, g2, full2) = Size
    BY <1>4 DEF Received
  <2>2. full \/ (g = 0 /\ g <= p /\ end = Size) \/ (g > p /\ end >= g)
    BY <1>1, <1>2, <1>4
  <2>3. Received(p, g, full) + end - p >= Size
    BY <1>1, <2>2 DEF Received
  <2> QED BY <1>4, <2>1, <2>3
<1>5. CASE ~full2
  <2>1. ~full /\ g2 = g
    BY <1>5
  <2>2. g <= p => ~(end = Size /\ g = 0)
    BY <1>1, <1>2, <1>5
  <2>3. g > p => end < g
    BY <1>1, <1>5
  <2>4. CASE g <= p
    <3>1. Received(p, g, full) = p - g
      BY <1>1, <2>1, <2>4 DEF Received
    <3>2. Received(p2, g2, full2) = end - g
      BY <1>1, <1>2, <1>5, <2>1, <2>2, <2>4 DEF Received
    <3> QED BY <1>1, <1>5, <3>1, <3>2
  <2>5. CASE g > p
    <3>1. Received(p, g, full) = Size - (g - p)
      BY <1>1, <2>1, <2>5 DEF Received
    <3>2. p2 = end /\ Received(p2, g2, full2) = Size - (g - end)
      BY <1>1, <1>2, <1>5, <2>1, <2>3, <2>5 DEF Received
    <3> QED BY <1>1, <1>5, <3>1, <3>2
  <2> QED BY <2>4, <2>5
<1> QED BY <1>4, <1>5

(* The index of what was reported last is the driver's.                    *)
ReportedOK ==
  /\ Reported >= 0 => Reported % Size = put
  /\ Reported - Size >= 0 => (Reported - Size) % Size = put
  /\ LapsOK => Reported <= moved

LEMMA ReportedPlace == TypeOK => ReportedOK
<1> SUFFICES ASSUME TypeOK PROVE ReportedOK
  OBVIOUS
<1>1. /\ moved \in Nat /\ put \in 0 .. Size - 1 /\ Size \in Nat \ {0}
      /\ Place \in 0 .. Size - 1 /\ LapBytes \in {0, Size, Size + Size}
  BY PlaceType, TurnType, RxConstantsOK DEF RxConstantsOK, TypeOK, LapBytes
<1>2. PICK l \in Nat : LapBytes = l * Size
  <2>1. LapBytes = 0 * Size \/ LapBytes = 1 * Size \/ LapBytes = 2 * Size
    BY <1>1
  <2> QED BY <2>1
<1>3. Reported = moved - Place - LapBytes + put /\ Reported \in Int
  BY <1>1 DEF Reported
<1>4. ASSUME Reported >= 0 PROVE Reported % Size = put
  <2>1. Reported = moved - (moved % Size) - l * Size + put
    BY <1>2, <1>3 DEF Place
  <2>2. moved - (moved % Size) - l * Size + put >= 0
          => (moved - (moved % Size) - l * Size + put) % Size = put
    BY <1>1, ModLaps
  <2> QED BY <1>4, <2>1, <2>2, Zenon
<1>5. ASSUME Reported - Size >= 0 PROVE (Reported - Size) % Size = put
  <2> DEFINE k == l + 1
  <2>0. k \in Nat
    OBVIOUS
  <2>1. k * Size = l * Size + Size
    BY <1>1
  <2> HIDE DEF k
  <2>2. Reported - Size = moved - (moved % Size) - k * Size + put
    BY <1>1, <1>2, <1>3, <2>1 DEF Place
  <2>3. moved - (moved % Size) - k * Size + put >= 0
          => (moved - (moved % Size) - k * Size + put) % Size = put
    BY <1>1, <2>0, ModLaps
  <2> QED BY <1>5, <2>2, <2>3, Zenon
<1>6. LapsOK => Reported <= moved
  BY <1>1, <1>3 DEF LapsOK
<1> QED BY <1>4, <1>5, <1>6 DEF ReportedOK

LEMMA ReportedPlaceNext == TypeOK' => ReportedOK'
BY ReportedPlace, PTL

LEMMA Squeeze ==
  ASSUME NEW r \in Int, NEW m \in Int, NEW t \in Int, NEW s \in Int, NEW x,
         r <= m, m <= t + s, t <= x, x = r - s
  PROVE  x = t
OBVIOUS

(* The callback's report.                                                  *)
LEMMA ReportStep ==
  ASSUME IInv, IInv', SeenOK, Report
  PROVE  SeenOK'
<1> DEFINE end == IF done THEN Size ELSE position
<1>1. /\ Size \in Nat \ {0} /\ moved \in Nat /\ taken \in Nat
      /\ Place \in 0 .. Size - 1 /\ put \in 0 .. Size - 1 /\ position \in 0 .. Size - 1
      /\ fifoPut = put /\ fifoGet \in 0 .. Size - 1 /\ isFull \in BOOLEAN
      /\ Unread \in 0 .. Size /\ Unread' \in 0 .. Size /\ TypeOK
  <2>1. TypeOK /\ TypeOK' /\ fifoPut = put
    BY DEF IInv, RingsAgree
  <2>2. Unread' \in 0 .. Size
    BY <2>1, UnreadFitsNext DEF UnreadFits
  <2>3. Unread \in 0 .. Size /\ Place \in 0 .. Size - 1
    BY <2>1, UnreadType, PlaceType
  <2>4. /\ moved \in Nat /\ taken \in Nat /\ put \in 0 .. Size - 1 /\ position \in 0 .. Size - 1
        /\ fifoGet \in 0 .. Size - 1 /\ isFull \in BOOLEAN
    BY <2>1, RxConstantsOK DEF RxConstantsOK, TypeOK
  <2> QED BY <2>1, <2>2, <2>3, <2>4, TurnType
<1>2. /\ pc = "report" /\ pc' = "none" /\ Count(end)
      /\ UNCHANGED <<moved, ring, td, done, historyVars>>
  BY DEF Report, engineVars
<1>3. end \in 0 .. Size
  BY <1>1
<1>4. CASE UNCHANGED <<put, fifoVars>> /\ (end = put \/ ~done)
  <2>1. ~done
    BY <1>1, <1>4
  <2>2. LapBytes' = LapBytes
    BY <1>2, <2>1 DEF LapBytes, Looking
  <2>3. LapsOK => LapsOK'
    BY <1>2, <1>4, <2>2 DEF LapsOK, Place
  <2> QED BY <1>2, <1>4, <2>2, <2>3, OtherStep DEF SeenOK
<1>5. CASE put' = end % Size /\ UpdatePut((end + Turn - put) % Turn) /\ end # put
  <2>1. PutAt(end)
    <3>1. (put + ((end + Turn - put) % Turn)) % Turn = end
      BY <1>1, <1>3, Differences
    <3> QED BY <1>1, <1>5, <3>1 DEF UpdatePut
  <2>2. fifoPut' = put' /\ put' = IF end = Size THEN 0 ELSE end
    BY <1>1, <1>3, <1>5, <2>1, WrapIsMod, EndWraps DEF PutAt
  <2>3. /\ isFull' \in BOOLEAN
        /\ fifoGet' = IF isFull' THEN put' ELSE fifoGet
        /\ isFull' <=> \/ isFull
                       \/ fifoGet <= put /\ end >= Size /\ put' >= fifoGet
                       \/ fifoGet > put /\ end >= fifoGet
    <3>1. isFull' = \/ isFull
                    \/ fifoGet <= put /\ end >= Size /\ put' >= fifoGet
                    \/ fifoGet > put /\ end >= fifoGet
      BY <1>1, <1>5, <2>1, Zenon DEF PutAt, Overtaken
    <3>2. fifoGet' = IF isFull' THEN put' ELSE fifoGet
      BY <1>5, <2>1, Zenon DEF PutAt, Overtaken
    <3>3. isFull' \in BOOLEAN
      BY <3>1
    <3> QED BY <3>1, <3>2, <3>3, Zenon
  <2> HIDE DEF end
  <2>4. FullOK' /\ RingOK'
    BY <1>2, <2>2, <2>3 DEF SeenOK, FullOK, RingOK
  <2>5. ASSUME ~missed' PROVE LapsOK' /\ StartOK' /\ WholeOK' /\ OrderOK'
    <3>1. LapsOK /\ StartOK /\ WholeOK /\ OrderOK /\ FullOK
      BY <1>2, <2>5 DEF SeenOK, historyVars
    <3>2. put < end
      BY <1>1, <1>2, <1>5, <3>1 DEF LapsOK, end
    <3>3. /\ isFull' => Unread' = Size /\ Unread + end - put >= Size
          /\ ~isFull' => Unread' = Unread + end - put
      BY <1>1, <1>3, <1>5, <2>2, <2>3, <3>1, <3>2, PutCounts DEF Unread, FullOK
    <3>4. /\ LapBytes \in {0, Size, Size + Size} /\ LapBytes' \in {0, Size}
          /\ LapBytes = LapBytes' + (IF done THEN Size ELSE 0) /\ Place' = Place
      BY <1>1, <1>2 DEF LapBytes, Looking, Place
    <3>5. Reported' = Reported + end - put
      BY <1>1, <1>2, <2>2, <3>4 DEF Reported, end
    <3>6. LapsOK'
      <4>1. LapBytes' = 0 => put' <= Place'
        <5>1. CASE done
          BY <1>1, <2>2, <3>4, <5>1 DEF end
        <5>2. CASE ~done
          <6>0. end = position /\ end # Size
            BY <1>1, <5>2 DEF end
          <6>1. put' = position
            BY <2>2, <6>0
          <6>2. LapBytes' = LapBytes
            BY <1>2, <5>2 DEF LapBytes, Looking
          <6> QED BY <1>2, <3>1, <3>4, <5>2, <6>1, <6>2 DEF LapsOK
        <5> QED BY <5>1, <5>2
      <4> QED BY <1>2, <4>1 DEF LapsOK
    <3>7. Reported \in Int /\ Reported' <= moved /\ ReportedOK'
      BY <1>1, <1>2, <3>4, <3>6, ReportedPlaceNext DEF Reported, ReportedOK, IInv
    <3>8. Start' = IF isFull' THEN Reported' - Size ELSE Start
      <4>1. Start' = Reported' - Unread' /\ Start = Reported - Unread
        BY DEF Start
      <4>2. CASE isFull'
        BY <3>3, <4>1, <4>2
      <4>3. CASE ~isFull'
        <5>1. Unread' = Unread + end - put
          BY <3>3, <4>3
        <5> QED BY <1>1, <1>3, <3>5, <3>7, <4>1, <4>3, <5>1
      <4> QED BY <4>2, <4>3
    <3>9. Start' >= Start /\ Start \in Int /\ Reported' \in Int
      <4>1. Start = Reported - Unread /\ Start \in Int /\ Reported' \in Int
        BY <1>1, <1>3, <3>5, <3>7 DEF Start
      <4>2. CASE isFull'
        <5>1. Unread + end - put >= Size /\ Start' = Reported' - Size
          BY <3>3, <3>8, <4>2
        <5> QED BY <1>1, <1>3, <3>5, <3>7, <4>1, <5>1
      <4>3. CASE ~isFull'
        BY <3>8, <4>1, <4>3
      <4> QED BY <4>2, <4>3
    <3>10. StartOK'
      <4>1. CASE isFull'
        BY <2>3, <3>1, <3>7, <3>8, <3>9, <4>1 DEF StartOK, ReportedOK
      <4>2. CASE ~isFull'
        BY <2>3, <3>1, <3>8, <4>2 DEF StartOK
      <4> QED BY <4>1, <4>2
    <3>11. WholeOK'
      <4>1. CASE isFull'
        BY <3>3, <4>1 DEF WholeOK
      <4>2. CASE ~isFull'
        <5>1. Unread # Size
          BY <1>1, <1>3, <3>2, <3>3, <4>2
        <5> QED BY <1>2, <3>1, <3>8, <4>2, <5>1 DEF WholeOK, historyVars
      <4> QED BY <4>1, <4>2
    <3>12. OrderOK'
      <4>1. overrun' = overrun /\ inOrder' = inOrder /\ taken' = taken /\ moved' = moved
        BY <1>2 DEF historyVars
      <4> SUFFICES ASSUME ~overrun PROVE Start' = taken /\ moved <= taken + Size /\ inOrder
        BY <4>1, Zenon DEF OrderOK
      <4>2. inOrder /\ Start = taken /\ moved <= taken + Size
        BY <3>1 DEF OrderOK
      <4>3. CASE isFull'
        <5>1. Reported' \in Int /\ Start' = Reported' - Size
          BY <3>8, <3>9, <4>3
        <5>2. moved <= taken + Size /\ taken <= Start'
          BY <3>9, <4>2
        <5>3. Size \in Int /\ moved \in Int /\ taken \in Int /\ Reported' \in Int
          BY <1>1, <5>1
        <5>4. Start' = taken
          BY <3>7, <5>1, <5>2, <5>3, Squeeze
        <5> QED BY <4>2, <5>4
      <4>4. CASE ~isFull'
        BY <3>8, <4>2, <4>4
      <4> QED BY <4>2, <4>3, <4>4
    <3> QED BY <3>6, <3>10, <3>11, <3>12
  <2> QED BY <2>4, <2>5 DEF SeenOK
<1> QED BY <1>2, <1>4, <1>5 DEF Count

(* A reader takes the first bytes offered.                                 *)
LEMMA ReadStep ==
  ASSUME IInv, IInv', SeenOK, NEW length \in 1 .. Size, Read(length)
  PROVE  SeenOK'
<1> DEFINE n == IF length < Unread THEN length ELSE Unread
<1>1. /\ Size \in Nat \ {0} /\ moved \in Nat /\ taken \in Nat
      /\ fifoPut \in 0 .. Size - 1 /\ fifoGet \in 0 .. Size - 1 /\ isFull \in BOOLEAN
      /\ Unread \in 0 .. Size /\ TypeOK
  <2>1. TypeOK
    BY DEF IInv
  <2>2. Unread \in 0 .. Size
    BY <2>1, UnreadType
  <2> QED BY <2>1, <2>2, TurnType, RxConstantsOK DEF RxConstantsOK, TypeOK
<1>2. /\ n > 0 /\ fifoGet' = (fifoGet + n) % Size /\ isFull' = FALSE
      /\ taken' = Content(n)[n]
      /\ inOrder' = (inOrder /\ Content(n) = [i \in 1 .. n |-> taken + i])
      /\ UNCHANGED <<moved, ring, td, pc, tdif, done, position, put, fifoPut, overrun, missed>>
  BY DEF Read, engineVars, isrVars
<1>3. n \in 1 .. Size /\ n \in Nat /\ n <= Unread
  BY <1>1, <1>2
<1> HIDE DEF n
<1>4. FullOK' /\ RingOK'
  BY <1>2 DEF SeenOK, FullOK, RingOK
<1>5. taken' = ring[(fifoGet + n - 1) % Size]
  BY <1>2, <1>3 DEF Content
<1>6. fifoGet' \in 0 .. Size - 1 /\ (fifoGet' = fifoGet + n \/ fifoGet' = fifoGet + n - Size)
  <2>1. CASE fifoGet + n < Size
    <3>1. fifoGet + n \in 0 .. Size - 1
      BY <1>1, <1>3, <2>1
    <3> QED BY <1>1, <1>2, <3>1, ModTurn
  <2>2. CASE fifoGet + n >= Size
    <3> DEFINE e == fifoGet + n - Size
    <3>1. e \in 0 .. Size - 1 /\ fifoGet + n = e + Size
      BY <1>1, <1>3, <2>2
    <3> HIDE DEF e
    <3>2. (e + Size) % Size = e
      BY <1>1, <3>1, ModTurn
    <3> QED BY <1>1, <1>2, <1>3, <3>1, <3>2
  <2> QED BY <1>1, <1>3, <2>1, <2>2
<1>7. Unread' = Unread - n
  <2>1. isFull => fifoPut = fifoGet
    BY DEF SeenOK, FullOK
  <2>2. CASE fifoPut = fifoGet
    <3>1. Unread = Size
      BY <1>1, <1>3, <2>2 DEF Unread, Received
    <3>2. Unread' = Received(fifoPut, fifoGet', FALSE)
      BY <1>2 DEF Unread
    <3>3. CASE fifoGet' = fifoGet + n
      <4>1. Unread' = Size - (fifoGet' - fifoPut)
        BY <1>1, <1>3, <2>2, <3>2, <3>3 DEF Received
      <4> QED BY <1>1, <1>3, <2>2, <3>1, <3>3, <4>1
    <3>4. CASE fifoGet' = fifoGet + n - Size
      <4>1. Unread' = fifoPut - fifoGet'
        BY <1>1, <1>3, <1>6, <2>2, <3>1, <3>2, <3>4 DEF Received
      <4> QED BY <1>1, <1>3, <2>2, <3>1, <3>4, <4>1
    <3> QED BY <1>6, <3>3, <3>4
  <2>3. CASE fifoPut > fifoGet
    <3>1. Unread = fifoPut - fifoGet /\ fifoGet' = fifoGet + n
      BY <1>1, <1>3, <1>6, <2>3 DEF Unread, Received
    <3> QED BY <1>1, <1>2, <1>3, <2>3, <3>1 DEF Unread, Received
  <2>4. CASE fifoPut < fifoGet
    <3>1. Unread = Size - (fifoGet - fifoPut)
      BY <1>1, <2>4 DEF Unread, Received
    <3> QED BY <1>1, <1>2, <1>3, <1>6, <2>4, <3>1 DEF Unread, Received
  <2> QED BY <1>1, <2>2, <2>3, <2>4
<1>8. ASSUME ~missed' PROVE LapsOK' /\ StartOK' /\ WholeOK' /\ OrderOK'
  <2>1. LapsOK /\ StartOK /\ WholeOK /\ OrderOK /\ RingOK
    BY <1>2, <1>8 DEF SeenOK
  <2>2. LapBytes' = LapBytes /\ Place' = Place
    BY <1>2 DEF LapBytes, Looking, Place
  <2>3. LapsOK'
    BY <1>2, <2>1, <2>2 DEF LapsOK
  <2>4. Reported' = Reported
    BY <1>2, <2>2 DEF Reported
  <2>5. Reported \in Int /\ Start \in Int /\ Reported <= moved /\ Start >= 0 /\ Start % Size = fifoGet
    BY <1>1, <1>2, <1>8, <2>1, ReportedType DEF StartOK
  <2>6. Start' = Start + n /\ Start + n <= moved
    BY <1>1, <1>3, <1>7, <2>4, <2>5 DEF Start
  <2>7. ASSUME NEW i \in 1 .. n
        PROVE  /\ (fifoGet + i - 1) % Size = (Start + i - 1) % Size
               /\ ring[(Start + i - 1) % Size] >= Start + i
               /\ Start + i > moved - Size => ring[(Start + i - 1) % Size] = Start + i
    <3>1. i - 1 \in Nat /\ Start \in Nat
      BY <1>3, <2>5
    <3>2. ((Start % Size) + (i - 1)) % Size = (Start + (i - 1)) % Size
      BY <1>1, <3>1, ModSum
    <3>3. fifoGet + i - 1 = (Start % Size) + (i - 1) /\ Start + i - 1 = Start + (i - 1)
      BY <1>1, <2>5, <3>1
    <3>4. Start + i \in 1 .. moved /\ Start + i - 1 = (Start + i) - 1
      BY <1>1, <1>3, <2>5, <2>6
    <3>5. /\ ring[((Start + i) - 1) % Size] >= Start + i
          /\ Start + i > moved - Size => ring[((Start + i) - 1) % Size] = Start + i
      BY <2>1, <3>4 DEF RingOK
    <3>6. /\ ring[(Start + i - 1) % Size] >= Start + i
          /\ Start + i > moved - Size => ring[(Start + i - 1) % Size] = Start + i
      BY <3>4, <3>5, Zenon
    <3>7. (fifoGet + i - 1) % Size = (Start + i - 1) % Size
      BY <3>2, <3>3, Zenon
    <3> QED BY <3>6, <3>7, Zenon
  <2>8. StartOK'
    <3>1. Start \in Nat
      BY <2>5
    <3>2. ((Start % Size) + n) % Size = (Start + n) % Size
      BY <1>1, <1>3, <3>1, ModSum
    <3> QED BY <1>2, <1>3, <2>5, <2>6, <3>2 DEF StartOK
  <2>9. WholeOK'
    <3>1. taken' >= Start + n
      BY <1>3, <1>5, <2>7
    <3> QED BY <2>6, <3>1 DEF WholeOK
  <2>10. OrderOK'
    <3> SUFFICES ASSUME ~overrun
                 PROVE  inOrder' /\ Start' = taken' /\ moved <= taken' + Size
      BY <1>2, Zenon DEF OrderOK
    <3>1. inOrder /\ Start = taken /\ moved <= taken + Size
      BY <2>1 DEF OrderOK
    <3>2. \A i \in 1 .. n : ring[(fifoGet + i - 1) % Size] = taken + i
      <4> SUFFICES ASSUME NEW i \in 1 .. n PROVE ring[(fifoGet + i - 1) % Size] = taken + i
        OBVIOUS
      <4>1. Start + i > moved - Size
        BY <1>1, <1>3, <3>1
      <4> QED BY <2>7, <3>1, <4>1
    <3>3. Content(n) = [i \in 1 .. n |-> taken + i]
      BY <3>2, Zenon DEF Content
    <3>4. inOrder'
      BY <1>2, <3>1, <3>3, Zenon
    <3>5. taken' = taken + n
      BY <1>3, <1>5, <3>2
    <3>6. moved <= taken' + Size
      BY <1>1, <1>3, <3>1, <3>5
    <3> QED BY <2>6, <3>1, <3>4, <3>5, <3>6
  <2> QED BY <2>3, <2>8, <2>9, <2>10
<1> QED BY <1>4, <1>8 DEF SeenOK

LEMMA SeenStep == IInv /\ IInv' /\ SeenOK /\ [Next]_vars => SeenOK'
BY ReadsStep, MoveStep, ReportStep, ReadStep DEF Next

(* Everything the ring offers is known by number.                          *)
THEOREM SeenInvariant == Spec => []SeenOK
<1>1. Spec => []IInv
  BY InitInvariant, StepInvariant, PTL DEF Spec
<1> QED BY <1>1, SeenInit, SeenStep, PTL DEF Spec

(* For every ring, FIFO and line: readers that keep up are given each byte *)
(* once and in order, as long as no lap ends where pdma_isr miscounts it.  *)
THEOREM BytesComeOnce == Spec => []EveryByteOnce
<1>1. SeenOK => EveryByteOnce
  BY DEF SeenOK, OrderOK, EveryByteOnce
<1> QED BY <1>1, SeenInvariant, PTL

(* For every ring: what is offered once all is reported is everything that *)
(* is not read, or a whole ring.                                           *)
THEOREM QuietRingOffersAll == Spec => []QuietRingIsWhole
<1>1. IInv /\ SeenOK => QuietRingIsWhole
  <2> SUFFICES ASSUME IInv, SeenOK, Quiet, ~missed
               PROVE  Unread >= Size \/ Unread >= moved - taken
    BY DEF QuietRingIsWhole
  <2>1. LapBytes = 0 /\ put = Place
    BY DEF Quiet, LapBytes, Looking, Place
  <2>2. TypeOK /\ moved \in Nat /\ taken \in Nat /\ put \in 0 .. Size - 1
    BY RxConstantsOK DEF RxConstantsOK, IInv, TypeOK
  <2>3. Unread \in 0 .. Size
    BY <2>2, UnreadType
  <2>4. Start = moved - Unread
    BY <2>1, <2>2, <2>3, TurnType DEF Start, Reported
  <2>5. Unread = Size \/ Start <= taken
    BY DEF SeenOK, WholeOK
  <2> QED BY <2>2, <2>3, <2>4, <2>5, TurnType
<1>2. Spec => []IInv
  BY InitInvariant, StepInvariant, PTL DEF Spec
<1> QED BY <1>1, <1>2, SeenInvariant, PTL
=============================================================================
