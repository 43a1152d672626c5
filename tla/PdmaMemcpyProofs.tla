-------------------------- MODULE PdmaMemcpyProofs --------------------------
(***************************************************************************)
(* Proofs about PdmaMemcpy for every number of items a descriptor takes,   *)
(* every count, every address and every way the copy is cut.               *)
(***************************************************************************)
EXTENDS PdmaMemcpy, TLAPS

-----------------------------------------------------------------------------
(* Arithmetic.                                                             *)

(* Division leaves a remainder below the divisor.                          *)
LEMMA Divide ==
  ASSUME NEW n \in Nat \ {0}, NEW a \in Nat
  PROVE  a \div n \in Nat /\ a % n \in 0 .. n - 1 /\ a = (a \div n) * n + (a % n)
OBVIOUS

(* The predecessor of what fits is its own remainder; that of 0 fits too.  *)
LEMMA ModBelow ==
  ASSUME NEW n \in Nat \ {0}, NEW a \in 0 .. n - 1
  PROVE  a % n = a
OBVIOUS

LEMMA ModMinusOne ==
  ASSUME NEW n \in Nat \ {0}
  PROVE  (-1) % n \in 0 .. n - 1
OBVIOUS

LEMMA ModTxcnt ==
  ASSUME NEW n \in Nat \ {0}, NEW a \in 0 .. n
  PROVE  (a - 1) % n \in 0 .. n - 1 /\ (a # 0 => (a - 1) % n = a - 1)
<1>1. CASE a = 0
  <2>1. a - 1 = -1
    BY <1>1
  <2> QED BY <1>1, <2>1, ModMinusOne
<1>2. CASE a # 0
  <2>1. a - 1 \in 0 .. n - 1
    BY <1>2
  <2> QED BY <2>1, ModBelow
<1> QED BY <1>1, <1>2

(* How many descriptors a request wants: the last takes less than MaxTx.   *)
LEMMA WantedType ==
  ASSUME NEW n \in Nat
  PROVE  /\ Wanted(n) \in Nat \ {0}
         /\ (Wanted(n) - 1) * MaxTx <= n
         /\ n - (Wanted(n) - 1) * MaxTx = n % MaxTx
         /\ n % MaxTx \in 0 .. MaxTx - 1
<1> DEFINE q == n \div MaxTx
<1>1. q \in Nat /\ n % MaxTx \in 0 .. MaxTx - 1 /\ n = q * MaxTx + (n % MaxTx)
  BY ConstantsOK, Divide DEF ConstantsOK
<1>2. Wanted(n) = q + 1 /\ Wanted(n) - 1 = q
  BY <1>1 DEF Wanted
<1>3. q * MaxTx \in Nat
  BY <1>1, ConstantsOK DEF ConstantsOK
<1> HIDE DEF q
<1> QED BY <1>1, <1>2, <1>3, ConstantsOK DEF ConstantsOK

(* So a request above MaxTx wants two at least.                            *)
LEMMA WantedTwo ==
  ASSUME NEW n \in Nat, n > MaxTx
  PROVE  Wanted(n) >= 2
<1>1. CASE Wanted(n) = 1
  <2>1. (Wanted(n) - 1) * MaxTx = 0
    BY <1>1, ConstantsOK DEF ConstantsOK
  <2>2. n = n % MaxTx /\ n % MaxTx \in 0 .. MaxTx - 1
    BY <2>1, WantedType
  <2> QED BY <2>2, ConstantsOK DEF ConstantsOK
<1> QED BY <1>1, WantedType

(* A product grows with its factor.                                        *)
LEMMA Product ==
  ASSUME NEW m \in Nat, NEW a \in Nat
  PROVE  a * m \in Nat /\ (a + 1) * m = a * m + m
OBVIOUS

LEMMA ProductGrows ==
  ASSUME NEW m \in Nat, NEW a \in Nat, NEW b \in Nat, a <= b
  PROVE  a * m <= b * m
<1>1. PICK d \in Nat : b = a + d
  <2>1. b - a \in Nat /\ b = a + (b - a)
    OBVIOUS
  <2> QED BY <2>1
<1>2. b * m = a * m + d * m
  BY <1>1
<1>3. a * m \in Nat /\ d * m \in Nat
  BY Product
<1> QED BY <1>2, <1>3

(* What divides an address and goes into a distance divides their sum.     *)
LEMMA StaysAligned ==
  ASSUME NEW w \in Widths, NEW a \in Nat, NEW k \in Nat, a % w = 0
  PROVE  (a + k * w) % w = 0
<1>1. CASE w = 1
  BY <1>1
<1>2. CASE w = 2
  BY <1>2
<1>3. CASE w = 4
  BY <1>3
<1> QED BY <1>1, <1>2, <1>3 DEF Widths

(* A division by a width, written without it.                              *)
LEMMA DivideByWidth ==
  ASSUME NEW w \in Widths, NEW a \in Nat, a >= w
  PROVE  /\ a \div w \in Nat /\ a \div w >= 1
         /\ (a \div w) * w <= a
         /\ w = 1 => a \div w = a
<1>1. CASE w = 1
  BY <1>1
<1>2. CASE w = 2
  BY <1>2
<1>3. CASE w = 4
  BY <1>3
<1> QED BY <1>1, <1>2, <1>3 DEF Widths

LEMMA WidthProduct ==
  ASSUME NEW w \in Widths, NEW a \in Nat
  PROVE  a * w \in Nat
BY DEF Widths

LEMMA WidthSum ==
  ASSUME NEW w \in Widths, NEW a \in Int, NEW b \in Int
  PROVE  (a + b) * w = a * w + b * w /\ a * w \in Int
BY DEF Widths

-----------------------------------------------------------------------------
(***************************************************************************)
(* The inductive invariant.                                                *)
(***************************************************************************)

(* What a request asks for: of a copy, the part that fits the width it is  *)
(* at, aligned on both sides; of a push, what the caller asked for.        *)
Busy == pc \in {"request", "link", "run", "account"}

CopyAsks ==
  Busy /\ call.op = "copy" =>
    /\ req.at = offset /\ req.width = i
    /\ req.cnt >= 1
    /\ offset + req.cnt * i <= call.count
    /\ i = 1 => offset + req.cnt = call.count
    /\ (call.src + offset) % i = 0 /\ (call.dst + offset) % i = 0

PushAsks ==
  Busy /\ call.op = "push" => req.at = 0 /\ req.cnt = call.count

(* The last width is one byte, and leaves nothing.                         *)
SplitOK ==
  pc = "split" =>
    /\ call.op = "copy"
    /\ i = 0 => offset = call.count

(* How far the chain loop is: a descriptor for MaxTx items at each turn,   *)
(* the last one for what remains.                                          *)
LinkOK ==
  pc = "link" =>
    /\ req.cnt > MaxTx
    /\ Len(chain) <= Wanted(req.cnt)
    /\ Len(chain) < Wanted(req.cnt) => left = req.cnt - Len(chain) * MaxTx
    /\ Len(chain) = Wanted(req.cnt) => left = 0

JoinOK ==
  pc \in {"link", "run"} =>
    /\ left <= req.cnt
    /\ chain = <<>> => left = req.cnt
    /\ chain # <<>> =>
         /\ chain[1].at = req.at
         /\ chain[Len(chain)].at + chain[Len(chain)].cnt * req.width = LinkAt
    /\ \A k \in 1 .. Len(chain) - 1 :
         chain[k + 1].at = chain[k].at + chain[k].cnt * req.width

(* TXCNT holds the count of a descriptor, but of an empty one.             *)
CountOK ==
  pc \in {"link", "run"} =>
    /\ \A k \in 1 .. Len(chain) : chain[k].cnt # 0 => chain[k].txcnt = chain[k].cnt - 1
    /\ ~multiple => \A k \in 1 .. Len(chain) : chain[k].cnt # 0
    /\ ~multiple /\ req.cnt > MaxTx => req.cnt % MaxTx # 0

RunOK ==
  pc = "run" =>
    /\ left = 0
    /\ cur \in 1 .. Len(chain)
    /\ Len(chain) = 1 => moved = 0 /\ chain[1].cnt = req.cnt /\ req.cnt # 0

(* The engine has moved what lies before the descriptor it is at.          *)
UpTo(n) == touched = 0 .. n - 1 /\ bytes = n

MovedOK ==
  call.op = "copy" /\ ~multiple =>
    /\ pc \in {"split", "request", "link"} => UpTo(offset)
    /\ pc = "run" => UpTo(chain[cur].at)
    /\ pc = "account" /\ fault = "none" => UpTo(offset + req.cnt * i)

FaultOK ==
  /\ pc \in {"split", "request", "link", "run"} => fault = "none"
  /\ pc = "account" =>
       /\ fault \in {"none", "abort"}
       /\ fault = "abort" => rest >= 1
       /\ Len(chain) = 1 => moved = Result

IInv ==
  /\ TypeOK /\ CopyAsks /\ PushAsks /\ SplitOK /\ LinkOK /\ JoinOK /\ CountOK
  /\ RunOK /\ MovedOK /\ FaultOK
  /\ CopyIsWhole /\ CopyIsNeverRefused /\ AnswerTellsAbort

-----------------------------------------------------------------------------
(* What the types give.                                                    *)

LEMMA CallType ==
  ASSUME call \in Calls
  PROVE  /\ call.op \in {"copy", "push"} /\ call.src \in Nat /\ call.dst \in Nat
         /\ call.count \in Nat /\ call.width \in Widths
BY ConstantsOK DEF ConstantsOK, Calls

LEMMA DescType ==
  ASSUME NEW at \in Nat, NEW n \in 0 .. MaxTx
  PROVE  /\ Desc(at, n) \in [at : Nat, cnt : 0 .. MaxTx, txcnt : 0 .. MaxTx - 1]
         /\ Desc(at, n).at = at /\ Desc(at, n).cnt = n
         /\ n # 0 => Desc(at, n).txcnt = n - 1
<1>1. (n - 1) % MaxTx \in 0 .. MaxTx - 1 /\ (n # 0 => (n - 1) % MaxTx = n - 1)
  BY ConstantsOK, ModTxcnt DEF ConstantsOK
<1> DEFINE t == (n - 1) % MaxTx
<1>2. Desc(at, n) = [at |-> at, cnt |-> n, txcnt |-> t]
  BY DEF Desc
<1>3. t \in 0 .. MaxTx - 1 /\ (n # 0 => t = n - 1)
  BY <1>1
<1> HIDE DEF t
<1> QED BY <1>2, <1>3

LEMMA RequestType ==
  ASSUME TypeOK
  PROVE  req.at \in Nat /\ req.width \in Widths /\ req.cnt \in Nat
BY DEF TypeOK

LEMMA ChainType ==
  ASSUME TypeOK, NEW k \in 1 .. Len(chain)
  PROVE  /\ Len(chain) \in Nat
         /\ chain[k].at \in Nat /\ chain[k].cnt \in 0 .. MaxTx
         /\ chain[k].txcnt \in 0 .. MaxTx - 1
<1> DEFINE D == [at : Nat, cnt : 0 .. MaxTx, txcnt : 0 .. MaxTx - 1]
<1>1. chain \in Seq(D)
  BY DEF TypeOK
<1>2. chain[k] \in D /\ Len(chain) \in Nat
  <2> HIDE DEF D
  <2> QED BY <1>1
<1> QED BY <1>2

(* Where the chain goes on is aligned as the request is.                   *)
LEMMA LinkAligned ==
  ASSUME TypeOK, CopyAsks, Busy, left <= req.cnt
  PROVE  /\ LinkAt \in Nat
         /\ call.op = "copy" => Aligned(LinkAt) /\ Aligned(req.at)
<1>1. req.cnt - left \in Nat
  BY DEF TypeOK
<1>2. (req.cnt - left) * req.width \in Nat
  BY <1>1, RequestType, WidthProduct
<1>3. LinkAt \in Nat
  BY <1>2, RequestType DEF LinkAt
<1>4. ASSUME call.op = "copy" PROVE Aligned(LinkAt) /\ Aligned(req.at)
  <2> DEFINE s == call.src + offset
             d == call.dst + offset
             k == req.cnt - left
             w == req.width
  <2>1. s \in Nat /\ d \in Nat /\ k \in Nat /\ w \in Widths
    BY <1>1, CallType, RequestType DEF TypeOK
  <2>2. s % w = 0 /\ d % w = 0
    BY <1>4 DEF CopyAsks
  <2>3. (s + k * w) % w = 0 /\ (d + k * w) % w = 0
    <3> HIDE DEF s, d, k, w
    <3> QED BY <2>1, <2>2, StaysAligned
  <2>4. k * w \in Nat
    BY <1>2
  <2>5. Source(LinkAt) = s + k * w /\ Dest(LinkAt) = d + k * w
    <3>1. LinkAt = offset + k * w
      BY <1>4 DEF LinkAt, CopyAsks
    <3>2. offset \in Nat
      BY DEF TypeOK
    <3>3. call.src \in Nat /\ call.dst \in Nat
      BY CallType DEF TypeOK
    <3> DEFINE p == k * w
    <3>4. p \in Nat /\ LinkAt = offset + p
      BY <2>4, <3>1
    <3> HIDE DEF k, w, p
    <3>5. call.src + LinkAt = s + p /\ call.dst + LinkAt = d + p
      BY <3>2, <3>3, <3>4
    <3> QED BY <1>4, <3>5 DEF Source, Dest, p
  <2>6. Source(req.at) = s /\ Dest(req.at) = d
    BY <1>4 DEF Source, Dest, CopyAsks
  <2> HIDE DEF s, d, k
  <2> QED BY <2>2, <2>3, <2>5, <2>6 DEF Aligned
<1> QED BY <1>3, <1>4

-----------------------------------------------------------------------------
(* Every call starts in the invariant.                                     *)

LEMMA InitInvariant == Init => IInv
<1> SUFFICES ASSUME Init PROVE IInv
  OBVIOUS
<1>1. call \in Calls
  BY DEF Init
<1>2. req = [at |-> 0, width |-> call.width, cnt |-> call.count]
  BY DEF Init
<1>3. req \in [at : Nat, width : Widths, cnt : Nat]
  BY <1>1, <1>2, CallType
<1>4. TypeOK
  <2>1. chain \in Seq([at : Nat, cnt : 0 .. MaxTx, txcnt : 0 .. MaxTx - 1])
    BY DEF Init
  <2>2. call.count \in Nat /\ offset = 0
    BY <1>1, CallType DEF Init
  <2>3. pc \in {"split", "request"} /\ fault = "none" /\ multiple = FALSE
    BY DEF Init
  <2>4. ret \in Int /\ touched \in SUBSET Nat
    BY DEF Init
  <2>5. i = 4 /\ left = 0 /\ cur = 0 /\ moved = 0 /\ bytes = 0 /\ rest = 0
    BY DEF Init
  <2>6. /\ i \in {0, 1, 2, 4} /\ offset \in Nat /\ offset <= call.count
        /\ left \in Nat /\ cur \in Nat /\ moved \in Nat /\ bytes \in Nat /\ rest \in Nat
    BY <2>2, <2>5
  <2>7. /\ pc \in {"split", "request", "link", "run", "account", "returned", "hung"}
        /\ fault \in {"none", "abort", "count", "align", "descriptors"}
        /\ multiple \in BOOLEAN
    BY <2>3
  <2> QED BY <1>1, <1>3, <2>1, <2>4, <2>6, <2>7, Zenon DEF TypeOK
<1>5. CopyAsks /\ PushAsks /\ SplitOK /\ LinkOK /\ JoinOK /\ CountOK /\ RunOK
  BY <1>1, <1>2, CallType
  DEF Init, Busy, CopyAsks, PushAsks, SplitOK, LinkOK, JoinOK, CountOK, RunOK
<1>6. MovedOK
  <2>1. UpTo(offset)
    BY DEF Init, UpTo
  <2> QED BY <2>1 DEF Init, MovedOK
<1>7. FaultOK /\ CopyIsWhole /\ CopyIsNeverRefused /\ AnswerTellsAbort
  BY DEF Init, FaultOK, CopyIsWhole, CopyIsNeverRefused, AnswerTellsAbort
<1> QED BY <1>4, <1>5, <1>6, <1>7 DEF IInv

-----------------------------------------------------------------------------
(* nu_pdma_memcpy keeps it.                                                *)

LEMMA SplitStep == ASSUME IInv, Split PROVE IInv'
<1> USE DEF IInv
<1> DEFINE r == call.count - offset
<1>1. /\ pc = "split" /\ pc' = "request" /\ i \in Widths /\ call.op = "copy"
      /\ r \in Nat /\ r >= i
      /\ (call.src + offset) % i = 0 /\ (call.dst + offset) % i = 0
      /\ offset \in Nat /\ call.count \in Nat
  BY CallType DEF Split, Fits, Remaining, Widths, TypeOK, SplitOK
<1>2. /\ req' = [at |-> offset, width |-> i, cnt |-> r \div i]
      /\ UNCHANGED <<call, i, offset, chain, left, multiple, cur, moved, touched,
                     bytes, rest, ret, fault>>
  BY DEF Split, Remaining, planVars, engineVars
<1>3. /\ r \div i \in Nat /\ r \div i >= 1
      /\ (r \div i) * i <= r
      /\ i = 1 => r \div i = r
  <2> HIDE DEF r
  <2> QED BY <1>1, DivideByWidth
<1> DEFINE q == r \div i
<1>4. q \in Nat /\ q >= 1 /\ q * i <= r /\ (i = 1 => q = r) /\ req'.cnt = q
  BY <1>2, <1>3
<1>5. q * i \in Nat
  <2> HIDE DEF q, r
  <2> QED BY <1>1, <1>4, WidthProduct
<1>6. req' \in [at : Nat, width : Widths, cnt : Nat] /\ req'.at = offset /\ req'.width = i
  BY <1>1, <1>2, <1>4
<1> HIDE DEF q
<1>7. TypeOK'
  BY <1>1, <1>2, <1>6 DEF TypeOK
<1>8. offset + q * i <= call.count /\ (i = 1 => offset + q = call.count)
  BY <1>1, <1>4, <1>5
<1>9. CopyAsks'
  <2>1. offset' + req'.cnt * i' <= call'.count
    BY <1>2, <1>4, <1>8
  <2>2. i' = 1 => offset' + req'.cnt = call'.count
    BY <1>2, <1>4, <1>8
  <2> QED BY <1>1, <1>2, <1>4, <1>6, <2>1, <2>2 DEF CopyAsks
<1>10. PushAsks' /\ SplitOK' /\ LinkOK' /\ JoinOK' /\ CountOK' /\ RunOK'
  BY <1>1, <1>2 DEF PushAsks, SplitOK, LinkOK, JoinOK, CountOK, RunOK
<1>11. MovedOK'
  BY <1>1, <1>2 DEF MovedOK, UpTo
<1>12. FaultOK' /\ CopyIsWhole' /\ CopyIsNeverRefused' /\ AnswerTellsAbort'
  BY <1>1, <1>2 DEF FaultOK, CopyIsWhole, CopyIsNeverRefused, AnswerTellsAbort
<1> QED BY <1>7, <1>9, <1>10, <1>11, <1>12

(* One byte always fits, so only a copy that is done goes below it.        *)
LEMMA NarrowStep == ASSUME IInv, Narrow PROVE IInv'
<1> USE DEF IInv
<1>1. pc = "split" /\ pc' = pc /\ i \in Widths /\ call.op = "copy"
  BY DEF Narrow, Widths, TypeOK, SplitOK
<1>2. i' = i \div 2 /\ UNCHANGED <<call, offset, req, chain, left, multiple, cur,
                                   moved, touched, bytes, rest, ret, fault>>
  BY DEF Narrow, chainVars, engineVars
<1>3. i # 1
  <2>1. SUFFICES ASSUME i = 1 PROVE FALSE
    OBVIOUS
  <2>2. (call.src + offset) % 1 = 0 /\ (call.dst + offset) % 1 = 0
    BY CallType DEF TypeOK
  <2>3. Fits(1)
    BY <2>2, CallType DEF Fits, Narrow, Remaining, TypeOK
  <2> QED BY <2>1, <2>3 DEF Narrow
<1>4. i' \in {1, 2}
  BY <1>1, <1>2, <1>3 DEF Widths
<1>5. TypeOK'
  BY <1>1, <1>2, <1>4 DEF TypeOK
<1>6. /\ CopyAsks' /\ PushAsks' /\ SplitOK' /\ LinkOK' /\ JoinOK' /\ CountOK' /\ RunOK'
      /\ FaultOK' /\ CopyIsWhole' /\ CopyIsNeverRefused' /\ AnswerTellsAbort'
  BY <1>1, <1>2, <1>4 DEF Busy, CopyAsks, PushAsks, SplitOK, LinkOK, JoinOK, CountOK,
     RunOK, FaultOK, CopyIsWhole, CopyIsNeverRefused, AnswerTellsAbort
<1>7. MovedOK'
  BY <1>1, <1>2 DEF MovedOK, UpTo
<1> QED BY <1>5, <1>6, <1>7

LEMMA FinishStep == ASSUME IInv, Finish PROVE IInv'
<1> USE DEF IInv
<1>1. /\ pc = "split" /\ pc' = "returned" /\ call.op = "copy" /\ offset = call.count
      /\ ret' = call.count /\ fault = "none"
      /\ call.count \in Nat
  BY CallType DEF Finish, Remaining, SplitOK, FaultOK, TypeOK
<1>2. UNCHANGED <<call, i, offset, req, chain, left, multiple, cur, moved, touched,
                  bytes, rest, fault>>
  BY DEF Finish, planVars, chainVars, engineVars
<1>3. TypeOK'
  BY <1>1, <1>2 DEF TypeOK
<1>4. /\ CopyAsks' /\ PushAsks' /\ SplitOK' /\ LinkOK' /\ JoinOK' /\ CountOK' /\ RunOK'
      /\ FaultOK' /\ MovedOK' /\ CopyIsNeverRefused'
  BY <1>1, <1>2 DEF Busy, CopyAsks, PushAsks, SplitOK, LinkOK, JoinOK, CountOK,
     RunOK, FaultOK, MovedOK, CopyIsNeverRefused
<1>5. CopyIsWhole'
  BY <1>1, <1>2 DEF CopyIsWhole, MovedOK, UpTo
<1>6. AnswerTellsAbort'
  BY <1>1, <1>2 DEF AnswerTellsAbort, Null
<1> QED BY <1>3, <1>4, <1>5, <1>6

-----------------------------------------------------------------------------
(* Setting up a transfer keeps it.                                         *)

(* A request of a copy is never empty nor off its width.                   *)
LEMMA RefuseStep == ASSUME IInv, Refuse PROVE IInv'
<1> USE DEF IInv
<1>1. pc = "request" /\ pc' = "hung"
  BY DEF Refuse, Hang
<1>2. UNCHANGED <<call, i, offset, req, chain, left, multiple, cur, moved, touched,
                  bytes, rest, ret>>
  BY DEF Refuse, planVars, chainVars, engineVars
<1>3. fault' \in {"count", "align", "descriptors"}
  BY DEF Refuse, Hang
<1>4. call.op = "copy" => fault' = "descriptors"
  <2> SUFFICES ASSUME call.op = "copy" PROVE fault' = "descriptors"
    OBVIOUS
  <2>1. Busy
    BY <1>1 DEF Busy
  <2>2. req.cnt # 0
    BY <2>1 DEF CopyAsks
  <2>3. Aligned(req.at)
    <3>1. (call.src + offset) % i = 0 /\ (call.dst + offset) % i = 0
      BY <2>1 DEF CopyAsks
    <3> QED BY <2>1, <3>1 DEF Aligned, Source, Dest, CopyAsks
  <2> QED BY <2>2, <2>3 DEF Refuse, Hang
<1>5. TypeOK'
  BY <1>1, <1>2, <1>3 DEF TypeOK
<1>6. /\ CopyAsks' /\ PushAsks' /\ SplitOK' /\ LinkOK' /\ JoinOK' /\ CountOK' /\ RunOK'
      /\ FaultOK' /\ MovedOK' /\ CopyIsWhole' /\ AnswerTellsAbort'
  BY <1>1 DEF Busy, CopyAsks, PushAsks, SplitOK, LinkOK, JoinOK, CountOK,
     RunOK, FaultOK, MovedOK, CopyIsWhole, AnswerTellsAbort
<1>7. CopyIsNeverRefused'
  BY <1>2, <1>4 DEF CopyIsNeverRefused
<1> QED BY <1>5, <1>6, <1>7

LEMMA SingleStep == ASSUME IInv, Single PROVE IInv'
<1> USE DEF IInv
<1> DEFINE d == Desc(req.at, req.cnt)
<1>1. pc = "request" /\ pc' = "run" /\ req.cnt \in 1 .. MaxTx /\ Busy
  BY DEF Single, Busy
<1>2. /\ chain' = <<d>> /\ left' = 0 /\ cur' = 1 /\ moved' = 0 /\ rest' = 0
      /\ UNCHANGED <<call, i, offset, req, multiple, touched, bytes, ret, fault>>
  BY DEF Single, planVars
<1>3. req.at \in Nat /\ req.width \in Widths /\ req.cnt \in Nat
  BY RequestType
<1>4. /\ d \in [at : Nat, cnt : 0 .. MaxTx, txcnt : 0 .. MaxTx - 1]
      /\ d.at = req.at /\ d.cnt = req.cnt /\ d.txcnt = d.cnt - 1
  <2>1. req.cnt \in 0 .. MaxTx /\ req.cnt # 0
    BY <1>1, ConstantsOK DEF ConstantsOK
  <2> QED BY <1>3, <2>1, DescType
<1> HIDE DEF d
<1>5. chain'[1] = d /\ Len(chain') = 1 /\ chain' # <<>>
  BY <1>2
<1>6. TypeOK'
  <2>1. chain' \in Seq([at : Nat, cnt : 0 .. MaxTx, txcnt : 0 .. MaxTx - 1])
    BY <1>2, <1>4
  <2> QED BY <1>1, <1>2, <2>1 DEF TypeOK
<1>7. CopyAsks' /\ PushAsks' /\ SplitOK' /\ LinkOK'
  BY <1>1, <1>2 DEF Busy, CopyAsks, PushAsks, SplitOK, LinkOK
<1>8. JoinOK'
  <2>1. LinkAt' = req.at + req.cnt * req.width
    BY <1>2, <1>3 DEF LinkAt
  <2>2. chain'[Len(chain')].at + chain'[Len(chain')].cnt * req'.width = LinkAt'
    BY <1>2, <1>4, <1>5, <2>1
  <2>3. left' <= req'.cnt
    BY <1>2, <1>3
  <2>4. 1 .. Len(chain') - 1 = {}
    BY <1>5
  <2> QED BY <1>2, <1>4, <1>5, <2>2, <2>3, <2>4 DEF JoinOK
<1>9. CountOK'
  <2>1. \A k \in 1 .. Len(chain') : k = 1 /\ chain'[k] = d
    BY <1>5
  <2>2. d.cnt # 0
    BY <1>1, <1>4
  <2>3. ~(req'.cnt > MaxTx)
    BY <1>1, <1>2, ConstantsOK DEF ConstantsOK
  <2> QED BY <1>4, <2>1, <2>2, <2>3 DEF CountOK
<1>10. RunOK'
  <2>1. cur' \in 1 .. Len(chain')
    BY <1>2, <1>5
  <2> QED BY <1>1, <1>2, <1>4, <1>5, <2>1 DEF RunOK
<1>11. MovedOK'
  <2>1. call.op = "copy" /\ ~multiple => UpTo(offset) /\ req.at = offset
    BY <1>1 DEF MovedOK, CopyAsks
  <2>2. chain'[cur'].at = req.at
    BY <1>2, <1>4, <1>5
  <2> QED BY <1>1, <1>2, <2>1, <2>2 DEF MovedOK, UpTo
<1>12. FaultOK' /\ CopyIsWhole' /\ CopyIsNeverRefused' /\ AnswerTellsAbort'
  BY <1>1, <1>2 DEF FaultOK, CopyIsWhole, CopyIsNeverRefused, AnswerTellsAbort
<1> QED BY <1>6, <1>7, <1>8, <1>9, <1>10, <1>11, <1>12

LEMMA ChainedStep == ASSUME IInv, Chained PROVE IInv'
<1> USE DEF IInv
<1>1. pc = "request" /\ pc' = "link" /\ req.cnt > MaxTx /\ Busy
  BY DEF Chained, Busy
<1>2. /\ chain' = <<>> /\ left' = req.cnt
      /\ multiple' = (multiple \/ req.cnt % MaxTx = 0)
      /\ UNCHANGED <<call, i, offset, req, cur, moved, touched, bytes, rest, ret, fault>>
  BY DEF Chained, planVars, engineVars
<1>3. req.at \in Nat /\ req.width \in Widths /\ req.cnt \in Nat
  BY RequestType
<1>4. multiple' \in BOOLEAN /\ (~multiple' => ~multiple /\ req.cnt % MaxTx # 0)
  BY <1>2, Zenon DEF TypeOK
<1>5. TypeOK'
  BY <1>1, <1>2, <1>3, <1>4 DEF TypeOK
<1>6. CopyAsks' /\ PushAsks' /\ SplitOK' /\ RunOK'
  BY <1>1, <1>2 DEF Busy, CopyAsks, PushAsks, SplitOK, RunOK
<1>7. LinkOK'
  <2>0. Wanted(req.cnt) \in Nat \ {0}
    BY <1>3, WantedType
  <2>1. 0 * MaxTx = 0
    BY ConstantsOK DEF ConstantsOK
  <2>2. Len(chain') = 0 /\ req.cnt - 0 = req.cnt
    BY <1>2, <1>3
  <2>3. Wanted(req'.cnt) = Wanted(req.cnt)
    BY <1>2
  <2> QED BY <1>1, <1>2, <1>3, <2>0, <2>1, <2>2, <2>3 DEF LinkOK
<1>8. JoinOK' /\ CountOK'
  BY <1>1, <1>2, <1>3, <1>4 DEF JoinOK, CountOK
<1>9. MovedOK'
  BY <1>1, <1>2, <1>4 DEF MovedOK, UpTo
<1>10. FaultOK' /\ CopyIsWhole' /\ CopyIsNeverRefused' /\ AnswerTellsAbort'
  BY <1>1, <1>2 DEF FaultOK, CopyIsWhole, CopyIsNeverRefused, AnswerTellsAbort
<1> QED BY <1>5, <1>6, <1>7, <1>8, <1>9, <1>10

(* One turn of the loop takes a full descriptor but for the last.          *)
LEMMA TakesType ==
  ASSUME IInv, pc = "link", Len(chain) < Wanted(req.cnt)
  PROVE  /\ Take(left) \in 0 .. MaxTx /\ Take(left) <= left /\ left <= req.cnt
         /\ left - Take(left) \in Nat
         /\ Len(chain) + 1 < Wanted(req.cnt) =>
              Take(left) = MaxTx /\ left - Take(left) = req.cnt - (Len(chain) + 1) * MaxTx
         /\ Len(chain) + 1 = Wanted(req.cnt) =>
              left - Take(left) = 0 /\ Take(left) = req.cnt % MaxTx
<1> USE DEF IInv
<1> DEFINE L == Len(chain)
           W == Wanted(req.cnt)
           n == req.cnt
           p == L * MaxTx
<1>1. left \in Nat /\ n \in Nat /\ left <= n /\ MaxTx \in Nat \ {0}
  BY ConstantsOK DEF TypeOK, JoinOK, ConstantsOK
<1>2. L \in Nat
  BY DEF TypeOK
<1>3. W \in Nat \ {0} /\ (W - 1) * MaxTx <= n /\ n - (W - 1) * MaxTx = n % MaxTx
      /\ n % MaxTx \in 0 .. MaxTx - 1
  BY <1>1, WantedType
<1>4. left = n - p /\ L < W
  BY DEF LinkOK
<1>5. p \in Nat /\ (L + 1) * MaxTx = p + MaxTx
  <2> HIDE DEF L
  <2> QED BY <1>1, <1>2, Product
<1>6. ASSUME L + 1 < W PROVE left >= MaxTx
  <2>1. L + 1 \in Nat /\ W - 1 \in Nat /\ L + 1 <= W - 1
    <3> HIDE DEF L, W
    <3> QED BY <1>2, <1>3, <1>6
  <2>2. (L + 1) * MaxTx <= (W - 1) * MaxTx /\ (W - 1) * MaxTx \in Nat
    <3> HIDE DEF L, W
    <3> QED BY <1>1, <2>1, ProductGrows, Product
  <2> DEFINE x == (W - 1) * MaxTx
             y == (L + 1) * MaxTx
  <2>3. y = p + MaxTx /\ y <= x /\ x <= n /\ x \in Nat
    BY <1>3, <1>5, <2>2
  <2> HIDE DEF L, W, n, p, x, y
  <2> QED BY <1>1, <1>4, <1>5, <2>3
<1>7. ASSUME L + 1 = W PROVE left = n % MaxTx
  <2>1. W - 1 = L
    <3> HIDE DEF L, W
    <3> QED BY <1>2, <1>3, <1>7
  <2>2. (W - 1) * MaxTx = p
    BY <2>1
  <2> QED BY <1>3, <1>4, <2>2
<1>8. Take(left) \in 0 .. MaxTx /\ Take(left) <= left /\ left - Take(left) \in Nat
  <2> HIDE DEF L, W, n, p
  <2> QED BY <1>1 DEF Take
<1>9. ASSUME L + 1 < W
      PROVE  Take(left) = MaxTx /\ left - Take(left) = n - (L + 1) * MaxTx
  <2>1. left >= MaxTx
    BY <1>6, <1>9
  <2>2. Take(left) = MaxTx
    <3> HIDE DEF L, W, n, p
    <3> QED BY <1>1, <2>1 DEF Take
  <2> DEFINE y == (L + 1) * MaxTx
  <2>3. y = p + MaxTx
    BY <1>5
  <2>4. left - Take(left) = n - y
    <3> HIDE DEF L, W, n, p, y
    <3> QED BY <1>1, <1>4, <1>5, <2>2, <2>3
  <2> QED BY <2>2, <2>4
<1>10. ASSUME L + 1 = W
       PROVE  left - Take(left) = 0 /\ Take(left) = n % MaxTx
  <2> DEFINE r == n % MaxTx
  <2>1. left = r /\ r \in 0 .. MaxTx - 1
    BY <1>3, <1>7, <1>10
  <2> HIDE DEF L, W, n, p, r
  <2>2. Take(left) = r /\ left - Take(left) = 0
    BY <1>1, <2>1 DEF Take
  <2> QED BY <2>2 DEF r
<1> QED BY <1>1, <1>8, <1>9, <1>10

LEMMA LinkStep == ASSUME IInv, Link PROVE IInv'
<1> USE DEF IInv
<1> DEFINE L == Len(chain)
           t == Take(left)
           d == Desc(LinkAt, t)
           D == [at : Nat, cnt : 0 .. MaxTx, txcnt : 0 .. MaxTx - 1]
<1>1. pc = "link" /\ L < Wanted(req.cnt) /\ Busy
  BY DEF Link, Busy
<1>2. UNCHANGED <<call, i, offset, req, multiple, cur, moved, touched, bytes, rest, ret>>
  BY DEF Link, planVars, engineVars
<1>3. req.at \in Nat /\ req.width \in Widths /\ req.cnt \in Nat
  BY RequestType
<1>4. LinkAt \in Nat /\ (call.op = "copy" => Aligned(LinkAt))
  BY <1>1, LinkAligned DEF JoinOK
<1>5. CASE ~Aligned(LinkAt)
  <2>1. pc' = "hung" /\ fault' = "align" /\ UNCHANGED <<chain, left>>
    BY <1>5 DEF Link, Hang
  <2>2. call.op # "copy"
    BY <1>4, <1>5
  <2>3. TypeOK'
    BY <1>2, <2>1 DEF TypeOK
  <2> QED BY <1>2, <2>1, <2>2, <2>3 DEF Busy, CopyAsks, PushAsks, SplitOK, LinkOK,
      JoinOK, CountOK, RunOK, FaultOK, MovedOK, CopyIsWhole, CopyIsNeverRefused,
      AnswerTellsAbort
<1>6. CASE Aligned(LinkAt)
  <2>1. chain' = Append(chain, d) /\ left' = left - t /\ UNCHANGED <<pc, fault>>
    BY <1>6 DEF Link
  <2>2. /\ t \in 0 .. MaxTx /\ t <= left /\ left <= req.cnt /\ left - t \in Nat
        /\ L + 1 < Wanted(req.cnt) => t = MaxTx /\ left - t = req.cnt - (L + 1) * MaxTx
        /\ L + 1 = Wanted(req.cnt) => left - t = 0 /\ t = req.cnt % MaxTx
    BY <1>1, TakesType
  <2>3. d \in D /\ d.at = LinkAt /\ d.cnt = t /\ (t # 0 => d.txcnt = t - 1)
    BY <1>4, <2>2, DescType
  <2>4. chain \in Seq(D) /\ L \in Nat
    BY DEF TypeOK
  <2> HIDE DEF d, D
  <2>5. /\ chain' \in Seq(D) /\ Len(chain') = L + 1 /\ chain' # <<>>
        /\ chain'[L + 1] = d
        /\ \A k \in 1 .. L : chain'[k] = chain[k]
    BY <2>1, <2>3, <2>4
  <2>6. TypeOK'
    BY <1>2, <2>1, <2>2, <2>5 DEF TypeOK, D
  <2>7. CopyAsks' /\ PushAsks' /\ SplitOK' /\ RunOK'
    BY <1>1, <1>2, <2>1 DEF Busy, CopyAsks, PushAsks, SplitOK, RunOK
  <2>8. LinkOK'
    <3>1. Wanted(req'.cnt) = Wanted(req.cnt) /\ Wanted(req.cnt) \in Nat
      BY <1>2, <1>3, WantedType
    <3>2. Len(chain') <= Wanted(req'.cnt)
      BY <1>1, <2>4, <2>5, <3>1
    <3>3. Len(chain') < Wanted(req'.cnt) => left' = req'.cnt - Len(chain') * MaxTx
      BY <1>2, <2>1, <2>2, <2>5, <3>1, Zenon
    <3>4. Len(chain') = Wanted(req'.cnt) => left' = 0
      BY <1>2, <2>1, <2>2, <2>5, <3>1, Zenon
    <3>5. req'.cnt > MaxTx
      BY <1>1, <1>2 DEF LinkOK
    <3> QED BY <3>2, <3>3, <3>4, <3>5 DEF LinkOK
  <2>9. LinkAt' = LinkAt + t * req.width
    <3> DEFINE a == req.cnt - left
               w == req.width
    <3>1. a \in Int /\ t \in Int /\ w \in Widths
      BY <1>3, <2>2 DEF TypeOK
    <3>2. req'.cnt - left' = a + t
      BY <1>2, <1>3, <2>1, <2>2 DEF TypeOK
    <3>3. LinkAt' = req.at + (a + t) * w
      BY <1>2, <3>2 DEF LinkAt
    <3>4. (a + t) * w = a * w + t * w /\ a * w \in Int /\ t * w \in Int
      <4> HIDE DEF a, t, w
      <4> QED BY <3>1, WidthSum
    <3>5. LinkAt = req.at + a * w
      BY DEF LinkAt
    <3> DEFINE x == a * w
               y == t * w
    <3>6. x \in Int /\ y \in Int /\ LinkAt' = req.at + (x + y) /\ LinkAt = req.at + x
      BY <3>3, <3>4, <3>5
    <3>7. LinkAt' = LinkAt + y
      <4> HIDE DEF x, y
      <4> QED BY <1>3, <3>6
    <3> QED BY <3>7
  <2>10. JoinOK'
    <3>1. left' <= req'.cnt
      BY <1>2, <1>3, <2>1, <2>2 DEF TypeOK
    <3>2. chain'[1].at = req'.at
      <4>1. CASE chain = <<>>
        <5>1. left = req.cnt /\ L = 0
          BY <1>1, <4>1 DEF JoinOK
        <5>2. req.cnt - left = 0
          BY <1>3, <5>1
        <5>3. LinkAt = req.at
          BY <1>3, <5>2 DEF LinkAt, Widths
        <5>4. chain'[1] = d
          BY <2>5, <5>1
        <5> QED BY <1>2, <2>3, <5>3, <5>4
      <4>2. CASE chain # <<>>
        <5>1. 1 \in 1 .. L
          BY <2>4, <4>2
        <5>2. chain'[1] = chain[1]
          BY <2>5, <5>1
        <5> QED BY <1>1, <1>2, <4>2, <5>2 DEF JoinOK
      <4> QED BY <4>1, <4>2
    <3>3. chain'[Len(chain')].at + chain'[Len(chain')].cnt * req'.width = LinkAt'
      BY <1>2, <2>3, <2>5, <2>9
    <3>4. ASSUME NEW k \in 1 .. Len(chain') - 1
          PROVE  chain'[k + 1].at = chain'[k].at + chain'[k].cnt * req'.width
      <4>1. k \in 1 .. L /\ chain'[k] = chain[k] /\ L \in Nat
        BY <2>4, <2>5
      <4>2. CASE k = L
        <5>1. chain # <<>>
          BY <4>1
        <5>2. chain[L].at + chain[L].cnt * req.width = LinkAt
          BY <1>1, <5>1 DEF JoinOK
        <5> QED BY <1>2, <2>3, <2>5, <4>1, <4>2, <5>2
      <4>3. CASE k # L
        <5>1. k \in 1 .. L - 1 /\ k + 1 \in 1 .. L
          BY <4>1, <4>3
        <5>2. chain[k + 1].at = chain[k].at + chain[k].cnt * req.width
          BY <1>1, <5>1 DEF JoinOK
        <5> QED BY <1>2, <2>5, <4>1, <5>1, <5>2
      <4> QED BY <4>2, <4>3
    <3> QED BY <2>5, <3>1, <3>2, <3>3, <3>4 DEF JoinOK
  <2>11. CountOK'
    <3>1. ~multiple => t # 0
      <4>1. L + 1 < Wanted(req.cnt) \/ L + 1 = Wanted(req.cnt)
        <5>1. Wanted(req.cnt) \in Nat
          BY <1>3, WantedType
        <5> QED BY <1>1, <2>4, <5>1
      <4>2. ~multiple => req.cnt % MaxTx # 0
        BY <1>1 DEF CountOK, LinkOK
      <4>3. MaxTx # 0
        BY ConstantsOK DEF ConstantsOK
      <4> QED BY <2>2, <4>1, <4>2, <4>3, Zenon
    <3>2. \A k \in 1 .. Len(chain') :
            (k \in 1 .. L /\ chain'[k] = chain[k]) \/ chain'[k] = d
      BY <2>4, <2>5
    <3>3. \A k \in 1 .. Len(chain') : chain'[k].cnt # 0 => chain'[k].txcnt = chain'[k].cnt - 1
      BY <1>1, <2>3, <3>2 DEF CountOK
    <3>4. ~multiple' => \A k \in 1 .. Len(chain') : chain'[k].cnt # 0
      BY <1>1, <1>2, <2>3, <3>1, <3>2 DEF CountOK
    <3> QED BY <1>1, <1>2, <3>3, <3>4 DEF CountOK
  <2>12. MovedOK'
    BY <1>1, <1>2, <2>1 DEF MovedOK, UpTo
  <2>13. FaultOK' /\ CopyIsWhole' /\ CopyIsNeverRefused' /\ AnswerTellsAbort'
    BY <1>1, <1>2, <2>1 DEF FaultOK, CopyIsWhole, CopyIsNeverRefused, AnswerTellsAbort
  <2> QED BY <2>6, <2>7, <2>8, <2>10, <2>11, <2>12, <2>13
<1> QED BY <1>5, <1>6

LEMMA LaunchStep == ASSUME IInv, Launch PROVE IInv'
<1> USE DEF IInv
<1>1. pc = "link" /\ pc' = "run" /\ Len(chain) = Wanted(req.cnt) /\ Busy
  BY DEF Launch, Busy
<1>2. /\ cur' = 1 /\ moved' = 0 /\ rest' = 0
      /\ UNCHANGED <<call, i, offset, req, chain, left, multiple, touched, bytes, ret, fault>>
  BY DEF Launch, planVars, chainVars
<1>3. req.cnt \in Nat /\ req.cnt > MaxTx /\ left = 0 /\ Len(chain) >= 2
  BY <1>1, RequestType, WantedTwo DEF LinkOK
<1>4. TypeOK'
  BY <1>1, <1>2 DEF TypeOK
<1>5. /\ CopyAsks' /\ PushAsks' /\ SplitOK' /\ LinkOK' /\ CountOK'
      /\ FaultOK' /\ CopyIsWhole' /\ CopyIsNeverRefused' /\ AnswerTellsAbort'
  BY <1>1, <1>2 DEF Busy, CopyAsks, PushAsks, SplitOK, LinkOK, CountOK,
     FaultOK, CopyIsWhole, CopyIsNeverRefused, AnswerTellsAbort
<1>6. JoinOK'
  <2>1. LinkAt' = LinkAt
    BY <1>2 DEF LinkAt
  <2> QED BY <1>1, <1>2, <2>1 DEF JoinOK
<1>7. RunOK'
  <2>1. Len(chain) \in Nat
    BY DEF TypeOK
  <2> QED BY <1>1, <1>2, <1>3, <2>1 DEF RunOK
<1>8. MovedOK'
  <2>1. chain # <<>>
    BY <1>3
  <2>2. chain[1].at = req.at
    BY <1>1, <2>1 DEF JoinOK
  <2> QED BY <1>1, <1>2, <2>2 DEF MovedOK, UpTo, CopyAsks
<1> QED BY <1>4, <1>5, <1>6, <1>7, <1>8

-----------------------------------------------------------------------------
(* The engine keeps it.                                                    *)

(* What the engine is at, and how many items that is.                      *)
LEMMA Running ==
  ASSUME IInv, pc = "run"
  PROVE  /\ cur \in 1 .. Len(chain) /\ Len(chain) \in Nat /\ Len(chain) >= 1
         /\ Items(chain[cur]) \in Nat \ {0}
         /\ chain[cur].at \in Nat
         /\ chain[cur].cnt # 0 => Items(chain[cur]) = chain[cur].cnt
<1> USE DEF IInv
<1>1. cur \in 1 .. Len(chain) /\ Len(chain) \in Nat
  BY DEF RunOK, TypeOK
<1>2. /\ chain[cur].at \in Nat /\ chain[cur].cnt \in 0 .. MaxTx
      /\ chain[cur].txcnt \in 0 .. MaxTx - 1
  BY <1>1, ChainType
<1>3. chain[cur].cnt # 0 => chain[cur].txcnt = chain[cur].cnt - 1
  BY <1>1 DEF CountOK
<1> QED BY <1>1, <1>2, <1>3, ConstantsOK DEF Items, ConstantsOK

LEMMA MoveType ==
  ASSUME IInv, pc = "run", NEW n \in Nat, Move(n)
  PROVE  moved' = moved + n /\ moved' \in Nat /\ touched' \in SUBSET Nat /\ bytes' \in Nat
<1> DEFINE a == chain[cur].at
           p == n * req.width
<1>1. a \in Nat
  BY Running
<1>2. p \in Nat
  BY RequestType, WidthProduct DEF IInv
<1>3. moved \in Nat /\ touched \in SUBSET Nat /\ bytes \in Nat
  BY DEF IInv, TypeOK
<1>4. moved' = moved + n /\ touched' = touched \cup (a .. a + p - 1) /\ bytes' = bytes + p
  BY DEF Move, Span
<1> HIDE DEF a, p
<1> QED BY <1>1, <1>2, <1>3, <1>4

LEMMA MoveAllStep == ASSUME IInv, MoveAll PROVE IInv'
<1> USE DEF IInv
<1> DEFINE c == chain[cur]
           n == Items(c)
<1>1. pc = "run" /\ Busy
  BY DEF MoveAll, Busy
<1>2. UNCHANGED <<call, i, offset, req, chain, left, multiple, rest, ret, fault>>
  BY DEF MoveAll, planVars, chainVars
<1>3. \/ cur < Len(chain) /\ cur' = cur + 1 /\ pc' = pc
      \/ cur = Len(chain) /\ pc' = "account" /\ cur' = cur
  BY DEF MoveAll
<1>4. /\ cur \in 1 .. Len(chain) /\ Len(chain) \in Nat /\ Len(chain) >= 1
      /\ n \in Nat \ {0} /\ c.at \in Nat /\ (c.cnt # 0 => n = c.cnt)
  BY <1>1, Running
<1>5. Move(n) /\ moved' = moved + n /\ moved' \in Nat /\ touched' \in SUBSET Nat /\ bytes' \in Nat
  BY <1>1, <1>4, MoveType DEF MoveAll
<1>6. fault = "none" /\ left = 0
  BY <1>1 DEF FaultOK, RunOK
<1>7. pc' \in {"run", "account"} /\ cur' \in Nat
  BY <1>1, <1>3, <1>4
<1>8. TypeOK'
  BY <1>2, <1>5, <1>7 DEF TypeOK
<1>9. CopyAsks' /\ PushAsks' /\ SplitOK' /\ LinkOK' /\ CountOK'
  BY <1>1, <1>2, <1>7 DEF Busy, CopyAsks, PushAsks, SplitOK, LinkOK, CountOK
<1>10. JoinOK'
  <2>1. LinkAt' = LinkAt
    BY <1>2 DEF LinkAt
  <2> QED BY <1>1, <1>2, <2>1 DEF JoinOK
<1>11. RunOK'
  <2>1. ASSUME pc' = "run" PROVE cur' \in 1 .. Len(chain') /\ Len(chain') # 1
    <3>1. cur < Len(chain) /\ cur' = cur + 1 /\ chain' = chain
      BY <1>2, <1>3, <2>1
    <3>2. cur \in 1 .. Len(chain) /\ Len(chain) \in Nat
      BY <1>4
    <3>3. cur + 1 \in 1 .. Len(chain) /\ Len(chain) # 1
      <4> DEFINE m == Len(chain)
      <4>1. m \in Nat /\ cur \in 1 .. m /\ cur < m
        BY <3>1, <3>2
      <4> HIDE DEF m
      <4>2. cur + 1 \in 1 .. m /\ m # 1
        BY ONLY <4>1
      <4> QED BY <4>2 DEF m
    <3> QED BY <3>1, <3>3
  <2> QED BY <1>2, <1>6, <2>1 DEF RunOK
<1>12. MovedOK'
  <2> SUFFICES ASSUME call.op = "copy", ~multiple
               PROVE  /\ pc' = "run" =>
                           touched' = 0 .. chain'[cur'].at - 1 /\ bytes' = chain'[cur'].at
                      /\ pc' = "account" =>
                           /\ touched' = 0 .. (offset' + req'.cnt * i') - 1
                           /\ bytes' = offset' + req'.cnt * i'
    BY <1>2, <1>7 DEF MovedOK, UpTo
  <2> DEFINE w == req.width
             p == n * w
  <2>1. UpTo(c.at)
    BY <1>1 DEF MovedOK
  <2>2. n = c.cnt
    BY <1>1, <1>4 DEF CountOK
  <2>3. p \in Nat
    BY <1>4, RequestType, WidthProduct
  <2>4. touched' = touched \cup (c.at .. c.at + p - 1) /\ bytes' = bytes + p
    BY <1>5 DEF Move, Span
  <2>5. touched' = 0 .. (c.at + p) - 1 /\ bytes' = c.at + p
    <3> DEFINE a == c.at
    <3>1. a \in Nat /\ touched = 0 .. a - 1 /\ bytes = a
      BY <1>4, <2>1 DEF UpTo
    <3>2. touched' = touched \cup (a .. a + p - 1) /\ bytes' = bytes + p
      BY <2>4
    <3> HIDE DEF a, p
    <3>3. (0 .. a - 1) \cup (a .. a + p - 1) = 0 .. (a + p) - 1
      BY <2>3, <3>1
    <3> QED BY <3>1, <3>2, <3>3 DEF a
  <2>6. CASE pc' = "run"
    <3>1. cur < Len(chain) /\ cur' = cur + 1 /\ cur \in 1 .. Len(chain) - 1
      BY <1>3, <1>4, <2>6
    <3>2. chain[cur + 1].at = c.at + c.cnt * w
      BY <1>1, <3>1 DEF JoinOK
    <3>3. chain'[cur'].at = c.at + p
      BY <1>2, <2>2, <3>1, <3>2
    <3>4. pc' # "account"
      BY <2>6
    <3>5. touched' = 0 .. chain'[cur'].at - 1 /\ bytes' = chain'[cur'].at
      BY <2>5, <3>3, Zenon
    <3> QED BY <3>4, <3>5, Zenon
  <2>7. CASE pc' = "account"
    <3>1. cur = Len(chain) /\ chain # <<>>
      BY <1>1, <1>3, <1>4, <2>7
    <3>2. c.at + c.cnt * w = LinkAt
      BY <1>1, <3>1 DEF JoinOK
    <3>3. req.cnt - left = req.cnt
      BY <1>6, RequestType
    <3>4. LinkAt = offset + req.cnt * i
      BY <1>1, <3>3 DEF LinkAt, CopyAsks
    <3>5. offset' + req'.cnt * i' = c.at + p
      BY <1>2, <2>2, <3>2, <3>4
    <3>6. pc' # "run"
      BY <2>7
    <3>7. touched' = 0 .. (offset' + req'.cnt * i') - 1 /\ bytes' = offset' + req'.cnt * i'
      BY <2>5, <3>5, Zenon
    <3> QED BY <3>6, <3>7, Zenon
  <2> QED BY <2>6, <2>7
<1>13. FaultOK'
  <2>1. Len(chain) = 1 => moved' = req.cnt
    <3> SUFFICES ASSUME Len(chain) = 1 PROVE moved' = req.cnt
      OBVIOUS
    <3>1. cur = 1 /\ moved = 0 /\ c.cnt = req.cnt /\ req.cnt # 0
      BY <1>1, <1>4 DEF RunOK
    <3> QED BY <1>4, <1>5, <3>1
  <2>2. Len(chain') = 1 => moved' = Result'
    BY <1>2, <1>6, <2>1 DEF Result
  <2> QED BY <1>2, <1>6, <2>2 DEF FaultOK
<1>14. CopyIsWhole' /\ CopyIsNeverRefused' /\ AnswerTellsAbort'
  BY <1>7 DEF CopyIsWhole, CopyIsNeverRefused, AnswerTellsAbort
<1> QED BY <1>8, <1>9, <1>10, <1>11, <1>12, <1>13, <1>14

(* A bus error leaves an item at least undone.                             *)
LEMMA AbortStep == ASSUME IInv, Abort PROVE IInv'
<1> USE DEF IInv
<1> DEFINE c == chain[cur]
<1>1. pc = "run" /\ Busy /\ pc' = "account" /\ fault' = "abort"
  BY DEF Abort, Busy
<1>2. UNCHANGED <<call, i, offset, req, chain, left, multiple, cur, ret>>
  BY DEF Abort, planVars, chainVars
<1>3. PICK n \in 0 .. Items(c) - 1 : Move(n) /\ rest' = Items(c) - n
  BY DEF Abort
<1>4. /\ cur \in 1 .. Len(chain) /\ Len(chain) \in Nat
      /\ Items(c) \in Nat \ {0} /\ (c.cnt # 0 => Items(c) = c.cnt)
  BY <1>1, Running
<1>5. n \in Nat /\ rest' \in Nat /\ rest' >= 1 /\ n = Items(c) - rest'
  BY <1>3, <1>4
<1>6. moved' = moved + n /\ moved' \in Nat /\ touched' \in SUBSET Nat /\ bytes' \in Nat
  BY <1>1, <1>3, <1>5, MoveType
<1>7. TypeOK'
  BY <1>1, <1>2, <1>5, <1>6 DEF TypeOK
<1>8. /\ CopyAsks' /\ PushAsks' /\ SplitOK' /\ LinkOK' /\ CountOK' /\ JoinOK' /\ RunOK'
      /\ MovedOK'
  BY <1>1, <1>2 DEF Busy, CopyAsks, PushAsks, SplitOK, LinkOK, CountOK, JoinOK, RunOK, MovedOK
<1>9. FaultOK'
  <2>1. Len(chain) = 1 => moved' = req.cnt - rest'
    <3> SUFFICES ASSUME Len(chain) = 1 PROVE moved' = req.cnt - rest'
      OBVIOUS
    <3>1. cur = 1 /\ moved = 0 /\ c.cnt = req.cnt /\ req.cnt # 0
      BY <1>1, <1>4 DEF RunOK
    <3> QED BY <1>4, <1>5, <1>6, <3>1
  <2>2. Len(chain') = 1 => moved' = Result'
    BY <1>1, <1>2, <2>1 DEF Result
  <2> QED BY <1>1, <1>5, <2>2 DEF FaultOK
<1>10. CopyIsWhole' /\ CopyIsNeverRefused' /\ AnswerTellsAbort'
  BY <1>1 DEF CopyIsWhole, CopyIsNeverRefused, AnswerTellsAbort
<1> QED BY <1>7, <1>8, <1>9, <1>10

-----------------------------------------------------------------------------
(* What nu_pdma_memfun makes of it keeps it.                               *)

(* All the items are done, unless a bus error left some.                   *)
LEMMA Accounting ==
  ASSUME IInv, pc = "account"
  PROVE  /\ Result \in Int /\ req.cnt \in Nat /\ fault \in {"none", "abort"}
         /\ Result = req.cnt <=> fault = "none"
         /\ fault = "abort" => Result < req.cnt
<1>1. /\ req.cnt \in Nat /\ rest \in Nat /\ fault \in {"none", "abort"}
      /\ fault = "abort" => rest >= 1
  BY RequestType DEF IInv, TypeOK, FaultOK
<1>2. CASE fault = "none"
  BY <1>1, <1>2 DEF Result
<1>3. CASE fault = "abort"
  <2>1. Result = req.cnt - rest /\ rest >= 1
    BY <1>1, <1>3 DEF Result
  <2> QED BY <1>1, <1>3, <2>1
<1> QED BY <1>1, <1>2, <1>3

LEMMA PushReturnsStep == ASSUME IInv, PushReturns PROVE IInv'
<1> USE DEF IInv
<1>1. /\ pc = "account" /\ pc' = "returned" /\ call.op = "push" /\ Busy /\ ret' = Result
      /\ UNCHANGED <<call, i, offset, req, chain, left, multiple, cur, moved, touched,
                     bytes, rest, fault>>
  BY DEF PushReturns, Busy, planVars, chainVars, engineVars
<1>2. /\ Result \in Int /\ req.cnt = call.count
      /\ fault = "abort" => Result < req.cnt
      /\ Len(chain) = 1 => moved = Result
  BY <1>1, Accounting DEF PushAsks, FaultOK
<1>3. TypeOK'
  BY <1>1, <1>2 DEF TypeOK
<1>4. /\ CopyAsks' /\ PushAsks' /\ SplitOK' /\ LinkOK' /\ CountOK' /\ JoinOK' /\ RunOK'
      /\ MovedOK' /\ FaultOK' /\ CopyIsWhole' /\ CopyIsNeverRefused'
  BY <1>1 DEF Busy, CopyAsks, PushAsks, SplitOK, LinkOK, CountOK, JoinOK, RunOK, MovedOK,
     FaultOK, CopyIsWhole, CopyIsNeverRefused
<1>5. AnswerTellsAbort'
  BY <1>1, <1>2 DEF AnswerTellsAbort
<1> QED BY <1>3, <1>4, <1>5

LEMMA CopyGoesOnStep == ASSUME IInv, CopyGoesOn PROVE IInv'
<1> USE DEF IInv
<1>1. /\ pc = "account" /\ pc' = "split" /\ call.op = "copy" /\ Busy
      /\ offset' = offset + req.cnt * i /\ i' = i \div 2
      /\ UNCHANGED <<call, req, chain, left, multiple, cur, moved, touched,
                     bytes, rest, ret, fault>>
  BY DEF CopyGoesOn, Busy, chainVars, engineVars
<1>2. fault = "none"
  BY <1>1, Accounting DEF CopyGoesOn
<1>3. /\ i \in Widths /\ offset + req.cnt * i <= call.count
      /\ i = 1 => offset + req.cnt = call.count
  BY <1>1, RequestType DEF CopyAsks
<1>4. req.cnt * i \in Nat /\ offset \in Nat /\ req.cnt \in Nat
  BY <1>3, RequestType, WidthProduct DEF TypeOK
<1>5. i' \in {0, 1, 2} /\ (i' = 0 => i = 1)
  BY <1>1, <1>3 DEF Widths
<1>6. offset' \in Nat /\ offset' <= call.count
  BY <1>1, <1>3, <1>4
<1>7. TypeOK'
  BY <1>1, <1>5, <1>6 DEF TypeOK
<1>8. i' = 0 => offset' = call.count
  BY <1>1, <1>3, <1>4, <1>5
<1>9. /\ CopyAsks' /\ PushAsks' /\ SplitOK' /\ LinkOK' /\ CountOK' /\ JoinOK' /\ RunOK'
      /\ FaultOK' /\ CopyIsWhole' /\ CopyIsNeverRefused' /\ AnswerTellsAbort'
  BY <1>1, <1>2, <1>8 DEF Busy, CopyAsks, PushAsks, SplitOK, LinkOK, CountOK, JoinOK, RunOK,
     FaultOK, CopyIsWhole, CopyIsNeverRefused, AnswerTellsAbort
<1>10. MovedOK'
  BY <1>1, <1>2 DEF MovedOK, UpTo
<1> QED BY <1>7, <1>9, <1>10

LEMMA CopyGivesUpStep == ASSUME IInv, CopyGivesUp PROVE IInv'
<1> USE DEF IInv
<1>1. /\ pc = "account" /\ pc' = "returned" /\ call.op = "copy" /\ Busy /\ ret' = Null
      /\ UNCHANGED <<call, i, offset, req, chain, left, multiple, cur, moved, touched,
                     bytes, rest, fault>>
  BY DEF CopyGivesUp, Busy, planVars, chainVars, engineVars
<1>2. fault = "abort"
  BY <1>1, Accounting DEF CopyGivesUp
<1>3. TypeOK'
  BY <1>1 DEF TypeOK, Null
<1>4. /\ CopyAsks' /\ PushAsks' /\ SplitOK' /\ LinkOK' /\ CountOK' /\ JoinOK' /\ RunOK'
      /\ MovedOK' /\ FaultOK' /\ CopyIsWhole' /\ CopyIsNeverRefused' /\ AnswerTellsAbort'
  BY <1>1, <1>2 DEF Busy, CopyAsks, PushAsks, SplitOK, LinkOK, CountOK, JoinOK, RunOK, MovedOK,
     FaultOK, CopyIsWhole, CopyIsNeverRefused, AnswerTellsAbort, Null
<1> QED BY <1>3, <1>4

LEMMA StutterStep == ASSUME IInv, UNCHANGED vars PROVE IInv'
<1>1. UNCHANGED <<pc, call, i, offset, req, chain, left, cur, moved, touched, bytes,
                  rest, ret, fault, multiple>>
  BY DEF vars
<1> QED BY <1>1 DEF IInv, TypeOK, Busy, CopyAsks, PushAsks, SplitOK, LinkOK, JoinOK, LinkAt,
     CountOK, RunOK, MovedOK, UpTo, FaultOK, Result, CopyIsWhole, CopyIsNeverRefused,
     AnswerTellsAbort

-----------------------------------------------------------------------------
(* What a caller can rely on.                                              *)

LEMMA StepInvariant == IInv /\ [Next]_vars => IInv'
<1> SUFFICES ASSUME IInv, [Next]_vars PROVE IInv'
  OBVIOUS
<1>1. CASE UNCHANGED vars
  BY <1>1, StutterStep
<1>2. CASE Next
  BY <1>2, SplitStep, NarrowStep, FinishStep, RefuseStep, SingleStep, ChainedStep, LinkStep,
     LaunchStep, MoveAllStep, AbortStep, PushReturnsStep, CopyGoesOnStep, CopyGivesUpStep,
     StutterStep
  DEF Next, Over
<1> QED BY <1>1, <1>2

(* Every variable keeps its type: no chain runs out of the bounds of       *)
(* TXCNT, no copy goes on beyond its count.                                *)
THEOREM TypeCorrect == Spec => []TypeOK
<1>1. IInv => TypeOK
  BY DEF IInv
<1> QED BY <1>1, InitInvariant, StepInvariant, PTL DEF Spec

(* A copy that is reported done has moved each byte of its buffer once,    *)
(* however alignment cuts it into widths and its size into descriptors,    *)
(* unless a chain was made for a multiple of what a descriptor takes.      *)
THEOREM CopiesWhole == Spec => []CopyIsWhole
<1>1. IInv => CopyIsWhole
  BY DEF IInv
<1> QED BY <1>1, InitInvariant, StepInvariant, PTL DEF Spec

(* nu_pdma_memcpy makes no request that nu_pdma_desc_setup refuses, so its *)
(* caller is left waiting only for want of descriptors.                    *)
THEOREM NeverRefused == Spec => []CopyIsNeverRefused
<1>1. IInv => CopyIsNeverRefused
  BY DEF IInv
<1> QED BY <1>1, InitInvariant, StepInvariant, PTL DEF Spec

(* The chain the engine is started on has a descriptor for every item, and *)
(* each descriptor goes on where the one before it ends.                   *)
THEOREM ChainsCover == Spec => []ChainCoversRequest
<1>1. IInv => ChainCoversRequest
  <2> SUFFICES ASSUME IInv, pc = "run" PROVE ChainCoversRequest
    BY DEF ChainCoversRequest
  <2>1. chain # <<>>
    BY Running
  <2> QED BY <2>1 DEF IInv, ChainCoversRequest, RunOK, JoinOK
<1> QED BY <1>1, InitInvariant, StepInvariant, PTL DEF Spec

(* A transfer that a bus error cut short is not reported as whole; of one  *)
(* descriptor, what was moved is reported.                                 *)
THEOREM AnswersTellAbort == Spec => []AnswerTellsAbort
<1>1. IInv => AnswerTellsAbort
  BY DEF IInv
<1> QED BY <1>1, InitInvariant, StepInvariant, PTL DEF Spec

=============================================================================
