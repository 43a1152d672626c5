----------------------------- MODULE PdmaMemcpy -----------------------------
(***************************************************************************)
(* One call of nu_pdma_memcpy or nu_pdma_mempush of drv_pdma.c, down to    *)
(* the descriptors the engine reads: how a copy is cut into requests of    *)
(* words, half-words and bytes, how a request becomes one descriptor or a  *)
(* chain of them, how far the engine gets, and what the caller is told.    *)
(* Who else uses the channels at the same time is PdmaMemfun.tla's matter. *)
(*                                                                         *)
(* Addresses count from an address that is a multiple of 4. A byte of the  *)
(* buffer is known by its distance from the buffer's start.                *)
(***************************************************************************)
EXTENDS Integers, Sequences, FiniteSets

CONSTANTS
  MaxTx,      (* NU_PDMA_MAX_TXCNT, 2^16 items: TXCNT has 16 bits           *)
  Counts,     (* counts asked for: bytes of a copy, items of a push         *)
  Addresses,  (* where buffers start                                        *)
  Faults      (* what may go wrong: "abort", "descriptors" (none left)      *)

ASSUME ConstantsOK ==
  /\ MaxTx \in Nat \ {0}
  /\ Counts \subseteq Nat
  /\ Addresses \subseteq Nat
  /\ Faults \subseteq {"abort", "descriptors"}

VARIABLES
  pc,         \* where the call is
  call,       \* what was called: operation, addresses, count, data width
  i,          \* nu_pdma_memcpy: the width it tries, in bytes
  offset,     \* nu_pdma_memcpy: u32Offset, the bytes it is done with
  req,        \* nu_pdma_memfun: first byte, width and count of the request
  chain,      \* the descriptors set up: first byte, count, TXCNT
  left,       \* u32TransferCnt in the chain loop: items without descriptor
  cur,        \* engine: the descriptor it works on
  moved,      \* engine: items moved for this request
  touched,    \* engine: bytes of the buffer moved by this call
  bytes,      \* engine: how many bytes that was, repetitions counted
  rest,       \* engine: items of the descriptor that an abort left undone
  ret,        \* what the call returns
  fault,      \* history: what went wrong
  multiple    \* history: a chain was made for a multiple of MaxTx items

vars == <<pc, call, i, offset, req, chain, left, cur, moved, touched, bytes,
          rest, ret, fault, multiple>>
planVars   == <<call, i, offset>>
chainVars  == <<req, chain, left, multiple>>
engineVars == <<cur, moved, touched, bytes, rest>>

Widths == {1, 2, 4}
Calls == [op : {"copy", "push"}, src : Addresses, dst : Addresses,
          count : Counts, width : Widths]

Init ==
  /\ call \in {c \in Calls : c.op = "copy" => c.width = 1}
  /\ pc = IF call.op = "copy" THEN "split" ELSE "request"
  /\ i = 4
  /\ offset = 0
  /\ req = [at |-> 0, width |-> call.width, cnt |-> call.count]
  /\ chain = <<>>
  /\ left = 0
  /\ cur = 0
  /\ moved = 0
  /\ touched = {}
  /\ bytes = 0
  /\ rest = 0
  /\ ret = -1
  /\ fault = "none"
  /\ multiple = FALSE

-----------------------------------------------------------------------------
(* nu_pdma_memcpy                                                          *)

Remaining == call.count - offset

(* Mutant of Fits: only the source is looked at.                           *)
FitsSource(w) == (call.src + offset) % w = 0 /\ Remaining >= w

Fits(w) ==
  /\ (call.src + offset) % w = (call.dst + offset) % w
  /\ (call.src + offset) % w = 0
  /\ Remaining >= w

(* One turn of the loop that fits: as many items of i bytes as remain.     *)
Split ==
  /\ pc = "split" /\ i > 0 /\ Remaining > 0
  /\ Fits(i)
  /\ req' = [at |-> offset, width |-> i, cnt |-> Remaining \div i]
  /\ pc' = "request"
  /\ UNCHANGED <<planVars, chain, left, multiple, engineVars, ret, fault>>

Narrow ==
  /\ pc = "split" /\ i > 0 /\ Remaining > 0
  /\ ~Fits(i)
  /\ i' = i \div 2
  /\ UNCHANGED <<pc, call, offset, chainVars, engineVars, ret, fault>>

(* dest when all is copied, written as the count, and else NULL, as -2.    *)
Null == -2
Finish ==
  /\ pc = "split" /\ (i = 0 \/ Remaining = 0)
  /\ ret' = IF offset = call.count THEN call.count ELSE Null
  /\ pc' = "returned"
  /\ UNCHANGED <<planVars, chainVars, engineVars, fault>>

-----------------------------------------------------------------------------
(* nu_pdma_transfer and _nu_pdma_transfer_chain                            *)

(* nu_pdma_desc_setup refuses an address that is off the data width.       *)
Source(at) == call.src + at
Dest(at) == IF call.op = "copy" THEN call.dst + at ELSE call.dst
Aligned(at) == Source(at) % req.width = 0 /\ Dest(at) % req.width = 0

(* The count goes to the TXCNT field less one, modulo the field's width.   *)
Desc(at, n) == [at |-> at, cnt |-> n, txcnt |-> (n - 1) % MaxTx]

(* The number of descriptors of a chain; and a mutant of it, one less for  *)
(* what does not fill the last one.                                        *)
WantedWhole(n) == n \div MaxTx
Wanted(n) == n \div MaxTx + 1

(* nu_pdma_memfun drops what nu_pdma_transfer returns, and waits for the   *)
(* end of a transfer that was never started.                               *)
Hang(why) == pc' = "hung" /\ fault' = why

Refuse ==
  /\ pc = "request"
  /\ \/ req.cnt = 0 /\ Hang("count")
     \/ req.cnt \in 1 .. MaxTx /\ ~Aligned(req.at) /\ Hang("align")
     \/ req.cnt > MaxTx /\ "descriptors" \in Faults /\ Hang("descriptors")
  /\ UNCHANGED <<planVars, chainVars, engineVars, ret>>

Single ==
  /\ pc = "request" /\ req.cnt \in 1 .. MaxTx /\ Aligned(req.at)
  /\ chain' = <<Desc(req.at, req.cnt)>>
  /\ left' = 0
  /\ pc' = "run" /\ cur' = 1 /\ moved' = 0 /\ rest' = 0
  /\ UNCHANGED <<planVars, req, multiple, touched, bytes, ret, fault>>

Chained ==
  /\ pc = "request" /\ req.cnt > MaxTx
  /\ chain' = <<>>
  /\ left' = req.cnt
  /\ multiple' = (multiple \/ req.cnt % MaxTx = 0)
  /\ pc' = "link"
  /\ UNCHANGED <<planVars, req, engineVars, ret, fault>>

(* Mutant of Take: a descriptor takes all that is left.                    *)
TakeAll(n) == n

(* One turn of the chain loop.                                             *)
Take(n) == IF n > MaxTx THEN MaxTx ELSE n

(* Mutant of LinkAt: the offset advances by items where bytes are meant.   *)
LinkAtItems == req.at + (req.cnt - left)
LinkAt == req.at + (req.cnt - left) * req.width

Link ==
  /\ pc = "link" /\ Len(chain) < Wanted(req.cnt)
  /\ \/ /\ Aligned(LinkAt)
        /\ chain' = Append(chain, Desc(LinkAt, Take(left)))
        /\ left' = left - Take(left)
        /\ UNCHANGED <<pc, fault>>
     \/ /\ ~Aligned(LinkAt)
        /\ Hang("align")
        /\ UNCHANGED <<chain, left>>
  /\ UNCHANGED <<planVars, req, multiple, engineVars, ret>>

Launch ==
  /\ pc = "link" /\ Len(chain) = Wanted(req.cnt)
  /\ pc' = "run" /\ cur' = 1 /\ moved' = 0 /\ rest' = 0
  /\ UNCHANGED <<planVars, chainVars, touched, bytes, ret, fault>>

-----------------------------------------------------------------------------
(* The engine                                                              *)

Items(d) == d.txcnt + 1
Span(at, n) == at .. at + n * req.width - 1

Move(n) ==
  /\ moved' = moved + n
  /\ touched' = touched \cup Span(chain[cur].at, n)
  /\ bytes' = bytes + n * req.width

(* The whole of a descriptor; the last one raises the interrupt.           *)
MoveAll ==
  /\ pc = "run"
  /\ Move(Items(chain[cur]))
  /\ \/ /\ cur < Len(chain)
        /\ cur' = cur + 1
        /\ UNCHANGED pc
     \/ /\ cur = Len(chain)
        /\ pc' = "account"
        /\ UNCHANGED cur
  /\ UNCHANGED <<planVars, chainVars, rest, ret, fault>>

(* A bus error in the middle of a descriptor: TXCNT keeps what is left.    *)
Abort ==
  /\ pc = "run" /\ "abort" \in Faults
  /\ \E n \in 0 .. Items(chain[cur]) - 1 :
       /\ Move(n)
       /\ rest' = Items(chain[cur]) - n
  /\ pc' = "account"
  /\ fault' = "abort"
  /\ UNCHANGED <<planVars, chainVars, cur, ret>>

-----------------------------------------------------------------------------
(* What nu_pdma_memfun makes of it, and what its caller does next          *)

(* Mutant of Result: TXCNT taken for the number of items left.             *)
ResultOffByOne == IF fault = "abort" THEN req.cnt - (rest - 1) ELSE req.cnt

(* All that was asked for when the transfer is done, else what TXCNT of    *)
(* the channel leaves of it.                                               *)
Result == IF fault = "abort" THEN req.cnt - rest ELSE req.cnt

PushReturns ==
  /\ pc = "account" /\ call.op = "push"
  /\ ret' = Result
  /\ pc' = "returned"
  /\ UNCHANGED <<planVars, chainVars, engineVars, fault>>

CopyGoesOn ==
  /\ pc = "account" /\ call.op = "copy" /\ Result = req.cnt
  /\ offset' = offset + req.cnt * i
  /\ i' = i \div 2
  /\ pc' = "split"
  /\ UNCHANGED <<call, chainVars, engineVars, ret, fault>>

CopyGivesUp ==
  /\ pc = "account" /\ call.op = "copy" /\ Result # req.cnt
  /\ ret' = Null
  /\ pc' = "returned"
  /\ UNCHANGED <<planVars, chainVars, engineVars, fault>>

(* The caller has its answer, or waits for ever.                           *)
Over == pc \in {"returned", "hung"} /\ UNCHANGED vars

Next ==
  \/ Split \/ Narrow \/ Finish
  \/ Refuse \/ Single \/ Chained \/ Link \/ Launch
  \/ MoveAll \/ Abort
  \/ PushReturns \/ CopyGoesOn \/ CopyGivesUp
  \/ Over

Spec == Init /\ [][Next]_vars

-----------------------------------------------------------------------------
(* What a caller relies on                                                 *)

(* Every variable has its type.                                            *)
TypeOK ==
  /\ pc \in {"split", "request", "link", "run", "account", "returned", "hung"}
  /\ call \in Calls
  /\ i \in {0, 1, 2, 4}
  /\ offset \in Nat /\ offset <= call.count
  /\ req \in [at : Nat, width : Widths, cnt : Nat]
  /\ chain \in Seq([at : Nat, cnt : 0 .. MaxTx, txcnt : 0 .. MaxTx - 1])
  /\ left \in Nat
  /\ cur \in Nat
  /\ moved \in Nat
  /\ touched \in SUBSET Nat
  /\ bytes \in Nat
  /\ rest \in Nat
  /\ ret \in Int
  /\ fault \in {"none", "abort", "count", "align", "descriptors"}
  /\ multiple \in BOOLEAN

(* nu_pdma_memcpy returns dest only when the engine moved every byte of    *)
(* the buffer once and none beyond it, however alignment and size cut the  *)
(* copy into requests and the requests into descriptors; a chain for a     *)
(* multiple of MaxTx items is left out (see MovesRequiredNumber).          *)
CopyIsWhole ==
  (pc = "returned" /\ call.op = "copy" /\ ret # Null /\ ~multiple) =>
    touched = 0 .. call.count - 1 /\ bytes = call.count

(* The requests of a copy are always of an aligned address and at least    *)
(* one item, so that nu_pdma_desc_setup never refuses one: a refusal would *)
(* leave the caller waiting for ever. Only a lack of descriptors can.      *)
CopyIsNeverRefused ==
  (pc = "hung" /\ call.op = "copy") => fault = "descriptors"

(* The chain the engine is given covers the request: no item is left       *)
(* without a descriptor, and each starts where the one before it ends.     *)
ChainCoversRequest ==
  pc = "run" =>
    /\ left = 0
    /\ chain[1].at = req.at
    /\ \A k \in 1 .. Len(chain) - 1 :
         chain[k + 1].at = chain[k].at + chain[k].cnt * req.width

(* A transfer that a bus error cut short is never reported as whole, and   *)
(* what is reported of a request of one descriptor is what was moved. (Of  *)
(* a chain the report counts the descriptors not reached as moved.)        *)
AnswerTellsAbort ==
  pc = "returned" =>
    /\ call.op = "copy" => (ret = Null <=> fault = "abort")
    /\ call.op = "push" /\ Len(chain) = 1 => ret = moved
    /\ call.op = "push" /\ fault = "abort" => ret < call.count

(* pdma_reg.h:86 says of a descriptor: "The TXCNT represents the required  *)
(* number of PDMA transfer, the real transfer count is (TXCNT + 1)". So a  *)
(* request that ends without an error has moved the number it was made     *)
(* for, what nu_pdma_memfun reports of it (drv_pdma.c:1212-1220).          *)
MovesRequiredNumber ==
  (pc = "account" /\ fault = "none") => moved = req.cnt
=============================================================================
