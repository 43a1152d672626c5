---------------------------- MODULE PdmaSgTables ----------------------------
(***************************************************************************)
(* The scatter-gather descriptors of drv_pdma.c: the pool of tokens, the   *)
(* tables that drivers keep for good (nu_pdma_sgtbls_allocate), and the    *)
(* chains that nu_pdma_transfer builds for a transfer too long for one     *)
(* descriptor (_nu_pdma_transfer_chain), with every way they can fail.     *)
(*                                                                         *)
(* Each channel belongs to one driver, whose thread makes one transfer at  *)
(* a time; the threads interleave, and only nu_pdma_sgtbls_allocate and    *)
(* nu_pdma_sgtbls_free lock the interrupts.                                *)
(***************************************************************************)
EXTENDS Integers, Sequences, FiniteSets

CONSTANTS
  Chans,        (* channels whose driver makes long transfers               *)
  Users,        (* drivers that hold descriptors of their own               *)
  UserNum,      (* how many descriptors each of them asks for               *)
  PoolSize,     (* NU_PDMA_SGTBL_POOL_SIZE                                  *)
  MaxTx,        (* NU_PDMA_MAX_TXCNT: items one descriptor can count        *)
  Counts,       (* lengths of the long transfers, in items                  *)
  HeapFails,    (* may rt_malloc_align return RT_NULL?                      *)
  HeapWords,    (* what a word of fresh heap memory may hold                *)
  FreeAfterUse  (* does a driver free a channel that has made a chain?      *)

Tokens == 0 .. PoolSize - 1
Null   == -1          \* RT_NULL in a table of descriptors
Junk   == PoolSize    \* a word that is no address in the pool

ASSUME ConstantsOK ==
  /\ PoolSize \in Nat \ {0}
  /\ MaxTx \in Nat \ {0}
  /\ Counts \subseteq {n \in Nat : n > MaxTx}
  /\ UserNum \in [Users -> Nat \ {0}]
  /\ Chans \cap Users = {}
  /\ HeapFails \in BOOLEAN
  /\ HeapWords \subseteq Tokens \cup {Null, Junk}
  /\ FreeAfterUse \in BOOLEAN

VARIABLES
  pc,       \* where each channel's driver is in _nu_pdma_transfer_chain
  count,    \* u32TransferCnt of the transfer under way
  wanted,   \* m_u32WantedSGTblNum of each channel
  table,    \* m_ppsSgtbl of each channel: the array, or <<>> for RT_NULL
  token,    \* m_u32SGTblToken: the tokens whose bit is set, the free ones
  own,      \* the descriptors each user holds, <<>> when it has none
  engine,   \* the chain the engine follows on each channel, <<>> at rest
  trap,     \* "none", or what stopped the system
  hurried,  \* history: channels being programmed while the engine runs them
  strayed   \* history: words of a fresh table gave back what others held

vars == <<pc, count, wanted, table, token, own, engine, trap, hurried, strayed>>

RangeOf(s) == {s[i] : i \in DOMAIN s}

(* The descriptors a table holds; and, a mutant of it, all of its words.   *)
HeldUnchecked(s) == RangeOf(s)
Held(s) == RangeOf(s) \cap Tokens

Init ==
  /\ pc = [c \in Chans |-> "rest"]
  /\ count = [c \in Chans |-> 0]
  /\ wanted = [c \in Chans |-> 0]
  /\ table = [c \in Chans |-> <<>>]
  /\ token = Tokens
  /\ own = [u \in Users |-> <<>>]
  /\ engine = [c \in Chans |-> <<>>]
  /\ trap = "none"
  /\ hurried = {}
  /\ strayed = FALSE

(* The driver of c runs at `l`; nothing runs after a failed assertion.     *)
At(c, l) == trap = "none" /\ pc[c] = l
Goto(c, l) == pc' = [pc EXCEPT ![c] = l]

Wanted(n) == n \div MaxTx + 1

-----------------------------------------------------------------------------
(* The token pool                                                          *)

(* nu_pdma_sgtbls_token_allocate, num times: the lowest free tokens first. *)
Lowest(f, S) ==
  /\ \A i, j \in DOMAIN f : i < j => f[i] < f[j]
  /\ \A k \in S : k \in RangeOf(f) \/ \A i \in DOMAIN f : f[i] < k

(* nu_pdma_sgtbls_allocate runs dry: what it took goes back, the entries   *)
(* it reached are RT_NULL, and the rest of the array is as it was.         *)
RanDry(s, S) ==
  [i \in DOMAIN s |-> IF i <= Cardinality(S) + 1 THEN Null ELSE s[i]]

(* The array a holder's descriptors are in. A table whose words are still  *)
(* those of the heap is none, though they may look like descriptors.       *)
Array(h) == IF h \notin Chans THEN own[h]
            ELSE IF pc[h] \in {"allocate", "dry"} THEN <<>> ELSE table[h]

(* nu_pdma_sgtbls_free asserts the address of each entry that is not NULL. *)
FreeTraps(s) == RangeOf(s) \subseteq Tokens \cup {Null}

-----------------------------------------------------------------------------
(* nu_pdma_transfer of more than MaxTx items: _nu_pdma_transfer_chain      *)

(* A chain of the same number of descriptors is used again as it stands,   *)
(* and nothing asks whether the engine is still following it.              *)
Transfer(c, n) ==
  /\ At(c, "rest")
  /\ count' = [count EXCEPT ![c] = n]
  /\ Goto(c, IF wanted[c] = Wanted(n) THEN "setup"
             ELSE IF wanted[c] > 0 THEN "drop" ELSE "malloc")
  /\ hurried' = IF engine[c] # <<>> THEN hurried \cup {c} ELSE hurried
  /\ UNCHANGED <<wanted, table, token, own, engine, trap, strayed>>

(* Mutant of Drop: a table of another size is forgotten, not freed.        *)
DropUnfreed(c) ==
  /\ At(c, "drop")
  /\ table' = [table EXCEPT ![c] = <<>>]
  /\ wanted' = [wanted EXCEPT ![c] = 0]
  /\ Goto(c, "malloc")
  /\ UNCHANGED <<count, token, own, engine, trap, hurried, strayed>>

(* nu_pdma_sgtbls_free asserts the table before it looks at an entry.      *)
Drop(c) ==
  /\ At(c, "drop")
  /\ \/ /\ table[c] # <<>>
        /\ FreeTraps(table[c])
        /\ token' = token \cup Held(table[c])
        /\ table' = [table EXCEPT ![c] = <<>>]
        /\ wanted' = [wanted EXCEPT ![c] = 0]
        /\ Goto(c, "malloc")
        /\ UNCHANGED trap
     \/ /\ table[c] = <<>> \/ ~FreeTraps(table[c])
        /\ trap' = "assert"
        /\ UNCHANGED <<pc, wanted, table, token>>
  /\ UNCHANGED <<count, own, engine, hurried, strayed>>

(* The number is stored before the array is there, and stays when the heap *)
(* has no room: the exit path then finds no table to free.                 *)
Malloc(c) ==
  /\ At(c, "malloc")
  /\ wanted' = [wanted EXCEPT ![c] = Wanted(count[c])]
  /\ \/ /\ \E words \in [1 .. Wanted(count[c]) -> HeapWords] :
             table' = [table EXCEPT ![c] = words]
        /\ Goto(c, "allocate")
     \/ /\ HeapFails
        /\ Goto(c, "rest")
        /\ UNCHANGED table
  /\ UNCHANGED <<count, token, own, engine, trap, hurried, strayed>>

(* Mutant of Allocate: the bits of the tokens taken stay set.              *)
AllocateUnmarked(c) ==
  /\ At(c, "allocate")
  /\ \E f \in [1 .. wanted[c] -> token] :
       /\ Lowest(f, token)
       /\ table' = [table EXCEPT ![c] = f]
  /\ Goto(c, "setup")
  /\ UNCHANGED <<count, wanted, token, own, engine, trap, hurried, strayed>>

Allocate(c) ==
  /\ At(c, "allocate")
  /\ \/ \E f \in [1 .. wanted[c] -> token] :
          /\ Lowest(f, token)
          /\ table' = [table EXCEPT ![c] = f]
          /\ token' = token \ RangeOf(f)
          /\ Goto(c, "setup")
     \/ /\ Cardinality(token) < wanted[c]
        /\ table' = [table EXCEPT ![c] = RanDry(@, token)]
        /\ Goto(c, "dry")
        /\ UNCHANGED token
  /\ UNCHANGED <<count, wanted, own, engine, trap, hurried, strayed>>

(* nu_pdma_desc_setup for each entry, which may refuse the data width or   *)
(* an address, then _nu_pdma_transfer: the engine follows the chain.       *)
Setup(c) ==
  /\ At(c, "setup")
  /\ \/ /\ table[c] # <<>>
        /\ engine' = [engine EXCEPT ![c] = table[c]]
        /\ hurried' = hurried \ {c}
        /\ Goto(c, "rest")
        /\ UNCHANGED trap
     \/ /\ table[c] # <<>>
        /\ Goto(c, "exit")
        /\ UNCHANGED <<engine, trap, hurried>>
     \/ /\ table[c] = <<>>       \* the words at address 0 taken for a table
        /\ trap' = "null"
        /\ UNCHANGED <<pc, engine, hurried>>
  /\ UNCHANGED <<count, wanted, table, token, own, strayed>>

(* Mutant of Exit: the descriptors are freed, and the table stays.         *)
ExitKeepsTable(c) ==
  /\ At(c, "exit")
  /\ token' = token \cup Held(table[c])
  /\ table' = [table EXCEPT ![c] = [k \in DOMAIN @ |-> Null]]
  /\ Goto(c, "rest")
  /\ UNCHANGED <<count, wanted, own, engine, trap, hurried, strayed>>

(* The exit label: _nu_pdma_sgtbls_free of all the entries that were       *)
(* wanted, those that were never allocated included. A word of the heap    *)
(* that reads as the address of a descriptor gives back that descriptor,   *)
(* whoever holds it.                                                       *)
Exit(c) ==
  /\ At(c, "dry") \/ At(c, "exit")
  /\ \/ /\ FreeTraps(table[c])
        /\ token' = token \cup Held(table[c])
        /\ strayed' = (strayed \/ ~ Held(table[c]) \subseteq token \cup Held(Array(c)))
        /\ table' = [table EXCEPT ![c] = <<>>]
        /\ wanted' = [wanted EXCEPT ![c] = 0]
        /\ Goto(c, "rest")
        /\ UNCHANGED trap
     \/ /\ ~FreeTraps(table[c])
        /\ trap' = "assert"
        /\ UNCHANGED <<pc, wanted, table, token, strayed>>
  /\ UNCHANGED <<count, own, engine, hurried>>

-----------------------------------------------------------------------------
(* The engine, the channel's life and the other holders                    *)

(* The chain ends, or its driver resets the channel                        *)
(* (nu_pdma_channel_terminate); the table is kept for the next transfer.   *)
EngineStops(c) ==
  /\ engine[c] # <<>>
  /\ engine' = [engine EXCEPT ![c] = <<>>]
  /\ hurried' = hurried \ {c}
  /\ UNCHANGED <<pc, count, wanted, table, token, own, trap, strayed>>

(* nu_pdma_channel_free, then nu_pdma_channel_allocate of the same channel *)
(* which clears the channel's record and resets the engine. drv_spi.c      *)
(* frees a channel only before its first transfer, when its bus has no     *)
(* second one.                                                             *)
Reallocate(c) ==
  /\ At(c, "rest")
  /\ FreeAfterUse \/ wanted[c] = 0
  /\ table' = [table EXCEPT ![c] = <<>>]
  /\ wanted' = [wanted EXCEPT ![c] = 0]
  /\ count' = [count EXCEPT ![c] = 0]
  /\ engine' = [engine EXCEPT ![c] = <<>>]
  /\ hurried' = hurried \ {c}
  /\ UNCHANGED <<pc, token, own, trap, strayed>>

(* nu_pdma_sgtbls_allocate into a driver's own array, as drv_uart.c,       *)
(* drv_i2s.c and drv_spii2s.c do; too few tokens leave things as they are. *)
UserAllocate(u) ==
  /\ trap = "none"
  /\ own[u] = <<>>
  /\ \E f \in [1 .. UserNum[u] -> token] :
       /\ Lowest(f, token)
       /\ own' = [own EXCEPT ![u] = f]
       /\ token' = token \ RangeOf(f)
  /\ UNCHANGED <<pc, count, wanted, table, engine, trap, hurried, strayed>>

(* Mutant of UserFree: the driver frees one descriptor, whatever it holds. *)
UserFreeOne(u) ==
  /\ trap = "none"
  /\ own[u] # <<>>
  /\ token' = token \cup {own[u][1]}
  /\ own' = [own EXCEPT ![u] = <<>>]
  /\ UNCHANGED <<pc, count, wanted, table, engine, trap, hurried, strayed>>

UserFree(u) ==
  /\ trap = "none"
  /\ own[u] # <<>>
  /\ token' = token \cup Held(own[u])
  /\ own' = [own EXCEPT ![u] = <<>>]
  /\ UNCHANGED <<pc, count, wanted, table, engine, trap, hurried, strayed>>

Next ==
  \/ \E c \in Chans :
       \/ \E n \in Counts : Transfer(c, n)
       \/ Drop(c) \/ Malloc(c) \/ Allocate(c) \/ Setup(c) \/ Exit(c)
       \/ EngineStops(c) \/ Reallocate(c)
  \/ \E u \in Users : UserAllocate(u) \/ UserFree(u)

Spec == Init /\ [][Next]_vars

-----------------------------------------------------------------------------
(* What the pool promises                                                  *)

Words == Tokens \cup {Null, Junk}

(* Every variable has its type.                                            *)
TypeOK ==
  /\ pc \in [Chans -> {"rest", "drop", "malloc", "allocate", "setup", "dry", "exit"}]
  /\ count \in [Chans -> Nat]
  /\ wanted \in [Chans -> Nat]
  /\ table \in [Chans -> Seq(Words)]
  /\ token \in SUBSET Tokens
  /\ own \in [Users -> Seq(Tokens)]
  /\ engine \in [Chans -> Seq(Words)]
  /\ trap \in {"none", "assert", "null"}
  /\ hurried \subseteq Chans
  /\ strayed \in BOOLEAN

Holders == Chans \cup Users

(* Where a descriptor can be: an entry of a channel's table or of a user's *)
Places == UNION {{<<h, i>> : i \in DOMAIN Array(h)} : h \in Holders}

(* Every descriptor is free or in one place, never in two: no two transfers*)
(* write to the same descriptor, and none is lost to the pool for good,    *)
(* until a failed allocation has given back what a word of the heap named. *)
DescriptorsAccounted ==
  \/ strayed
  \/ /\ Tokens = token \cup UNION {Held(Array(h)) : h \in Holders}
     /\ \A p, q \in Places :
          LET k == Array(p[1])[p[2]] IN
          k \in Tokens => /\ k \notin token
                          /\ k = Array(q[1])[q[2]] => p = q

(* The engine runs over descriptors its own channel holds: whatever the    *)
(* other holders allocate, free or fail at, none of a running chain is     *)
(* free or in another table, unless the channel's own driver starts anew   *)
(* before the chain has ended, or a heap word has strayed.                 *)
RunningChainIsHeld ==
  strayed \/ \A c \in Chans \ hurried : \A k \in RangeOf(engine[c]) :
    k \in Tokens \ token /\ \A h \in Holders : k \in Held(Array(h)) <=> h = c

(* A table kept for the next transfer of its size is whole: as many        *)
(* descriptors as m_u32WantedSGTblNum says, every one of them allocated.   *)
(* Whatever failed on the way, the shortcut of _nu_pdma_transfer_chain     *)
(* never programs a table that is half there.                              *)
KeptTableIsWhole ==
  \A c \in Chans : pc[c] \in {"rest", "setup"} =>
    \/ table[c] = <<>>
    \/ Len(table[c]) = wanted[c] /\ RangeOf(table[c]) \subseteq Tokens

(* The assertions on the tables hold (drv_pdma.c:730, 731 and 741).        *)
AssertionsHold == trap # "assert"

(* Until a heap word strays, each step of a driver is a step of the pool:  *)
(* a whole table is taken or given back at once, by one holder, though the *)
(* chain is built and torn down piece by piece.                            *)
Pool == INSTANCE DescriptorPool WITH
  Descriptors <- Tokens, Clients <- Holders, free <- token,
  hold <- [h \in Holders |-> Held(Array(h))]

PoolUntilStray == Pool!Init /\ [][strayed' \/ Pool!Next]_(Pool!vars)
=============================================================================
