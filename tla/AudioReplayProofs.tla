-------------------------- MODULE AudioReplayProofs -------------------------
(***************************************************************************)
(* What holds of AudioReplay for every size of frames, blocks and writes,  *)
(* every number of blocks and every number of units written.               *)
(***************************************************************************)
EXTENDS AudioReplay, FiniteSetTheorems, SequenceTheorems, WellFoundedInduction,
        TLAPS

-----------------------------------------------------------------------------
(***************************************************************************)
(* The inductive invariant. The units written are those copied to the DMA  *)
(* buffer, those in the queue and those in the block, in this order; all   *)
(* items but the last of a stop are whole frames, so that a frame is never *)
(* made of two items; and the buffer holds, from where the engine is, the  *)
(* units that were copied and not played.                                  *)
(***************************************************************************)

(* Half of the buffer, that a place is in, and the other one.              *)
Half(a) == IF a < Frame THEN 0 ELSE Frame
Other(a) == IF a < Frame THEN Frame ELSE 0

Whole(n) == n % Frame = 0

Units == 1 .. MaxUnits

Stopping == pc \in {"event", "init", "wait", "clear", "halt"}

(* Only a stop puts an item into the queue that is no whole number of      *)
(* frames, and nothing behind it.                                          *)
ItemsOK ==
  \A k \in 1 .. Len(queue) :
    /\ Len(queue[k]) \in 1 .. Block
    /\ Whole(Len(queue[k])) \/ (Stopping /\ k = Len(queue))

(* Where the application is tells how far its block is.                    *)
BlockOK ==
  /\ pc \in {"idle", "fill", "flush"} => Len(block) < Block
  /\ pc = "push" => Len(block) = Block
  /\ Stopping \/ (pc = "idle" /\ ~activated) => block = <<>>
  /\ pc = "flush" \/ Stopping => activated
  /\ written + todo <= MaxUnits

(* Every block is free, begun or in the queue.                             *)
QueueOK ==
  /\ free + Len(queue) + (IF block = <<>> THEN 0 ELSE 1) = Blocks
  /\ ItemsOK

(* Units come in the order they were written.                              *)
StreamOK ==
  /\ copied + Len(Stream) + Len(block) = written
  /\ \A i \in 1 .. Len(Stream) : Stream[i] = copied + i
  /\ \A i \in 1 .. Len(block) : block[i] = copied + Len(Stream) + i

(* The stop is acknowledged: nothing is left to play but what plays.       *)
Quiet == pc \in {"clear", "halt"} \/ (pc = "wait" /\ cmp)

(* A stop is acknowledged, and a flag is up, only while the engine runs.   *)
EngineOK == Quiet \/ td => running

PosOK == pos \in {0, Frame} /\ (Quiet => queue = <<>>)

(* From place a to place z a buffer has the n units after the one given,   *)
(* and silence behind them.                                                *)
Run(buf, a, z, n, unit) ==
  /\ a + n <= z
  /\ \A k \in a .. z - 1 : buf[k] = IF k < a + n THEN unit + 1 + (k - a) ELSE 0

(* What is left in the half that plays goes on where the engine is, and in *)
(* the other half, if it was filled, where that ends.                      *)
BufferOK ==
  running /\ ~slipped =>
    \E a, b \in 0 .. Frame :
      /\ Run(buffer, at, Half(at) + Frame, a, last)
      /\ td => b = 0
      /\ ~td => Run(buffer, Other(at), Other(at) + Frame, b, last + a)
      /\ Quiet => b = 0
      /\ copied = last + a + b

IInv ==
  /\ TypeOK /\ BlockOK /\ QueueOK /\ StreamOK /\ PosOK /\ EngineOK
  /\ PhaseKept /\ BufferOK
  /\ inOrder /\ cut <= Frame

-----------------------------------------------------------------------------
(* Sequences of sequences.                                                 *)

(* A set of naturals has a least one.                                      *)
LEMMA Least ==
  ASSUME NEW T \in SUBSET Nat, T # {}
  PROVE  \E a \in T : \A b \in T : a <= b
<1>1. PICK a \in T : \A b \in T : ~(<<b, a>> \in OpToRel(<, Nat))
  BY WFMin, NatLessThanWellFounded
<1>2. ASSUME NEW b \in T PROVE a <= b
  <2>1. a \in Nat /\ b \in Nat
    OBVIOUS
  <2>2. ~(b < a)
    BY <1>1, <2>1 DEF OpToRel
  <2> QED BY <2>1, <2>2
<1> QED BY <1>1, <1>2

(* f holds what the first n items of s come to, one after the other.       *)
Flat(s, n, f) == f = [i \in 1 .. n |-> IF i = 1 THEN s[i] ELSE f[i-1] \o s[i]]

LEMMA FlatEmpty == FlattenSeq(<<>>) = <<>>
BY EmptySeq DEF FlattenSeq

LEMMA FlatChoice ==
  ASSUME NEW s, Len(s) # 0
  PROVE  FlattenSeq(s) = (CHOOSE f : Flat(s, Len(s), f))[Len(s)]
BY DEF FlattenSeq, Flat

LEMMA FlatValues ==
  ASSUME NEW s, NEW n \in Nat, NEW f, Flat(s, n, f)
  PROVE  \A i \in 1 .. n : f[i] = IF i = 1 THEN s[i] ELSE f[i-1] \o s[i]
BY Zenon DEF Flat

(* One more item.                                                          *)
LEMMA FlatExtends ==
  ASSUME NEW s, NEW n \in Nat, NEW f, Flat(s, n, f)
  PROVE  \E g : Flat(s, n + 1, g)
<1> DEFINE e == IF n = 0 THEN s[1] ELSE f[n] \o s[n + 1]
           g == [i \in 1 .. n + 1 |-> IF i = n + 1 THEN e ELSE f[i]]
<1>1. \A i \in 1 .. n : f[i] = IF i = 1 THEN s[i] ELSE f[i-1] \o s[i]
  BY FlatValues
<1>2. ASSUME NEW i \in 1 .. n + 1
      PROVE  g[i] = IF i = 1 THEN s[i] ELSE g[i-1] \o s[i]
  <2>1. CASE i = n + 1 /\ i = 1
    BY <2>1
  <2>2. CASE i = n + 1 /\ i # 1
    <3>1. n # 0 /\ i - 1 = n /\ n \in 1 .. n + 1 /\ n # n + 1
      BY <2>2
    <3>2. g[n] = f[n] /\ g[i] = f[n] \o s[n + 1]
      BY <3>1, <2>2
    <3> QED BY <2>2, <3>1, <3>2
  <2>3. CASE i # n + 1
    <3>1. i \in 1 .. n /\ g[i] = f[i]
      BY <2>3
    <3>2. CASE i = 1
      BY <3>1, <3>2, <1>1
    <3>3. CASE i # 1
      <4>1. i - 1 \in 1 .. n + 1 /\ i - 1 # n + 1
        BY <3>1, <3>3
      <4>2. g[i - 1] = f[i - 1]
        BY <4>1
      <4> QED BY <3>1, <3>3, <4>2, <1>1
    <3> QED BY <3>2, <3>3
  <2> QED BY <2>1, <2>2, <2>3
<1>3. g = [i \in 1 .. n + 1 |-> g[i]]
  OBVIOUS
<1> HIDE DEF g
<1>4. g = [i \in 1 .. n + 1 |-> IF i = 1 THEN s[i] ELSE g[i-1] \o s[i]]
  BY <1>2, <1>3, Zenon
<1> QED BY <1>4 DEF Flat

LEMMA FlatExists ==
  ASSUME NEW s, NEW n \in Nat
  PROVE  \E f : Flat(s, n, f)
<1> DEFINE T == {k \in Nat : ~\E f : Flat(s, k, f)}
<1> SUFFICES ASSUME T # {} PROVE FALSE
  OBVIOUS
<1>1. PICK m \in T : \A b \in T : m <= b
  BY Least
<1>2. m \in Nat /\ ~\E f : Flat(s, m, f)
  OBVIOUS
<1>3. m # 0
  <2>1. Flat(s, 0, [i \in 1 .. 0 |-> 0])
    BY DEF Flat
  <2> QED BY <2>1, <1>2
<1>4. m - 1 \in Nat /\ ~(m <= m - 1) /\ (m - 1) + 1 = m
  BY <1>2, <1>3
<1>5. PICK f : Flat(s, m - 1, f)
  BY <1>4, <1>1
<1>6. \E g : Flat(s, (m - 1) + 1, g)
  BY <1>4, <1>5, FlatExtends
<1> QED BY <1>2, <1>4, <1>6

(* Where the items agree, so does what they come to.                       *)
LEMMA FlatAgrees ==
  ASSUME NEW s, NEW t, NEW n \in Nat, NEW m \in Nat, n <= m,
         NEW f, Flat(s, n, f), NEW g, Flat(t, m, g),
         \A i \in 1 .. n : s[i] = t[i]
  PROVE  \A i \in 1 .. n : f[i] = g[i]
<1> DEFINE T == {k \in 1 .. n : f[k] # g[k]}
<1> SUFFICES ASSUME T # {} PROVE FALSE
  OBVIOUS
<1>0. T \in SUBSET Nat
  OBVIOUS
<1>1. PICK k \in T : \A b \in T : k <= b
  <2> HIDE DEF T
  <2> QED BY ONLY <1>0, T # {}, Least
<1>2. k \in 1 .. n /\ k \in 1 .. m /\ f[k] # g[k] /\ s[k] = t[k]
  OBVIOUS
<1>3. f[k] = IF k = 1 THEN s[k] ELSE f[k-1] \o s[k]
  BY <1>2, FlatValues
<1>4. g[k] = IF k = 1 THEN t[k] ELSE g[k-1] \o t[k]
  BY <1>2, FlatValues
<1>5. CASE k = 1
  BY <1>2, <1>3, <1>4, <1>5
<1>6. CASE k # 1
  <2>1. k - 1 \in 1 .. n /\ ~(k <= k - 1)
    BY <1>2, <1>6
  <2>2. f[k - 1] = g[k - 1]
    BY <2>1, <1>1
  <2> QED BY <1>2, <1>3, <1>4, <1>6, <2>2
<1> QED BY <1>5, <1>6

(* What a sequence of sequences comes to, and what one more adds.          *)
LEMMA FlatIsLast ==
  ASSUME NEW s, Len(s) \in Nat, Len(s) # 0, NEW f, Flat(s, Len(s), f)
  PROVE  FlattenSeq(s) = f[Len(s)]
<1> DEFINE c == CHOOSE h : Flat(s, Len(s), h)
<1>1. Flat(s, Len(s), c)
  OBVIOUS
<1>2. FlattenSeq(s) = c[Len(s)]
  BY FlatChoice
<1> HIDE DEF c
<1>3. c[Len(s)] = f[Len(s)]
  BY <1>1, FlatAgrees
<1> QED BY <1>2, <1>3

LEMMA FlatAppend ==
  ASSUME NEW S, NEW s \in Seq(Seq(S)), NEW e \in Seq(S)
  PROVE  FlattenSeq(Append(s, e)) = FlattenSeq(s) \o e
<1> DEFINE t == Append(s, e)
           n == Len(s)
<1>1. n \in Nat /\ Len(t) = n + 1 /\ t[n + 1] = e /\ \A i \in 1 .. n : t[i] = s[i]
  <2> DEFINE I == Seq(S)
  <2>1. s \in Seq(I) /\ e \in I
    OBVIOUS
  <2> HIDE DEF I
  <2>2. Len(s) \in Nat
    BY <2>1, LenProperties
  <2>3. Len(t) = Len(s) + 1 /\ t[Len(s) + 1] = e /\ \A i \in 1 .. Len(s) : t[i] = s[i]
    BY <2>1, AppendProperties
  <2> QED BY <2>2, <2>3
<1> HIDE DEF t, n
<1>2. PICK g : Flat(t, n + 1, g)
  BY <1>1, FlatExists
<1>3. FlattenSeq(t) = g[n + 1]
  <2>1. Len(t) \in Nat /\ Len(t) # 0 /\ Flat(t, Len(t), g)
    BY <1>1, <1>2
  <2> QED BY <2>1, FlatIsLast, <1>1
<1>4. g[n + 1] = IF n + 1 = 1 THEN t[n + 1] ELSE g[(n + 1) - 1] \o t[n + 1]
  <2>1. n + 1 \in 1 .. n + 1 /\ n + 1 \in Nat
    BY <1>1
  <2> QED BY <2>1, <1>2, FlatValues
<1>5. CASE n = 0
  <2>1. s = <<>>
    BY <1>5, EmptySeq DEF n
  <2>2. FlattenSeq(s) \o e = e
    BY <2>1, FlatEmpty, ConcatEmptySeq
  <2> QED BY <1>1, <1>3, <1>4, <1>5, <2>2 DEF t
<1>6. CASE n # 0
  <2>1. PICK f : Flat(s, n, f)
    BY <1>1, FlatExists
  <2>2. FlattenSeq(s) = f[n]
    BY <1>1, <1>6, <2>1, FlatIsLast DEF n
  <2>3. \A i \in 1 .. n : f[i] = g[i]
    <3>1. n + 1 \in Nat /\ n <= n + 1 /\ \A i \in 1 .. n : s[i] = t[i]
      BY <1>1
    <3>2. n \in Nat /\ Flat(t, n + 1, g) /\ Flat(s, n, f)
      BY <1>1, <1>2, <2>1
    <3> QED BY ONLY <3>1, <3>2, FlatAgrees
  <2>4. f[n] = g[n] /\ (n + 1) - 1 = n /\ n + 1 # 1
    BY <1>1, <1>6, <2>3
  <2> QED BY <1>1, <1>3, <1>4, <2>2, <2>4 DEF t
<1> QED BY <1>5, <1>6

LEMMA FlatType ==
  ASSUME NEW S, NEW s \in Seq(Seq(S))
  PROVE  FlattenSeq(s) \in Seq(S)
<1> DEFINE I == Seq(S)
           T == {n \in Nat : \E r \in Seq(I) : Len(r) = n /\ FlattenSeq(r) \notin I}
<1>1. T = {}
  <2> SUFFICES ASSUME T # {} PROVE FALSE
    OBVIOUS
  <2>0. T \in SUBSET Nat
    OBVIOUS
  <2>1. PICK n \in T : \A b \in T : n <= b
    <3> HIDE DEF T
    <3> QED BY ONLY <2>0, T # {}, Least
  <2>2. PICK r \in Seq(I) : Len(r) = n /\ FlattenSeq(r) \notin I
    OBVIOUS
  <2>3. r # <<>>
    BY <2>2, FlatEmpty, EmptySeq
  <2>4. PICK q \in Seq(I), e \in I : r = Append(q, e)
    <3> HIDE DEF I
    <3> QED BY <2>3, SequenceEmptyOrAppend
  <2>5. Len(q) \in Nat /\ Len(r) = Len(q) + 1
    <3> HIDE DEF I
    <3> QED BY <2>4, LenProperties, AppendProperties
  <2>6. FlattenSeq(q) \in I
    <3>1. ~(n <= Len(q))
      BY <2>2, <2>5
    <3>2. Len(q) \notin T
      BY <3>1, <2>1
    <3> QED BY <3>2, <2>5
  <2>7. FlattenSeq(r) = FlattenSeq(q) \o e
    BY <2>4, FlatAppend
  <2>8. FlattenSeq(q) \o e \in Seq(S)
    BY <2>6, ConcatProperties
  <2> QED BY <2>2, <2>7, <2>8
<1>2. Len(s) \in Nat /\ Len(s) \notin T
  BY <1>1, LenProperties
<1> QED BY <1>2

(* What one item in front adds.                                            *)
LEMMA FlatCons ==
  ASSUME NEW S, NEW s \in Seq(Seq(S)), NEW e \in Seq(S)
  PROVE  FlattenSeq(<<e>> \o s) = e \o FlattenSeq(s)
<1> DEFINE I == Seq(S)
           T == {n \in Nat : \E r \in Seq(I) :
                   Len(r) = n /\ FlattenSeq(<<e>> \o r) # e \o FlattenSeq(r)}
<1>1. T = {}
  <2> SUFFICES ASSUME T # {} PROVE FALSE
    OBVIOUS
  <2>0. T \in SUBSET Nat
    OBVIOUS
  <2>1. PICK n \in T : \A b \in T : n <= b
    <3> HIDE DEF T
    <3> QED BY ONLY <2>0, T # {}, Least
  <2>2. PICK r \in Seq(I) : Len(r) = n /\ FlattenSeq(<<e>> \o r) # e \o FlattenSeq(r)
    OBVIOUS
  <2>3. <<e>> \in Seq(I) /\ <<>> \in Seq(I)
    OBVIOUS
  <2>4. CASE r = <<>>
    <3>1. <<e>> \o r = Append(<<>>, e)
      BY <2>4
    <3>2. FlattenSeq(Append(<<>>, e)) = FlattenSeq(<<>>) \o e
      BY <2>3, FlatAppend
    <3>3. FlattenSeq(<<>>) \o e = e /\ e \o FlattenSeq(<<>>) = e
      BY FlatEmpty, ConcatEmptySeq
    <3> QED BY <2>2, <2>4, <3>1, <3>2, <3>3
  <2>5. CASE r # <<>>
    <3>1. PICK q \in Seq(I), x \in I : r = Append(q, x)
      <4> HIDE DEF I
      <4> QED BY <2>5, SequenceEmptyOrAppend
    <3>2. Len(q) \in Nat /\ Len(r) = Len(q) + 1
      <4> HIDE DEF I
      <4> QED BY <3>1, LenProperties, AppendProperties
    <3>3. FlattenSeq(<<e>> \o q) = e \o FlattenSeq(q)
      <4>1. ~(n <= Len(q))
        BY <2>2, <3>2
      <4>2. Len(q) \notin T
        BY <4>1, <2>1
      <4> QED BY <4>2, <3>2
    <3>4. <<e>> \o r = Append(<<e>> \o q, x) /\ <<e>> \o q \in Seq(I)
      <4> e \in I
        OBVIOUS
      <4> HIDE DEF I
      <4>1. r = q \o <<x>> /\ <<x>> \in Seq(I)
        BY <3>1, AppendIsConcat
      <4>2. <<e>> \o (q \o <<x>>) = (<<e>> \o q) \o <<x>>
        BY <2>3, <4>1, ConcatAssociative
      <4>3. <<e>> \o q \in Seq(I)
        BY <2>3, ConcatProperties
      <4>4. (<<e>> \o q) \o <<x>> = Append(<<e>> \o q, x)
        BY <4>3, AppendIsConcat
      <4> QED BY <4>1, <4>2, <4>3, <4>4
    <3>5. FlattenSeq(Append(<<e>> \o q, x)) = FlattenSeq(<<e>> \o q) \o x
      BY <3>4, FlatAppend
    <3>6. FlattenSeq(r) = FlattenSeq(q) \o x
      BY <3>1, FlatAppend
    <3>7. (e \o FlattenSeq(q)) \o x = e \o (FlattenSeq(q) \o x)
      <4>1. FlattenSeq(q) \in Seq(S) /\ x \in Seq(S) /\ e \in Seq(S)
        BY FlatType
      <4> QED BY ONLY <4>1, ConcatAssociative
    <3> QED BY <2>2, <3>3, <3>4, <3>5, <3>6, <3>7, Zenon
  <2> QED BY <2>4, <2>5
<1>2. Len(s) \in Nat /\ Len(s) \notin T
  BY <1>1, LenProperties
<1> QED BY <1>2

-----------------------------------------------------------------------------
(* Halves of the buffer, frames and remainders.                            *)

LEMMA FrameOK ==
  /\ Frame \in Nat \ {0} /\ Total = Frame + Frame /\ Total \in Nat \ {0}
  /\ 0 \in 0 .. Frame - 1
<1>1. Frame \in Nat \ {0}
  BY AudioConstantsOK
<1>2. Total = Frame + Frame
  BY <1>1 DEF Total
<1> QED BY ONLY <1>1, <1>2

LEMMA DivideBy ==
  ASSUME NEW n \in Nat \ {0}, NEW q \in Nat, NEW r \in 0 .. n - 1
  PROVE  (n * q + r) % n = r /\ (n * q + r) \div n = q
OBVIOUS

LEMMA ModTwice ==
  ASSUME NEW n \in Nat \ {0}, NEW a \in 0 .. n - 1
  PROVE  a % n = a /\ (a + n) % n = a /\ a \div n = 0 /\ (a + n) \div n = 1
OBVIOUS

LEMMA HalfOf ==
  ASSUME NEW a \in 0 .. Total - 1
  PROVE  /\ (a \div Frame) * Frame = Half(a)
         /\ Frame - (a \div Frame) * Frame = Other(a)
         /\ a \div Frame = IF a < Frame THEN 0 ELSE 1
<1>1. Frame \in Nat \ {0}
  BY AudioConstantsOK
<1>2. CASE a < Frame
  <2>1. a \div Frame = 0
    BY <1>1, <1>2, ModTwice
  <2> QED BY <1>1, <1>2, <2>1 DEF Half, Other
<1>3. CASE ~(a < Frame)
  <2>1. a - Frame \in 0 .. Frame - 1 /\ (a - Frame) + Frame = a
    BY <1>1, <1>3 DEF Total
  <2>2. a \div Frame = 1
    BY <1>1, <2>1, ModTwice
  <2> QED BY <1>1, <1>3, <2>2 DEF Half, Other
<1> QED BY <1>2, <1>3

(* The next place of the engine, and where a half ends.                    *)
LEMMA NextPlace ==
  ASSUME NEW a \in 0 .. Total - 1
  PROVE  /\ (a + 1) % Frame = 0 =>
              /\ a + 1 = Half(a) + Frame
              /\ (a + 1) % Total = Other(a)
         /\ (a + 1) % Frame # 0 =>
              /\ a + 1 < Half(a) + Frame
              /\ (a + 1) % Total = a + 1
<1>1. Frame \in Nat \ {0} /\ Total \in Nat \ {0} /\ Total = Frame + Frame
  BY FrameOK
<1>2. CASE a < Frame - 1
  <2>1. a + 1 \in 0 .. Frame - 1 /\ a + 1 \in 0 .. Total - 1
    BY <1>1, <1>2
  <2>2. (a + 1) % Frame = a + 1 /\ (a + 1) % Total = a + 1
    BY <1>1, <2>1, ModTwice
  <2> QED BY <1>1, <1>2, <2>2 DEF Half, Other
<1>3. CASE a = Frame - 1
  <2>1. 0 \in 0 .. Frame - 1 /\ Frame \in 0 .. Total - 1 /\ a + 1 = 0 + Frame
    BY <1>1, <1>3
  <2>2. (a + 1) % Frame = 0
    BY <1>1, <2>1, ModTwice
  <2>3. Frame % Total = Frame
    BY <1>1, <2>1, ModTwice
  <2>4. a + 1 = Frame /\ a < Frame
    BY <1>1, <1>3
  <2> QED BY <1>1, <2>2, <2>3, <2>4 DEF Half, Other
<1>4. CASE a > Frame - 1 /\ a # Total - 1
  <2>1. (a - Frame) + 1 \in 0 .. Frame - 1 /\ a + 1 = ((a - Frame) + 1) + Frame
    BY <1>1, <1>4
  <2>2. (a + 1) % Frame = (a - Frame) + 1
    BY <1>1, <2>1, ModTwice
  <2>3. a + 1 \in 0 .. Total - 1
    BY <1>1, <1>4
  <2>4. (a + 1) % Total = a + 1
    BY <1>1, <2>3, ModTwice
  <2> QED BY <1>1, <1>4, <2>2, <2>4 DEF Half, Other
<1>5. CASE a = Total - 1
  <2>1. 0 \in 0 .. Frame - 1 /\ 0 \in 0 .. Total - 1 /\ a + 1 = 0 + Total
    BY <1>1, <1>5
  <2>2. (a + 1) % Total = 0
    BY <1>1, <2>1, ModTwice
  <2>3. a + 1 = Frame * 2 + 0
    BY <1>1, <1>5
  <2>4. (a + 1) % Frame = 0
    BY <1>1, <2>1, <2>3, DivideBy
  <2>5. a + 1 = Frame + Frame /\ ~(a < Frame)
    BY <1>1, <1>5
  <2> QED BY <1>1, <2>2, <2>4, <2>5 DEF Half, Other
<1> QED BY <1>1, <1>2, <1>3, <1>4, <1>5

(* A frame further is the other half.                                      *)
LEMMA AdvanceFrame ==
  ASSUME NEW p \in {0, Frame}
  PROVE  (p + Frame) % Total = Frame - p
<1>1. Frame \in Nat \ {0} /\ Total \in Nat \ {0} /\ Total = Frame + Frame
  BY FrameOK
<1>2. CASE p = 0
  <2>1. Frame \in 0 .. Total - 1 /\ p + Frame = Frame /\ Frame - p = Frame
    BY <1>1, <1>2
  <2> QED BY <1>1, <2>1, ModTwice
<1>3. CASE p = Frame
  <2>1. 0 \in 0 .. Total - 1 /\ p + Frame = 0 + Total /\ Frame - p = 0
    BY <1>1, <1>3
  <2> QED BY <1>1, <2>1, ModTwice
<1> QED BY <1>2, <1>3

(* Whole numbers of frames.                                                *)
LEMMA Divide ==
  ASSUME NEW n \in Nat \ {0}, NEW a \in Nat
  PROVE  a \div n \in Nat /\ a = n * (a \div n) + (a % n) /\ a % n \in 0 .. n - 1
OBVIOUS

LEMMA WholeLess ==
  ASSUME NEW n \in Nat \ {0}, Whole(n)
  PROVE  n >= Frame /\ Whole(n - Frame)
<1>1. Frame \in Nat \ {0}
  BY AudioConstantsOK
<1> DEFINE q == n \div Frame
<1>2. q \in Nat /\ n = Frame * q
  <2>1. q \in Nat /\ n = Frame * q + (n % Frame)
    BY <1>1, Divide
  <2> QED BY <1>1, <2>1 DEF Whole
<1> HIDE DEF q
<1>3. q # 0
  BY <1>1, <1>2
<1>4. Frame * q = Frame * (q - 1) + Frame /\ q - 1 \in Nat
  BY <1>1, <1>2, <1>3
<1>5. Frame * (q - 1) \in Nat
  BY <1>1, <1>4
<1>6. n >= Frame /\ n - Frame = Frame * (q - 1) + 0
  BY <1>1, <1>2, <1>4, <1>5
<1>7. 0 \in 0 .. Frame - 1
  BY <1>1
<1>8. (Frame * (q - 1) + 0) % Frame = 0
  BY <1>1, <1>4, <1>7, DivideBy
<1> QED BY <1>6, <1>8 DEF Whole

LEMMA BlockIsWhole == Block \in Nat \ {0} /\ Whole(Block) /\ Block >= Frame
<1>1. Block \in Nat \ {0} /\ Whole(Block)
  BY AudioConstantsOK DEF Whole
<1> QED BY <1>1, WholeLess

LEMMA MinOfTwo ==
  ASSUME NEW a \in Nat, NEW b \in Nat
  PROVE  Min({a, b}) = IF a <= b THEN a ELSE b
BY DEF Min

-----------------------------------------------------------------------------
(* What one frame takes from the queue.                                    *)

(* The first items come to the first of them and the others after it.      *)
LEMMA FlatFirst ==
  ASSUME NEW S, NEW q \in Seq(Seq(S)), NEW k \in 1 .. Len(q)
  PROVE  /\ q[1] \in Seq(S)
         /\ SubSeq(q, 2, k) \in Seq(Seq(S))
         /\ FlattenSeq(SubSeq(q, 1, k)) = q[1] \o FlattenSeq(SubSeq(q, 2, k))
<1> DEFINE I == Seq(S)
<1>1. q \in Seq(I) /\ Len(q) \in Nat /\ k \in Nat
  BY LenProperties
<1> HIDE DEF I
<1>2. \A i \in 1 .. Len(q) : q[i] \in I
  BY <1>1, ElementOfSeq
<1>3. 1 \in 1 .. Len(q) /\ k \in 1 .. Len(q) /\ 2 \in Int /\ k \in Int
  BY <1>1
<1>4. SubSeq(q, 1, k) = <<q[1]>> \o SubSeq(q, 2, k)
  <2>1. SubSeq(q, 1, k) = <<q[1]>> \o SubSeq(q, 1 + 1, k)
    BY <1>1, <1>3, SubSeqRecursiveFirst
  <2> QED BY <2>1
<1>5. SubSeq(q, 2, k) \in Seq(I)
  <2>1. \A i \in 2 .. k : q[i] \in I
    BY <1>1, <1>2, <1>3
  <2> QED BY <1>3, <2>1, SubSeqProperties
<1>6. q[1] \in I
  BY <1>2, <1>3
<1>7. FlattenSeq(<<q[1]>> \o SubSeq(q, 2, k)) = q[1] \o FlattenSeq(SubSeq(q, 2, k))
  BY <1>5, <1>6, FlatCons DEF I
<1> QED BY <1>4, <1>5, <1>6, <1>7 DEF I

LEMMA FlatHead ==
  ASSUME NEW S, NEW q \in Seq(Seq(S)), q # <<>>
  PROVE  /\ q[1] \in Seq(S) /\ Tail(q) \in Seq(Seq(S))
         /\ FlattenSeq(Tail(q)) \in Seq(S)
         /\ FlattenSeq(q) = q[1] \o FlattenSeq(Tail(q))
         /\ Len(FlattenSeq(q)) = Len(q[1]) + Len(FlattenSeq(Tail(q)))
<1> DEFINE I == Seq(S)
<1>1. q \in Seq(I) /\ Len(q) \in Nat /\ Len(q) # 0
  BY LenProperties, EmptySeq
<1>2. Len(q) \in 1 .. Len(q)
  BY <1>1
<1>3. /\ q[1] \in I
      /\ FlattenSeq(SubSeq(q, 1, Len(q))) = q[1] \o FlattenSeq(SubSeq(q, 2, Len(q)))
  BY <1>2, FlatFirst
<1> HIDE DEF I
<1>4. SubSeq(q, 1, Len(q)) = q /\ SubSeq(q, 2, Len(q)) = Tail(q) /\ Tail(q) \in Seq(I)
  BY <1>1, SubSeqFull, TailIsSubSeq, HeadTailProperties
<1>5. FlattenSeq(Tail(q)) \in I
  BY <1>4, FlatType DEF I
<1>6. Len(q[1] \o FlattenSeq(Tail(q))) = Len(q[1]) + Len(FlattenSeq(Tail(q)))
  BY <1>3, <1>5, ConcatProperties DEF I
<1> QED BY <1>3, <1>4, <1>5, <1>6 DEF I

LEMMA StreamLength ==
  ASSUME TypeOK, queue # <<>>
  PROVE  /\ Stream = queue[1] \o FlattenSeq(Tail(queue))
         /\ queue[1] \in Seq(Units) /\ Tail(queue) \in Seq(Seq(Units))
         /\ FlattenSeq(Tail(queue)) \in Seq(Units)
         /\ Len(Stream) = Len(queue[1]) + Len(FlattenSeq(Tail(queue)))
         /\ Len(queue[1]) \in Nat /\ Len(FlattenSeq(Tail(queue))) \in Nat
<1>1. queue \in Seq(Seq(Units))
  BY DEF TypeOK, Units
<1>2. /\ queue[1] \in Seq(Units) /\ Tail(queue) \in Seq(Seq(Units))
      /\ FlattenSeq(Tail(queue)) \in Seq(Units)
      /\ FlattenSeq(queue) = queue[1] \o FlattenSeq(Tail(queue))
      /\ Len(FlattenSeq(queue)) = Len(queue[1]) + Len(FlattenSeq(Tail(queue)))
  BY <1>1, FlatHead
<1> QED BY <1>2, LenProperties DEF Stream

(* Less than a frame is there only if one item is.                         *)
LEMMA ShortStream ==
  ASSUME TypeOK, ItemsOK, queue # <<>>, Len(queue[1]) < Frame
  PROVE  Len(queue) = 1 /\ Tail(queue) = <<>> /\ Stream = queue[1]
<1>1. Len(queue) \in Nat \ {0}
  BY LenProperties, EmptySeq DEF TypeOK
<1>2. 1 \in 1 .. Len(queue)
  BY <1>1
<1>3. Len(queue[1]) \in 1 .. Block /\ (Whole(Len(queue[1])) \/ 1 = Len(queue))
  BY <1>2 DEF ItemsOK
<1>4. Len(queue[1]) \in Nat \ {0} /\ ~(Len(queue[1]) >= Frame)
  BY <1>3, FrameOK, BlockIsWhole
<1>5. Len(queue) = 1
  BY <1>3, <1>4, WholeLess
<1>6. Tail(queue) = <<>>
  <2>1. queue \in Seq(Seq(Units))
    BY DEF TypeOK, Units
  <2>2. Len(Tail(queue)) = Len(queue) - 1 /\ Tail(queue) \in Seq(Seq(Units))
    BY <2>1, HeadTailProperties
  <2>3. Len(Tail(queue)) = 0
    BY <1>5, <2>2
  <2> DEFINE I == Seq(Units)
  <2>4. Tail(queue) \in Seq(I)
    BY <2>2
  <2> HIDE DEF I
  <2> QED BY <2>3, <2>4, EmptySeq
<1>7. Stream = queue[1]
  <2>1. queue[1] \o FlattenSeq(Tail(queue)) = queue[1]
    BY <1>6, FlatEmpty, StreamLength, ConcatEmptySeq
  <2> QED BY <2>1, StreamLength
<1> QED BY <1>5, <1>6, <1>7

(* What the first items come to.                                           *)
LEMMA FirstItems ==
  ASSUME TypeOK, ItemsOK, queue # <<>>
  PROVE  /\ LenUpTo(0) = 0
         /\ LenUpTo(1) = Len(queue[1])
         /\ \A k \in 2 .. Len(queue) : LenUpTo(k) > Len(queue[1])
<1>1. queue \in Seq(Seq(Units)) /\ Len(queue) \in Nat \ {0}
  <2>1. queue \in Seq(Seq(Units))
    BY DEF TypeOK, Units
  <2>2. Len(queue) \in Nat \ {0}
    BY LenProperties, EmptySeq DEF TypeOK
  <2> QED BY <2>1, <2>2
<1>2. LenUpTo(0) = 0
  <2>1. SubSeq(queue, 1, 0) = <<>>
    BY SubSeqEmpty
  <2> QED BY <2>1, FlatEmpty, EmptySeq DEF LenUpTo
<1>3. \A k \in 1 .. Len(queue) :
        /\ queue[1] \in Seq(Units)
        /\ SubSeq(queue, 2, k) \in Seq(Seq(Units))
        /\ FlattenSeq(SubSeq(queue, 1, k)) = queue[1] \o FlattenSeq(SubSeq(queue, 2, k))
  BY <1>1, FlatFirst
<1>4. ASSUME NEW k \in 1 .. Len(queue)
      PROVE  /\ LenUpTo(k) = Len(queue[1]) + Len(FlattenSeq(SubSeq(queue, 2, k)))
             /\ Len(queue[1]) \in Nat
  <2>1. queue[1] \in Seq(Units) /\ FlattenSeq(SubSeq(queue, 2, k)) \in Seq(Units)
    BY <1>3, FlatType
  <2>2. Len(queue[1] \o FlattenSeq(SubSeq(queue, 2, k)))
          = Len(queue[1]) + Len(FlattenSeq(SubSeq(queue, 2, k)))
    BY <2>1, ConcatProperties
  <2> QED BY <1>3, <2>1, <2>2, LenProperties DEF LenUpTo
<1>5. LenUpTo(1) = Len(queue[1])
  <2>1. SubSeq(queue, 2, 1) = <<>>
    BY SubSeqEmpty
  <2>2. Len(FlattenSeq(SubSeq(queue, 2, 1))) = 0
    BY <2>1, FlatEmpty, EmptySeq
  <2>3. 1 \in 1 .. Len(queue)
    BY <1>1
  <2>4. LenUpTo(1) = Len(queue[1]) + 0 /\ Len(queue[1]) \in Nat
    BY <1>4, <2>2, <2>3
  <2> DEFINE a == Len(queue[1])
  <2> HIDE DEF a
  <2> QED BY <2>4 DEF a
<1>6. ASSUME NEW k \in 2 .. Len(queue)
      PROVE  LenUpTo(k) > Len(queue[1])
  <2> DEFINE t == SubSeq(queue, 2, k)
  <2>1. k \in 1 .. Len(queue) /\ k \in Int /\ 2 <= k /\ 1 \in 1 .. (k - 2) + 1
        /\ 2 \in 1 .. Len(queue) /\ 2 \in Int
    BY <1>1
  <2>2. t \in Seq(Seq(Units)) /\ Len(t) = (k - 2) + 1 /\ t[1] = queue[2]
    <3> DEFINE I == Seq(Units)
    <3>1. queue \in Seq(I)
      BY <1>1
    <3> HIDE DEF I
    <3>2. \A i \in 2 .. k : queue[i] \in I
      BY <3>1, <1>1, <2>1, ElementOfSeq
    <3>3. /\ t \in Seq(I)
          /\ Len(t) = IF 2 <= k THEN k - 2 + 1 ELSE 0
          /\ \A i \in 1 .. k - 2 + 1 : t[i] = queue[2 + i - 1]
      BY <3>2, <2>1, SubSeqProperties
    <3>4. t[1] = queue[2 + 1 - 1]
      BY <3>3, <2>1
    <3> QED BY <3>3, <3>4, <2>1 DEF I
  <2>3. t # <<>>
    BY <2>1, <2>2, EmptySeq
  <2> HIDE DEF t
  <2>4. /\ Len(FlattenSeq(t)) = Len(t[1]) + Len(FlattenSeq(Tail(t)))
        /\ FlattenSeq(Tail(t)) \in Seq(Units)
    BY <2>2, <2>3, FlatHead
  <2>5. Len(FlattenSeq(Tail(t))) \in Nat
    BY <2>4, LenProperties
  <2>6. Len(queue[2]) \in Nat \ {0}
    <3>1. Len(queue[2]) \in 1 .. Block
      BY <2>1 DEF ItemsOK
    <3> QED BY <3>1, BlockIsWhole
  <2>7. /\ LenUpTo(k) = Len(queue[1]) + Len(FlattenSeq(t))
        /\ Len(queue[1]) \in Nat
    BY <1>4, <2>1 DEF t
  <2> DEFINE a == Len(queue[1])
             b == Len(FlattenSeq(t))
             c == Len(queue[2])
             d == Len(FlattenSeq(Tail(t)))
  <2>8. LenUpTo(k) = a + b /\ b = c + d /\ a \in Nat /\ c \in Nat \ {0} /\ d \in Nat
    BY <2>2, <2>4, <2>5, <2>6, <2>7
  <2> HIDE DEF a, b, c, d
  <2>9. LenUpTo(k) > a
    BY ONLY <2>8
  <2> QED BY <2>9 DEF a
<1> QED BY <1>2, <1>5, <1>6

LEMMA ReadsHead ==
  ASSUME TypeOK, ItemsOK, queue # <<>>,
         NEW n, n = Min({Frame, Len(Stream)})
  PROVE  /\ n \in 1 .. Frame /\ n <= Len(queue[1]) /\ n <= Len(Stream)
         /\ n < Frame => Tail(queue) = <<>> /\ n = Len(queue[1]) /\ UnderRun = Advance(Frame)
         /\ n = Len(queue[1]) => Freed(n) = 1 /\ After(n) = Tail(queue)
         /\ n # Len(queue[1]) =>
              /\ n = Frame /\ Freed(n) = 0
              /\ After(n) = <<SubSeq(queue[1], n + 1, Len(queue[1]))>> \o Tail(queue)
<1> DEFINE h == Len(queue[1])
           r == Len(FlattenSeq(Tail(queue)))
<1>1. h \in Nat \ {0} /\ r \in Nat /\ Len(Stream) = h + r
  <2>1. Len(queue) \in Nat \ {0}
    BY LenProperties, EmptySeq DEF TypeOK
  <2>2. 1 \in 1 .. Len(queue)
    BY <2>1
  <2>3. h \in 1 .. Block
    BY <2>2 DEF ItemsOK
  <2>4. h \in Nat \ {0}
    BY <2>3, BlockIsWhole
  <2> QED BY <2>4, StreamLength
<1>2. queue \in Seq(Seq(Units)) /\ Len(queue) \in Nat \ {0}
  <2>1. queue \in Seq(Seq(Units))
    BY DEF TypeOK, Units
  <2>2. Len(queue) \in Nat \ {0}
    BY LenProperties, EmptySeq DEF TypeOK
  <2> QED BY <2>1, <2>2
<1>3. n = IF Frame <= h + r THEN Frame ELSE h + r
  <2>1. h + r \in Nat
    BY <1>1
  <2> HIDE DEF h, r
  <2> QED BY <1>1, <2>1, FrameOK, MinOfTwo
<1>4. h < Frame => Len(queue) = 1 /\ Tail(queue) = <<>> /\ Stream = queue[1]
  BY ShortStream
<1>5. h < Frame => r = 0
  BY <1>4, FlatEmpty, EmptySeq
<1>6. n \in 1 .. Frame /\ n <= h /\ n <= Len(Stream) /\ (n < Frame => n = h /\ h < Frame)
  <2> HIDE DEF h, r
  <2> QED BY <1>1, <1>3, <1>5, FrameOK
<1>7. n < Frame => UnderRun = Advance(Frame)
  <2>1. SUFFICES ASSUME n < Frame PROVE UnderRun = Advance(Frame)
    OBVIOUS
  <2>2. Last(queue) = queue[1] /\ Stream = queue[1]
    BY <1>4, <1>6, <2>1 DEF Last
  <2>3. Len(Stream) - Len(Last(queue)) + Frame = Frame
    BY <1>1, <2>2, FrameOK
  <2> QED BY <2>3 DEF UnderRun
<1>8. LenUpTo(0) = 0 /\ LenUpTo(1) = h /\ \A k \in 2 .. Len(queue) : LenUpTo(k) > h
  BY FirstItems
<1>9. \A k \in 2 .. Len(queue) : LenUpTo(k) \in Nat
  <2> SUFFICES ASSUME NEW k \in 2 .. Len(queue) PROVE LenUpTo(k) \in Nat
    OBVIOUS
  <2>1. k \in 1 .. Len(queue)
    BY <1>2
  <2>2. /\ q1 :: queue[1] \in Seq(Units)
        /\ SubSeq(queue, 2, k) \in Seq(Seq(Units))
        /\ FlattenSeq(SubSeq(queue, 1, k)) = queue[1] \o FlattenSeq(SubSeq(queue, 2, k))
    BY <1>2, <2>1, FlatFirst
  <2>3. queue[1] \o FlattenSeq(SubSeq(queue, 2, k)) \in Seq(Units)
    BY <2>2, FlatType, ConcatProperties
  <2> QED BY <2>2, <2>3, LenProperties DEF LenUpTo
<1>10. CASE n = h
  <2>1. Consumed(n) = {1}
    <3>1. ASSUME NEW k \in 1 .. Len(queue)
          PROVE  LenUpTo(k) <= n <=> k = 1
      <4>1. CASE k = 1
        <5>1. LenUpTo(k) = n /\ n \in Nat
          BY <1>1, <1>8, <1>10, <4>1
        <5> QED BY ONLY <4>1, <5>1
      <4>2. CASE k # 1
        <5>1. k \in 2 .. Len(queue)
          BY <1>2, <4>2
        <5>2. LenUpTo(k) > h /\ LenUpTo(k) \in Nat
          BY <1>8, <1>9, <5>1
        <5> HIDE DEF h
        <5> QED BY <1>1, <1>10, <4>2, <5>2
      <4> QED BY <4>1, <4>2
    <3>2. 1 \in 1 .. Len(queue)
      BY <1>2
    <3> QED BY <3>1, <3>2 DEF Consumed
  <2>2. Freed(n) = 1
    BY <2>1, FS_Singleton DEF Freed
  <2>3. Cardinality(Consumed(n)) = 1
    BY <2>2 DEF Freed
  <2> DEFINE t == SubSeq(queue, 2, Len(queue))
  <2>4. t = Tail(queue) /\ t \in Seq(Seq(Units))
    <3> DEFINE I == Seq(Units)
    <3>1. queue \in Seq(I)
      BY <1>2
    <3> HIDE DEF I
    <3>2. t = Tail(queue) /\ Tail(queue) \in Seq(I)
      BY <3>1, TailIsSubSeq, HeadTailProperties
    <3> QED BY <3>2 DEF I
  <2> HIDE DEF t
  <2>5. After(n) = IF t = <<>> THEN <<>>
                   ELSE <<SubSeq(Head(t), n - LenUpTo(1) + 1, Len(Head(t)))>> \o Tail(t)
    <3>1. 1 + 1 = 2
      OBVIOUS
    <3> QED BY <2>3, <3>1, Zenon DEF After, t
  <2>6. t # <<>> => SubSeq(Head(t), n - LenUpTo(1) + 1, Len(Head(t))) = Head(t)
                    /\ <<Head(t)>> \o Tail(t) = t
    <3> SUFFICES ASSUME t # <<>>
                 PROVE  SubSeq(Head(t), n - LenUpTo(1) + 1, Len(Head(t))) = Head(t)
                        /\ <<Head(t)>> \o Tail(t) = t
      OBVIOUS
    <3>1. Head(t) \in Seq(Units)
      BY <2>4, HeadTailProperties
    <3>2. SubSeq(Head(t), 1, Len(Head(t))) = Head(t)
      BY <3>1, SubSeqFull
    <3>3. n - LenUpTo(1) + 1 = 1
      <4>1. n = LenUpTo(1) /\ n \in Nat
        BY <1>1, <1>8, <1>10
      <4> QED BY ONLY <4>1
    <3>4. <<Head(t)>> \o Tail(t) = t
      <4> DEFINE I == Seq(Units)
      <4>1. t \in Seq(I)
        BY <2>4
      <4> HIDE DEF I
      <4>2. Len(t) \in Nat \ {0}
        BY <4>1, LenProperties, EmptySeq
      <4>3. SubSeq(t, 1, Len(t)) = <<t[1]>> \o SubSeq(t, 1 + 1, Len(t))
        <5>1. 1 \in 1 .. Len(t) /\ Len(t) \in 1 .. Len(t)
          BY <4>2
        <5> QED BY <4>1, <5>1, SubSeqRecursiveFirst
      <4>4. SubSeq(t, 1, Len(t)) = t /\ Tail(t) = SubSeq(t, 2, Len(t)) /\ t[1] = Head(t)
        <5>1. SubSeq(t, 1, Len(t)) = t
          BY <4>1, SubSeqFull
        <5>2. Tail(t) = SubSeq(t, 2, Len(t))
          BY <4>1, TailIsSubSeq
        <5>3. t[1] = Head(t)
          BY <4>1
        <5> QED BY <5>1, <5>2, <5>3
      <4> QED BY <4>3, <4>4
    <3> QED BY <3>2, <3>3, <3>4
  <2>7. After(n) = t
    BY <2>5, <2>6
  <2> QED BY <1>10, <2>2, <2>4, <2>7, <1>6, <1>4, <1>7
<1>11. CASE n # h
  <2>0. n < h /\ n = Frame
    <3> HIDE DEF h
    <3> QED BY <1>1, <1>6, <1>11, FrameOK
  <2>1. Consumed(n) = {}
    <3>1. ASSUME NEW k \in 1 .. Len(queue)
          PROVE  ~(LenUpTo(k) <= n)
      <4>1. CASE k = 1
        <5>1. LenUpTo(k) = h
          BY <1>8, <4>1
        <5> HIDE DEF h
        <5> QED BY <1>1, <1>6, <2>0, <5>1
      <4>2. CASE k # 1
        <5>1. k \in 2 .. Len(queue)
          BY <1>2, <4>2
        <5>2. LenUpTo(k) > h /\ LenUpTo(k) \in Nat
          BY <1>8, <1>9, <5>1
        <5> HIDE DEF h
        <5> QED BY <1>1, <1>6, <2>0, <5>2
      <4> QED BY <4>1, <4>2
    <3> QED BY <3>1 DEF Consumed
  <2>2. Freed(n) = 0
    BY <2>1, FS_EmptySet DEF Freed
  <2>3. Cardinality(Consumed(n)) = 0
    BY <2>2 DEF Freed
  <2>4. SubSeq(queue, 0 + 1, Len(queue)) = queue /\ Head(queue) = queue[1]
    <3> DEFINE I == Seq(Units)
    <3>1. queue \in Seq(I)
      BY <1>2
    <3> HIDE DEF I
    <3>2. SubSeq(queue, 1, Len(queue)) = queue
      BY <3>1, SubSeqFull
    <3>3. Head(queue) = queue[1]
      BY <3>1
    <3> QED BY <3>2, <3>3
  <2>5. After(n) = <<SubSeq(queue[1], n - LenUpTo(0) + 1, Len(queue[1]))>> \o Tail(queue)
    BY <2>3, <2>4, Zenon DEF After
  <2>6. n - LenUpTo(0) + 1 = n + 1
    BY <1>6, <1>8, FrameOK
  <2> QED BY <1>11, <2>0, <2>2, <2>5, <2>6, <1>6
<1> QED BY <1>10, <1>11

(* What follows the head in a queue.                                       *)
LEMMA TailItems ==
  ASSUME TypeOK, ItemsOK, queue # <<>>
  PROVE  /\ Len(queue) \in Nat \ {0} /\ Len(Tail(queue)) = Len(queue) - 1
         /\ \A k \in 1 .. Len(Tail(queue)) :
              /\ Tail(queue)[k] = queue[k + 1]
              /\ Len(Tail(queue)[k]) \in 1 .. Block
              /\ Whole(Len(Tail(queue)[k])) \/ (Stopping /\ k = Len(Tail(queue)))
<1> DEFINE I == Seq(Units)
<1>1. queue \in Seq(I)
  BY DEF TypeOK, Units
<1> HIDE DEF I
<1>2. /\ Len(queue) \in Nat \ {0} /\ Len(Tail(queue)) = Len(queue) - 1
      /\ \A k \in 1 .. Len(Tail(queue)) : Tail(queue)[k] = queue[k + 1]
  BY <1>1, LenProperties, EmptySeq, HeadTailProperties
<1>3. ASSUME NEW k \in 1 .. Len(Tail(queue))
      PROVE  /\ Len(Tail(queue)[k]) \in 1 .. Block
             /\ Whole(Len(Tail(queue)[k])) \/ (Stopping /\ k = Len(Tail(queue)))
  <2>1. k + 1 \in 1 .. Len(queue) /\ (k + 1 = Len(queue) => k = Len(Tail(queue)))
    <3> DEFINE a == Len(queue)
               b == Len(Tail(queue))
    <3>1. a \in Nat \ {0} /\ b = a - 1 /\ k \in 1 .. b
      BY <1>2
    <3> HIDE DEF a, b
    <3>2. k + 1 \in 1 .. a /\ (k + 1 = a => k = b)
      BY ONLY <3>1
    <3> QED BY <3>2 DEF a, b
  <2>2. /\ Len(queue[k + 1]) \in 1 .. Block
        /\ Whole(Len(queue[k + 1])) \/ (Stopping /\ k + 1 = Len(queue))
    BY <2>1 DEF ItemsOK
  <2>3. Tail(queue)[k] = queue[k + 1]
    BY <1>2
  <2> QED BY <2>1, <2>2, <2>3
<1> QED BY <1>2, <1>3

(* A read leaves what it did not take, and the items as they should be.    *)
LEMMA LeftAfterRead ==
  ASSUME TypeOK, ItemsOK, queue # <<>>,
         NEW n, n = Min({Frame, Len(Stream)})
  PROVE  /\ After(n) \in Seq(Seq(Units))
         /\ Freed(n) \in {0, 1} /\ Len(After(n)) = Len(queue) - Freed(n)
         /\ \A k \in 1 .. Len(After(n)) :
              /\ Len(After(n)[k]) \in 1 .. Block
              /\ Whole(Len(After(n)[k])) \/ (Stopping /\ k = Len(After(n)))
         /\ FlattenSeq(After(n)) \in Seq(Units)
         /\ Len(FlattenSeq(After(n))) = Len(Stream) - n
         /\ \A i \in 1 .. Len(FlattenSeq(After(n))) : FlattenSeq(After(n))[i] = Stream[n + i]
<1> DEFINE h == Len(queue[1])
           t == FlattenSeq(Tail(queue))
           r == Len(t)
<1>1. /\ n \in 1 .. Frame /\ n <= h /\ n <= Len(Stream)
      /\ n = h => Freed(n) = 1 /\ After(n) = Tail(queue)
      /\ n # h => /\ n = Frame /\ Freed(n) = 0
                  /\ After(n) = <<SubSeq(queue[1], n + 1, h)>> \o Tail(queue)
  BY ReadsHead
<1>2. /\ Stream = queue[1] \o t
      /\ queue[1] \in Seq(Units) /\ Tail(queue) \in Seq(Seq(Units))
      /\ t \in Seq(Units)
      /\ Len(Stream) = h + r /\ h \in Nat /\ r \in Nat
  BY StreamLength
<1>3. \A i \in 1 .. h + r : Stream[i] = IF i <= h THEN queue[1][i] ELSE t[i - h]
  <2> HIDE DEF t
  <2>1. \A i \in 1 .. h + r : (queue[1] \o t)[i] = IF i <= h THEN queue[1][i] ELSE t[i - h]
    BY <1>2, ConcatProperties
  <2> QED BY <1>2, <2>1
<1>4. /\ Len(queue) \in Nat \ {0} /\ Len(Tail(queue)) = Len(queue) - 1
      /\ \A k \in 1 .. Len(Tail(queue)) :
              /\ Tail(queue)[k] = queue[k + 1]
              /\ Len(Tail(queue)[k]) \in 1 .. Block
              /\ Whole(Len(Tail(queue)[k])) \/ (Stopping /\ k = Len(Tail(queue)))
  BY TailItems
<1> DEFINE a == Len(queue)
           b == Len(Tail(queue))
<1>7. a \in Nat \ {0} /\ b = a - 1 /\ b \in Nat /\ 1 \in 1 .. a
      /\ \A k \in 1 .. 1 + b : k <= 1 => k = 1
  <2>1. a \in Nat \ {0} /\ b = a - 1
    BY <1>4
  <2> HIDE DEF a, b
  <2> QED BY ONLY <2>1
<1>5. CASE n = h
  <2>1. Freed(n) = 1 /\ After(n) = Tail(queue)
    BY <1>1, <1>5
  <2>2. Len(FlattenSeq(After(n))) = Len(Stream) - n
    <3>1. Len(FlattenSeq(After(n))) = r
      BY <2>1
    <3> HIDE DEF h, r
    <3> QED BY <1>2, <1>5, <3>1
  <2>3. ASSUME NEW i \in 1 .. r PROVE t[i] = Stream[n + i]
    <3>1. n + i \in 1 .. h + r /\ ~(n + i <= h) /\ (n + i) - h = i
      <4> HIDE DEF h, r
      <4> QED BY <1>1, <1>2, <1>5
    <3> QED BY <1>3, <3>1
  <2> QED BY <1>2, <1>4, <2>1, <2>2, <2>3
<1>6. CASE n # h
  <2> DEFINE x == SubSeq(queue[1], n + 1, h)
  <2>1. n = Frame /\ Freed(n) = 0 /\ After(n) = <<x>> \o Tail(queue) /\ n < h
    <3>1. n = Frame /\ Freed(n) = 0 /\ After(n) = <<x>> \o Tail(queue)
      BY <1>1, <1>6
    <3>2. n < h
      <4> HIDE DEF h
      <4> QED BY <1>1, <1>2, <1>6, FrameOK
    <3> QED BY <3>1, <3>2
  <2>2. x \in Seq(Units) /\ Len(x) = h - n /\ \A i \in 1 .. h - n : x[i] = queue[1][n + i]
    <3> DEFINE q == queue[1]
    <3>1. q \in Seq(Units) /\ h = Len(q)
      BY <1>2
    <3> HIDE DEF q
    <3>2. n + 1 \in Int /\ h \in Int /\ \A i \in n + 1 .. h : q[i] \in Units
      <4>1. \A i \in 1 .. h : q[i] \in Units
        BY <3>1, ElementOfSeq
      <4>2. n + 1 \in Int /\ h \in Int /\ \A i \in n + 1 .. h : i \in 1 .. h
        <5> HIDE DEF h
        <5>1. n \in Nat
          BY <1>1, FrameOK
        <5> QED BY ONLY <5>1, <1>2
      <4> QED BY <4>1, <4>2
    <3>3. /\ SubSeq(q, n + 1, h) \in Seq(Units)
          /\ Len(SubSeq(q, n + 1, h)) = IF n + 1 <= h THEN h - (n + 1) + 1 ELSE 0
          /\ \A i \in 1 .. h - (n + 1) + 1 : SubSeq(q, n + 1, h)[i] = q[(n + 1) + i - 1]
      <4> HIDE DEF h
      <4> QED BY ONLY <3>2, SubSeqProperties
    <3>4. h - (n + 1) + 1 = h - n /\ n + 1 <= h
          /\ \A i \in 1 .. h - n : (n + 1) + i - 1 = n + i
      <4> HIDE DEF h
      <4>1. n \in Nat /\ h \in Nat /\ n < h
        BY <1>1, <1>2, <2>1, FrameOK
      <4> QED BY ONLY <4>1
    <3>5. Len(SubSeq(q, n + 1, h)) = h - n
      BY <3>3, <3>4
    <3>6. \A i \in 1 .. h - n : SubSeq(q, n + 1, h)[i] = q[n + i]
      BY <3>3, <3>4
    <3> QED BY <3>3, <3>5, <3>6 DEF q
  <2> HIDE DEF x
  <2>3. /\ After(n) \in Seq(Seq(Units)) /\ Len(After(n)) = 1 + Len(Tail(queue))
        /\ \A k \in 1 .. 1 + Len(Tail(queue)) :
             After(n)[k] = IF k <= 1 THEN x ELSE Tail(queue)[k - 1]
    <3> DEFINE I == Seq(Units)
    <3>1. x \in I /\ Tail(queue) \in Seq(I)
      BY <1>2, <2>2
    <3> HIDE DEF I
    <3>2. <<x>> \in Seq(I) /\ Len(<<x>>) = 1 /\ <<x>>[1] = x
      BY <3>1
    <3>3. /\ <<x>> \o Tail(queue) \in Seq(I)
          /\ Len(<<x>> \o Tail(queue)) = Len(<<x>>) + Len(Tail(queue))
          /\ \A k \in 1 .. Len(<<x>>) + Len(Tail(queue)) :
               (<<x>> \o Tail(queue))[k] = IF k <= Len(<<x>>) THEN <<x>>[k]
                                           ELSE Tail(queue)[k - Len(<<x>>)]
      BY <3>1, <3>2, ConcatProperties
    <3>4. \A k \in 1 .. 1 + Len(Tail(queue)) :
             (<<x>> \o Tail(queue))[k] = IF k <= 1 THEN x ELSE Tail(queue)[k - 1]
      <4> SUFFICES ASSUME NEW k \in 1 .. 1 + Len(Tail(queue))
                   PROVE  (<<x>> \o Tail(queue))[k] = IF k <= 1 THEN x ELSE Tail(queue)[k - 1]
        OBVIOUS
      <4>1. k <= 1 => k = 1
        BY <1>7
      <4> QED BY <3>2, <3>3, <4>1
    <3> QED BY <2>1, <3>2, <3>3, <3>4 DEF I
  <2>4. Len(After(n)) = Len(queue)
    <3>1. Len(After(n)) = 1 + b
      BY <2>3
    <3> HIDE DEF a, b
    <3>2. 1 + b = a
      BY ONLY <1>7
    <3> QED BY <3>1, <3>2 DEF a
  <2>5. Len(x) \in 1 .. Block /\ (Whole(Len(x)) \/ (Stopping /\ Len(queue) = 1))
    <3>1. 1 \in 1 .. Len(queue)
      BY <1>7
    <3>2. h \in 1 .. Block /\ (Whole(h) \/ (Stopping /\ Len(queue) = 1))
      BY <3>1 DEF ItemsOK
    <3> HIDE DEF h
    <3>3. Len(x) \in 1 .. Block
      BY <3>2, <2>1, <2>2, <1>1, FrameOK, BlockIsWhole
    <3>4. Whole(h) => Whole(h - n)
      <4>1. h \in Nat \ {0} /\ n = Frame
        BY <3>2, <2>1, BlockIsWhole
      <4> QED BY <4>1, WholeLess
    <3> QED BY <3>2, <3>3, <3>4, <2>2
  <2>6. ASSUME NEW k \in 1 .. Len(After(n))
        PROVE  /\ Len(After(n)[k]) \in 1 .. Block
               /\ Whole(Len(After(n)[k])) \/ (Stopping /\ k = Len(After(n)))
    <3>1. CASE k = 1
      <4>1. After(n)[k] = x
        <5>1. 1 \in 1 .. 1 + b /\ 1 <= 1
          <6> HIDE DEF a, b
          <6> QED BY ONLY <1>7
        <5> QED BY <2>3, <5>1, <3>1
      <4> QED BY <4>1, <2>5, <2>4, <3>1
    <3>2. CASE k # 1
      <4>1. k - 1 \in 1 .. Len(Tail(queue)) /\ ~(k <= 1) /\ k \in 1 .. 1 + Len(Tail(queue))
            /\ (k - 1 = Len(Tail(queue)) => k = Len(After(n)))
        <5>1. k \in 1 .. a
          BY <2>4
        <5>2. k - 1 \in 1 .. b /\ ~(k <= 1) /\ k \in 1 .. 1 + b /\ (k - 1 = b => k = a)
          <6> HIDE DEF a, b
          <6> QED BY ONLY <5>1, <1>7, <3>2
        <5> QED BY <5>2, <2>4
      <4>2. After(n)[k] = Tail(queue)[k - 1]
        BY <2>3, <4>1
      <4>3. /\ Len(Tail(queue)[k - 1]) \in 1 .. Block
            /\ Whole(Len(Tail(queue)[k - 1])) \/ (Stopping /\ k - 1 = Len(Tail(queue)))
        BY <1>4, <4>1
      <4> QED BY <4>1, <4>2, <4>3
    <3> QED BY <3>1, <3>2
  <2>7. FlattenSeq(After(n)) = x \o t
    BY <2>1, <2>2, <1>2, FlatCons
  <2> DEFINE w == x \o t
  <2>8. /\ w \in Seq(Units) /\ Len(w) = (h - n) + r
        /\ \A i \in 1 .. (h - n) + r : w[i] = IF i <= h - n THEN x[i] ELSE t[i - (h - n)]
    <3> HIDE DEF t
    <3>1. /\ x \o t \in Seq(Units) /\ Len(x \o t) = Len(x) + Len(t)
          /\ \A i \in 1 .. Len(x) + Len(t) :
               (x \o t)[i] = IF i <= Len(x) THEN x[i] ELSE t[i - Len(x)]
      BY <1>2, <2>2, ConcatProperties
    <3>2. Len(x) = h - n /\ Len(t) = r
      BY <2>2
    <3> HIDE DEF h, r
    <3> QED BY <3>1, <3>2, Zenon
  <2> HIDE DEF w
  <2>9. ASSUME NEW i \in 1 .. (h - n) + r PROVE w[i] = Stream[n + i]
    <3> HIDE DEF h, r
    <3>1. /\ n + i \in 1 .. h + r /\ (n + i <= h <=> i <= h - n)
          /\ (n + i) - h = i - (h - n) /\ (i <= h - n => i \in 1 .. h - n)
      BY <1>1, <1>2, <2>1, FrameOK
    <3>2. CASE i <= h - n
      <4>1. w[i] = queue[1][n + i]
        BY <2>2, <2>8, <3>1, <3>2
      <4>2. Stream[n + i] = queue[1][n + i]
        BY <1>3, <3>1, <3>2
      <4> QED BY <4>1, <4>2
    <3>3. CASE ~(i <= h - n)
      <4>1. w[i] = t[i - (h - n)]
        BY <2>8, <3>3
      <4>2. Stream[n + i] = t[(n + i) - h]
        BY <1>3, <3>1, <3>3
      <4> QED BY <4>1, <4>2, <3>1
    <3> QED BY <3>2, <3>3
  <2>10. (h - n) + r = Len(Stream) - n
    <3> HIDE DEF h, r
    <3> QED BY <1>1, <1>2, FrameOK
  <2>11. /\ FlattenSeq(After(n)) \in Seq(Units)
         /\ Len(FlattenSeq(After(n))) = Len(Stream) - n
         /\ \A i \in 1 .. Len(FlattenSeq(After(n))) : FlattenSeq(After(n))[i] = Stream[n + i]
    BY <2>7, <2>8, <2>9, <2>10 DEF w
  <2>12. Freed(n) \in {0, 1} /\ Len(After(n)) = Len(queue) - Freed(n)
    BY <2>1, <2>4, <1>4
  <2> QED BY <2>3, <2>6, <2>11, <2>12
<1> QED BY <1>5, <1>6

-----------------------------------------------------------------------------
(* Types.                                                                  *)

BooleansOK ==
  /\ opened \in BOOLEAN /\ closing \in BOOLEAN /\ stopEvent \in BOOLEAN
  /\ cmp \in BOOLEAN /\ activated \in BOOLEAN /\ running \in BOOLEAN
  /\ td \in BOOLEAN /\ entered \in BOOLEAN
  /\ inOrder \in BOOLEAN /\ slipped \in BOOLEAN

NumbersOK ==
  /\ written \in 0 .. MaxUnits /\ todo \in 0 .. MaxUnits
  /\ copied \in 0 .. MaxUnits /\ last \in 0 .. MaxUnits
  /\ free \in 0 .. Blocks /\ cut \in 0 .. MaxUnits
  /\ pos \in 0 .. Total - 1 /\ at \in 0 .. Total - 1
  /\ noise \in 0 .. MaxNoise

DataOK ==
  /\ block \in Seq(Units) /\ Len(block) <= Block
  /\ queue \in Seq(Seq(Units)) /\ Len(queue) <= Blocks

StepOK == pc \in {"idle", "fill", "push", "flush", "event", "init", "wait", "clear", "halt"}

BufferType == buffer \in [0 .. Total - 1 -> 0 .. MaxUnits]

LEMMA TypeParts ==
  TypeOK <=> BooleansOK /\ NumbersOK /\ DataOK /\ StepOK /\ BufferType
<1>1. {opened, closing, stopEvent, cmp, activated, running, td} \subseteq BOOLEAN
      /\ {entered, inOrder, slipped} \subseteq BOOLEAN <=> BooleansOK
  BY Zenon DEF BooleansOK
<1>2. {written, todo, copied, last} \subseteq 0 .. MaxUnits
      <=> /\ written \in 0 .. MaxUnits /\ todo \in 0 .. MaxUnits
          /\ copied \in 0 .. MaxUnits /\ last \in 0 .. MaxUnits
  BY Zenon
<1> QED BY <1>1, <1>2, Zenon DEF TypeOK, NumbersOK, DataOK, StepOK, BufferType, Units

LEMMA TypePartsNext ==
  TypeOK' <=> BooleansOK' /\ NumbersOK' /\ DataOK' /\ StepOK' /\ BufferType'
BY TypeParts, PTL

LEMMA BooleansStep == BooleansOK /\ [Next]_vars => BooleansOK'
<1> SUFFICES ASSUME BooleansOK, [Next]_vars PROVE BooleansOK'
  OBVIOUS
<1> USE DEF BooleansOK
<1>1. CASE Play
  BY <1>1, Zenon DEF Play, isrVars, appVars
<1>2. CASE SendSilence
  BY <1>2, Zenon DEF SendSilence, Served, appVars
<1>3. CASE SendFrame
  BY <1>3, Zenon DEF SendFrame, Served, appVars
<1>4. CASE Open
  BY <1>4, Zenon DEF Open, isrVars, engineVars
<1>5. CASE Configure
  BY <1>5, Zenon DEF Configure, isrVars, StartEngine, appVars
<1>6. CASE Start
  BY <1>6, Zenon DEF Start, isrVars, StartEngine, appVars
<1>7. CASE Stop
  BY <1>7, Zenon DEF Stop, isrVars, engineVars
<1>8. CASE \E n \in Sizes : Write(n)
  BY <1>8, Zenon DEF Write, isrVars, engineVars
<1>9. CASE Fill
  BY <1>9, Zenon DEF Fill, isrVars, engineVars
<1>10. CASE Push
  BY <1>10, Zenon DEF Push, isrVars, engineVars
<1>11. CASE WriteEnds
  BY <1>11, Zenon DEF WriteEnds, isrVars, StartEngine, engineVars
<1>12. CASE Flush
  BY <1>12, Zenon DEF Flush, isrVars, engineVars
<1>13. CASE SetEvent
  BY <1>13, Zenon DEF SetEvent, isrVars, engineVars
<1>14. CASE InitCompletion
  BY <1>14, Zenon DEF InitCompletion, isrVars, engineVars
<1>15. CASE WaitDone
  BY <1>15, Zenon DEF WaitDone, isrVars, engineVars
<1>16. CASE ClearEvent
  BY <1>16, Zenon DEF ClearEvent, isrVars, engineVars
<1>17. CASE Halt
  BY <1>17, Zenon DEF Halt, isrVars
<1>18. CASE UNCHANGED vars
  BY <1>18, Zenon DEF vars, isrVars, appVars, engineVars
<1>19. CASE OtherInterrupt
  BY <1>19, Zenon DEF OtherInterrupt, appVars, engineVars
<1>20. CASE LeaveIsr
  BY <1>20, Zenon DEF LeaveIsr, appVars, engineVars
<1> QED BY <1>1, <1>2, <1>3, <1>4, <1>5, <1>6, <1>7, <1>8, <1>9, <1>10, <1>11,
           <1>12, <1>13, <1>14, <1>15, <1>16, <1>17, <1>18, <1>19, <1>20, Zenon DEF Next

LEMMA StepNames == StepOK /\ [Next]_vars => StepOK'
BY DEF StepOK, Next, vars, appVars, engineVars, Play, OtherInterrupt, LeaveIsr,
       SendSilence, SendFrame, Open,
       Configure, Start, Stop, Write, Fill, Push, WriteEnds, Flush, SetEvent,
       InitCompletion, WaitDone, ClearEvent, Halt, At

(* Which steps touch what.                                                 *)
Untouched ==
  /\ SendFrame \/ Push \/ Flush \/ UNCHANGED queue
  /\ Open \/ Fill \/ Push \/ Flush \/ UNCHANGED block
  /\ SendFrame \/ UNCHANGED copied
  /\ Fill \/ UNCHANGED written
  /\ Fill \/ (\E n \in Sizes : Write(n)) \/ UNCHANGED todo
  /\ SendFrame \/ Fill \/ UNCHANGED free
  /\ SendSilence \/ SendFrame \/ Open \/ UNCHANGED pos
  /\ Play \/ Configure \/ Start \/ WriteEnds \/ UNCHANGED <<at, last>>
  /\ Play \/ UNCHANGED inOrder
  /\ SendSilence \/ SendFrame \/ Configure \/ Start \/ WriteEnds \/ Halt \/ UNCHANGED buffer
  /\ Configure \/ Start \/ WriteEnds \/ Halt \/ UNCHANGED running
  /\ Play \/ SendSilence \/ SendFrame \/ UNCHANGED td
  /\ \/ Play \/ SendSilence \/ SendFrame
     \/ Configure \/ Start \/ WriteEnds \/ Open \/ UNCHANGED slipped
  /\ OtherInterrupt \/ UNCHANGED noise
  /\ Halt \/ UNCHANGED cut

LEMMA StepTouches == [Next]_vars => Untouched
<1> SUFFICES ASSUME [Next]_vars PROVE Untouched
  OBVIOUS
<1>1. CASE Play
  BY <1>1, Zenon DEF Untouched, Play, isrVars, appVars
<1>2. CASE SendSilence
  BY <1>2, Zenon DEF Untouched, SendSilence, Served, appVars
<1>3. CASE SendFrame
  BY <1>3, Zenon DEF Untouched, SendFrame, Served, appVars
<1>4. CASE Open
  BY <1>4, Zenon DEF Untouched, Open, isrVars, engineVars
<1>5. CASE Configure
  BY <1>5, Zenon DEF Untouched, Configure, isrVars, StartEngine, appVars
<1>6. CASE Start
  BY <1>6, Zenon DEF Untouched, Start, isrVars, StartEngine, appVars
<1>7. CASE Stop
  BY <1>7, Zenon DEF Untouched, Stop, isrVars, engineVars
<1>8. CASE \E n \in Sizes : Write(n)
  BY <1>8, Zenon DEF Untouched, Write, isrVars, engineVars
<1>9. CASE Fill
  BY <1>9, Zenon DEF Untouched, Fill, isrVars, engineVars
<1>10. CASE Push
  BY <1>10, Zenon DEF Untouched, Push, isrVars, engineVars
<1>11. CASE WriteEnds
  BY <1>11, Zenon DEF Untouched, WriteEnds, isrVars, StartEngine, engineVars
<1>12. CASE Flush
  BY <1>12, Zenon DEF Untouched, Flush, isrVars, engineVars
<1>13. CASE SetEvent
  BY <1>13, Zenon DEF Untouched, SetEvent, isrVars, engineVars
<1>14. CASE InitCompletion
  BY <1>14, Zenon DEF Untouched, InitCompletion, isrVars, engineVars
<1>15. CASE WaitDone
  BY <1>15, Zenon DEF Untouched, WaitDone, isrVars, engineVars
<1>16. CASE ClearEvent
  BY <1>16, Zenon DEF Untouched, ClearEvent, isrVars, engineVars
<1>17. CASE Halt
  BY <1>17, Zenon DEF Untouched, Halt, isrVars
<1>18. CASE UNCHANGED vars
  BY <1>18, Zenon DEF Untouched, vars, isrVars, appVars, engineVars
<1>19. CASE OtherInterrupt
  BY <1>19, Zenon DEF Untouched, OtherInterrupt, appVars, engineVars
<1>20. CASE LeaveIsr
  BY <1>20, Zenon DEF Untouched, LeaveIsr, appVars, engineVars
<1> QED BY <1>1, <1>2, <1>3, <1>4, <1>5, <1>6, <1>7, <1>8, <1>9, <1>10, <1>11, <1>12, <1>13, <1>14, <1>15, <1>16, <1>17, <1>18, <1>19, <1>20, Zenon DEF Next

(* Lengths are numbers, and the units of the stream are units.             *)
LEMMA Lengths ==
  ASSUME TypeOK
  PROVE  /\ block \in Seq(Units) /\ Len(block) \in Nat
         /\ queue \in Seq(Seq(Units)) /\ Len(queue) \in Nat
         /\ Stream \in Seq(Units) /\ Len(Stream) \in Nat
         /\ MaxUnits \in Nat /\ Blocks \in Nat \ {0}
<1>1. block \in Seq(Units) /\ queue \in Seq(Seq(Units))
  BY DEF TypeOK, Units
<1>2. Stream \in Seq(Units)
  BY <1>1, FlatType DEF Stream
<1>3. Len(block) \in Nat /\ Len(queue) \in Nat /\ Len(Stream) \in Nat
  BY <1>1, <1>2, LenProperties
<1>4. MaxUnits \in Nat /\ Blocks \in Nat \ {0}
  BY AudioConstantsOK
<1> QED BY <1>1, <1>2, <1>3, <1>4

(* _audio_send_replay_frame: what is copied are the next units.            *)
LEMMA ReadStep ==
  ASSUME TypeOK, QueueOK, StreamOK, SendFrame
  PROVE  /\ DataOK' /\ QueueOK' /\ StreamOK'
         /\ copied' \in 1 .. MaxUnits /\ free' \in 0 .. Blocks
         /\ copied' = copied + Min({Frame, Len(Stream)})
<1> DEFINE n == Min({Frame, Len(Stream)})
           q == After(n)
<1>1. /\ queue # <<>> /\ queue' = q /\ free' = free + Freed(n) /\ copied' = Stream[n]
      /\ UNCHANGED <<block, written, pc>>
  BY DEF SendFrame, appVars
<1>2. ItemsOK /\ free + Len(queue) + (IF block = <<>> THEN 0 ELSE 1) = Blocks
  BY DEF QueueOK
<1>3. /\ q \in Seq(Seq(Units))
      /\ Freed(n) \in {0, 1} /\ Len(q) = Len(queue) - Freed(n)
      /\ \A k \in 1 .. Len(q) :
           /\ Len(q[k]) \in 1 .. Block
           /\ Whole(Len(q[k])) \/ (Stopping /\ k = Len(q))
      /\ FlattenSeq(q) \in Seq(Units)
      /\ Len(FlattenSeq(q)) = Len(Stream) - n
      /\ \A i \in 1 .. Len(FlattenSeq(q)) : FlattenSeq(q)[i] = Stream[n + i]
  BY <1>1, <1>2, LeftAfterRead
<1>4. n \in 1 .. Frame /\ n <= Len(Stream)
  BY <1>1, <1>2, ReadsHead
<1> HIDE DEF n, q
<1>5. n \in Nat \ {0} /\ n \in 1 .. Len(Stream) /\ n <= Frame
  <2> DEFINE l == Len(Stream)
  <2>1. l \in Nat
    BY Lengths
  <2> HIDE DEF l
  <2>2. n \in Nat \ {0} /\ n \in 1 .. l /\ n <= Frame
    BY <2>1, <1>4, FrameOK DEF l
  <2> QED BY <2>2 DEF l
<1>6. Stream[n] = copied + n /\ copied' = copied + n
  BY <1>1, <1>5 DEF StreamOK
<1>7. copied' \in 1 .. MaxUnits
  <2>1. Stream \in Seq(Units)
    BY Lengths
  <2>2. Stream[n] \in Units
    BY <1>5, <2>1, ElementOfSeq
  <2> QED BY <1>1, <2>2 DEF Units
<1>8. free' \in 0 .. Blocks /\ Len(queue') <= Blocks
      /\ free' + Len(queue') + (IF block' = <<>> THEN 0 ELSE 1) = Blocks
  <2> DEFINE l == Len(queue)
             e == IF block = <<>> THEN 0 ELSE 1
             f == Freed(n)
             m == Len(q)
  <2>1. l \in Nat /\ free \in 0 .. Blocks /\ Blocks \in Nat /\ e \in {0, 1}
    BY Lengths DEF TypeOK
  <2>2. m \in Nat
    BY <1>3, LenProperties
  <2>3. free + l + e = Blocks /\ f \in {0, 1} /\ m = l - f /\ free' = free + f
    BY <1>1, <1>2, <1>3
  <2> HIDE DEF l, e, f, m
  <2>4. free' \in 0 .. Blocks /\ m <= Blocks /\ free' + m + e = Blocks
    BY ONLY <2>1, <2>2, <2>3
  <2> QED BY <1>1, <2>4 DEF e, m
<1>9. DataOK'
  BY <1>1, <1>3, <1>8 DEF DataOK, TypeOK, Units
<1>10. ItemsOK'
  BY <1>1, <1>3 DEF ItemsOK, Stopping
<1>11. QueueOK'
  BY <1>8, <1>10 DEF QueueOK
<1>12. StreamOK'
  <2> DEFINE l == Len(Stream)
             m == Len(FlattenSeq(q))
             b == Len(block)
  <2>1. l \in Nat /\ b \in Nat
    BY Lengths
  <2>2. m = l - n /\ m \in Nat
    BY <1>3, LenProperties
  <2>3. copied \in Nat /\ copied + l + b = written
    BY DEF TypeOK, StreamOK
  <2>4. Stream' = FlattenSeq(q) /\ Len(Stream') = m /\ block' = block
    BY <1>1 DEF Stream
  <2>5. ASSUME NEW i \in 1 .. m PROVE Stream'[i] = copied' + i
    <3>1. Stream'[i] = Stream[n + i]
      BY <1>3, <2>4
    <3> HIDE DEF l, m, b
    <3>2. n + i \in 1 .. l /\ copied + (n + i) = copied' + i
      BY <1>5, <1>6, <2>1, <2>2, <2>3
    <3>3. Stream[n + i] = copied + (n + i)
      BY <3>2 DEF StreamOK, l
    <3> QED BY <3>1, <3>2, <3>3
  <2>6. copied' + m + b = written /\ copied' + m = copied + l
    <3> HIDE DEF l, m, b
    <3> QED BY ONLY <1>5, <1>6, <2>1, <2>2, <2>3
  <2>7. \A i \in 1 .. b : block[i] = copied + l + i
    BY DEF StreamOK
  <2>8. \A i \in 1 .. b : block[i] = copied' + m + i
    BY <2>6, <2>7
  <2> HIDE DEF m, b, l
  <2>9. /\ copied' + Len(Stream') + Len(block') = written'
        /\ \A i \in 1 .. Len(Stream') : Stream'[i] = copied' + i
        /\ \A i \in 1 .. Len(block') : block'[i] = copied' + Len(Stream') + i
    BY <1>1, <2>4, <2>5, <2>6, <2>8, Zenon DEF b
  <2> QED BY <2>9 DEF StreamOK
<1> QED BY <1>6, <1>7, <1>8, <1>9, <1>11, <1>12 DEF n

(* A block is filled with the next units of the write.                     *)
LEMMA FillStep ==
  ASSUME TypeOK, QueueOK, StreamOK, BlockOK, Fill
  PROVE  /\ DataOK' /\ QueueOK' /\ StreamOK' /\ BlockOK'
         /\ written' \in 0 .. MaxUnits /\ todo' \in 0 .. MaxUnits /\ free' \in 0 .. Blocks
<1> DEFINE n == Min({Block - Len(block), todo})
           l == Len(block)
           a == [i \in 1 .. n |-> written + i]
           m == Len(Stream)
<1>1. /\ pc = "fill" /\ todo > 0
      /\ \/ block # <<>> /\ UNCHANGED free
         \/ block = <<>> /\ free > 0 /\ free' = free - 1
      /\ block' = block \o a
      /\ written' = written + n
      /\ todo' = todo - n
      /\ pc' = IF l + n = Block THEN "push" ELSE "fill"
      /\ UNCHANGED <<queue, copied, activated>>
  BY DEF Fill, At, engineVars
<1>2. /\ l \in Nat /\ l < Block /\ Block \in Nat /\ todo \in Nat \ {0} /\ written \in Nat
      /\ written + todo <= MaxUnits /\ MaxUnits \in Nat
  <2>1. l \in Nat /\ MaxUnits \in Nat /\ Block \in Nat
    BY Lengths, BlockIsWhole
  <2>2. todo \in Nat /\ written \in Nat
    BY <2>1 DEF TypeOK
  <2>3. l < Block /\ written + todo <= MaxUnits
    BY <1>1 DEF BlockOK
  <2> QED BY <1>1, <2>1, <2>2, <2>3
<1>3. /\ n \in Nat \ {0} /\ n <= todo /\ l + n <= Block
  <2>1. n = IF Block - l <= todo THEN Block - l ELSE todo
    <3>1. Block - l \in Nat
      <4> HIDE DEF l
      <4> QED BY ONLY <1>2
    <3> QED BY <1>2, <3>1, MinOfTwo
  <2> HIDE DEF n, l
  <2> QED BY ONLY <2>1, <1>2
<1> HIDE DEF n
<1>4. a \in Seq(Units) /\ Len(a) = n /\ \A i \in 1 .. n : a[i] = written + i
  <2>1. \A i \in 1 .. n : written + i \in Units
    BY <1>2, <1>3 DEF Units
  <2> QED BY <1>3, <2>1
<1>5. block \in Seq(Units) /\ m \in Nat
  BY Lengths
<1> HIDE DEF a
<1>6. /\ block' \in Seq(Units) /\ Len(block') = l + n
      /\ \A i \in 1 .. l + n : block'[i] = IF i <= l THEN block[i] ELSE a[i - l]
  <2>1. /\ block \o a \in Seq(Units) /\ Len(block \o a) = Len(block) + Len(a)
        /\ \A i \in 1 .. Len(block) + Len(a) :
             (block \o a)[i] = IF i <= Len(block) THEN block[i] ELSE a[i - Len(block)]
    BY <1>4, <1>5, ConcatProperties
  <2> QED BY <1>1, <1>4, <2>1
<1>7. block' # <<>>
  <2>1. Len(block') # 0
    <3> HIDE DEF l
    <3> QED BY <1>2, <1>3, <1>6
  <2> QED BY <2>1, EmptySeq
<1>8. /\ free' \in 0 .. Blocks
      /\ free' + Len(queue') + (IF block' = <<>> THEN 0 ELSE 1) = Blocks
  <2> DEFINE k == Len(queue)
  <2>1. k \in Nat /\ free \in 0 .. Blocks /\ Blocks \in Nat
    BY Lengths DEF TypeOK
  <2>2. free + k + (IF block = <<>> THEN 0 ELSE 1) = Blocks
    BY DEF QueueOK
  <2> HIDE DEF k
  <2>3. free' \in 0 .. Blocks /\ free' + k + 1 = Blocks
    <3>1. CASE block # <<>> /\ UNCHANGED free
      <4>1. free + k + 1 = Blocks
        BY <2>2, <3>1
      <4> QED BY <2>1, <3>1, <4>1
    <3>2. CASE block = <<>> /\ free > 0 /\ free' = free - 1
      <4>1. free + k + 0 = Blocks
        BY <2>2, <3>2
      <4> QED BY <2>1, <3>2, <4>1
    <3> QED BY <1>1, <3>1, <3>2
  <2> QED BY <1>1, <1>7, <2>3 DEF k
<1>9. QueueOK'
  <2>1. ~Stopping
    BY <1>1 DEF Stopping
  <2>2. ItemsOK'
    BY <1>1, <2>1 DEF QueueOK, ItemsOK
  <2> QED BY <1>8, <2>2 DEF QueueOK
<1>10. DataOK'
  <2>1. Len(block') <= Block
    <3> HIDE DEF l
    <3> QED BY <1>3, <1>6
  <2> QED BY <1>1, <1>6, <2>1 DEF DataOK, TypeOK, Units
<1>11. StreamOK'
  <2>1. copied \in Nat /\ copied + m + l = written
    BY DEF TypeOK, StreamOK
  <2>2. Stream' = Stream
    BY <1>1 DEF Stream
  <2>3. copied + m + (l + n) = written'
    <3> HIDE DEF l, m
    <3> QED BY <1>1, <1>2, <1>3, <1>5, <2>1
  <2>4. ASSUME NEW i \in 1 .. l + n
        PROVE  block'[i] = copied + m + i
    <3>1. CASE i <= l
      <4>1. block'[i] = block[i] /\ i \in 1 .. l
        BY <1>6, <3>1, <1>2, <1>3
      <4>2. block[i] = copied + m + i
        BY <4>1 DEF StreamOK
      <4> QED BY <4>1, <4>2
    <3>2. CASE ~(i <= l)
      <4> HIDE DEF l, m
      <4>1. i - l \in 1 .. n /\ block'[i] = a[i - l]
        BY <1>2, <1>3, <1>6, <3>2
      <4>2. a[i - l] = written + (i - l)
        BY <1>4, <4>1
      <4>3. written + (i - l) = copied + m + i
        BY ONLY <2>1, <1>2, <1>3, <1>5
      <4> QED BY <4>1, <4>2, <4>3
    <3> QED BY <3>1, <3>2
  <2>5. \A i \in 1 .. Len(Stream) : Stream[i] = copied + i
    BY DEF StreamOK
  <2> HIDE DEF l, m
  <2>6. /\ copied' + Len(Stream') + Len(block') = written'
        /\ \A i \in 1 .. Len(Stream') : Stream'[i] = copied' + i
        /\ \A i \in 1 .. Len(block') : block'[i] = copied' + Len(Stream') + i
    BY <1>1, <1>6, <2>2, <2>3, <2>4, <2>5, Zenon DEF m
  <2> QED BY <2>6 DEF StreamOK
<1>12. written' \in 0 .. MaxUnits /\ todo' \in 0 .. MaxUnits /\ written' + todo' <= MaxUnits
  BY <1>1, <1>2, <1>3
<1>13. BlockOK'
  <2>1. pc' \in {"fill", "push"} /\ (pc' = "push" <=> l + n = Block)
    BY <1>1
  <2>2. pc' = "push" => Len(block') = Block
    BY <1>6, <2>1
  <2>3. pc' # "push" => Len(block') < Block
    <3> HIDE DEF l
    <3> QED BY <1>2, <1>3, <1>6, <2>1
  <2> QED BY <2>1, <2>2, <2>3, <1>12 DEF BlockOK, Stopping
<1> QED BY <1>8, <1>9, <1>10, <1>11, <1>12, <1>13

(* A block that is begun goes to the end of the queue.                     *)
LEMMA AppendStep ==
  ASSUME TypeOK, QueueOK, StreamOK, ~Stopping, block # <<>>,
         queue' = Append(queue, block), block' = <<>>,
         free' = free, copied' = copied, written' = written,
         Whole(Len(block)) \/ Stopping'
  PROVE  DataOK' /\ QueueOK' /\ StreamOK'
<1> DEFINE l == Len(block)
           m == Len(Stream)
           c == Len(queue)
<1>1. /\ block \in Seq(Units) /\ l \in Nat /\ l # 0
      /\ queue \in Seq(Seq(Units)) /\ c \in Nat
      /\ Stream \in Seq(Units) /\ m \in Nat
  <2>1. /\ block \in Seq(Units) /\ l \in Nat
        /\ queue \in Seq(Seq(Units)) /\ c \in Nat
        /\ Stream \in Seq(Units) /\ m \in Nat
    BY Lengths
  <2> QED BY <2>1, EmptySeq
<1>2. /\ queue' \in Seq(Seq(Units)) /\ Len(queue') = c + 1 /\ queue'[c + 1] = block
      /\ \A k \in 1 .. c : queue'[k] = queue[k]
  <2> DEFINE I == Seq(Units)
  <2>1. queue \in Seq(I) /\ block \in I
    BY <1>1
  <2> HIDE DEF I
  <2>2. /\ Append(queue, block) \in Seq(I)
        /\ Len(Append(queue, block)) = Len(queue) + 1
        /\ \A k \in 1 .. Len(queue) : Append(queue, block)[k] = queue[k]
        /\ Append(queue, block)[Len(queue) + 1] = block
    BY <2>1, AppendProperties
  <2> QED BY <2>2 DEF I
<1>3. Stream' = Stream \o block
  BY <1>1, FlatAppend DEF Stream
<1>4. /\ Len(Stream') = m + l
      /\ \A i \in 1 .. m + l : Stream'[i] = IF i <= m THEN Stream[i] ELSE block[i - m]
  <2>1. /\ Len(Stream \o block) = Len(Stream) + Len(block)
        /\ \A i \in 1 .. Len(Stream) + Len(block) :
             (Stream \o block)[i] = IF i <= Len(Stream) THEN Stream[i] ELSE block[i - Len(Stream)]
    BY <1>1, ConcatProperties
  <2> QED BY <1>3, <2>1
<1>5. free \in 0 .. Blocks /\ Blocks \in Nat /\ free + c + 1 = Blocks
  <2>1. free \in 0 .. Blocks /\ Blocks \in Nat
    BY Lengths DEF TypeOK
  <2>2. free + c + (IF block = <<>> THEN 0 ELSE 1) = Blocks
    BY DEF QueueOK
  <2> QED BY <2>1, <2>2
<1>6. Len(block') = 0 /\ block' \in Seq(Units) /\ 0 <= Block
  BY EmptySeq, BlockIsWhole
<1>7. DataOK'
  <2>1. c + 1 <= Blocks
    <3> HIDE DEF c
    <3> QED BY ONLY <1>1, <1>5
  <2> QED BY <1>2, <1>6, <2>1 DEF DataOK, Units
<1>8. QueueOK'
  <2>1. l \in 1 .. Block
    <3>1. l <= Block
      BY DEF TypeOK
    <3> HIDE DEF l
    <3> QED BY <3>1, <1>1, BlockIsWhole
  <2>2. ASSUME NEW k \in 1 .. c + 1
        PROVE  /\ Len(queue'[k]) \in 1 .. Block
               /\ Whole(Len(queue'[k])) \/ (Stopping' /\ k = c + 1)
    <3>1. CASE k = c + 1
      BY <1>2, <2>1, <3>1
    <3>2. CASE k # c + 1
      <4>1. k \in 1 .. c
        <5> HIDE DEF c
        <5> QED BY <1>1, <3>2
      <4>2. Len(queue[k]) \in 1 .. Block /\ Whole(Len(queue[k]))
        BY <4>1 DEF QueueOK, ItemsOK
      <4> QED BY <1>2, <4>1, <4>2
    <3> QED BY <3>1, <3>2
  <2>3. free' + Len(queue') + (IF block' = <<>> THEN 0 ELSE 1) = Blocks
    <3>1. free + (c + 1) + 0 = Blocks
      <4> HIDE DEF c
      <4> QED BY ONLY <1>1, <1>5
    <3> QED BY <1>2, <3>1
  <2> HIDE DEF c
  <2>4. ItemsOK'
    BY <1>2, <2>2 DEF ItemsOK
  <2> QED BY <2>3, <2>4 DEF QueueOK
<1>9. StreamOK'
  <2>1. copied \in Nat /\ copied + m + l = written
    BY DEF TypeOK, StreamOK
  <2>2. ASSUME NEW i \in 1 .. m + l PROVE Stream'[i] = copied + i
    <3>1. CASE i <= m
      <4>1. i \in 1 .. m
        <5> HIDE DEF m, l
        <5> QED BY <1>1, <3>1
      <4> QED BY <1>4, <3>1, <4>1 DEF StreamOK
    <3>2. CASE ~(i <= m)
      <4>1. i - m \in 1 .. l /\ copied + m + (i - m) = copied + i
        <5> HIDE DEF m, l
        <5> QED BY ONLY <1>1, <2>1, <3>2
      <4>2. Stream'[i] = block[i - m]
        BY <1>4, <3>2
      <4>3. block[i - m] = copied + m + (i - m)
        BY <4>1 DEF StreamOK
      <4> QED BY <4>1, <4>2, <4>3
    <3> QED BY <3>1, <3>2
  <2> HIDE DEF m, l
  <2>3. copied + (m + l) + 0 = written
    BY ONLY <2>1, <1>1
  <2>4. \A i \in 1 .. 0 : block'[i] = copied' + Len(Stream') + i
    OBVIOUS
  <2>5. copied' + Len(Stream') + Len(block') = written'
    BY <1>4, <1>6, <2>3, Zenon
  <2>6. \A i \in 1 .. Len(Stream') : Stream'[i] = copied' + i
    BY <1>4, <2>2
  <2> QED BY <1>6, <2>4, <2>5, <2>6 DEF StreamOK
<1> QED BY <1>7, <1>8, <1>9

LEMMA PushStep ==
  ASSUME TypeOK, QueueOK, StreamOK, BlockOK, Push
  PROVE  DataOK' /\ QueueOK' /\ StreamOK' /\ BlockOK'
<1>1. /\ pc = "push" /\ pc' = "fill"
      /\ queue' = Append(queue, block) /\ block' = <<>>
      /\ UNCHANGED <<free, copied, written, todo, activated>>
  BY DEF Push, At, engineVars
<1>2. Len(block) = Block /\ Block \in Nat \ {0} /\ Whole(Block) /\ ~Stopping
  BY <1>1, BlockIsWhole DEF BlockOK, Stopping
<1>3. block # <<>>
  BY <1>2, EmptySeq
<1>4. DataOK' /\ QueueOK' /\ StreamOK'
  BY <1>1, <1>2, <1>3, AppendStep
<1>5. BlockOK'
  <2>1. Len(block') < Block
    BY <1>1, <1>2, EmptySeq
  <2> QED BY <1>1, <2>1 DEF BlockOK, Stopping
<1> QED BY <1>4, <1>5

LEMMA FlushStep ==
  ASSUME TypeOK, QueueOK, StreamOK, BlockOK, Flush
  PROVE  DataOK' /\ QueueOK' /\ StreamOK' /\ BlockOK'
<1>1. /\ pc = "flush" /\ pc' = "event"
      /\ queue' = IF block = <<>> THEN queue ELSE Append(queue, block)
      /\ block' = <<>>
      /\ UNCHANGED <<free, copied, written, todo, activated>>
  BY DEF Flush, At, engineVars
<1>2. ~Stopping /\ Stopping'
  BY <1>1 DEF Stopping
<1>3. DataOK' /\ QueueOK' /\ StreamOK'
  <2>1. CASE block = <<>>
    <3>1. queue' = queue /\ block' = block
      BY <1>1, <2>1
    <3>2. Stream' = Stream
      BY <3>1 DEF Stream
    <3>3. DataOK'
      BY <3>1 DEF TypeOK, DataOK, Units
    <3>4. ItemsOK'
      BY <3>1, <1>2 DEF QueueOK, ItemsOK
    <3>5. QueueOK'
      BY <1>1, <3>1, <3>4 DEF QueueOK
    <3>6. StreamOK'
      BY <1>1, <3>1, <3>2 DEF StreamOK
    <3> QED BY <3>3, <3>5, <3>6
  <2>2. CASE block # <<>>
    BY <1>1, <1>2, <2>2, AppendStep
  <2> QED BY <2>1, <2>2
<1>4. BlockOK'
  BY <1>1 DEF BlockOK, Stopping
<1> QED BY <1>3, <1>4

-----------------------------------------------------------------------------
(* Every step.                                                             *)

LEMMA StreamStep ==
  ASSUME IInv, [Next]_vars
  PROVE  DataOK' /\ QueueOK' /\ StreamOK'
<1>1. TypeOK /\ QueueOK /\ StreamOK /\ BlockOK /\ PosOK
  BY DEF IInv
<1>2. Untouched
  BY StepTouches
<1>3. CASE SendFrame
  BY <1>1, <1>3, ReadStep
<1>4. CASE Fill
  BY <1>1, <1>4, FillStep
<1>5. CASE Push
  BY <1>1, <1>5, PushStep
<1>6. CASE Flush
  BY <1>1, <1>6, FlushStep
<1>7. CASE ~SendFrame /\ ~Fill /\ ~Push /\ ~Flush
  <2>1. /\ queue' = queue /\ copied' = copied /\ written' = written /\ free' = free
        /\ Open \/ block' = block
    BY <1>2, <1>7, Zenon DEF Untouched
  <2>2. block' = block
    <3>1. CASE Open
      <4>1. activated \/ block = <<>>
        BY <1>1, <3>1 DEF BlockOK, Open, At
      <4>2. activated \/ block' = <<>>
        BY <3>1, Zenon DEF Open
      <4>3. activated => block' = block
        BY <3>1, Zenon DEF Open
      <4> QED BY <4>1, <4>2, <4>3, Zenon
    <3> QED BY <2>1, <3>1
  <2>3. Stream' = Stream
    BY <2>1 DEF Stream
  <2>4. DataOK'
    BY <1>1, <2>1, <2>2 DEF DataOK, TypeOK, Units
  <2>5. Stopping => Stopping' \/ queue = <<>>
    <3> SUFFICES ASSUME Stopping, ~Stopping' PROVE queue = <<>>
      OBVIOUS
    <3>1. Halt
      BY <1>7 DEF Next, vars, appVars, engineVars, Play, OtherInterrupt, LeaveIsr,
             SendSilence, Open,
             Configure, Start, Stop, Write, WriteEnds, SetEvent,
             InitCompletion, WaitDone, ClearEvent, Halt, At, Stopping
    <3> QED BY <1>1, <3>1 DEF Halt, At, PosOK, Quiet
  <2>6. ItemsOK'
    <3>1. CASE queue = <<>>
      BY <2>1, <3>1, EmptySeq DEF ItemsOK
    <3>2. CASE queue # <<>>
      BY <1>1, <2>1, <2>5, <3>2 DEF QueueOK, ItemsOK
    <3> QED BY <3>1, <3>2
  <2>7. QueueOK'
    BY <1>1, <2>1, <2>2, <2>6 DEF QueueOK
  <2>8. StreamOK'
    BY <1>1, <2>1, <2>2, <2>3 DEF StreamOK
  <2> QED BY <2>4, <2>7, <2>8
<1> QED BY <1>3, <1>4, <1>5, <1>6, <1>7

LEMMA BlockStep ==
  ASSUME IInv, [Next]_vars
  PROVE  BlockOK'
<1>1. TypeOK /\ QueueOK /\ StreamOK /\ BlockOK /\ PosOK
  BY DEF IInv
<1> DEFINE SmallBlock == Len(<<>>) < Block
<1>2. SmallBlock
  BY EmptySeq, BlockIsWhole
<1>3. CASE Play
  BY <1>1, <1>3 DEF BlockOK, Stopping, Play, appVars
<1>4. CASE SendSilence
  BY <1>1, <1>4 DEF BlockOK, Stopping, SendSilence, appVars
<1>5. CASE SendFrame
  BY <1>1, <1>5 DEF BlockOK, Stopping, SendFrame, appVars
<1>6. CASE Open
  <2>1. /\ pc = "idle" /\ block' \in {block, <<>>}
        /\ UNCHANGED <<pc, written, todo, activated>>
    BY <1>6 DEF Open, At, engineVars
  <2> QED BY <1>1, <1>2, <2>1 DEF BlockOK, Stopping
<1>7. CASE Configure
  BY <1>1, <1>7 DEF BlockOK, Stopping, Configure, StartEngine, appVars
<1>8. CASE Start
  BY <1>1, <1>8 DEF BlockOK, Stopping, Start, StartEngine, appVars, At
<1>9. CASE Stop
  BY <1>1, <1>9 DEF BlockOK, Stopping, Stop, engineVars, At
<1>10. CASE \E n \in Sizes : Write(n)
  <2>1. PICK n \in Sizes : Write(n)
    BY <1>10
  <2>2. /\ pc = "idle" /\ pc' = "fill" /\ todo' = n /\ written + n <= MaxUnits
        /\ UNCHANGED <<written, block, activated>>
    BY <2>1 DEF Write, At, engineVars
  <2> QED BY <1>1, <2>2 DEF BlockOK, Stopping
<1>11. CASE Fill
  BY <1>1, <1>11, FillStep
<1>12. CASE Push
  BY <1>1, <1>12, PushStep
<1>13. CASE WriteEnds
  <2>1. pc = "fill" /\ pc' = "idle" /\ activated' /\ UNCHANGED <<written, block, todo>>
    BY <1>13, Zenon DEF WriteEnds, At, StartEngine, engineVars
  <2> QED BY <1>1, <2>1 DEF BlockOK, Stopping
<1>14. CASE Flush
  BY <1>1, <1>14, FlushStep
<1>15. CASE SetEvent
  BY <1>1, <1>15 DEF BlockOK, Stopping, SetEvent, engineVars, At
<1>16. CASE InitCompletion
  BY <1>1, <1>16 DEF BlockOK, Stopping, InitCompletion, engineVars, At
<1>17. CASE WaitDone
  BY <1>1, <1>17 DEF BlockOK, Stopping, WaitDone, engineVars, At
<1>18. CASE ClearEvent
  BY <1>1, <1>18 DEF BlockOK, Stopping, ClearEvent, engineVars, At
<1>19. CASE Halt
  <2>1. pc = "halt" /\ pc' = "idle" /\ ~activated' /\ UNCHANGED <<written, block, todo>>
    BY <1>19 DEF Halt, At
  <2>2. block = <<>>
    BY <1>1, <2>1 DEF BlockOK, Stopping
  <2> QED BY <1>1, <1>2, <2>1, <2>2 DEF BlockOK, Stopping
<1>20. CASE UNCHANGED vars
  BY <1>1, <1>20 DEF BlockOK, Stopping, vars, appVars, engineVars
<1>21. CASE OtherInterrupt \/ LeaveIsr
  BY <1>1, <1>21 DEF BlockOK, Stopping, OtherInterrupt, LeaveIsr, appVars, engineVars
<1> QED BY <1>3, <1>4, <1>5, <1>6, <1>7, <1>8, <1>9, <1>10, <1>11, <1>12, <1>13,
           <1>14, <1>15, <1>16, <1>17, <1>18, <1>19, <1>20, <1>21 DEF Next

-----------------------------------------------------------------------------
(* Handler and engine.                                                     *)

LEMMA HalfType ==
  ASSUME NEW a \in 0 .. Total - 1
  PROVE  /\ Half(a) \in {0, Frame} /\ Other(a) \in {0, Frame}
         /\ Half(a) # Other(a) /\ Frame - Half(a) = Other(a) /\ Frame - Other(a) = Half(a)
         /\ Other(a) \in 0 .. Total - 1 /\ Half(Other(a)) = Other(a) /\ Other(Other(a)) = Half(a)
         /\ a \in Half(a) .. Half(a) + Frame - 1
         /\ \A k \in Half(a) .. Half(a) + Frame - 1 : k \in 0 .. Total - 1 /\ Half(k) = Half(a)
         /\ \A k \in Other(a) .. Other(a) + Frame - 1 : k \in 0 .. Total - 1 /\ Half(k) = Other(a)
BY FrameOK DEF Half, Other

LEMMA PhaseIs ==
  ASSUME NEW p, NEW a \in 0 .. Total - 1, NEW e
  PROVE  Phase(p, a, e) <=> p = IF e THEN Other(a) ELSE Half(a)
<1>1. (a \div Frame) * Frame = Half(a) /\ Frame - (a \div Frame) * Frame = Other(a)
  BY HalfOf
<1> QED BY <1>1, Zenon DEF Phase

(* The handler moves pos to the other half, also when the queue ran dry.   *)
LEMMA SendMoves ==
  ASSUME TypeOK, QueueOK, PosOK, SendSilence \/ SendFrame
  PROVE  pos' = Frame - pos
<1>1. (pos + Frame) % Total = Frame - pos
  BY AdvanceFrame DEF PosOK
<1>2. CASE SendSilence
  BY <1>1, <1>2 DEF SendSilence, Advance
<1>3. CASE SendFrame
  <2> DEFINE n == Min({Frame, Len(Stream)})
  <2>1. queue # <<>> /\ pos' = IF n < Frame THEN UnderRun ELSE Advance(Frame)
    BY <1>3 DEF SendFrame
  <2>2. n < Frame => UnderRun = Advance(Frame)
    BY <2>1, ReadsHead DEF QueueOK
  <2> HIDE DEF n
  <2>3. pos' = Advance(Frame)
    BY <2>1, <2>2, Zenon
  <2> QED BY <1>1, <2>3 DEF Advance
<1> QED BY <1>2, <1>3

(* Only a handler that finds the queue empty acknowledges a stop.          *)
LEMMA QuietStep ==
  ASSUME IInv, [Next]_vars, Quiet'
  PROVE  (Quiet /\ queue' = queue) \/ SendSilence
<1> USE DEF Quiet
<1>1. CASE Play
  BY <1>1, Zenon DEF Play, appVars
<1>2. CASE SendSilence
  BY <1>2
<1>3. CASE SendFrame
  <2>1. Quiet /\ queue # <<>>
    BY <1>3, Zenon DEF SendFrame, appVars
  <2> QED BY <2>1 DEF IInv, PosOK
<1>4. CASE Open
  BY <1>4, Zenon DEF Open
<1>5. CASE Configure
  BY <1>5, Zenon DEF Configure, appVars
<1>6. CASE Start
  BY <1>6, Zenon DEF Start, appVars
<1>7. CASE Stop
  BY <1>7 DEF Stop, At
<1>8. CASE \E n \in Sizes : Write(n)
  BY <1>8 DEF Write
<1>9. CASE Fill
  BY <1>9 DEF Fill
<1>10. CASE Push
  BY <1>10 DEF Push
<1>11. CASE WriteEnds
  BY <1>11 DEF WriteEnds
<1>12. CASE Flush
  BY <1>12 DEF Flush
<1>13. CASE SetEvent
  BY <1>13 DEF SetEvent
<1>14. CASE InitCompletion
  BY <1>14 DEF InitCompletion
<1>15. CASE WaitDone
  BY <1>15 DEF WaitDone, At
<1>16. CASE ClearEvent
  BY <1>16 DEF ClearEvent, At
<1>17. CASE Halt
  BY <1>17 DEF Halt
<1>18. CASE UNCHANGED vars
  BY <1>18, Zenon DEF vars, appVars
<1>19. CASE OtherInterrupt \/ LeaveIsr
  BY <1>19, Zenon DEF OtherInterrupt, LeaveIsr, appVars
<1> QED BY <1>1, <1>2, <1>3, <1>4, <1>5, <1>6, <1>7, <1>8, <1>9, <1>10, <1>11,
           <1>12, <1>13, <1>14, <1>15, <1>16, <1>17, <1>18, <1>19, Zenon DEF Next

LEMMA PosStep ==
  ASSUME IInv, [Next]_vars
  PROVE  PosOK'
<1>1. TypeOK /\ QueueOK /\ PosOK /\ Frame \in Nat \ {0}
  BY FrameOK DEF IInv
<1>2. Untouched
  BY StepTouches
<1>3. pos' \in {0, Frame}
  <2>1. CASE SendSilence \/ SendFrame
    <3>1. pos' = Frame - pos
      BY <1>1, <2>1, SendMoves
    <3>2. pos \in {0, Frame}
      BY <1>1 DEF PosOK
    <3> QED BY <1>1, <3>1, <3>2
  <2>2. CASE Open
    <3>1. pos' \in {pos, 0}
      BY <2>2 DEF Open
    <3> QED BY <1>1, <3>1 DEF PosOK
  <2>3. CASE pos' = pos
    BY <1>1, <2>3 DEF PosOK
  <2> QED BY <1>2, <2>1, <2>2, <2>3 DEF Untouched
<1>4. Quiet' => queue' = <<>>
  <2> SUFFICES ASSUME Quiet' PROVE queue' = <<>>
    OBVIOUS
  <2>1. (Quiet /\ queue' = queue) \/ SendSilence
    BY QuietStep
  <2>2. CASE Quiet /\ queue' = queue
    BY <1>1, <2>2 DEF PosOK
  <2>3. CASE SendSilence
    BY <2>3 DEF SendSilence
  <2> QED BY <2>1, <2>2, <2>3
<1> QED BY <1>3, <1>4 DEF PosOK

LEMMA EngineStep ==
  ASSUME IInv, [Next]_vars
  PROVE  EngineOK'
<1>1. (Quiet \/ td => running) /\ Untouched
  BY StepTouches DEF IInv, EngineOK
<1>2. CASE Play
  BY <1>2, Zenon DEF Play, EngineOK
<1>3. CASE SendSilence \/ SendFrame
  <2>1. td /\ running' = running
    BY <1>3, Zenon DEF SendSilence, SendFrame, Served
  <2> QED BY <1>1, <2>1, Zenon DEF EngineOK
<1>4. CASE Configure \/ Start \/ WriteEnds \/ Halt
  <2>1. pc' = "idle" /\ ~td /\ td' = td
    BY <1>4, Zenon DEF Configure, Start, WriteEnds, Halt, StartEngine, At, appVars,
       engineVars
  <2> QED BY <2>1 DEF EngineOK, Quiet
<1>5. CASE running' = running /\ td' = td /\ ~SendSilence
  <2>1. Quiet' => Quiet
    BY <1>5, QuietStep
  <2> QED BY <1>1, <1>5, <2>1, Zenon DEF EngineOK
<1> QED BY <1>1, <1>2, <1>3, <1>4, <1>5, Zenon DEF Untouched

(* The engine at its next place.                                           *)
LEMMA PlayMoves ==
  ASSUME TypeOK, Play
  PROVE  /\ \/ /\ (at + 1) % Frame = 0
               /\ at + 1 = Half(at) + Frame /\ at' = Other(at)
               /\ td' = TRUE /\ slipped' = (slipped \/ td)
            \/ /\ (at + 1) % Frame # 0
               /\ at + 1 < Half(at) + Frame /\ at' = at + 1
               /\ at' \in 0 .. Total - 1
               /\ Half(at') = Half(at) /\ Other(at') = Other(at)
               /\ td' = td /\ slipped' = slipped
         /\ running' = running /\ pos' = pos /\ buffer' = buffer
<1>1. at \in 0 .. Total - 1 /\ Frame \in Nat \ {0} /\ Total = Frame + Frame
  BY FrameOK DEF TypeOK
<1>2. running' = running /\ pos' = pos /\ buffer' = buffer /\ at' = (at + 1) % Total
  BY DEF Play
<1>3. CASE (at + 1) % Frame = 0
  <2>1. td' = TRUE /\ slipped' = (slipped \/ td)
    BY <1>3, Zenon DEF Play
  <2>2. at + 1 = Half(at) + Frame /\ at' = Other(at)
    BY <1>1, <1>2, <1>3, NextPlace
  <2> QED BY <1>2, <1>3, <2>1, <2>2, Zenon
<1>4. CASE (at + 1) % Frame # 0
  <2>1. td' = td /\ slipped' = slipped
    BY <1>4, Zenon DEF Play
  <2>2. at + 1 < Half(at) + Frame /\ at' = at + 1
    BY <1>1, <1>2, <1>4, NextPlace
  <2>3. at' \in 0 .. Total - 1 /\ Half(at') = Half(at) /\ Other(at') = Other(at)
    BY <1>1, <2>2 DEF Half, Other
  <2> QED BY <1>2, <1>4, <2>1, <2>2, <2>3, Zenon
<1> QED BY <1>3, <1>4

LEMMA PhaseStep ==
  ASSUME IInv, [Next]_vars
  PROVE  PhaseKept'
<1>1. TypeOK /\ QueueOK /\ PosOK /\ PhaseKept /\ at \in 0 .. Total - 1 /\ 0 \in 0 .. Total - 1
  BY FrameOK DEF IInv, TypeOK
<1>2. Untouched
  BY StepTouches
<1> SUFFICES ASSUME running', ~slipped' PROVE Phase(pos', at', td')
  BY DEF PhaseKept
<1>3. CASE Play
  <2>1. running /\ ~slipped
    <3>1. /\ running' = running
          /\ slipped' = (slipped \/ td) \/ slipped' = slipped
      BY <1>1, <1>3, PlayMoves
    <3>2. running /\ ~slipped'
      BY <3>1
    <3>3. CASE slipped' = slipped
      BY <3>2, <3>3
    <3>4. CASE slipped' = (slipped \/ td)
      BY <3>2, <3>4
    <3> QED BY <3>1, <3>2, <3>3, <3>4, Zenon
  <2>2. pos = IF td THEN Other(at) ELSE Half(at)
    BY <1>1, <2>1, PhaseIs DEF PhaseKept
  <2>3. CASE (at + 1) % Frame = 0
    <3>1. at' = Other(at) /\ td' /\ ~td /\ pos' = pos
      BY <1>1, <1>3, <2>3, PlayMoves, Zenon
    <3>2. at' \in 0 .. Total - 1 /\ Other(at') = Half(at)
      BY <1>1, <3>1, HalfType
    <3> QED BY <2>2, <3>1, <3>2, PhaseIs
  <2>4. CASE (at + 1) % Frame # 0
    <3>1. /\ at' \in 0 .. Total - 1 /\ Half(at') = Half(at) /\ Other(at') = Other(at)
          /\ td' = td /\ pos' = pos
      BY <1>1, <1>3, <2>4, PlayMoves, Zenon
    <3> QED BY <2>2, <3>1, PhaseIs
  <2> QED BY <2>3, <2>4
<1>4. CASE SendSilence \/ SendFrame
  <2>1. td /\ ~td' /\ running' = running /\ ~slipped /\ at' = at
    <3>1. /\ td /\ td' = entered /\ slipped' = (slipped \/ entered)
          /\ running' = running /\ at' = at
      BY <1>4, Zenon DEF SendSilence, SendFrame, Served
    <3> QED BY <3>1, Zenon
  <2>2. pos = Other(at)
    BY <1>1, <2>1, PhaseIs DEF PhaseKept
  <2>3. pos' = Half(at)
    BY <1>1, <1>4, <2>2, SendMoves, HalfType
  <2> QED BY <1>1, <2>1, <2>3, PhaseIs
<1>5. CASE Open
  <2>1. ~td /\ td' = td /\ at' = at /\ running' = running
    BY <1>5, Zenon DEF Open, At, engineVars
  <2>2. CASE activated
    <3>1. pos' = pos /\ slipped' = slipped
      BY <1>5, <2>2, Zenon DEF Open
    <3> QED BY <1>1, <2>1, <3>1, Zenon DEF PhaseKept
  <2>3. CASE ~activated
    <3>1. pos' = 0 /\ slipped' = (slipped \/ (running /\ ~Phase(0, at, FALSE)))
      BY <1>5, <2>3, Zenon DEF Open
    <3>2. Phase(0, at, FALSE)
      BY <2>1, <3>1, Zenon
    <3>3. 0 = Half(at)
      BY <1>1, <3>2, PhaseIs
    <3> QED BY <1>1, <2>1, <3>1, <3>3, PhaseIs
  <2> QED BY <2>2, <2>3
<1>6. CASE StartEngine /\ ~td /\ pos' = pos
  <2>1. at' = 0 /\ ~td' /\ slipped' = ~Phase(pos, 0, FALSE)
    BY <1>6, Zenon DEF StartEngine
  <2>2. Phase(pos, 0, FALSE)
    BY <2>1, Zenon
  <2>3. pos' = Half(0)
    BY <1>1, <1>6, <2>2, PhaseIs
  <2> QED BY <1>1, <2>1, <2>3, PhaseIs
<1>7. CASE /\ pos' = pos /\ at' = at /\ td' = td /\ slipped' = slipped
           /\ (running' = running \/ ~running')
  BY <1>1, <1>7, Zenon DEF PhaseKept
<1>8. CASE Configure \/ Start \/ WriteEnds
  <2>1. (StartEngine /\ ~td /\ pos' = pos) \/ UNCHANGED <<pos, at, td, slipped, running>>
    BY <1>8, Zenon DEF Configure, Start, WriteEnds, At, engineVars
  <2> QED BY <1>6, <1>7, <2>1
<1>9. CASE Halt
  BY <1>7, <1>9, Zenon DEF Halt
<1> QED BY <1>2, <1>3, <1>4, <1>5, <1>7, <1>8, <1>9, Zenon DEF Untouched

-----------------------------------------------------------------------------
(* What is in the buffer.                                                  *)

LEMMA RunNext ==
  ASSUME NEW buf, NEW a \in Nat, NEW z \in Nat, NEW n \in Nat, NEW unit \in Nat,
         Run(buf, a, z, n, unit), a < z
  PROVE  /\ n = 0 => buf[a] = 0 /\ Run(buf, a + 1, z, 0, unit)
         /\ n # 0 => /\ buf[a] = unit + 1 /\ n - 1 \in Nat
                     /\ Run(buf, a + 1, z, n - 1, unit + 1)
<1>1. a + n <= z
      /\ \A k \in a .. z - 1 : buf[k] = IF k < a + n THEN unit + 1 + (k - a) ELSE 0
  BY DEF Run
<1>2. buf[a] = IF a < a + n THEN unit + 1 + (a - a) ELSE 0
  <2>1. a \in a .. z - 1
    OBVIOUS
  <2> QED BY <1>1, <2>1
<1>3. CASE n = 0
  <2>1. buf[a] = 0
    BY <1>2, <1>3
  <2>2. (a + 1) + 0 <= z
    OBVIOUS
  <2>3. ASSUME NEW k \in a + 1 .. z - 1
        PROVE  buf[k] = IF k < (a + 1) + 0 THEN unit + 1 + (k - (a + 1)) ELSE 0
    <3>1. k \in a .. z - 1 /\ ~(k < a + n) /\ ~(k < (a + 1) + 0)
      BY <1>3
    <3> QED BY <1>1, <3>1
  <2> QED BY <1>3, <2>1, <2>2, <2>3 DEF Run
<1>4. CASE n # 0
  <2>1. buf[a] = unit + 1 /\ n - 1 \in Nat
    BY <1>2, <1>4
  <2>2. (a + 1) + (n - 1) <= z
    BY <1>1
  <2>3. ASSUME NEW k \in a + 1 .. z - 1
        PROVE  buf[k] = IF k < (a + 1) + (n - 1) THEN (unit + 1) + 1 + (k - (a + 1)) ELSE 0
    <3>1. /\ k \in a .. z - 1 /\ (k < a + n <=> k < (a + 1) + (n - 1))
          /\ unit + 1 + (k - a) = (unit + 1) + 1 + (k - (a + 1))
      OBVIOUS
    <3>2. buf[k] = IF k < a + n THEN unit + 1 + (k - a) ELSE 0
      BY <1>1, <3>1
    <3> QED BY <3>1, <3>2
  <2> QED BY <1>4, <2>1, <2>2, <2>3 DEF Run
<1> QED BY <1>3, <1>4

(* Two buffers that agree hold the same.                                   *)
LEMMA RunSame ==
  ASSUME NEW buf, NEW other, NEW a \in Nat, NEW z \in Nat, NEW n, NEW unit,
         Run(buf, a, z, n, unit), \A k \in a .. z - 1 : other[k] = buf[k]
  PROVE  Run(other, a, z, n, unit)
BY DEF Run

(* The half at pos is filled, the other one is left alone.                 *)
LEMMA FilledIs ==
  ASSUME PosOK, NEW s \in Seq(Units), NEW n \in Nat, Len(s) = n, NEW k \in 0 .. Total - 1
  PROVE  /\ Half(k) # pos => Filled(s)[k] = buffer[k]
         /\ Half(k) = pos => Filled(s)[k] = IF k < pos + n THEN s[k - pos + 1] ELSE 0
<1>1. Frame \in Nat \ {0} /\ Total = Frame + Frame /\ pos \in {0, Frame}
  BY FrameOK DEF PosOK
<1>2. Filled(s)[k] = IF k \div Frame # pos \div Frame THEN buffer[k]
                     ELSE IF k - pos + 1 \in 1 .. Len(s) THEN s[k - pos + 1] ELSE 0
  BY DEF Filled
<1>3. /\ k \div Frame = IF k < Frame THEN 0 ELSE 1
      /\ pos \div Frame = IF pos < Frame THEN 0 ELSE 1
  <2>1. pos \in 0 .. Total - 1
    BY <1>1
  <2> QED BY <2>1, HalfOf
<1>4. k \div Frame # pos \div Frame <=> Half(k) # pos
  BY <1>1, <1>3 DEF Half
<1>5. Half(k) = pos => (k - pos + 1 \in 1 .. n <=> k < pos + n)
  BY <1>1 DEF Half
<1> QED BY <1>2, <1>4, <1>5

LEMMA FilledType ==
  ASSUME TypeOK, PosOK, NEW s \in Seq(Units)
  PROVE  Filled(s) \in [0 .. Total - 1 -> 0 .. MaxUnits]
<1>1. Len(s) \in Nat /\ MaxUnits \in Nat /\ buffer \in [0 .. Total - 1 -> 0 .. MaxUnits]
  <2>1. Len(s) \in Nat
    BY LenProperties
  <2>2. MaxUnits \in Nat
    BY AudioConstantsOK
  <2> QED BY <2>1, <2>2 DEF TypeOK
<1>2. \A i \in 1 .. Len(s) : s[i] \in 0 .. MaxUnits
  <2>1. \A i \in 1 .. Len(s) : s[i] \in Units
    BY ElementOfSeq
  <2> QED BY <1>1, <2>1 DEF Units
<1>3. ASSUME NEW i \in 0 .. Total - 1
      PROVE  (IF i \div Frame # pos \div Frame THEN buffer[i]
              ELSE IF i - pos + 1 \in 1 .. Len(s) THEN s[i - pos + 1] ELSE 0) \in 0 .. MaxUnits
  BY <1>1, <1>2
<1> QED BY <1>3 DEF Filled

(* What a handler puts into the half that has ended.                       *)
LEMMA SendFills ==
  ASSUME IInv, SendSilence \/ SendFrame
  PROVE  \E n \in 0 .. Frame, s \in Seq(Units) :
           /\ Len(s) = n /\ buffer' = Filled(s) /\ copied' = copied + n
           /\ \A i \in 1 .. n : s[i] = copied + i
           /\ Quiet => n = 0
<1>1. TypeOK /\ QueueOK /\ StreamOK /\ PosOK /\ Frame \in Nat \ {0}
  BY FrameOK DEF IInv
<1>2. CASE SendSilence
  <2>1. Len(<<>>) = 0 /\ <<>> \in Seq(Units) /\ 0 \in 0 .. Frame /\ copied + 0 = copied
    BY <1>1, EmptySeq DEF TypeOK
  <2>2. buffer' = Filled(<<>>) /\ copied' = copied
    BY <1>2 DEF SendSilence
  <2>3. \A i \in 1 .. 0 : <<>>[i] = copied + i
    OBVIOUS
  <2> QED BY <2>1, <2>2, <2>3
<1>3. CASE SendFrame
  <2> DEFINE n == Min({Frame, Len(Stream)})
             s == SubSeq(Stream, 1, n)
  <2>1. queue # <<>> /\ buffer' = Filled(s)
    BY <1>3 DEF SendFrame
  <2>2. copied' = copied + n
    BY <1>1, <1>3, ReadStep
  <2>3. n \in 1 .. Frame /\ n <= Len(Stream)
    BY <1>1, <2>1, ReadsHead DEF QueueOK
  <2> HIDE DEF n
  <2>4. Stream \in Seq(Units) /\ Len(Stream) \in Nat
    BY <1>1, Lengths
  <2>5. n \in Nat \ {0} /\ \A i \in 1 .. n : i \in 1 .. Len(Stream)
    <3> DEFINE l == Len(Stream)
    <3>1. l \in Nat /\ n <= l
      BY <2>3, <2>4
    <3> HIDE DEF l
    <3>2. n \in Nat \ {0} /\ \A i \in 1 .. n : i \in 1 .. l
      BY <1>1, <2>3, <3>1
    <3> QED BY <3>2 DEF l
  <2>6. s \in Seq(Units) /\ Len(s) = n /\ \A i \in 1 .. n : s[i] = Stream[i]
    <3>1. \A i \in 1 .. n : Stream[i] \in Units
      BY <2>4, <2>5, ElementOfSeq
    <3>2. 1 \in Int /\ n \in Int
      BY <2>5
    <3>3. /\ s \in Seq(Units) /\ Len(s) = IF 1 <= n THEN n - 1 + 1 ELSE 0
          /\ \A i \in 1 .. n - 1 + 1 : s[i] = Stream[1 + i - 1]
      BY <3>1, <3>2, SubSeqProperties
    <3>4. n - 1 + 1 = n /\ 1 <= n /\ \A i \in 1 .. n : 1 + i - 1 = i
      BY <2>5
    <3> QED BY <3>3, <3>4
  <2>7. \A i \in 1 .. n : s[i] = copied + i
    BY <1>1, <2>5, <2>6 DEF StreamOK
  <2>8. ~Quiet
    BY <1>1, <2>1 DEF PosOK
  <2>9. n \in 0 .. Frame
    BY <1>1, <2>3
  <2> QED BY <2>1, <2>2, <2>6, <2>7, <2>8, <2>9
<1> QED BY <1>2, <1>3

(* BufferOK with the numbers of units that are left.                       *)
Left(a, b) ==
  /\ Run(buffer, at, Half(at) + Frame, a, last)
  /\ td => b = 0
  /\ ~td => Run(buffer, Other(at), Other(at) + Frame, b, last + a)
  /\ Quiet => b = 0
  /\ copied = last + a + b

LEMMA LeftIs == BufferOK <=> (running /\ ~slipped => \E a, b \in 0 .. Frame : Left(a, b))
BY DEF BufferOK, Left

LEMMA LeftIsNext ==
  BufferOK' <=> (running' /\ ~slipped' => \E a, b \in 0 .. Frame : Left(a, b)')
BY DEF BufferOK, Left

(* The engine plays a unit or silence.                                     *)
LEMMA PlayStep ==
  ASSUME TypeOK, Play, NEW a \in 0 .. Frame, NEW b \in 0 .. Frame, Left(a, b), ~slipped'
  PROVE  /\ \E c, d \in 0 .. Frame : Left(c, d)'
         /\ buffer[at] # 0 => buffer[at] = last + 1
<1>1. /\ Frame \in Nat \ {0} /\ Total = Frame + Frame /\ at \in 0 .. Total - 1
      /\ last \in Nat /\ copied \in Nat /\ a \in Nat /\ b \in Nat /\ MaxUnits \in Nat
  <2>1. Frame \in Nat \ {0} /\ Total = Frame + Frame /\ MaxUnits \in Nat
    BY FrameOK, AudioConstantsOK
  <2> QED BY <2>1 DEF TypeOK
<1>2. /\ Half(at) \in Nat /\ Other(at) \in Nat /\ at < Half(at) + Frame /\ at \in Nat
      /\ Half(at) + Frame \in Nat
  BY <1>1 DEF Half, Other
<1>3. /\ Run(buffer, at, Half(at) + Frame, a, last)
      /\ td => b = 0
      /\ ~td => Run(buffer, Other(at), Other(at) + Frame, b, last + a)
      /\ Quiet => b = 0
      /\ copied = last + a + b
  BY DEF Left
<1>4. /\ a = 0 => buffer[at] = 0 /\ Run(buffer, at + 1, Half(at) + Frame, 0, last)
      /\ a # 0 => /\ buffer[at] = last + 1 /\ a - 1 \in Nat
                  /\ Run(buffer, at + 1, Half(at) + Frame, a - 1, last + 1)
  BY <1>1, <1>2, <1>3, RunNext
<1>5. buffer[at] # 0 => buffer[at] = last + 1
  BY <1>4
<1>6. buffer' = buffer /\ copied' = copied /\ (Quiet' => Quiet)
  BY DEF Play, appVars, Quiet
<1> DEFINE c == IF a = 0 THEN 0 ELSE a - 1
<1>7. c \in 0 .. Frame /\ c \in Nat /\ last' \in Nat /\ last' + c = last + a
      /\ Run(buffer, at + 1, Half(at) + Frame, c, last')
  <2>1. CASE a = 0
    <3>1. last' = last
      BY <1>4, <2>1 DEF Play
    <3> QED BY <1>1, <1>4, <2>1, <3>1
  <2>2. CASE a # 0
    <3>1. buffer[at] = last + 1 /\ last + 1 # 0
      BY <1>1, <1>4, <2>2
    <3>2. last' = last + 1
      BY <3>1 DEF Play
    <3> QED BY <1>1, <1>4, <2>2, <3>2
  <2> QED BY <2>1, <2>2
<1> HIDE DEF c
<1>8. copied' = last' + c + b
  BY <1>1, <1>3, <1>6, <1>7
<1>9. CASE (at + 1) % Frame # 0
  <2>1. /\ at' = at + 1 /\ Half(at') = Half(at) /\ Other(at') = Other(at) /\ td' = td
    BY <1>9, PlayMoves
  <2>2. Run(buffer', at', Half(at') + Frame, c, last')
    BY <1>6, <1>7, <2>1
  <2>3. ~td' => Run(buffer', Other(at'), Other(at') + Frame, b, last' + c)
    BY <1>3, <1>6, <1>7, <2>1
  <2>4. (td' => b = 0) /\ (Quiet' => b = 0)
    BY <1>3, <1>6, <2>1
  <2>5. Left(c, b)'
    BY <1>8, <2>2, <2>3, <2>4 DEF Left
  <2> QED BY <1>5, <1>7, <2>5
<1>10. CASE (at + 1) % Frame = 0
  <2>1. at + 1 = Half(at) + Frame /\ at' = Other(at) /\ td' = TRUE /\ slipped' = (slipped \/ td)
    BY <1>10, PlayMoves
  <2>2. ~td
    BY <2>1
  <2>3. c = 0
    <3>1. at + 1 + c <= Half(at) + Frame
      BY <1>7 DEF Run
    <3> QED BY <1>1, <1>2, <1>7, <2>1, <3>1
  <2>4. Half(at') = at' /\ last' = last + a
    <3>1. Half(Other(at)) = Other(at)
      BY <1>1, HalfType
    <3>2. last' = last + a
      BY <1>7, <2>3
    <3> QED BY <2>1, <3>1, <3>2, Zenon
  <2>5. Run(buffer', at', Half(at') + Frame, b, last')
    BY <1>3, <1>6, <2>1, <2>2, <2>4
  <2>6. copied' = last' + b + 0
    BY <1>1, <1>7, <1>8, <2>3
  <2>7. Left(b, 0)'
    BY <2>1, <2>5, <2>6 DEF Left
  <2> QED BY <1>1, <1>5, <2>7
<1> QED BY <1>9, <1>10

(* The handler fills the half that has ended.                              *)
LEMMA SendStep ==
  ASSUME IInv, SendSilence \/ SendFrame, running, ~slipped, ~slipped',
         NEW a \in 0 .. Frame, NEW b \in 0 .. Frame, Left(a, b)
  PROVE  \E d \in 0 .. Frame : Left(a, d)'
<1>1. PICK n \in 0 .. Frame, s \in Seq(Units) :
           /\ Len(s) = n /\ buffer' = Filled(s) /\ copied' = copied + n
           /\ \A i \in 1 .. n : s[i] = copied + i
           /\ Quiet => n = 0
  BY SendFills
<1>2. /\ Frame \in Nat \ {0} /\ Total = Frame + Frame /\ at \in 0 .. Total - 1
      /\ last \in Nat /\ copied \in Nat /\ a \in Nat /\ n \in Nat /\ PosOK
  <2>1. Frame \in Nat \ {0} /\ Total = Frame + Frame /\ MaxUnits \in Nat
    BY FrameOK, AudioConstantsOK
  <2> QED BY <2>1 DEF IInv, TypeOK
<1>3. td /\ ~td' /\ at' = at /\ last' = last
  <2>1. /\ td /\ td' = entered /\ slipped' = (slipped \/ entered)
        /\ at' = at /\ last' = last
    BY Zenon DEF SendSilence, SendFrame, Served
  <2> QED BY <2>1, Zenon
<1>4. pos = Other(at)
  BY <1>2, <1>3, PhaseIs DEF IInv, PhaseKept
<1>5. copied = last + a /\ copied' = last + a + n
  BY <1>1, <1>2, <1>3 DEF Left
<1>6. /\ Half(at) \in Nat /\ Other(at) \in Nat /\ at \in Nat /\ at >= Half(at)
      /\ Half(at) + Frame \in Nat /\ Half(at) # Other(at)
      /\ \A k \in Half(at) .. Half(at) + Frame - 1 : k \in 0 .. Total - 1 /\ Half(k) = Half(at)
      /\ \A k \in Other(at) .. Other(at) + Frame - 1 : k \in 0 .. Total - 1 /\ Half(k) = Other(at)
  BY <1>2, HalfType DEF Half, Other
<1>7. Run(buffer', at', Half(at') + Frame, a, last')
  <2>1. ASSUME NEW k \in at .. Half(at) + Frame - 1 PROVE buffer'[k] = buffer[k]
    <3>1. k \in Half(at) .. Half(at) + Frame - 1
      BY <1>2, <1>6
    <3>2. k \in 0 .. Total - 1 /\ Half(k) # pos
      BY <1>4, <1>6, <3>1
    <3> QED BY <1>1, <1>2, <3>2, FilledIs
  <2>2. Run(buffer, at, Half(at) + Frame, a, last)
    BY DEF Left
  <2>3. Run(buffer', at, Half(at) + Frame, a, last)
    <3> DEFINE z == Half(at) + Frame
               new == buffer'
    <3>1. at \in Nat /\ z \in Nat
      BY <1>6
    <3>2. \A k \in at .. z - 1 : new[k] = buffer[k]
      <4>1. Half(at) + Frame - 1 = z - 1
        BY <1>2, <1>6
      <4> QED BY <2>1, <4>1
    <3>3. Run(buffer, at, z, a, last)
      BY <2>2
    <3> HIDE DEF z, new
    <3>4. Run(new, at, z, a, last)
      BY ONLY <3>1, <3>2, <3>3, RunSame
    <3> QED BY <3>4 DEF new, z
  <2> QED BY <1>3, <2>3
<1>8. Run(buffer', Other(at'), Other(at') + Frame, n, last' + a)
  <2>1. Other(at) + n <= Other(at) + Frame
    BY <1>1, <1>2, <1>6
  <2>2. ASSUME NEW k \in Other(at) .. Other(at) + Frame - 1
        PROVE  buffer'[k] = IF k < Other(at) + n THEN (last + a) + 1 + (k - Other(at)) ELSE 0
    <3>1. k \in 0 .. Total - 1 /\ Half(k) = pos
      BY <1>4, <1>6
    <3>2. buffer'[k] = IF k < pos + n THEN s[k - pos + 1] ELSE 0
      BY <1>1, <1>2, <3>1, FilledIs
    <3>3. CASE k < Other(at) + n
      <4>1. k - pos + 1 \in 1 .. n /\ k < pos + n
            /\ copied + (k - pos + 1) = (last + a) + 1 + (k - Other(at))
        BY <1>2, <1>4, <1>5, <1>6, <3>3
      <4>2. s[k - pos + 1] = copied + (k - pos + 1)
        BY <1>1, <4>1
      <4> QED BY <3>2, <3>3, <4>1, <4>2
    <3>4. CASE ~(k < Other(at) + n)
      BY <1>4, <3>2, <3>4
    <3> QED BY <3>3, <3>4
  <2>3. Run(buffer', Other(at), Other(at) + Frame, n, last + a)
    <3> DEFINE o == Other(at)
               u == last + a
               new == buffer'
    <3>1. o + n <= o + Frame
      BY <2>1
    <3>2. \A k \in o .. (o + Frame) - 1 :
            new[k] = IF k < o + n THEN u + 1 + (k - o) ELSE 0
      <4>1. o + Frame - 1 = (o + Frame) - 1
        BY <1>2, <1>6
      <4> QED BY <2>2, <4>1
    <3> HIDE DEF o, u, new
    <3>3. Run(new, o, o + Frame, n, u)
      BY ONLY <3>1, <3>2 DEF Run
    <3> QED BY <3>3 DEF o, u, new
  <2> QED BY <1>3, <2>3
<1>9. Quiet' => n = 0
  <2>1. CASE SendSilence
    <3>1. copied' = copied
      BY <2>1 DEF SendSilence
    <3> QED BY <1>1, <1>2, <3>1
  <2>2. CASE SendFrame
    <3>1. Quiet' => Quiet
      BY <2>2, Zenon DEF SendFrame, appVars, Quiet
    <3> QED BY <1>1, <3>1
  <2> QED BY <2>1, <2>2
<1>10. Left(a, n)'
  <2>1. copied' = last' + a + n
    BY <1>3, <1>5
  <2> QED BY <1>3, <1>7, <1>8, <1>9, <2>1 DEF Left
<1> QED BY <1>10

(* A start begins in silence, behind everything that was copied.           *)
LEMMA StartStep ==
  ASSUME TypeOK, StartEngine, ~td, copied' = copied
  PROVE  Left(0, 0)' /\ 0 \in 0 .. Frame
<1>1. Frame \in Nat \ {0} /\ Total = Frame + Frame /\ copied \in Nat
  <2>1. Frame \in Nat \ {0} /\ Total = Frame + Frame /\ MaxUnits \in Nat
    BY FrameOK, AudioConstantsOK
  <2> QED BY <2>1 DEF TypeOK
<1>2. buffer' = Silence /\ at' = 0 /\ last' = copied /\ ~td'
  BY Zenon DEF StartEngine
<1>3. Half(0) = 0 /\ Other(0) = Frame
  BY <1>1 DEF Half, Other
<1>4. ASSUME NEW z \in {0, Frame}, NEW u
      PROVE  Run(Silence, z, z + Frame, 0, u)
  BY <1>1 DEF Run, Silence
<1>5. Run(buffer', at', Half(at') + Frame, 0, last')
  <2>1. Run(Silence, 0, 0 + Frame, 0, copied)
    BY <1>4
  <2> QED BY <1>2, <1>3, <2>1
<1>6. Run(buffer', Other(at'), Other(at') + Frame, 0, last' + 0)
  <2>1. Run(Silence, Frame, Frame + Frame, 0, copied + 0)
    BY <1>4
  <2> QED BY <1>2, <1>3, <2>1
<1>7. copied' = last' + 0 + 0
  BY <1>1, <1>2
<1> QED BY <1>1, <1>5, <1>6, <1>7 DEF Left

LEMMA BufferStep ==
  ASSUME IInv, [Next]_vars
  PROVE  BufferOK'
<1>1. TypeOK /\ BufferOK
  BY DEF IInv
<1>2. Untouched
  BY StepTouches
<1> SUFFICES ASSUME running', ~slipped' PROVE \E a, b \in 0 .. Frame : Left(a, b)'
  BY LeftIsNext
<1>3. CASE Configure \/ Start \/ (WriteEnds /\ ~activated)
  <2>1. StartEngine /\ ~td /\ copied' = copied
    BY <1>3, Zenon DEF Configure, Start, WriteEnds, At
  <2> QED BY <1>1, <2>1, StartStep
<1>4. CASE ~(Configure \/ Start \/ (WriteEnds /\ ~activated))
  <2>1. running /\ ~slipped
    <3>1. CASE Play
      <4>1. /\ running' = running
            /\ slipped' = (slipped \/ td) \/ slipped' = slipped
        BY <1>1, <3>1, PlayMoves
      <4>2. running
        BY <4>1
      <4>3. CASE slipped' = slipped
        BY <4>2, <4>3
      <4>4. CASE slipped' = (slipped \/ td)
        BY <4>2, <4>4
      <4> QED BY <4>1, <4>3, <4>4, Zenon
    <3>2. CASE Open
      <4>1. /\ running' = running
            /\ \/ slipped' = slipped
               \/ slipped' = (slipped \/ (running /\ ~Phase(0, at, FALSE)))
        BY <3>2, Zenon DEF Open, engineVars
      <4>2. running
        BY <4>1
      <4>3. CASE slipped' = slipped
        BY <4>2, <4>3
      <4>4. CASE slipped' = (slipped \/ (running /\ ~Phase(0, at, FALSE)))
        <5> DEFINE P == running /\ ~Phase(0, at, FALSE)
        <5> HIDE DEF P
        <5>1. slipped' = (slipped \/ P)
          BY <4>4 DEF P
        <5> QED BY <4>2, <5>1
      <4> QED BY <4>1, <4>3, <4>4, Zenon
    <3>3. CASE WriteEnds /\ activated
      <4>1. running' = running /\ slipped' = slipped
        BY <3>3, Zenon DEF WriteEnds, engineVars
      <4> QED BY <4>1
    <3>4. CASE Halt
      BY <3>4, Zenon DEF Halt
    <3>5. CASE running' = running /\ slipped' = slipped
      BY <3>5
    <3>6. CASE SendSilence \/ SendFrame
      <4>1. running' = running /\ slipped' = (slipped \/ entered)
        BY <3>6, Zenon DEF SendSilence, SendFrame, Served
      <4> QED BY <4>1, Zenon
    <3> QED BY <1>2, <1>4, <3>1, <3>2, <3>3, <3>4, <3>5, <3>6, Zenon DEF Untouched
  <2>2. PICK a, b \in 0 .. Frame : Left(a, b)
    BY <1>1, <2>1, LeftIs
  <2>3. CASE Play
    BY <1>1, <2>2, <2>3, PlayStep
  <2>4. CASE SendSilence \/ SendFrame
    BY <2>1, <2>2, <2>4, SendStep
  <2>5. CASE ~Play /\ ~SendSilence /\ ~SendFrame
    <3>1. ~Halt
      BY Zenon DEF Halt
    <3>2. buffer' = buffer /\ at' = at /\ last' = last /\ td' = td /\ copied' = copied
      <4>1. CASE WriteEnds
        BY <1>4, <4>1, Zenon DEF WriteEnds, engineVars
      <4>2. CASE ~WriteEnds
        BY <1>2, <1>4, <2>5, <3>1, <4>2, Zenon DEF Untouched
      <4> QED BY <4>1, <4>2
    <3>3. Quiet' => Quiet
      BY <2>5, QuietStep
    <3>4. Left(a, b)'
      BY <2>2, <3>2, <3>3 DEF Left
    <3> QED BY <3>4
  <2> QED BY <2>3, <2>4, <2>5
<1> QED BY <1>3, <1>4

LEMMA OrderStep ==
  ASSUME IInv, [Next]_vars
  PROVE  inOrder'
<1>1. TypeOK /\ BufferOK /\ inOrder
  BY DEF IInv
<1>2. Untouched
  BY StepTouches
<1>3. CASE Play
  <2>1. running /\ \/ inOrder' = inOrder
                   \/ buffer[at] # 0
                      /\ inOrder' = (inOrder /\ (slipped \/ buffer[at] = last + 1))
    BY <1>3, Zenon DEF Play
  <2>2. slipped \/ (buffer[at] # 0 => buffer[at] = last + 1)
    <3> SUFFICES ASSUME ~slipped PROVE buffer[at] # 0 => buffer[at] = last + 1
      OBVIOUS
    <3>1. PICK a, b \in 0 .. Frame : Left(a, b)
      BY <1>1, <2>1, LeftIs
    <3>2. /\ at \in 0 .. Total - 1 /\ Frame \in Nat \ {0} /\ Total = Frame + Frame
          /\ last \in Nat /\ a \in Nat
      <4>1. Frame \in Nat \ {0} /\ Total = Frame + Frame /\ MaxUnits \in Nat
        BY FrameOK, AudioConstantsOK
      <4> QED BY <1>1, <4>1 DEF TypeOK
    <3>3. Half(at) + Frame \in Nat /\ at \in Nat /\ at < Half(at) + Frame
      BY <3>2 DEF Half
    <3>4. Run(buffer, at, Half(at) + Frame, a, last)
      BY <3>1 DEF Left
    <3> QED BY <3>2, <3>3, <3>4, RunNext
  <2> DEFINE E == buffer[at] = last + 1
  <2>3. CASE inOrder' = inOrder
    BY <1>1, <2>3
  <2>4. CASE buffer[at] # 0 /\ inOrder' = (inOrder /\ (slipped \/ E))
    <3>1. inOrder /\ (slipped \/ E)
      BY <1>1, <2>2, <2>4
    <3> HIDE DEF E
    <3> QED BY <3>1, <2>4, Zenon
  <2> HIDE DEF E
  <2>5. inOrder' = inOrder \/ (buffer[at] # 0 /\ inOrder' = (inOrder /\ (slipped \/ E)))
    BY <2>1, Zenon DEF E
  <2> QED BY <2>3, <2>4, <2>5
<1>4. CASE inOrder' = inOrder
  BY <1>1, <1>4
<1> QED BY <1>2, <1>3, <1>4, Zenon DEF Untouched

(* A stop finds no more than the rest of one half.                         *)
LEMMA CutStep ==
  ASSUME IInv, [Next]_vars
  PROVE  cut' <= Frame /\ cut' \in 0 .. MaxUnits
<1>1. /\ TypeOK /\ EngineOK /\ BufferOK /\ cut <= Frame
      /\ Frame \in Nat /\ MaxUnits \in Nat /\ cut \in 0 .. MaxUnits
      /\ copied \in 0 .. MaxUnits /\ last \in 0 .. MaxUnits
  <2>1. Frame \in Nat /\ MaxUnits \in Nat
    BY FrameOK, AudioConstantsOK
  <2> QED BY <2>1 DEF IInv, TypeOK
<1>2. CASE Halt
  <2>1. pc = "halt" /\ cut' = IF slipped THEN 0 ELSE copied - last
    BY <1>2, Zenon DEF Halt, At
  <2>2. CASE slipped
    BY <1>1, <2>1, <2>2
  <2>3. CASE ~slipped
    <3>1. running
      BY <1>1, <2>1 DEF EngineOK, Quiet
    <3>2. PICK a, b \in 0 .. Frame : Left(a, b)
      BY <1>1, <2>3, <3>1, LeftIs
    <3>3. b = 0 /\ copied = last + a + b
      BY <2>1, <3>2 DEF Left, Quiet
    <3>4. cut' = a
      BY <1>1, <2>1, <2>3, <3>3
    <3> QED BY <1>1, <3>3, <3>4
  <2> QED BY <2>2, <2>3
<1>3. CASE cut' = cut
  BY <1>1, <1>3
<1> QED BY <1>2, <1>3, StepTouches, Zenon DEF Untouched

LEMMA BufferTypeStep ==
  ASSUME IInv, [Next]_vars
  PROVE  BufferType'
<1>1. TypeOK /\ PosOK /\ BufferType
  BY DEF IInv, TypeOK, BufferType
<1>2. CASE SendSilence \/ SendFrame
  <2>1. PICK n \in 0 .. Frame, s \in Seq(Units) : buffer' = Filled(s)
    BY <1>2, SendFills
  <2> QED BY <1>1, <2>1, FilledType DEF BufferType
<1>3. CASE buffer' = Silence
  <2>1. MaxUnits \in Nat
    BY AudioConstantsOK
  <2> QED BY <1>3, <2>1 DEF BufferType, Silence
<1>4. CASE buffer' = buffer
  BY <1>1, <1>4 DEF BufferType
<1>5. CASE Configure \/ Start \/ WriteEnds \/ Halt
  <2>1. buffer' = Silence \/ buffer' = buffer
    BY <1>5, Zenon DEF Configure, Start, WriteEnds, Halt, StartEngine, engineVars
  <2> QED BY <1>3, <1>4, <2>1
<1> QED BY <1>2, <1>4, <1>5, StepTouches, Zenon DEF Untouched

LEMMA NumbersStep ==
  ASSUME IInv, [Next]_vars
  PROVE  NumbersOK'
<1>1. TypeOK /\ NumbersOK /\ QueueOK /\ StreamOK /\ BlockOK /\ Untouched
  BY TypeParts, StepTouches DEF IInv
<1>2. /\ Frame \in Nat \ {0} /\ Total = Frame + Frame /\ MaxUnits \in Nat
      /\ written \in Nat /\ copied \in 0 .. MaxUnits
  <2>1. Frame \in Nat \ {0} /\ Total = Frame + Frame /\ MaxUnits \in Nat
    BY FrameOK, AudioConstantsOK
  <2> QED BY <1>1, <2>1 DEF TypeOK
<1>3. written' \in 0 .. MaxUnits
  <2>1. CASE Fill
    BY <1>1, <2>1, FillStep
  <2>2. CASE written' = written
    BY <1>1, <2>2 DEF NumbersOK
  <2> QED BY <1>1, <2>1, <2>2, Zenon DEF Untouched
<1>4. todo' \in 0 .. MaxUnits
  <2>1. CASE Fill
    BY <1>1, <2>1, FillStep
  <2>2. CASE \E n \in Sizes : Write(n)
    <3>1. PICK n \in Sizes : todo' = n /\ written + n <= MaxUnits
      BY <2>2 DEF Write
    <3>2. n \in Nat
      BY AudioSizesOK
    <3> QED BY <1>2, <3>1, <3>2
  <2>3. CASE todo' = todo
    BY <1>1, <2>3 DEF NumbersOK
  <2> QED BY <1>1, <2>1, <2>2, <2>3, Zenon DEF Untouched
<1>5. copied' \in 0 .. MaxUnits /\ free' \in 0 .. Blocks
  <2>1. CASE SendFrame
    <3>1. copied' \in 1 .. MaxUnits /\ free' \in 0 .. Blocks
      BY <1>1, <2>1, ReadStep
    <3> QED BY <1>2, <3>1
  <2>2. CASE ~SendFrame
    <3>1. copied' = copied
      BY <1>1, <2>2, Zenon DEF Untouched
    <3>2. free' \in 0 .. Blocks
      <4>1. CASE Fill
        BY <1>1, <4>1, FillStep
      <4>2. CASE free' = free
        BY <1>1, <4>2 DEF NumbersOK
      <4> QED BY <1>1, <2>2, <4>1, <4>2, Zenon DEF Untouched
    <3> QED BY <1>2, <3>1, <3>2
  <2> QED BY <2>1, <2>2
<1>6. cut' \in 0 .. MaxUnits
  BY CutStep
<1>7. pos' \in 0 .. Total - 1
  <2>1. pos' \in {0, Frame}
    BY PosStep DEF PosOK
  <2> QED BY <1>2, <2>1
<1>8. at' \in 0 .. Total - 1 /\ last' \in 0 .. MaxUnits
  <2>1. CASE Play
    <3>1. at' \in 0 .. Total - 1
      <4>1. CASE (at + 1) % Frame = 0
        <5>1. at' = Other(at)
          BY <1>1, <2>1, <4>1, PlayMoves
        <5>2. at \in 0 .. Total - 1
          BY <1>1 DEF NumbersOK
        <5> QED BY <5>1, <5>2, HalfType
      <4>2. CASE (at + 1) % Frame # 0
        BY <1>1, <2>1, <4>2, PlayMoves
      <4> QED BY <4>1, <4>2
    <3>2. last' \in {last, buffer[at]}
      BY <2>1, Zenon DEF Play
    <3>3. last \in 0 .. MaxUnits /\ buffer[at] \in 0 .. MaxUnits
      BY <1>1 DEF TypeOK
    <3> QED BY <3>1, <3>2, <3>3
  <2>2. CASE StartEngine
    <3>1. at' = 0 /\ last' = copied
      BY <2>2 DEF StartEngine
    <3> QED BY <1>2, <3>1
  <2>3. CASE at' = at /\ last' = last
    BY <1>1, <2>3 DEF NumbersOK
  <2>4. CASE Configure \/ Start \/ WriteEnds
    <3>1. StartEngine \/ (at' = at /\ last' = last)
      BY <2>4, Zenon DEF Configure, Start, WriteEnds, engineVars
    <3> QED BY <2>2, <2>3, <3>1
  <2> QED BY <1>1, <2>1, <2>3, <2>4, Zenon DEF Untouched
<1>9. noise' \in 0 .. MaxNoise
  <2>1. MaxNoise \in Nat /\ noise \in 0 .. MaxNoise
    BY <1>1, AudioConstantsOK DEF NumbersOK
  <2>2. CASE OtherInterrupt
    <3>1. noise < MaxNoise /\ noise' = noise + 1
      BY <2>2 DEF OtherInterrupt
    <3> QED BY <2>1, <3>1
  <2> QED BY <1>1, <2>1, <2>2, Zenon DEF Untouched
<1> QED BY <1>3, <1>4, <1>5, <1>6, <1>7, <1>8, <1>9 DEF NumbersOK

-----------------------------------------------------------------------------
(* The theorems.                                                           *)

LEMMA InitInvariant == Init => IInv
<1> SUFFICES ASSUME Init PROVE IInv
  OBVIOUS
<1>1. /\ Frame \in Nat \ {0} /\ Total = Frame + Frame /\ MaxUnits \in Nat
      /\ Block \in Nat \ {0} /\ Blocks \in Nat \ {0} /\ MaxNoise \in Nat
  BY FrameOK, AudioConstantsOK, BlockIsWhole
<1>2. /\ pc = "idle" /\ queue = <<>> /\ block = <<>> /\ free = Blocks
      /\ written = 0 /\ todo = 0 /\ copied = 0 /\ last = 0 /\ cut = 0
      /\ pos = 0 /\ at = 0 /\ noise = 0 /\ buffer = Silence
  BY DEF Init
<1>3. BooleansOK /\ ~activated /\ ~running /\ inOrder
  BY Zenon DEF Init, BooleansOK
<1>4. Len(block) = 0 /\ Len(queue) = 0 /\ Stream = <<>> /\ Len(Stream) = 0
      /\ block \in Seq(Units) /\ queue \in Seq(Seq(Units))
  BY <1>2, EmptySeq, FlatEmpty DEF Stream
<1>5. NumbersOK
  BY <1>1, <1>2 DEF NumbersOK
<1>6. DataOK
  BY <1>1, <1>4 DEF DataOK
<1>7. StepOK /\ BufferType
  BY <1>1, <1>2 DEF StepOK, BufferType, Silence
<1>8. TypeOK
  BY <1>3, <1>5, <1>6, <1>7, TypeParts
<1>9. BlockOK
  <2>1. Len(block) < Block /\ written + todo <= MaxUnits
    BY <1>1, <1>2, <1>4
  <2> QED BY <1>2, <1>3, <2>1 DEF BlockOK, Stopping
<1>10. QueueOK
  <2>1. ItemsOK
    BY <1>4 DEF ItemsOK
  <2>2. free + Len(queue) + (IF block = <<>> THEN 0 ELSE 1) = Blocks
    BY <1>1, <1>2, <1>4
  <2> QED BY <2>1, <2>2 DEF QueueOK
<1>11. StreamOK
  BY <1>2, <1>4 DEF StreamOK
<1>12. PosOK /\ EngineOK
  BY <1>2 DEF PosOK, EngineOK, Quiet, Init
<1>13. PhaseKept /\ BufferOK
  BY <1>3 DEF PhaseKept, BufferOK
<1>14. cut <= Frame
  BY <1>1, <1>2
<1> QED BY <1>3, <1>8, <1>9, <1>10, <1>11, <1>12, <1>13, <1>14 DEF IInv

LEMMA StepInvariant == IInv /\ [Next]_vars => IInv'
<1> SUFFICES ASSUME IInv, [Next]_vars PROVE IInv'
  OBVIOUS
<1>1. DataOK' /\ QueueOK' /\ StreamOK'
  BY StreamStep
<1>2. BooleansOK' /\ StepOK'
  BY TypeParts, BooleansStep, StepNames DEF IInv
<1>3. TypeOK'
  BY <1>1, <1>2, BufferTypeStep, NumbersStep, TypePartsNext
<1> QED BY <1>1, <1>3, BlockStep, PosStep, EngineStep, PhaseStep, BufferStep, OrderStep, CutStep DEF IInv

(* Units pass from the application through block, queue and DMA buffer to  *)
(* the engine without losing their order, and the handler writes where the *)
(* engine is not.                                                          *)
THEOREM Invariant == Spec => []IInv
BY InitInvariant, StepInvariant, PTL DEF Spec

(* Every variable has its type; the queue has room for every block.        *)
THEOREM TypeCorrect == Spec => []TypeOK
<1>1. IInv => TypeOK
  BY DEF IInv
<1> QED BY <1>1, Invariant, PTL

(* As long as no interrupt comes a half late, pdma_isr has cleared each    *)
(* end it served, and no start or open finds pos and the engine apart, the *)
(* handler fills the half that does not play.                              *)
THEOREM HandlerKeepsPhase == Spec => []PhaseKept
<1>1. IInv => PhaseKept
  BY DEF IInv
<1> QED BY <1>1, Invariant, PTL

(* As long as that holds, what is written is played once and in order:     *)
(* inOrder looks at no unit that is played after handler and engine have   *)
(* lost each other.                                                        *)
THEOREM PlaysInOrder == Spec => []PlayedInOrder
<1>1. IInv => PlayedInOrder
  BY DEF IInv, PlayedInOrder
<1> QED BY <1>1, Invariant, PTL

(* A stop leaves nothing in queue or block, and as long as that holds cuts *)
(* off at most one frame.                                                  *)
THEOREM StopLosesOneFrame == Spec => []StopCutsOneFrame
<1>1. IInv => StopCutsOneFrame
  <2> SUFFICES ASSUME IInv PROVE StopCutsOneFrame
    OBVIOUS
  <2>1. cut <= Frame
    BY DEF IInv
  <2>2. ASSUME pc = "halt" PROVE queue = <<>> /\ block = <<>> /\ free = Blocks
    <3>1. queue = <<>> /\ block = <<>>
      BY <2>2 DEF IInv, PosOK, Quiet, BlockOK, Stopping
    <3>2. free \in Nat /\ free + Len(queue) + 0 = Blocks
      <4>1. free + Len(queue) + (IF block = <<>> THEN 0 ELSE 1) = Blocks
        BY DEF IInv, QueueOK
      <4>2. free \in 0 .. Blocks /\ Blocks \in Nat
        BY AudioConstantsOK DEF IInv, TypeOK
      <4> QED BY <3>1, <4>1, <4>2
    <3>3. Len(queue) = 0
      BY <3>1, EmptySeq
    <3> QED BY <3>1, <3>2, <3>3
  <2> QED BY <2>1, <2>2 DEF StopCutsOneFrame
<1> QED BY <1>1, Invariant, PTL
=============================================================================
