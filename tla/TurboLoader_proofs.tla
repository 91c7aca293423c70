------------------------- MODULE TurboLoader_proofs -------------------------
(***************************************************************************)
(* Proof that kernels read their own block, for any blocks, any bounds and *)
(* both streams the loader may copy on, whenever it was opened with the    *)
(* pinned store. (Without the store they may not: TurboLoader_lowram.)     *)
(*                                                                         *)
(* The invariant speaks of positions in the two queues: what lies before a *)
(* copy or before kernels in its own stream, and which records are still   *)
(* to come in the other. Its parts are operators of the queues, so that    *)
(* what an operation queued or ended does to each of them is a lemma.      *)
(***************************************************************************)
EXTENDS TurboLoader, TLAPS

C == stream["copy"]
D == stream["default"]

Kernelish == {"copy", "kernel"}

Ops == [kind : {"copy", "recordStaged", "awaitStaged", "kernel", "recordDone", "awaitDone"},
        slot : Slots, x : Blocks \cup Nat]

\* The i-th operation of q is of kind k and on slot s.
Is(q, i, k, s) == i \in 1 .. Len(q) /\ q[i].kind = k /\ q[i].slot = s

\* The host is between the kernels of slot s and their mark.
Unmarked(s) == call.at = "launched" /\ active = s

\* What an operation carries.
Carries(op) == op.x \in IF op.kind \in Kernelish THEN Blocks ELSE Nat

\* Which operations are queued where.
KindsOn(st) ==
  IF st = "copy"
  THEN IF mode.on = "copy" THEN {"copy", "recordStaged", "awaitDone"} ELSE {"awaitDone"}
  ELSE {"kernel", "recordDone", "awaitStaged"}
       \cup IF mode.on = "copy" THEN {} ELSE {"copy", "recordStaged"}

StreamOK ==
  /\ stream \in [Streams -> Seq(Ops)]
  /\ \A st \in Streams : \A i \in 1 .. Len(stream[st]) :
       Carries(stream[st][i]) /\ stream[st][i].kind \in KindsOn(st)

\* The records of a kind and a slot in q are executed in the order of their numbers.
Ordered(q, kind, s, p, n) ==
  \A i \in 1 .. Len(q) : Is(q, i, kind, s) =>
    /\ p < q[i].x /\ q[i].x <= n
    /\ \A k \in 1 .. i - 1 : Is(q, k, kind, s) => q[k].x < q[i].x

RecordsInOrder ==
  \A s \in Slots :
    /\ \A e \in Events : passed[e][s] <= issued[e][s]
    /\ Ordered(C, "recordStaged", s, passed["staged"][s], issued["staged"][s])
    /\ Ordered(D, "recordDone", s, passed["done"][s], issued["done"][s])
    /\ mode.on = "default" => Ordered(D, "recordStaged", s, passed["staged"][s], issued["staged"][s])

\* Kernels at i of d are fenced off from a copy at j of c: a wait before the copy is for
\* a record behind the kernels.
Fenced(c, d, s, j, i) ==
  \E k \in 1 .. Len(c), m \in 1 .. Len(d) :
    /\ k < j /\ Is(c, k, "awaitDone", s)
    /\ i < m /\ Is(d, m, "recordDone", s)
    /\ d[m].x <= c[k].x

\* A copy into slot s that is queued now is fenced off from its kernels at i: by the wait
\* it queues, or, if there is no mark to wait for, by an earlier one.
Reusable(c, d, s, rec, i) ==
  /\ \E m \in 1 .. Len(d) : i < m /\ Is(d, m, "recordDone", s)
  /\ ~rec => Fenced(c, d, s, Len(c) + 1, i)

ReuseIsFenced ==
  \A s \in Slots : ~Unmarked(s) =>
    \A i \in 1 .. Len(D) : Is(D, i, "kernel", s) => Reusable(C, D, s, recorded[s], i)

\* The copy at j - 1 fills slot s with b, and the record at j says so.
Fills(c, s, b, j) ==
  /\ j > 1 /\ Is(c, j, "recordStaged", s)
  /\ Is(c, j - 1, "copy", s) /\ c[j - 1].x = b

NoCopyFrom(c, s, j) == \A k \in 1 .. Len(c) : j <= k => ~Is(c, k, "copy", s)

\* Slot s holds b, or its last copy, which is record n, will bring it.
Filled(c, s, b, dv, n) ==
  \/ dv = b /\ NoCopyFrom(c, s, 1)
  \/ \E j \in 1 .. Len(c) : Fills(c, s, b, j) /\ c[j].x = n /\ NoCopyFrom(c, s, j)

SlotIsFilled ==
  \A s \in Slots : slot[s] # NoBlock => Filled(C, s, slot[s], dev[s], issued["staged"][s])

\* The copies into slot s are over, or record n of them is waited for.
Viewed(c, d, s, n) ==
  \/ NoCopyFrom(c, s, 1)
  \/ \E i \in 1 .. Len(d) : Is(d, i, "awaitStaged", s) /\ d[i].x = n

\* The model holds views of the active slot.
ViewIsFenced == call.at = "held" => Viewed(C, D, active, issued["staged"][active])

FencedFrom(c, d, s, j, i) == \A n \in 1 .. Len(c) : j <= n /\ Is(c, n, "copy", s) => Fenced(c, d, s, n, i)

\* Kernels at i, on slot s, of block b: it is there, or the copy that brings it is waited
\* for; no other copy gets in between.
Served(c, d, s, b, dv, i) ==
  \/ dv = b /\ FencedFrom(c, d, s, 1, i)
  \/ \E k \in 1 .. Len(d), j \in 1 .. Len(c) :
       /\ k < i /\ Is(d, k, "awaitStaged", s) /\ Fills(c, s, b, j) /\ d[k].x = c[j].x
       /\ FencedFrom(c, d, s, j, i)

KernelsAreServed ==
  \A i \in 1 .. Len(D) : D[i].kind = "kernel" => Served(C, D, D[i].slot, D[i].x, dev[D[i].slot], i)

\* With the copies on the default stream all follows from its order: the last copy into
\* slot s before i brings b, or brought it.
Last(d, s, b, dv, i) ==
  \/ dv = b /\ \A k \in 1 .. Len(d) : k < i => ~Is(d, k, "copy", s)
  \/ \E k \in 1 .. Len(d) :
       /\ k < i /\ Is(d, k, "copy", s) /\ d[k].x = b
       /\ \A n \in 1 .. Len(d) : k < n /\ n < i => ~Is(d, n, "copy", s)

OneStream ==
  /\ \A i \in 1 .. Len(D) : D[i].kind = "kernel" => Last(D, D[i].slot, D[i].x, dev[D[i].slot], i)
  /\ \A s \in Slots : slot[s] # NoBlock => Last(D, s, slot[s], dev[s], Len(D) + 1)

\* What has begun is at the head of its stream; a copy from the store reads its own block.
BegunOK ==
  \A st \in Streams : begun[st] # NoBlock =>
    stream[st] # <<>> /\ Oldest(st).kind \in Kernelish /\ (mode.store => begun[st] = Oldest(st).x)

\* What the caller waits for is a block, and what it holds views of is in the active slot.
CallOK ==
  /\ call.at # "free" => call.block \in Blocks
  /\ call.at = "held" => slot[active] = call.block

\* The two halves of the invariant: the queues, and, with the store, what they achieve.
Queued == UTypeOK /\ StreamOK /\ RecordsInOrder /\ CallOK /\ BegunOK

TwoStreams == ReuseIsFenced /\ SlotIsFilled /\ ViewIsFenced /\ KernelsAreServed

Achieved == mode.store => IF mode.on = "copy" THEN TwoStreams ELSE OneStream

UInv == Queued /\ Achieved

----------------------------------------------------------------------------
(* Queues: what Tail and \o do to the operations of one.                   *)

\* The oldest operation of a queue ended.
LEMMA Popped ==
  ASSUME NEW q \in Seq(Ops), q # <<>>
  PROVE  /\ Tail(q) \in Seq(Ops) /\ Len(q) \in Nat \ {0} /\ Len(Tail(q)) = Len(q) - 1
         /\ Head(q) = q[1] /\ q[1] \in Ops
         /\ \A i \in 1 .. Len(q) - 1 : Tail(q)[i] = q[i + 1]
  OBVIOUS

LEMMA PoppedIs ==
  ASSUME NEW q \in Seq(Ops), q # <<>>, NEW i \in Nat, NEW k, NEW s
  PROVE  Is(Tail(q), i, k, s) <=> i > 0 /\ Is(q, i + 1, k, s)
  BY Popped DEF Is

\* Operations were queued.
LEMMA Pushed ==
  ASSUME NEW q \in Seq(Ops), NEW p \in Seq(Ops)
  PROVE  /\ q \o p \in Seq(Ops) /\ Len(q) \in Nat /\ Len(p) \in Nat
         /\ Len(q \o p) = Len(q) + Len(p)
         /\ \A i \in 1 .. Len(q) : (q \o p)[i] = q[i]
         /\ \A i \in 1 .. Len(p) : (q \o p)[Len(q) + i] = p[i]
         /\ \A i \in 1 .. Len(q) + Len(p) : i \in 1 .. Len(q) \/ i - Len(q) \in 1 .. Len(p)
  OBVIOUS

LEMMA PushedIs ==
  ASSUME NEW q \in Seq(Ops), NEW p \in Seq(Ops), NEW i \in Nat, NEW k, NEW s
  PROVE  Is(q \o p, i, k, s) <=> Is(q, i, k, s) \/ Is(p, i - Len(q), k, s)
<1>1. Len(q) \in Nat /\ Len(p) \in Nat /\ Len(q \o p) = Len(q) + Len(p)
  BY Pushed
<1>2. CASE i \in 1 .. Len(q)
  <2>1. (q \o p)[i] = q[i]
    BY <1>2, Pushed
  <2> QED
    BY <1>1, <1>2, <2>1 DEF Is
<1>3. CASE i - Len(q) \in 1 .. Len(p)
  <2>1. (q \o p)[i] = p[i - Len(q)]
    BY <1>1, <1>3, Pushed
  <2> QED
    BY <1>1, <1>3, <2>1 DEF Is
<1> QED
  BY <1>1, <1>2, <1>3 DEF Is

----------------------------------------------------------------------------
(* Operations of the copy stream end: its other positions move up.         *)

LEMMA PopCFenced ==
  ASSUME NEW c \in Seq(Ops), c # <<>>, NEW d \in Seq(Ops), NEW s, NEW j \in Nat, NEW i \in Nat,
         c[1].kind # "awaitDone"
         \/ (\A m \in 1 .. Len(d) : Is(d, m, "recordDone", s) => c[1].slot # s \/ ~(d[m].x <= c[1].x)),
         Fenced(c, d, s, j + 1, i)
  PROVE  Fenced(Tail(c), d, s, j, i)
<1>1. PICK k \in 1 .. Len(c), m \in 1 .. Len(d) :
        /\ k < j + 1 /\ Is(c, k, "awaitDone", s) /\ i < m /\ Is(d, m, "recordDone", s)
        /\ d[m].x <= c[k].x
  BY DEF Fenced
<1>2. k # 1
  BY <1>1 DEF Is
<1>3. k - 1 \in 1 .. Len(Tail(c)) /\ k - 1 \in Nat /\ (k - 1) + 1 = k /\ Tail(c)[k - 1] = c[k]
  BY <1>1, <1>2, Popped
<1>4. Is(Tail(c), k - 1, "awaitDone", s)
  BY <1>1, <1>3, PoppedIs
<1> QED
  BY <1>1, <1>3, <1>4 DEF Fenced

LEMMA PopCNoCopy ==
  ASSUME NEW c \in Seq(Ops), c # <<>>, NEW s, NEW j \in Nat, NoCopyFrom(c, s, j + 1)
  PROVE  NoCopyFrom(Tail(c), s, j)
<1> SUFFICES ASSUME NEW k \in 1 .. Len(Tail(c)), j <= k, Is(Tail(c), k, "copy", s)
             PROVE  FALSE
  BY DEF NoCopyFrom
<1>1. k \in Nat /\ k + 1 \in 1 .. Len(c)
  BY Popped
<1>2. Is(c, k + 1, "copy", s)
  BY <1>1, PoppedIs
<1> QED
  BY <1>1, <1>2 DEF NoCopyFrom

LEMMA PopCFills ==
  ASSUME NEW c \in Seq(Ops), c # <<>>, NEW s, NEW b, NEW j \in Nat, j > 2, Fills(c, s, b, j)
  PROVE  /\ j - 1 \in 1 .. Len(Tail(c)) /\ Tail(c)[j - 1] = c[j]
         /\ Fills(Tail(c), s, b, j - 1)
<1>1. /\ j \in 1 .. Len(c) /\ Len(Tail(c)) = Len(c) - 1 /\ Len(c) \in Nat
      /\ j - 1 \in Nat /\ j - 2 \in Nat /\ (j - 1) + 1 = j /\ (j - 2) + 1 = j - 1
      /\ (j - 1) - 1 = j - 2
  BY Popped DEF Fills, Is
<1>2. Tail(c)[j - 1] = c[j] /\ Tail(c)[j - 2] = c[j - 1]
  BY <1>1, Popped
<1>3. Is(Tail(c), j - 1, "recordStaged", s) /\ Is(Tail(c), j - 2, "copy", s)
  BY <1>1, PoppedIs DEF Fills
<1> QED
  BY <1>1, <1>2, <1>3 DEF Fills

LEMMA PopCFencedFrom ==
  ASSUME NEW c \in Seq(Ops), c # <<>>, NEW d \in Seq(Ops), NEW s, NEW j \in Nat, NEW i \in Nat,
         c[1].kind # "awaitDone"
         \/ (\A m \in 1 .. Len(d) : Is(d, m, "recordDone", s) => c[1].slot # s \/ ~(d[m].x <= c[1].x)),
         FencedFrom(c, d, s, j + 1, i)
  PROVE  FencedFrom(Tail(c), d, s, j, i)
<1> SUFFICES ASSUME NEW n \in 1 .. Len(Tail(c)), j <= n, Is(Tail(c), n, "copy", s)
             PROVE  Fenced(Tail(c), d, s, n, i)
  BY DEF FencedFrom
<1>1. n \in Nat /\ n + 1 \in 1 .. Len(c) /\ j + 1 <= n + 1
  BY Popped
<1>2. Is(c, n + 1, "copy", s)
  BY <1>1, PoppedIs
<1>3. Fenced(c, d, s, n + 1, i)
  BY <1>1, <1>2 DEF FencedFrom
<1> QED
  BY <1>1, <1>3, PopCFenced

\* The record or the wait at the head of c ended.
LEMMA PopCFilled ==
  ASSUME NEW c \in Seq(Ops), c # <<>>, c[1].kind # "copy", NEW s, NEW b, NEW dv, NEW n,
         Filled(c, s, b, dv, n)
  PROVE  Filled(Tail(c), s, b, dv, n)
<1>1. CASE dv = b /\ NoCopyFrom(c, s, 1)
  <2>1. NoCopyFrom(c, s, 2)
    BY <1>1 DEF NoCopyFrom
  <2>2. NoCopyFrom(Tail(c), s, 1)
    BY <2>1, PopCNoCopy
  <2> QED
    BY <1>1, <2>2 DEF Filled
<1>2. CASE \E j \in 1 .. Len(c) : Fills(c, s, b, j) /\ c[j].x = n /\ NoCopyFrom(c, s, j)
  <2>1. PICK j \in 1 .. Len(c) : Fills(c, s, b, j) /\ c[j].x = n /\ NoCopyFrom(c, s, j)
    BY <1>2
  <2>2. j \in Nat /\ j > 2 /\ j - 1 \in Nat /\ (j - 1) + 1 = j
    BY <2>1, Popped DEF Fills, Is
  <2>3. NoCopyFrom(Tail(c), s, j - 1)
    BY <2>1, <2>2, PopCNoCopy
  <2>4. /\ j - 1 \in 1 .. Len(Tail(c)) /\ Tail(c)[j - 1] = c[j]
        /\ Fills(Tail(c), s, b, j - 1)
    BY <2>1, <2>2, PopCFills
  <2> QED
    BY <2>1, <2>3, <2>4 DEF Filled
<1> QED
  BY <1>1, <1>2 DEF Filled

LEMMA PopCServed ==
  ASSUME NEW c \in Seq(Ops), c # <<>>, c[1].kind # "copy", NEW d \in Seq(Ops),
         NEW s, NEW b, NEW dv, NEW i \in Nat,
         c[1].kind # "awaitDone"
         \/ (\A m \in 1 .. Len(d) : Is(d, m, "recordDone", s) => c[1].slot # s \/ ~(d[m].x <= c[1].x)),
         Served(c, d, s, b, dv, i)
  PROVE  Served(Tail(c), d, s, b, dv, i)
<1>1. CASE dv = b /\ FencedFrom(c, d, s, 1, i)
  <2>1. FencedFrom(c, d, s, 2, i)
    BY <1>1 DEF FencedFrom
  <2>2. FencedFrom(Tail(c), d, s, 1, i)
    BY <2>1, PopCFencedFrom
  <2> QED
    BY <1>1, <2>2 DEF Served
<1>2. CASE \E k \in 1 .. Len(d), j \in 1 .. Len(c) :
             /\ k < i /\ Is(d, k, "awaitStaged", s) /\ Fills(c, s, b, j) /\ d[k].x = c[j].x
             /\ FencedFrom(c, d, s, j, i)
  <2>1. PICK k \in 1 .. Len(d), j \in 1 .. Len(c) :
             /\ k < i /\ Is(d, k, "awaitStaged", s) /\ Fills(c, s, b, j) /\ d[k].x = c[j].x
             /\ FencedFrom(c, d, s, j, i)
    BY <1>2
  <2>2. j \in Nat /\ j > 2 /\ j - 1 \in Nat /\ (j - 1) + 1 = j
    BY <2>1, Popped DEF Fills, Is
  <2>3. FencedFrom(Tail(c), d, s, j - 1, i)
    BY <2>1, <2>2, PopCFencedFrom
  <2>4. /\ j - 1 \in 1 .. Len(Tail(c)) /\ Tail(c)[j - 1] = c[j]
        /\ Fills(Tail(c), s, b, j - 1)
    BY <2>1, <2>2, PopCFills
  <2> QED
    BY <2>1, <2>3, <2>4 DEF Served
<1> QED
  BY <1>1, <1>2 DEF Served

LEMMA PopCReusable ==
  ASSUME NEW c \in Seq(Ops), c # <<>>, NEW d \in Seq(Ops), NEW s, NEW rec \in BOOLEAN, NEW i \in Nat,
         c[1].kind # "awaitDone"
         \/ (\A m \in 1 .. Len(d) : Is(d, m, "recordDone", s) => c[1].slot # s \/ ~(d[m].x <= c[1].x)),
         Reusable(c, d, s, rec, i)
  PROVE  Reusable(Tail(c), d, s, rec, i)
<1>1. Len(c) \in Nat /\ Len(Tail(c)) + 1 = Len(c) /\ (Len(c) + 1) = (Len(Tail(c)) + 1) + 1
      /\ Len(Tail(c)) + 1 \in Nat
  BY Popped
<1>2. ~rec => Fenced(Tail(c), d, s, Len(Tail(c)) + 1, i)
  BY <1>1, PopCFenced DEF Reusable
<1> QED
  BY <1>2 DEF Reusable

LEMMA PopCViewed ==
  ASSUME NEW c \in Seq(Ops), c # <<>>, NEW d, NEW s, NEW n, Viewed(c, d, s, n)
  PROVE  Viewed(Tail(c), d, s, n)
<1>1. CASE NoCopyFrom(c, s, 1)
  <2>1. NoCopyFrom(c, s, 2)
    BY <1>1 DEF NoCopyFrom
  <2> QED
    BY <2>1, PopCNoCopy DEF Viewed
<1> QED
  BY <1>1 DEF Viewed

----------------------------------------------------------------------------
(* A copy begins, and ends.                                                *)

\* The slab a copy has begun to fill holds nothing that is relied on.
LEMMA BeginFilled ==
  ASSUME NEW c \in Seq(Ops), NEW s, Is(c, 1, "copy", s), NEW b, NEW dv, NEW dv2, NEW n,
         Filled(c, s, b, dv, n)
  PROVE  Filled(c, s, b, dv2, n)
<1>1. ~NoCopyFrom(c, s, 1)
  BY DEF NoCopyFrom, Is
<1> QED
  BY <1>1 DEF Filled

LEMMA BeginServed ==
  ASSUME NEW c \in Seq(Ops), NEW d, NEW s, Is(c, 1, "copy", s), NEW b, NEW dv, NEW dv2, NEW i,
         Served(c, d, s, b, dv, i)
  PROVE  Served(c, d, s, b, dv2, i)
<1>1. ~Fenced(c, d, s, 1, i)
  BY DEF Fenced
<1>2. ~FencedFrom(c, d, s, 1, i)
  BY <1>1 DEF FencedFrom, Is
<1> QED
  BY <1>2 DEF Served

\* The copy that ended was the last one into its slot, or the last one is still to come.
LEMMA FinishFilled ==
  ASSUME NEW c \in Seq(Ops), c # <<>>, c[1].kind = "copy", NEW s, NEW b, NEW dv, NEW n,
         Filled(c, s, b, dv, n)
  PROVE  Filled(Tail(c), s, b, IF c[1].slot = s THEN c[1].x ELSE dv, n)
<1>1. CASE dv = b /\ NoCopyFrom(c, s, 1)
  <2>1. c[1].slot # s
    BY <1>1, Popped DEF NoCopyFrom, Is
  <2>2. NoCopyFrom(c, s, 2)
    BY <1>1 DEF NoCopyFrom
  <2>3. NoCopyFrom(Tail(c), s, 1)
    BY <2>2, PopCNoCopy
  <2> QED
    BY <1>1, <2>1, <2>3 DEF Filled
<1>2. CASE \E j \in 1 .. Len(c) : Fills(c, s, b, j) /\ c[j].x = n /\ NoCopyFrom(c, s, j)
  <2>1. PICK j \in 1 .. Len(c) : Fills(c, s, b, j) /\ c[j].x = n /\ NoCopyFrom(c, s, j)
    BY <1>2
  <2>2. j \in Nat /\ j > 1 /\ j - 1 \in Nat /\ (j - 1) + 1 = j
    BY <2>1, Popped DEF Fills
  <2>3. NoCopyFrom(Tail(c), s, j - 1)
    BY <2>1, <2>2, PopCNoCopy
  <2>4. CASE j = 2
    <3>1. c[1].slot = s /\ c[1].x = b
      BY <2>1, <2>4 DEF Fills, Is
    <3>2. NoCopyFrom(Tail(c), s, 1)
      BY <2>3, <2>4
    <3> QED
      BY <3>1, <3>2 DEF Filled
  <2>5. CASE j # 2
    <3>1. /\ j - 1 \in 1 .. Len(Tail(c)) /\ Tail(c)[j - 1] = c[j]
          /\ Fills(Tail(c), s, b, j - 1)
      BY <2>1, <2>2, <2>5, PopCFills
    <3> QED
      BY <2>1, <2>3, <3>1 DEF Filled
  <2> QED
    BY <2>4, <2>5
<1> QED
  BY <1>1, <1>2 DEF Filled

LEMMA FinishServed ==
  ASSUME NEW c \in Seq(Ops), c # <<>>, c[1].kind = "copy", NEW d \in Seq(Ops),
         NEW s, NEW b, NEW dv, NEW i \in Nat,
         Served(c, d, s, b, dv, i)
  PROVE  Served(Tail(c), d, s, b, IF c[1].slot = s THEN c[1].x ELSE dv, i)
<1>1. CASE dv = b /\ FencedFrom(c, d, s, 1, i)
  <2>1. FencedFrom(c, d, s, 2, i)
    BY <1>1 DEF FencedFrom
  <2>2. FencedFrom(Tail(c), d, s, 1, i)
    BY <2>1, PopCFencedFrom
  <2>3. ~Fenced(c, d, s, 1, i)
    BY DEF Fenced
  <2>4. c[1].slot # s
    BY <1>1, <2>3, Popped DEF FencedFrom, Is
  <2> QED
    BY <1>1, <2>2, <2>4 DEF Served
<1>2. CASE \E k \in 1 .. Len(d), j \in 1 .. Len(c) :
             /\ k < i /\ Is(d, k, "awaitStaged", s) /\ Fills(c, s, b, j) /\ d[k].x = c[j].x
             /\ FencedFrom(c, d, s, j, i)
  <2>1. PICK k \in 1 .. Len(d), j \in 1 .. Len(c) :
             /\ k < i /\ Is(d, k, "awaitStaged", s) /\ Fills(c, s, b, j) /\ d[k].x = c[j].x
             /\ FencedFrom(c, d, s, j, i)
    BY <1>2
  <2>2. j \in Nat /\ j > 1 /\ j - 1 \in Nat /\ (j - 1) + 1 = j
    BY <2>1, Popped DEF Fills
  <2>3. FencedFrom(Tail(c), d, s, j - 1, i)
    BY <2>1, <2>2, PopCFencedFrom
  <2>4. CASE j = 2
    <3>1. c[1].slot = s /\ c[1].x = b
      BY <2>1, <2>4 DEF Fills, Is
    <3>2. FencedFrom(Tail(c), d, s, 1, i)
      BY <2>3, <2>4
    <3> QED
      BY <3>1, <3>2 DEF Served
  <2>5. CASE j # 2
    <3>1. /\ j - 1 \in 1 .. Len(Tail(c)) /\ Tail(c)[j - 1] = c[j]
          /\ Fills(Tail(c), s, b, j - 1)
      BY <2>1, <2>2, <2>5, PopCFills
    <3> QED
      BY <2>1, <2>3, <3>1 DEF Served
  <2> QED
    BY <2>4, <2>5
<1> QED
  BY <1>1, <1>2 DEF Served

----------------------------------------------------------------------------
(* Operations of the default stream end.                                   *)

LEMMA PopDFenced ==
  ASSUME NEW c \in Seq(Ops), NEW d \in Seq(Ops), d # <<>>, NEW s, NEW j, NEW i \in Nat,
         Fenced(c, d, s, j, i + 1)
  PROVE  Fenced(c, Tail(d), s, j, i)
<1>1. PICK k \in 1 .. Len(c), m \in 1 .. Len(d) :
        /\ k < j /\ Is(c, k, "awaitDone", s) /\ i + 1 < m /\ Is(d, m, "recordDone", s)
        /\ d[m].x <= c[k].x
  BY DEF Fenced
<1>2. /\ m - 1 \in 1 .. Len(Tail(d)) /\ m - 1 \in Nat /\ (m - 1) + 1 = m /\ i < m - 1
      /\ Tail(d)[m - 1] = d[m]
  BY <1>1, Popped
<1>3. Is(Tail(d), m - 1, "recordDone", s)
  BY <1>1, <1>2, PoppedIs
<1> QED
  BY <1>1, <1>2, <1>3 DEF Fenced

LEMMA PopDReusable ==
  ASSUME NEW c \in Seq(Ops), NEW d \in Seq(Ops), d # <<>>, NEW s, NEW rec, NEW i \in Nat,
         Reusable(c, d, s, rec, i + 1)
  PROVE  Reusable(c, Tail(d), s, rec, i)
<1>1. PICK m \in 1 .. Len(d) : i + 1 < m /\ Is(d, m, "recordDone", s)
  BY DEF Reusable
<1>2. m - 1 \in 1 .. Len(Tail(d)) /\ m - 1 \in Nat /\ (m - 1) + 1 = m /\ i < m - 1
  BY <1>1, Popped
<1>3. Is(Tail(d), m - 1, "recordDone", s)
  BY <1>1, <1>2, PoppedIs
<1> QED
  BY <1>2, <1>3, PopDFenced DEF Reusable

LEMMA PopDViewed ==
  ASSUME NEW c, NEW d \in Seq(Ops), d # <<>>, NEW s, NEW n,
         ~Is(d, 1, "awaitStaged", s) \/ d[1].x # n \/ NoCopyFrom(c, s, 1),
         Viewed(c, d, s, n)
  PROVE  Viewed(c, Tail(d), s, n)
<1>1. CASE \E i \in 1 .. Len(d) : Is(d, i, "awaitStaged", s) /\ d[i].x = n /\ i # 1
  <2>1. PICK i \in 1 .. Len(d) : Is(d, i, "awaitStaged", s) /\ d[i].x = n /\ i # 1
    BY <1>1
  <2>2. i - 1 \in 1 .. Len(Tail(d)) /\ i - 1 \in Nat /\ (i - 1) + 1 = i /\ Tail(d)[i - 1] = d[i]
    BY <2>1, Popped
  <2>3. Is(Tail(d), i - 1, "awaitStaged", s)
    BY <2>1, <2>2, PoppedIs
  <2> QED
    BY <2>1, <2>2, <2>3 DEF Viewed
<1> QED
  BY <1>1 DEF Viewed

LEMMA PopDServed ==
  ASSUME NEW c \in Seq(Ops), NEW d \in Seq(Ops), d # <<>>, NEW s, NEW b, NEW dv, NEW i \in Nat,
         \/ ~Is(d, 1, "awaitStaged", s)
         \/ \A j \in 1 .. Len(c) : Fills(c, s, b, j) => c[j].x # d[1].x,
         Served(c, d, s, b, dv, i + 1)
  PROVE  Served(c, Tail(d), s, b, dv, i)
<1>0. ASSUME NEW j \in Nat, FencedFrom(c, d, s, j, i + 1)
      PROVE  FencedFrom(c, Tail(d), s, j, i)
  BY <1>0, PopDFenced DEF FencedFrom
<1>1. CASE dv = b /\ FencedFrom(c, d, s, 1, i + 1)
  BY <1>0, <1>1 DEF Served
<1>2. CASE \E k \in 1 .. Len(d), j \in 1 .. Len(c) :
             /\ k < i + 1 /\ Is(d, k, "awaitStaged", s) /\ Fills(c, s, b, j) /\ d[k].x = c[j].x
             /\ FencedFrom(c, d, s, j, i + 1)
  <2>1. PICK k \in 1 .. Len(d), j \in 1 .. Len(c) :
             /\ k < i + 1 /\ Is(d, k, "awaitStaged", s) /\ Fills(c, s, b, j) /\ d[k].x = c[j].x
             /\ FencedFrom(c, d, s, j, i + 1)
    BY <1>2
  <2>2. k # 1 /\ j \in Nat
    BY <2>1
  <2>3. /\ k - 1 \in 1 .. Len(Tail(d)) /\ k - 1 \in Nat /\ (k - 1) + 1 = k /\ k - 1 < i
        /\ Tail(d)[k - 1] = d[k]
    BY <2>1, <2>2, Popped
  <2>4. Is(Tail(d), k - 1, "awaitStaged", s)
    BY <2>1, <2>3, PoppedIs
  <2>5. FencedFrom(c, Tail(d), s, j, i)
    BY <1>0, <2>1, <2>2
  <2> QED
    BY <2>1, <2>3, <2>4, <2>5 DEF Served
<1> QED
  BY <1>1, <1>2 DEF Served

----------------------------------------------------------------------------
(* Operations are queued on the default stream.                            *)

LEMMA PushDFenced ==
  ASSUME NEW c, NEW d \in Seq(Ops), NEW p \in Seq(Ops), NEW s, NEW j, NEW i,
         Fenced(c, d, s, j, i)
  PROVE  Fenced(c, d \o p, s, j, i)
<1>1. PICK k \in 1 .. Len(c), m \in 1 .. Len(d) :
        /\ k < j /\ Is(c, k, "awaitDone", s) /\ i < m /\ Is(d, m, "recordDone", s)
        /\ d[m].x <= c[k].x
  BY DEF Fenced
<1>2. m \in Nat /\ m \in 1 .. Len(d \o p) /\ (d \o p)[m] = d[m]
  BY <1>1, Pushed
<1>3. Is(d \o p, m, "recordDone", s)
  BY <1>1, <1>2, PushedIs
<1> QED
  BY <1>1, <1>2, <1>3 DEF Fenced

LEMMA PushDReusable ==
  ASSUME NEW c, NEW d \in Seq(Ops), NEW p \in Seq(Ops), NEW s, NEW rec, NEW i,
         Reusable(c, d, s, rec, i)
  PROVE  Reusable(c, d \o p, s, rec, i)
<1>1. PICK m \in 1 .. Len(d) : i < m /\ Is(d, m, "recordDone", s)
  BY DEF Reusable
<1>2. m \in Nat /\ m \in 1 .. Len(d \o p)
  BY <1>1, Pushed
<1>3. Is(d \o p, m, "recordDone", s)
  BY <1>1, <1>2, PushedIs
<1> QED
  BY <1>1, <1>2, <1>3, PushDFenced DEF Reusable

LEMMA PushDViewed ==
  ASSUME NEW c, NEW d \in Seq(Ops), NEW p \in Seq(Ops), NEW s, NEW n, Viewed(c, d, s, n)
  PROVE  Viewed(c, d \o p, s, n)
<1>1. CASE \E i \in 1 .. Len(d) : Is(d, i, "awaitStaged", s) /\ d[i].x = n
  <2>1. PICK i \in 1 .. Len(d) : Is(d, i, "awaitStaged", s) /\ d[i].x = n
    BY <1>1
  <2>2. i \in Nat /\ i \in 1 .. Len(d \o p) /\ (d \o p)[i] = d[i]
    BY <2>1, Pushed
  <2>3. Is(d \o p, i, "awaitStaged", s)
    BY <2>1, <2>2, PushedIs
  <2> QED
    BY <2>1, <2>2, <2>3 DEF Viewed
<1> QED
  BY <1>1 DEF Viewed

LEMMA PushDServed ==
  ASSUME NEW c, NEW d \in Seq(Ops), NEW p \in Seq(Ops), NEW s, NEW b, NEW dv, NEW i,
         Served(c, d, s, b, dv, i)
  PROVE  Served(c, d \o p, s, b, dv, i)
<1>0. ASSUME NEW j, FencedFrom(c, d, s, j, i)
      PROVE  FencedFrom(c, d \o p, s, j, i)
  BY <1>0, PushDFenced DEF FencedFrom
<1>1. CASE dv = b /\ FencedFrom(c, d, s, 1, i)
  BY <1>0, <1>1 DEF Served
<1>2. CASE \E k \in 1 .. Len(d), j \in 1 .. Len(c) :
             /\ k < i /\ Is(d, k, "awaitStaged", s) /\ Fills(c, s, b, j) /\ d[k].x = c[j].x
             /\ FencedFrom(c, d, s, j, i)
  <2>1. PICK k \in 1 .. Len(d), j \in 1 .. Len(c) :
             /\ k < i /\ Is(d, k, "awaitStaged", s) /\ Fills(c, s, b, j) /\ d[k].x = c[j].x
             /\ FencedFrom(c, d, s, j, i)
    BY <1>2
  <2>2. k \in Nat /\ k \in 1 .. Len(d \o p) /\ (d \o p)[k] = d[k]
    BY <2>1, Pushed
  <2>3. Is(d \o p, k, "awaitStaged", s)
    BY <2>1, <2>2, PushedIs
  <2>4. FencedFrom(c, d \o p, s, j, i)
    BY <1>0, <2>1
  <2> QED
    BY <2>1, <2>2, <2>3, <2>4 DEF Served
<1> QED
  BY <1>1, <1>2 DEF Served

----------------------------------------------------------------------------
(* A block is staged on the copy stream.                                   *)

LEMMA PushCFenced ==
  ASSUME NEW c \in Seq(Ops), NEW p \in Seq(Ops), NEW d, NEW s, NEW j, NEW i,
         Fenced(c, d, s, j, i)
  PROVE  Fenced(c \o p, d, s, j, i)
<1>1. PICK k \in 1 .. Len(c), m \in 1 .. Len(d) :
        /\ k < j /\ Is(c, k, "awaitDone", s) /\ i < m /\ Is(d, m, "recordDone", s)
        /\ d[m].x <= c[k].x
  BY DEF Fenced
<1>2. k \in Nat /\ k \in 1 .. Len(c \o p) /\ (c \o p)[k] = c[k]
  BY <1>1, Pushed
<1>3. Is(c \o p, k, "awaitDone", s)
  BY <1>1, <1>2, PushedIs
<1> QED
  BY <1>1, <1>2, <1>3 DEF Fenced

LEMMA PushCReusable ==
  ASSUME NEW c \in Seq(Ops), NEW p \in Seq(Ops), NEW d, NEW s, NEW rec, NEW i,
         Reusable(c, d, s, rec, i)
  PROVE  Reusable(c \o p, d, s, rec, i)
<1>1. ASSUME Fenced(c \o p, d, s, Len(c) + 1, i)
      PROVE  Fenced(c \o p, d, s, Len(c \o p) + 1, i)
  BY <1>1, Pushed DEF Fenced
<1> QED
  BY <1>1, PushCFenced DEF Reusable

LEMMA PushCFills ==
  ASSUME NEW c \in Seq(Ops), NEW p \in Seq(Ops), NEW s, NEW b, NEW j \in Nat, Fills(c, s, b, j)
  PROVE  Fills(c \o p, s, b, j) /\ j \in 1 .. Len(c \o p) /\ (c \o p)[j] = c[j]
<1>1. j \in 1 .. Len(c) /\ j - 1 \in 1 .. Len(c) /\ j - 1 \in Nat
  BY DEF Fills, Is
<1>2. (c \o p)[j] = c[j] /\ (c \o p)[j - 1] = c[j - 1] /\ j \in 1 .. Len(c \o p)
  BY <1>1, Pushed
<1>3. Is(c \o p, j, "recordStaged", s) /\ Is(c \o p, j - 1, "copy", s)
  BY <1>1, PushedIs DEF Fills
<1> QED
  BY <1>2, <1>3 DEF Fills

LEMMA PushCNoCopy ==
  ASSUME NEW c \in Seq(Ops), NEW p \in Seq(Ops), NEW s, NEW j \in Nat, NoCopyFrom(c, s, j),
         \A k \in 1 .. Len(p) : ~Is(p, k, "copy", s)
  PROVE  NoCopyFrom(c \o p, s, j)
<1> SUFFICES ASSUME NEW k \in 1 .. Len(c \o p), j <= k, Is(c \o p, k, "copy", s)
             PROVE  FALSE
  BY DEF NoCopyFrom
<1>1. Is(c, k, "copy", s) \/ Is(p, k - Len(c), "copy", s)
  BY Pushed, PushedIs
<1> QED
  BY <1>1 DEF NoCopyFrom, Is

LEMMA PushCFilled ==
  ASSUME NEW c \in Seq(Ops), NEW p \in Seq(Ops), NEW s, NEW b, NEW dv, NEW n,
         Filled(c, s, b, dv, n),
         \A k \in 1 .. Len(p) : ~Is(p, k, "copy", s)
  PROVE  Filled(c \o p, s, b, dv, n)
<1>1. CASE dv = b /\ NoCopyFrom(c, s, 1)
  BY <1>1, PushCNoCopy DEF Filled
<1>2. CASE \E j \in 1 .. Len(c) : Fills(c, s, b, j) /\ c[j].x = n /\ NoCopyFrom(c, s, j)
  <2>1. PICK j \in 1 .. Len(c) : Fills(c, s, b, j) /\ c[j].x = n /\ NoCopyFrom(c, s, j)
    BY <1>2
  <2>2. j \in Nat
    BY <2>1
  <2>3. Fills(c \o p, s, b, j) /\ j \in 1 .. Len(c \o p) /\ (c \o p)[j] = c[j]
    BY <2>1, <2>2, PushCFills
  <2>4. NoCopyFrom(c \o p, s, j)
    BY <2>1, <2>2, PushCNoCopy
  <2> QED
    BY <2>1, <2>3, <2>4 DEF Filled
<1> QED
  BY <1>1, <1>2 DEF Filled

LEMMA PushCViewed ==
  ASSUME NEW c \in Seq(Ops), NEW p \in Seq(Ops), NEW d, NEW s, NEW n,
         Viewed(c, d, s, n),
         \A k \in 1 .. Len(p) : ~Is(p, k, "copy", s)
  PROVE  Viewed(c \o p, d, s, n)
  BY PushCNoCopy DEF Viewed

\* If a copy into the slot itself is among the operations queued, it is fenced off.
LEMMA PushCServed ==
  ASSUME NEW c \in Seq(Ops), NEW p \in Seq(Ops), NEW d, NEW s, NEW b, NEW dv, NEW i,
         Served(c, d, s, b, dv, i),
         \A k \in 1 .. Len(p) : Is(p, k, "copy", s) => Fenced(c \o p, d, s, Len(c) + k, i)
  PROVE  Served(c \o p, d, s, b, dv, i)
<1>0. ASSUME NEW j \in Nat, FencedFrom(c, d, s, j, i)
      PROVE  FencedFrom(c \o p, d, s, j, i)
  <2> SUFFICES ASSUME NEW n \in 1 .. Len(c \o p), j <= n, Is(c \o p, n, "copy", s)
               PROVE  Fenced(c \o p, d, s, n, i)
    BY DEF FencedFrom
  <2>1. n \in Nat
    OBVIOUS
  <2>2. Is(c, n, "copy", s) \/ Is(p, n - Len(c), "copy", s)
    BY <2>1, PushedIs
  <2>3. CASE Is(c, n, "copy", s)
    <3>1. Fenced(c, d, s, n, i)
      BY <1>0, <2>3 DEF FencedFrom, Is
    <3> QED
      BY <3>1, PushCFenced
  <2>4. CASE Is(p, n - Len(c), "copy", s)
    <3>1. n - Len(c) \in 1 .. Len(p) /\ Len(c) + (n - Len(c)) = n
      BY <2>4, Pushed DEF Is
    <3>2. Fenced(c \o p, d, s, Len(c) + (n - Len(c)), i)
      BY <2>4, <3>1
    <3> QED
      BY <3>1, <3>2
  <2> QED
    BY <2>2, <2>3, <2>4
<1>1. CASE dv = b /\ FencedFrom(c, d, s, 1, i)
  BY <1>0, <1>1 DEF Served
<1>2. CASE \E k \in 1 .. Len(d), j \in 1 .. Len(c) :
             /\ k < i /\ Is(d, k, "awaitStaged", s) /\ Fills(c, s, b, j) /\ d[k].x = c[j].x
             /\ FencedFrom(c, d, s, j, i)
  <2>1. PICK k \in 1 .. Len(d), j \in 1 .. Len(c) :
             /\ k < i /\ Is(d, k, "awaitStaged", s) /\ Fills(c, s, b, j) /\ d[k].x = c[j].x
             /\ FencedFrom(c, d, s, j, i)
    BY <1>2
  <2>2. j \in Nat
    BY <2>1
  <2>3. Fills(c \o p, s, b, j) /\ j \in 1 .. Len(c \o p) /\ (c \o p)[j] = c[j]
    BY <2>1, <2>2, PushCFills
  <2>4. FencedFrom(c \o p, d, s, j, i)
    BY <1>0, <2>1, <2>2
  <2> QED
    BY <2>1, <2>3, <2>4 DEF Served
<1> QED
  BY <1>1, <1>2 DEF Served

\* What prefetch queues in slot s: a wait if the slot has a mark, the copy, its record.
CopyOps(s, b, n) == <<Op("copy", s, b), Op("recordStaged", s, n)>>
WaitOps(s, rec, x) == IF rec THEN <<Op("awaitDone", s, x)>> ELSE <<>>

Stages(p, s, b, x, n, rec) ==
  /\ p \in Seq(Ops) /\ Len(p) = IF rec THEN 3 ELSE 2
  /\ rec => p[1] = Op("awaitDone", s, x)
  /\ p[Len(p) - 1] = Op("copy", s, b) /\ p[Len(p)] = Op("recordStaged", s, n)

LEMMA StagedOps ==
  ASSUME NEW s \in Slots, NEW b \in Blocks, NEW x \in Nat, NEW n \in Nat, NEW rec \in BOOLEAN
  PROVE  /\ Stages(WaitOps(s, rec, x) \o CopyOps(s, b, n), s, b, x, n, rec)
         /\ WaitOps(s, rec, x) \in Seq(Ops) /\ CopyOps(s, b, n) \in Seq(Ops)
<1> DEFINE c == CopyOps(s, b, n)
           w == <<Op("awaitDone", s, x)>>
<1>1. Op("copy", s, b) \in Ops /\ Op("recordStaged", s, n) \in Ops /\ Op("awaitDone", s, x) \in Ops
  BY DEF Op, Ops
<1>2. /\ c \in Seq(Ops) /\ Len(c) = 2
      /\ c[1] = Op("copy", s, b) /\ c[2] = Op("recordStaged", s, n)
  BY <1>1 DEF CopyOps
<1>3. w \in Seq(Ops) /\ Len(w) = 1 /\ w[1] = Op("awaitDone", s, x)
  BY <1>1
<1>4. <<>> \in Seq(Ops) /\ <<>> \o c = c
  BY <1>2
<1> HIDE DEF c, w
<1>5. WaitOps(s, rec, x) \in Seq(Ops) /\ CopyOps(s, b, n) \in Seq(Ops)
  <2>1. WaitOps(s, rec, x) = IF rec THEN w ELSE <<>>
    BY DEF WaitOps, w
  <2> QED
    BY <1>2, <1>3, <1>4, <2>1 DEF c
<1>6. CASE rec
  <2>1. WaitOps(s, rec, x) \o CopyOps(s, b, n) = w \o c
    BY <1>6 DEF WaitOps, w, c
  <2>2. 1 \in 1 .. Len(w) /\ 1 \in 1 .. Len(c) /\ 2 \in 1 .. Len(c)
    BY <1>2, <1>3
  <2>a. w \o c \in Seq(Ops) /\ Len(w \o c) = Len(w) + Len(c)
    BY <1>2, <1>3, Pushed
  <2>3. w \o c \in Seq(Ops) /\ Len(w \o c) = 3
    BY <1>2, <1>3, <2>a
  <2>4. (w \o c)[1] = w[1] /\ (w \o c)[Len(w) + 1] = c[1] /\ (w \o c)[Len(w) + 2] = c[2]
    BY <1>2, <1>3, <2>2, Pushed
  <2>5. Stages(w \o c, s, b, x, n, rec)
    BY <1>2, <1>3, <1>6, <2>3, <2>4 DEF Stages
  <2> QED
    BY <1>5, <2>1, <2>5
<1>7. CASE ~rec
  <2>1. WaitOps(s, rec, x) \o CopyOps(s, b, n) = c
    BY <1>4, <1>7 DEF WaitOps, c
  <2>2. Stages(c, s, b, x, n, rec)
    BY <1>2, <1>7 DEF Stages
  <2> QED
    BY <1>5, <2>1, <2>2
<1> QED
  BY <1>6, <1>7

LEMMA StagedIs ==
  ASSUME NEW s, NEW b, NEW x, NEW n, NEW rec \in BOOLEAN, NEW p, Stages(p, s, b, x, n, rec),
         NEW i \in 1 .. Len(p), NEW k, NEW t
  PROVE  /\ Is(p, i, k, t) <=> t = s /\ k = IF i = Len(p) THEN "recordStaged"
                                            ELSE IF i = Len(p) - 1 THEN "copy" ELSE "awaitDone"
         /\ p[i].x = IF i = Len(p) THEN n ELSE IF i = Len(p) - 1 THEN b ELSE x
<1>1. Len(p) \in {2, 3} /\ i \in {1, 2, 3}
  BY DEF Stages
<1>2. p[i] = IF i = Len(p) THEN Op("recordStaged", s, n)
             ELSE IF i = Len(p) - 1 THEN Op("copy", s, b) ELSE Op("awaitDone", s, x)
  BY <1>1 DEF Stages
<1> QED
  BY <1>2 DEF Is, Op

LEMMA StageFilled ==
  ASSUME NEW s \in Slots, NEW b \in Blocks, NEW x \in Nat, NEW n \in Nat, NEW rec \in BOOLEAN,
         NEW p, Stages(p, s, b, x, n, rec),
         NEW c \in Seq(Ops), NEW dv
  PROVE  Filled(c \o p, s, b, dv, n)
<1>1. p \in Seq(Ops) /\ Len(p) \in {2, 3} /\ Len(c) \in Nat /\ Len(c \o p) = Len(c) + Len(p)
  BY Pushed DEF Stages
<1>2. /\ p[Len(p) - 1] = Op("copy", s, b) /\ p[Len(p)] = Op("recordStaged", s, n)
      /\ Len(p) \in 1 .. Len(p) /\ Len(p) - 1 \in 1 .. Len(p)
  BY <1>1 DEF Stages
<1>3. (c \o p)[Len(c) + Len(p)] = Op("recordStaged", s, n)
      /\ (c \o p)[Len(c) + (Len(p) - 1)] = Op("copy", s, b)
  BY <1>1, <1>2, Pushed
<1>4. Fills(c \o p, s, b, Len(c \o p))
  <2>1. /\ Len(c \o p) > 1 /\ Len(c \o p) - 1 = Len(c) + (Len(p) - 1)
        /\ Len(c \o p) \in 1 .. Len(c \o p) /\ Len(c \o p) - 1 \in 1 .. Len(c \o p)
    <3>1. Len(p) \in Nat /\ Len(p) >= 2
      <4>1. \A l \in {2, 3} : l \in Nat /\ l >= 2
        OBVIOUS
      <4> QED
        BY <1>1, <4>1
    <3>2. \A l \in Nat : l = Len(c) + Len(p) =>
            l > 1 /\ l - 1 = Len(c) + (Len(p) - 1) /\ l \in 1 .. l /\ l - 1 \in 1 .. l
      BY <1>1, <3>1
    <3> QED
      BY <1>1, <3>1, <3>2
  <2> QED
    BY <1>1, <1>3, <2>1 DEF Fills, Is, Op
<1>5. NoCopyFrom(c \o p, s, Len(c \o p)) /\ (c \o p)[Len(c \o p)].x = n
  BY <1>1, <1>3 DEF NoCopyFrom, Is, Op
<1> QED
  BY <1>1, <1>4, <1>5 DEF Filled

\* The copy is fenced off from the kernels of the slot.
LEMMA StageFenced ==
  ASSUME NEW s \in Slots, NEW b \in Blocks, NEW x \in Nat, NEW n \in Nat, NEW rec \in BOOLEAN,
         NEW p, Stages(p, s, b, x, n, rec),
         NEW c \in Seq(Ops), NEW d, NEW i, Reusable(c, d, s, rec, i),
         \A m \in 1 .. Len(d) : Is(d, m, "recordDone", s) => d[m].x <= x
  PROVE  Fenced(c \o p, d, s, Len(c) + (Len(p) - 1), i)
<1>1. p \in Seq(Ops) /\ Len(p) = (IF rec THEN 3 ELSE 2) /\ Len(c) \in Nat
      /\ Len(c \o p) = Len(c) + Len(p)
  BY Pushed DEF Stages
<1>2. CASE rec
  <2>1. PICK m \in 1 .. Len(d) : i < m /\ Is(d, m, "recordDone", s)
    BY DEF Reusable
  <2>2. (c \o p)[Len(c) + 1] = Op("awaitDone", s, x) /\ Len(c) + 1 \in 1 .. Len(c \o p)
    <3>1. 1 \in 1 .. Len(p) /\ p[1] = Op("awaitDone", s, x)
      BY <1>1, <1>2 DEF Stages
    <3> QED
      BY <1>1, <3>1, Pushed
  <2>3. Is(c \o p, Len(c) + 1, "awaitDone", s) /\ (c \o p)[Len(c) + 1].x = x
    BY <2>2 DEF Is, Op
  <2>4. Len(c) + 1 < Len(c) + (Len(p) - 1)
    BY <1>1, <1>2
  <2>5. d[m].x <= (c \o p)[Len(c) + 1].x
    BY <2>1, <2>3
  <2> QED
    BY <2>1, <2>2, <2>3, <2>4, <2>5 DEF Fenced
<1>3. CASE ~rec
  <2>1. Fenced(c, d, s, Len(c) + 1, i)
    BY <1>3 DEF Reusable
  <2>2. Len(c) + (Len(p) - 1) = Len(c) + 1
    BY <1>1, <1>3
  <2> QED
    BY <1>1, <2>1, <2>2, PushCFenced
<1> QED
  BY <1>2, <1>3

\* Queued behind that copy, another one needs no wait of its own.
LEMMA StageReusable ==
  ASSUME NEW c \in Seq(Ops), NEW p \in Seq(Ops), NEW d, NEW s, NEW rec, NEW i,
         Reusable(c, d, s, rec, i), Fenced(c \o p, d, s, Len(c) + (Len(p) - 1), i)
  PROVE  Reusable(c \o p, d, s, FALSE, i)
<1>1. Len(c) \in Nat /\ Len(p) \in Nat /\ Len(c \o p) = Len(c) + Len(p)
  BY Pushed
<1>2. Fenced(c \o p, d, s, Len(c \o p) + 1, i)
  BY <1>1 DEF Fenced
<1> QED
  BY <1>2 DEF Reusable

----------------------------------------------------------------------------
(* Copies on the default stream.                                           *)

LEMMA PopLast ==
  ASSUME NEW d \in Seq(Ops), d # <<>>, d[1].kind # "copy", NEW s, NEW b, NEW dv, NEW i \in Nat,
         Last(d, s, b, dv, i + 1)
  PROVE  Last(Tail(d), s, b, dv, i)
<1>1. CASE dv = b /\ \A k \in 1 .. Len(d) : k < i + 1 => ~Is(d, k, "copy", s)
  <2>1. ASSUME NEW k \in 1 .. Len(Tail(d)), k < i, Is(Tail(d), k, "copy", s)
        PROVE  FALSE
    <3>1. k \in Nat /\ k + 1 \in 1 .. Len(d) /\ k + 1 < i + 1
      BY <2>1, Popped
    <3>2. Is(d, k + 1, "copy", s)
      BY <2>1, <3>1, PoppedIs
    <3> QED
      BY <1>1, <3>1, <3>2
  <2> QED
    BY <1>1, <2>1 DEF Last
<1>2. CASE \E k \in 1 .. Len(d) :
             /\ k < i + 1 /\ Is(d, k, "copy", s) /\ d[k].x = b
             /\ \A n \in 1 .. Len(d) : k < n /\ n < i + 1 => ~Is(d, n, "copy", s)
  <2>1. PICK k \in 1 .. Len(d) :
             /\ k < i + 1 /\ Is(d, k, "copy", s) /\ d[k].x = b
             /\ \A n \in 1 .. Len(d) : k < n /\ n < i + 1 => ~Is(d, n, "copy", s)
    BY <1>2
  <2>2. k # 1
    BY <2>1 DEF Is
  <2>3. /\ k - 1 \in 1 .. Len(Tail(d)) /\ k - 1 \in Nat /\ (k - 1) + 1 = k /\ k - 1 < i
        /\ Tail(d)[k - 1] = d[k]
    BY <2>1, <2>2, Popped
  <2>4. Is(Tail(d), k - 1, "copy", s)
    BY <2>1, <2>3, PoppedIs
  <2>5. ASSUME NEW n \in 1 .. Len(Tail(d)), k - 1 < n, n < i, Is(Tail(d), n, "copy", s)
        PROVE  FALSE
    <3>1. n \in Nat /\ n + 1 \in 1 .. Len(d) /\ k < n + 1 /\ n + 1 < i + 1
      BY <2>5, Popped
    <3>2. Is(d, n + 1, "copy", s)
      BY <2>5, <3>1, PoppedIs
    <3> QED
      BY <2>1, <3>1, <3>2
  <2> QED
    BY <2>1, <2>3, <2>4, <2>5 DEF Last
<1> QED
  BY <1>1, <1>2 DEF Last

LEMMA FinishLast ==
  ASSUME NEW d \in Seq(Ops), d # <<>>, d[1].kind = "copy", NEW s, NEW b, NEW dv,
         NEW i \in Nat, i > 0,
         Last(d, s, b, dv, i + 1)
  PROVE  Last(Tail(d), s, b, IF d[1].slot = s THEN d[1].x ELSE dv, i)
<1>1. CASE dv = b /\ \A k \in 1 .. Len(d) : k < i + 1 => ~Is(d, k, "copy", s)
  <2>1. ASSUME NEW k \in 1 .. Len(Tail(d)), k < i, Is(Tail(d), k, "copy", s)
        PROVE  FALSE
    <3>1. k \in Nat /\ k + 1 \in 1 .. Len(d) /\ k + 1 < i + 1
      BY <2>1, Popped
    <3>2. Is(d, k + 1, "copy", s)
      BY <2>1, <3>1, PoppedIs
    <3> QED
      BY <1>1, <3>1, <3>2
  <2>2. d[1].slot # s
    BY <1>1, Popped DEF Is
  <2> QED
    BY <1>1, <2>1, <2>2 DEF Last
<1>2. CASE \E k \in 1 .. Len(d) :
             /\ k < i + 1 /\ Is(d, k, "copy", s) /\ d[k].x = b
             /\ \A n \in 1 .. Len(d) : k < n /\ n < i + 1 => ~Is(d, n, "copy", s)
  <2>1. PICK k \in 1 .. Len(d) :
             /\ k < i + 1 /\ Is(d, k, "copy", s) /\ d[k].x = b
             /\ \A n \in 1 .. Len(d) : k < n /\ n < i + 1 => ~Is(d, n, "copy", s)
    BY <1>2
  <2>2. ASSUME NEW n \in 1 .. Len(Tail(d)), k - 1 < n, n < i, Is(Tail(d), n, "copy", s)
        PROVE  FALSE
    <3>1. n \in Nat /\ n + 1 \in 1 .. Len(d) /\ k < n + 1 /\ n + 1 < i + 1
      BY <2>2, Popped
    <3>2. Is(d, n + 1, "copy", s)
      BY <2>2, <3>1, PoppedIs
    <3> QED
      BY <2>1, <3>1, <3>2
  <2>3. CASE k = 1
    <3>1. d[1].slot = s /\ d[1].x = b
      BY <2>1, <2>3 DEF Is
    <3>2. \A n \in 1 .. Len(Tail(d)) : n < i => ~Is(Tail(d), n, "copy", s)
      BY <2>2, <2>3, Popped
    <3> QED
      BY <3>1, <3>2 DEF Last
  <2>4. CASE k # 1
    <3>1. /\ k - 1 \in 1 .. Len(Tail(d)) /\ k - 1 \in Nat /\ (k - 1) + 1 = k /\ k - 1 < i
          /\ Tail(d)[k - 1] = d[k]
      BY <2>1, <2>4, Popped
    <3>2. Is(Tail(d), k - 1, "copy", s)
      BY <2>1, <3>1, PoppedIs
    <3> QED
      BY <2>1, <2>2, <3>1, <3>2 DEF Last
  <2> QED
    BY <2>3, <2>4
<1> QED
  BY <1>1, <1>2 DEF Last

LEMMA BeginLast ==
  ASSUME NEW d, NEW s, Is(d, 1, "copy", s), NEW b, NEW dv, NEW dv2, NEW i \in Nat, i > 1,
         Last(d, s, b, dv, i)
  PROVE  Last(d, s, b, dv2, i)
  BY DEF Last, Is

LEMMA PushLast ==
  ASSUME NEW d \in Seq(Ops), NEW p \in Seq(Ops), NEW s, NEW b, NEW dv,
         NEW i \in 1 .. Len(d) + 1, Last(d, s, b, dv, i)
  PROVE  Last(d \o p, s, b, dv, i)
<1>1. \A k \in 1 .. Len(d \o p) : k < i => k \in 1 .. Len(d)
  BY Pushed
<1>2. \A k \in 1 .. Len(d) : /\ k \in 1 .. Len(d \o p) /\ (d \o p)[k] = d[k]
                             /\ Is(d \o p, k, "copy", s) <=> Is(d, k, "copy", s)
  BY Pushed DEF Is
<1>3. CASE dv = b /\ \A k \in 1 .. Len(d) : k < i => ~Is(d, k, "copy", s)
  BY <1>1, <1>2, <1>3 DEF Last
<1>4. CASE \E k \in 1 .. Len(d) :
             /\ k < i /\ Is(d, k, "copy", s) /\ d[k].x = b
             /\ \A n \in 1 .. Len(d) : k < n /\ n < i => ~Is(d, n, "copy", s)
  <2>1. PICK k \in 1 .. Len(d) :
             /\ k < i /\ Is(d, k, "copy", s) /\ d[k].x = b
             /\ \A n \in 1 .. Len(d) : k < n /\ n < i => ~Is(d, n, "copy", s)
    BY <1>4
  <2>2. \A n \in 1 .. Len(d \o p) : k < n /\ n < i => ~Is(d \o p, n, "copy", s)
    BY <1>1, <1>2, <2>1
  <2> QED
    BY <1>2, <2>1, <2>2 DEF Last
<1> QED
  BY <1>3, <1>4 DEF Last

\* No copy into the slot was queued.
LEMMA PushLastEnd ==
  ASSUME NEW d \in Seq(Ops), NEW p \in Seq(Ops), NEW s, NEW b, NEW dv,
         Last(d, s, b, dv, Len(d) + 1),
         \A k \in 1 .. Len(p) : ~Is(p, k, "copy", s)
  PROVE  Last(d \o p, s, b, dv, Len(d \o p) + 1)
<1>0. Len(d) \in Nat /\ Len(p) \in Nat /\ Len(d \o p) = Len(d) + Len(p)
  BY Pushed
<1>1. Last(d \o p, s, b, dv, Len(d) + 1)
  BY <1>0, PushLast
<1>2. ASSUME NEW k \in 1 .. Len(d \o p), ~(k < Len(d) + 1)
      PROVE  ~Is(d \o p, k, "copy", s)
  <2>1. k \in Nat /\ k - Len(d) \in 1 .. Len(p)
    BY <1>0, <1>2
  <2>2. ~Is(d, k, "copy", s)
    BY <1>0, <1>2 DEF Is
  <2> QED
    BY <2>1, <2>2, PushedIs
<1>3. \A k \in 1 .. Len(d \o p) : k < Len(d \o p) + 1
  BY <1>0
<1> QED
  BY <1>0, <1>1, <1>2, <1>3 DEF Last

\* A copy into the slot was queued.
LEMMA StageLast ==
  ASSUME NEW s \in Slots, NEW b \in Blocks, NEW n \in Nat, NEW d \in Seq(Ops), NEW dv
  PROVE  Last(d \o CopyOps(s, b, n), s, b, dv, Len(d \o CopyOps(s, b, n)) + 1)
<1> DEFINE p == CopyOps(s, b, n)
<1>0. p \in Seq(Ops) /\ Len(p) = 2 /\ p[1] = Op("copy", s, b) /\ p[2] = Op("recordStaged", s, n)
  BY DEF CopyOps, Op, Ops
<1>a. 1 \in 1 .. Len(p) /\ 2 \in 1 .. Len(p)
  BY <1>0
<1> HIDE DEF p
<1>1. Len(d) \in Nat /\ Len(d \o p) = Len(d) + 2
      /\ (d \o p)[Len(d) + 1] = Op("copy", s, b) /\ (d \o p)[Len(d) + 2] = Op("recordStaged", s, n)
  <2>1. (d \o p)[Len(d) + 1] = p[1] /\ (d \o p)[Len(d) + 2] = p[2]
    BY <1>0, <1>a, Pushed
  <2>2. Len(d) \in Nat /\ Len(d \o p) = Len(d) + Len(p)
    BY <1>0, Pushed
  <2> QED
    BY <1>0, <2>1, <2>2
<1>2. Is(d \o p, Len(d) + 1, "copy", s) /\ (d \o p)[Len(d) + 1].x = b
      /\ ~Is(d \o p, Len(d) + 2, "copy", s)
  BY <1>1 DEF Is, Op
<1>3. Last(d \o p, s, b, dv, Len(d \o p) + 1)
  BY <1>1, <1>2 DEF Last
<1> QED
  BY <1>3 DEF p

----------------------------------------------------------------------------
(* Numbers of records.                                                     *)

LEMMA PopOrdered ==
  ASSUME NEW q \in Seq(Ops), q # <<>>, NEW kind, NEW s, NEW p, NEW n, Ordered(q, kind, s, p, n)
  PROVE  /\ Ordered(Tail(q), kind, s, p, n)
         /\ Is(q, 1, kind, s) => /\ Ordered(Tail(q), kind, s, q[1].x, n)
                                 /\ q[1].x <= n
<1>1. ASSUME NEW i \in 1 .. Len(Tail(q)), Is(Tail(q), i, kind, s)
      PROVE  /\ p < Tail(q)[i].x /\ Tail(q)[i].x <= n
             /\ Is(q, 1, kind, s) => q[1].x < Tail(q)[i].x
             /\ \A k \in 1 .. i - 1 : Is(Tail(q), k, kind, s) => Tail(q)[k].x < Tail(q)[i].x
  <2>1. i \in Nat /\ i + 1 \in 1 .. Len(q) /\ Tail(q)[i] = q[i + 1] /\ 1 \in 1 .. (i + 1) - 1
    BY Popped
  <2>2. Is(q, i + 1, kind, s)
    BY <1>1, <2>1, PoppedIs
  <2>3. ASSUME NEW k \in 1 .. i - 1, Is(Tail(q), k, kind, s)
        PROVE  Tail(q)[k].x < Tail(q)[i].x
    <3>1. k \in Nat /\ k + 1 \in 1 .. (i + 1) - 1 /\ Tail(q)[k] = q[k + 1]
      BY <2>1, Popped
    <3>2. Is(q, k + 1, kind, s)
      BY <2>3, <3>1, PoppedIs
    <3> QED
      BY <2>1, <2>2, <3>1, <3>2 DEF Ordered
  <2> QED
    BY <2>1, <2>2, <2>3 DEF Ordered
<1>2. Is(q, 1, kind, s) => q[1].x <= n
  BY DEF Ordered, Is
<1> QED
  BY <1>1, <1>2 DEF Ordered

\* No such record was queued.
LEMMA PushOrdered ==
  ASSUME NEW q \in Seq(Ops), NEW r \in Seq(Ops), NEW kind, NEW s, NEW p, NEW n,
         Ordered(q, kind, s, p, n),
         \A k \in 1 .. Len(r) : ~Is(r, k, kind, s)
  PROVE  Ordered(q \o r, kind, s, p, n)
<1>1. \A k \in 1 .. Len(q \o r) : Is(q \o r, k, kind, s) => Is(q, k, kind, s) /\ (q \o r)[k] = q[k]
  <2> SUFFICES ASSUME NEW k \in 1 .. Len(q \o r), Is(q \o r, k, kind, s)
               PROVE  Is(q, k, kind, s) /\ (q \o r)[k] = q[k]
    OBVIOUS
  <2>1. k \in Nat
    OBVIOUS
  <2>2. Is(q, k, kind, s) \/ Is(r, k - Len(q), kind, s)
    BY <2>1, PushedIs
  <2>3. Is(q, k, kind, s)
    BY <2>2 DEF Is
  <2> QED
    BY <2>3, Pushed DEF Is
<1>2. ASSUME NEW i \in 1 .. Len(q \o r), Is(q \o r, i, kind, s), NEW k \in 1 .. i - 1
      PROVE  k \in 1 .. Len(q \o r)
  BY Pushed
<1> QED
  BY <1>1, <1>2 DEF Ordered, Is

\* The next record was queued, after other operations.
LEMMA PushRecord ==
  ASSUME NEW q \in Seq(Ops), NEW r \in Seq(Ops), NEW kind, NEW s, NEW p \in Nat, NEW n \in Nat,
         Ordered(q, kind, s, p, n), p <= n,
         \A i \in 1 .. Len(q) : Is(q, i, kind, s) => q[i].x \in Nat,
         \A k \in 1 .. Len(r) : Is(r, k, kind, s) => k = Len(r) /\ r[k].x = n + 1
  PROVE  Ordered(q \o r, kind, s, p, n + 1)
<1>0. Len(q) \in Nat /\ Len(r) \in Nat /\ Len(q \o r) = Len(q) + Len(r)
  BY Pushed
<1>1. \A k \in 1 .. Len(q \o r) : Is(q \o r, k, kind, s) =>
        \/ Is(q, k, kind, s) /\ k \in 1 .. Len(q) /\ (q \o r)[k] = q[k]
        \/ k = Len(q \o r) /\ (q \o r)[k].x = n + 1
  <2> SUFFICES ASSUME NEW k \in 1 .. Len(q \o r), Is(q \o r, k, kind, s)
               PROVE  \/ Is(q, k, kind, s) /\ k \in 1 .. Len(q) /\ (q \o r)[k] = q[k]
                      \/ k = Len(q \o r) /\ (q \o r)[k].x = n + 1
    OBVIOUS
  <2>1. k \in Nat
    OBVIOUS
  <2>2. Is(q, k, kind, s) \/ Is(r, k - Len(q), kind, s)
    BY <2>1, PushedIs
  <2>3. CASE Is(q, k, kind, s)
    BY <2>3, Pushed DEF Is
  <2>4. CASE Is(r, k - Len(q), kind, s)
    <3>1. k - Len(q) \in 1 .. Len(r)
      BY <2>4 DEF Is
    <3>2. k - Len(q) = Len(r) /\ r[k - Len(q)].x = n + 1
      BY <2>4, <3>1
    <3>3. (q \o r)[Len(q) + (k - Len(q))] = r[k - Len(q)] /\ Len(q) + (k - Len(q)) = k
      BY <1>0, <3>1, Pushed
    <3> QED
      BY <1>0, <3>2, <3>3
  <2> QED
    BY <2>2, <2>3, <2>4
<1>2. ASSUME NEW i \in 1 .. Len(q \o r), Is(q \o r, i, kind, s)
      PROVE  /\ p < (q \o r)[i].x /\ (q \o r)[i].x <= n + 1
             /\ \A k \in 1 .. i - 1 : Is(q \o r, k, kind, s) => (q \o r)[k].x < (q \o r)[i].x
  <2>1. \A k \in 1 .. i - 1 : k \in 1 .. Len(q \o r) /\ k # Len(q \o r)
    BY <1>0
  <2>2. CASE Is(q, i, kind, s) /\ i \in 1 .. Len(q) /\ (q \o r)[i] = q[i]
    <3>1. p < q[i].x /\ q[i].x <= n /\ q[i].x \in Nat
      BY <2>2 DEF Ordered
    <3> QED
      BY <1>1, <2>1, <2>2, <3>1 DEF Ordered
  <2>3. CASE i = Len(q \o r) /\ (q \o r)[i].x = n + 1
    <3>1. \A k \in 1 .. i - 1 : Is(q \o r, k, kind, s) => q[k].x \in Nat /\ q[k].x <= n /\ (q \o r)[k] = q[k]
      BY <1>1, <2>1 DEF Ordered
    <3>2. p < n + 1 /\ n + 1 <= n + 1
      OBVIOUS
    <3>3. \A k \in 1 .. i - 1 : Is(q \o r, k, kind, s) => (q \o r)[k].x < n + 1
      BY <3>1
    <3> QED
      BY <2>3, <3>2, <3>3
  <2> QED
    BY <1>1, <1>2, <2>2, <2>3
<1> QED
  BY <1>2 DEF Ordered

----------------------------------------------------------------------------
(* What the queues hold, step by step.                                     *)

LEMMA QueueFacts ==
  ASSUME StreamOK
  PROVE  /\ C \in Seq(Ops) /\ D \in Seq(Ops) /\ Len(C) \in Nat /\ Len(D) \in Nat
         /\ \A i \in 1 .. Len(C) : Carries(C[i]) /\ C[i].kind \in KindsOn("copy")
         /\ \A i \in 1 .. Len(D) : Carries(D[i]) /\ D[i].kind \in KindsOn("default")
         /\ \A i \in 1 .. Len(D) : D[i].slot \in Slots
<1>1. C \in Seq(Ops) /\ D \in Seq(Ops)
  BY DEF StreamOK, C, D, Streams
<1>2. ASSUME NEW i \in 1 .. Len(D)
      PROVE  D[i].slot \in Slots
  <2>1. D[i] \in Ops
    BY <1>1
  <2> QED
    BY <2>1 DEF Ops
<1> QED
  BY <1>1, <1>2 DEF StreamOK, C, D, Streams

\* The oldest operation of a stream.
LEMMA HeadFacts ==
  ASSUME StreamOK, NEW st \in Streams, stream[st] # <<>>
  PROVE  /\ Oldest(st) = stream[st][1] /\ Oldest(st) \in Ops
         /\ Carries(Oldest(st)) /\ Oldest(st).kind \in KindsOn(st)
         /\ Oldest(st).slot \in Slots
<1>1. stream[st] \in Seq(Ops)
  BY DEF StreamOK
<1>2. Len(stream[st]) \in Nat \ {0} /\ Head(stream[st]) = stream[st][1] /\ stream[st][1] \in Ops
  BY <1>1, Popped
<1>3. 1 \in 1 .. Len(stream[st])
  BY <1>2
<1> QED
  BY <1>2, <1>3 DEF StreamOK, Oldest, Ops

LEMMA PopStreamOK ==
  ASSUME StreamOK, NEW st \in Streams, stream[st] # <<>>, Ends(st), mode' = mode
  PROVE  /\ StreamOK'
         /\ stream'[st] = Tail(stream[st]) /\ \A t \in Streams : t # st => stream'[t] = stream[t]
<1>1. stream[st] \in Seq(Ops)
  BY DEF StreamOK
<1>2. /\ stream' \in [Streams -> Seq(Ops)] /\ stream'[st] = Tail(stream[st])
      /\ \A t \in Streams : t # st => stream'[t] = stream[t]
  BY <1>1, Popped DEF StreamOK, Ends
<1>3. \A i \in 1 .. Len(stream'[st]) : i + 1 \in 1 .. Len(stream[st]) /\ stream'[st][i] = stream[st][i + 1]
  BY <1>1, <1>2, Popped
<1>4. \A t \in Streams : KindsOn(t)' = KindsOn(t)
  BY DEF KindsOn
<1>5. ASSUME NEW t \in Streams, NEW i \in 1 .. Len(stream'[t])
      PROVE  Carries(stream'[t][i]) /\ stream'[t][i].kind \in KindsOn(t)
  BY <1>2, <1>3 DEF StreamOK
<1> QED
  BY <1>2, <1>4, <1>5 DEF StreamOK

LEMMA PushStreamOK ==
  ASSUME StreamOK, NEW st \in Streams, NEW p \in Seq(Ops), Queues(st, p), mode' = mode,
         \A i \in 1 .. Len(p) : Carries(p[i]) /\ p[i].kind \in KindsOn(st)
  PROVE  /\ StreamOK'
         /\ stream'[st] = stream[st] \o p /\ \A t \in Streams : t # st => stream'[t] = stream[t]
<1>1. stream[st] \in Seq(Ops)
  BY DEF StreamOK
<1>2. /\ stream' \in [Streams -> Seq(Ops)] /\ stream'[st] = stream[st] \o p
      /\ \A t \in Streams : t # st => stream'[t] = stream[t]
  BY <1>1, Pushed DEF StreamOK, Queues
<1>3. ASSUME NEW i \in 1 .. Len(stream'[st])
      PROVE  Carries(stream'[st][i]) /\ stream'[st][i].kind \in KindsOn(st)
  <2>1. i \in 1 .. Len(stream[st]) + Len(p) /\ i \in Nat
    BY <1>1, <1>2, <1>3, Pushed
  <2>2. CASE i \in 1 .. Len(stream[st])
    <3>1. stream'[st][i] = stream[st][i]
      BY <1>1, <1>2, <2>2, Pushed
    <3> QED
      BY <2>2, <3>1 DEF StreamOK
  <2>3. CASE i - Len(stream[st]) \in 1 .. Len(p)
    <3>1. stream'[st][Len(stream[st]) + (i - Len(stream[st]))] = p[i - Len(stream[st])]
      BY <1>1, <1>2, <2>3, Pushed
    <3>2. Len(stream[st]) + (i - Len(stream[st])) = i
      BY <1>1, <2>1, Pushed
    <3> QED
      BY <2>3, <3>1, <3>2
  <2> QED
    BY <1>1, <2>1, <2>2, <2>3, Pushed
<1>4. \A t \in Streams : KindsOn(t)' = KindsOn(t)
  BY DEF KindsOn
<1>5. ASSUME NEW t \in Streams, NEW i \in 1 .. Len(stream'[t])
      PROVE  Carries(stream'[t][i]) /\ stream'[t][i].kind \in KindsOn(t)
  BY <1>2, <1>3 DEF StreamOK
<1> QED
  BY <1>2, <1>4, <1>5 DEF StreamOK

\* Queueing does not change what is at the head.
LEMMA PushHead ==
  ASSUME NEW q \in Seq(Ops), NEW p \in Seq(Ops), q # <<>>
  PROVE  q \o p # <<>> /\ Head(q \o p) = Head(q)
<1>1. Len(q) \in Nat \ {0} /\ Len(q \o p) = Len(q) + Len(p) /\ Len(p) \in Nat /\ q \o p \in Seq(Ops)
  BY Popped, Pushed
<1>2. 1 \in 1 .. Len(q) /\ q \o p # <<>>
  BY <1>1
<1>3. (q \o p)[1] = q[1]
  BY <1>2, Pushed
<1> QED
  BY <1>1, <1>2, <1>3, Popped

----------------------------------------------------------------------------
(* The device.                                                             *)

\* A step of the device leaves what the host knows alone.
LEMMA DeviceFrame ==
  ASSUME UTypeOK, CallOK, UNCHANGED <<mode, loader, call, host, issued>>,
         dev' \in [Slots -> Blocks \cup {NoBlock, Mixed}],
         begun' \in [Streams -> Blocks \cup {NoBlock}],
         passed' \in [Events -> [Slots -> Nat]]
  PROVE  UTypeOK' /\ CallOK'
  BY DEF UTypeOK, CallOK, loader

LEMMA RecordQueued ==
  ASSUME Queued, NEW st \in Streams, Record(st)
  PROVE  Queued'
<1> DEFINE o == Oldest(st)
           e == IF o.kind = "recordDone" THEN "done" ELSE "staged"
<1>1. UTypeOK /\ StreamOK /\ RecordsInOrder /\ CallOK /\ BegunOK
  BY DEF Queued
<1>2. stream[st] # <<>> /\ o.kind \in {"recordStaged", "recordDone"} /\ Ends(st)
      /\ passed' = [passed EXCEPT ![e][o.slot] = o.x]
      /\ UNCHANGED <<mode, loader, call, host, dev, begun, issued>>
  BY DEF Record, At
<1>3. o = stream[st][1] /\ o \in Ops /\ Carries(o) /\ o.kind \in KindsOn(st) /\ o.slot \in Slots
  BY <1>1, <1>2, HeadFacts
<1>4. o.x \in Nat /\ e \in Events
  BY <1>2, <1>3 DEF Carries, Kernelish, Events
<1>5. StreamOK' /\ stream'[st] = Tail(stream[st]) /\ \A t \in Streams : t # st => stream'[t] = stream[t]
  BY <1>1, <1>2, PopStreamOK
<1> HIDE DEF o, e
<1>6. /\ passed' \in [Events -> [Slots -> Nat]] /\ passed'[e][o.slot] = o.x
      /\ \A f \in Events, s \in Slots : f # e \/ s # o.slot => passed'[f][s] = passed[f][s]
  BY <1>1, <1>2, <1>3, <1>4 DEF UTypeOK
<1>7. UTypeOK' /\ CallOK'
  BY <1>1, <1>2, <1>6, DeviceFrame DEF UTypeOK
<1>8. BegunOK'
  <2>1. begun[st] = NoBlock
    BY <1>1, <1>2 DEF BegunOK, Kernelish, o
  <2> QED
    BY <1>1, <1>2, <1>5, <2>1 DEF BegunOK, Oldest
<1>9. RecordsInOrder'
  <2> SUFFICES ASSUME NEW s \in Slots
               PROVE  /\ \A f \in Events : passed'[f][s] <= issued[f][s]
                      /\ Ordered(C', "recordStaged", s, passed'["staged"][s], issued["staged"][s])
                      /\ Ordered(D', "recordDone", s, passed'["done"][s], issued["done"][s])
                      /\ mode.on = "default" =>
                           Ordered(D', "recordStaged", s, passed'["staged"][s], issued["staged"][s])
    BY <1>2 DEF RecordsInOrder
  <2>1. Is(stream[st], 1, o.kind, o.slot) /\ stream[st] \in Seq(Ops)
    BY <1>1, <1>2, <1>3, Popped DEF Is, StreamOK
  <2>2. \A k, t : Is(stream[st], 1, k, t) => k = o.kind /\ t = o.slot
    BY <1>3 DEF Is
  <2>3. "staged" \in Events /\ "done" \in Events
    BY DEF Events
  <2>4. CASE st = "copy"
    <3>1. o.kind = "recordStaged" /\ e = "staged" /\ mode.on = "copy"
      BY <1>2, <1>3, <2>4 DEF KindsOn, e
    <3>2. C' = Tail(C) /\ D' = D /\ C = stream[st]
      BY <1>5, <2>4 DEF C, D, Streams
    <3>3. Ordered(C, "recordStaged", s, passed["staged"][s], issued["staged"][s])
      BY <1>1 DEF RecordsInOrder
    <3>4. CASE s = o.slot
      <4>1. Ordered(Tail(C), "recordStaged", s, C[1].x, issued["staged"][s]) /\ C[1].x <= issued["staged"][s]
        BY <1>2, <2>1, <3>1, <3>2, <3>3, <3>4, PopOrdered
      <4>2. passed'["staged"][s] = C[1].x /\ passed'["done"][s] = passed["done"][s]
        BY <1>3, <1>6, <2>3, <3>1, <3>2, <3>4
      <4> QED
        BY <1>1, <2>3, <3>1, <3>2, <4>1, <4>2 DEF RecordsInOrder, Events
    <3>5. CASE s # o.slot
      <4>1. Ordered(Tail(C), "recordStaged", s, passed["staged"][s], issued["staged"][s])
        BY <1>2, <2>1, <3>2, <3>3, PopOrdered
      <4>2. passed'["staged"][s] = passed["staged"][s] /\ passed'["done"][s] = passed["done"][s]
        BY <1>6, <2>3, <3>5
      <4> QED
        BY <1>1, <2>3, <3>1, <3>2, <4>1, <4>2 DEF RecordsInOrder, Events
    <3> QED
      BY <3>4, <3>5
  <2>5. CASE st = "default"
    <3>1. D' = Tail(D) /\ C' = C /\ D = stream[st]
      BY <1>5, <2>5 DEF C, D, Streams
    <3>2. \A f \in Events : passed[f][s] <= issued[f][s]
      BY <1>1 DEF RecordsInOrder
    <3>3. /\ Ordered(C, "recordStaged", s, passed["staged"][s], issued["staged"][s])
          /\ Ordered(D, "recordDone", s, passed["done"][s], issued["done"][s])
          /\ mode.on = "default" => Ordered(D, "recordStaged", s, passed["staged"][s], issued["staged"][s])
      BY <1>1 DEF RecordsInOrder
    <3>4. /\ Ordered(Tail(D), "recordDone", s, passed["done"][s], issued["done"][s])
          /\ Is(D, 1, "recordDone", s) => /\ Ordered(Tail(D), "recordDone", s, D[1].x, issued["done"][s])
                                          /\ D[1].x <= issued["done"][s]
      BY <1>2, <2>1, <3>1, <3>3, PopOrdered
    <3>5. mode.on = "default" =>
            /\ Ordered(Tail(D), "recordStaged", s, passed["staged"][s], issued["staged"][s])
            /\ Is(D, 1, "recordStaged", s) =>
                 /\ Ordered(Tail(D), "recordStaged", s, D[1].x, issued["staged"][s])
                 /\ D[1].x <= issued["staged"][s]
      BY <1>2, <2>1, <3>1, <3>3, PopOrdered
    <3>6. CASE o.kind = "recordDone"
      <4>1. e = "done"
        BY <3>6 DEF e
      <4>2. passed'["staged"][s] = passed["staged"][s]
        BY <1>6, <2>3, <4>1
      <4>3. passed'["done"][s] = IF s = o.slot THEN D[1].x ELSE passed["done"][s]
        BY <1>3, <1>6, <2>3, <3>1, <4>1
      <4>4. s = o.slot => Is(D, 1, "recordDone", s)
        BY <2>1, <3>1, <3>6
      <4> QED
        BY <3>1, <3>2, <3>3, <3>4, <3>5, <4>2, <4>3, <4>4 DEF Events
    <3>7. CASE o.kind = "recordStaged"
      <4>1. e = "staged" /\ mode.on = "default"
        BY <1>1, <1>3, <2>5, <3>7 DEF e, KindsOn, UTypeOK, Streams
      <4>2. passed'["done"][s] = passed["done"][s]
        BY <1>6, <2>3, <4>1
      <4>3. passed'["staged"][s] = IF s = o.slot THEN D[1].x ELSE passed["staged"][s]
        BY <1>3, <1>6, <2>3, <3>1, <4>1
      <4>4. s = o.slot => Is(D, 1, "recordStaged", s)
        BY <2>1, <3>1, <3>7
      <4>5. \A i \in 1 .. Len(C) : ~Is(C, i, "recordStaged", s)
        BY <1>1, <4>1, QueueFacts DEF Is, KindsOn
      <4>6. Ordered(C, "recordStaged", s, passed'["staged"][s], issued["staged"][s])
        BY <4>5 DEF Ordered
      <4> QED
        BY <3>1, <3>2, <3>3, <3>4, <3>5, <4>1, <4>2, <4>3, <4>4, <4>6 DEF Events
    <3> QED
      BY <1>2, <3>6, <3>7
  <2> QED
    BY <2>4, <2>5 DEF Streams
<1> QED
  BY <1>5, <1>7, <1>8, <1>9 DEF Queued

\* A stream whose oldest operation ends without a record.
LEMMA PopRecordsInOrder ==
  ASSUME StreamOK, RecordsInOrder, NEW st \in Streams, stream[st] # <<>>,
         stream'[st] = Tail(stream[st]), \A t \in Streams : t # st => stream'[t] = stream[t],
         UNCHANGED <<mode, passed, issued>>
  PROVE  RecordsInOrder'
<1> SUFFICES ASSUME NEW s \in Slots
             PROVE  /\ \A f \in Events : passed[f][s] <= issued[f][s]
                    /\ Ordered(C', "recordStaged", s, passed["staged"][s], issued["staged"][s])
                    /\ Ordered(D', "recordDone", s, passed["done"][s], issued["done"][s])
                    /\ mode.on = "default" =>
                         Ordered(D', "recordStaged", s, passed["staged"][s], issued["staged"][s])
  BY DEF RecordsInOrder
<1>1. C \in Seq(Ops) /\ D \in Seq(Ops)
  BY QueueFacts
<1>2. C' = C \/ (C # <<>> /\ C' = Tail(C))
  BY DEF C, Streams
<1>3. D' = D \/ (D # <<>> /\ D' = Tail(D))
  BY DEF D, Streams
<1>4. /\ \A f \in Events : passed[f][s] <= issued[f][s]
      /\ Ordered(C, "recordStaged", s, passed["staged"][s], issued["staged"][s])
      /\ Ordered(D, "recordDone", s, passed["done"][s], issued["done"][s])
      /\ mode.on = "default" =>
           Ordered(D, "recordStaged", s, passed["staged"][s], issued["staged"][s])
  BY DEF RecordsInOrder
<1>5. Ordered(C', "recordStaged", s, passed["staged"][s], issued["staged"][s])
  BY <1>1, <1>2, <1>4, PopOrdered
<1>6. Ordered(D', "recordDone", s, passed["done"][s], issued["done"][s])
  BY <1>1, <1>3, <1>4, PopOrdered
<1>7. mode.on = "default" =>
        Ordered(D', "recordStaged", s, passed["staged"][s], issued["staged"][s])
  BY <1>1, <1>3, <1>4, PopOrdered
<1> QED
  BY <1>4, <1>5, <1>6, <1>7

LEMMA WaitOverQueued ==
  ASSUME Queued, NEW st \in Streams, WaitOver(st)
  PROVE  Queued'
<1>1. UTypeOK /\ StreamOK /\ RecordsInOrder /\ CallOK /\ BegunOK
  BY DEF Queued
<1>2. stream[st] # <<>> /\ Oldest(st).kind \in {"awaitStaged", "awaitDone"} /\ Ends(st)
      /\ UNCHANGED <<mode, loader, call, host, dev, begun, passed, issued>>
  BY DEF WaitOver, At, device
<1>3. StreamOK' /\ stream'[st] = Tail(stream[st]) /\ \A t \in Streams : t # st => stream'[t] = stream[t]
  BY <1>1, <1>2, PopStreamOK
<1>4. UTypeOK' /\ CallOK'
  BY <1>1, <1>2, DeviceFrame DEF UTypeOK
<1>5. BegunOK'
  <2>1. begun[st] = NoBlock
    BY <1>1, <1>2 DEF BegunOK, Kernelish
  <2> QED
    BY <1>1, <1>2, <1>3, <2>1 DEF BegunOK, Oldest
<1>6. RecordsInOrder'
  BY <1>1, <1>2, <1>3, PopRecordsInOrder
<1> QED
  BY <1>3, <1>4, <1>5, <1>6 DEF Queued

LEMMA BeginQueued ==
  ASSUME Queued, NEW st \in Streams, BeginOp(st)
  PROVE  Queued'
<1>1. UTypeOK /\ StreamOK /\ RecordsInOrder /\ CallOK /\ BegunOK
  BY DEF Queued
<1>2. stream[st] # <<>> /\ Oldest(st).kind \in Kernelish
      /\ UNCHANGED <<mode, loader, call, host, passed, stream, issued>>
  BY DEF BeginOp, At, Kernelish
<1>3. Oldest(st).x \in Blocks /\ Oldest(st).slot \in Slots
  BY <1>1, <1>2, HeadFacts DEF Carries
<1>4. \E v \in Blocks \cup {NoBlock} : /\ begun' = [begun EXCEPT ![st] = v]
                                       /\ mode.store => v = Oldest(st).x
  BY <1>1, <1>3 DEF BeginOp, Source, UTypeOK
<1>5. dev' \in [Slots -> Blocks \cup {NoBlock, Mixed}]
  BY <1>1, <1>3 DEF BeginOp, UTypeOK
<1>6. UTypeOK' /\ CallOK'
  BY <1>1, <1>2, <1>4, <1>5, DeviceFrame DEF UTypeOK
<1>7. StreamOK' /\ RecordsInOrder'
  BY <1>1, <1>2 DEF StreamOK, RecordsInOrder, KindsOn, C, D
<1>8. BegunOK'
  BY <1>1, <1>2, <1>4 DEF BegunOK, Oldest, UTypeOK
<1> QED
  BY <1>6, <1>7, <1>8 DEF Queued

LEMMA FinishQueued ==
  ASSUME Queued, NEW st \in Streams, FinishOp(st)
  PROVE  Queued'
<1>1. UTypeOK /\ StreamOK /\ RecordsInOrder /\ CallOK /\ BegunOK
  BY DEF Queued
<1>2. stream[st] # <<>> /\ Ends(st) /\ begun' = [begun EXCEPT ![st] = NoBlock]
      /\ UNCHANGED <<mode, loader, call, host, passed, issued>>
  BY DEF FinishOp, At
<1>3. StreamOK' /\ stream'[st] = Tail(stream[st]) /\ \A t \in Streams : t # st => stream'[t] = stream[t]
  BY <1>1, <1>2, PopStreamOK
<1>4. begun' \in [Streams -> Blocks \cup {NoBlock}] /\ dev' \in [Slots -> Blocks \cup {NoBlock, Mixed}]
  BY <1>1, <1>2 DEF FinishOp, UTypeOK
<1>5. UTypeOK' /\ CallOK'
  BY <1>1, <1>2, <1>4, DeviceFrame DEF UTypeOK
<1>6. BegunOK'
  BY <1>1, <1>2, <1>3 DEF BegunOK, Oldest, UTypeOK
<1>7. RecordsInOrder'
  BY <1>1, <1>2, <1>3, PopRecordsInOrder
<1> QED
  BY <1>3, <1>5, <1>6, <1>7 DEF Queued

----------------------------------------------------------------------------
(* What a step of the device does to what the queues achieve.              *)

\* No record that is still to come satisfies the wait at the head of the copy stream.
HeadFree(q, d, s) ==
  \/ q[1].kind # "awaitDone"
  \/ \A m \in 1 .. Len(d) : Is(d, m, "recordDone", s) => q[1].slot # s \/ ~(d[m].x <= q[1].x)

\* A record or a wait of the copy stream is over.
LEMMA PopCopyStream ==
  ASSUME UTypeOK, StreamOK, TwoStreams, C # <<>>, C[1].kind # "copy",
         C' = Tail(C), D' = D, UNCHANGED <<loader, call, dev, issued>>,
         \A s \in Slots : HeadFree(C, D, s)
  PROVE  TwoStreams'
<1>0. C \in Seq(Ops) /\ D \in Seq(Ops) /\ Len(D) \in Nat
  BY QueueFacts
<1>1. ReuseIsFenced'
  <2> SUFFICES ASSUME NEW s \in Slots, ~Unmarked(s), NEW i \in 1 .. Len(D), Is(D, i, "kernel", s)
               PROVE  Reusable(Tail(C), D, s, recorded[s], i)
    BY DEF ReuseIsFenced, Unmarked, loader
  <2>1. Reusable(C, D, s, recorded[s], i) /\ recorded[s] \in BOOLEAN /\ i \in Nat
    BY DEF TwoStreams, ReuseIsFenced, UTypeOK
  <2> QED
    BY <1>0, <2>1, PopCReusable DEF HeadFree
<1>2. SlotIsFilled'
  <2> SUFFICES ASSUME NEW s \in Slots, slot[s] # NoBlock
               PROVE  Filled(Tail(C), s, slot[s], dev[s], issued["staged"][s])
    BY DEF SlotIsFilled, loader
  <2>1. Filled(C, s, slot[s], dev[s], issued["staged"][s])
    BY DEF TwoStreams, SlotIsFilled
  <2> QED
    BY <1>0, <2>1, PopCFilled
<1>3. ViewIsFenced'
  BY <1>0, PopCViewed DEF TwoStreams, ViewIsFenced, loader
<1>4. KernelsAreServed'
  <2> SUFFICES ASSUME NEW i \in 1 .. Len(D), D[i].kind = "kernel"
               PROVE  Served(Tail(C), D, D[i].slot, D[i].x, dev[D[i].slot], i)
    BY DEF KernelsAreServed
  <2>1. Served(C, D, D[i].slot, D[i].x, dev[D[i].slot], i) /\ i \in Nat /\ D[i].slot \in Slots
    BY <1>0, QueueFacts DEF TwoStreams, KernelsAreServed
  <2> QED
    BY <1>0, <2>1, PopCServed DEF HeadFree
<1> QED
  BY <1>1, <1>2, <1>3, <1>4 DEF TwoStreams

\* A copy begins on the copy stream: its slab is overwritten.
LEMMA BeginCopyStream ==
  ASSUME UTypeOK, StreamOK, TwoStreams, C # <<>>, C[1].kind = "copy",
         C' = C, D' = D, UNCHANGED <<loader, call, issued>>,
         \A s \in Slots : s # C[1].slot => dev'[s] = dev[s]
  PROVE  TwoStreams'
<1>0. C \in Seq(Ops) /\ D \in Seq(Ops) /\ Len(D) \in Nat /\ Is(C, 1, "copy", C[1].slot)
  BY QueueFacts, Popped DEF Is
<1>1. ReuseIsFenced'
  BY DEF TwoStreams, ReuseIsFenced, Unmarked, loader
<1>2. SlotIsFilled'
  <2> SUFFICES ASSUME NEW s \in Slots, slot[s] # NoBlock
               PROVE  Filled(C, s, slot[s], dev'[s], issued["staged"][s])
    BY DEF SlotIsFilled, loader
  <2>1. Filled(C, s, slot[s], dev[s], issued["staged"][s])
    BY DEF TwoStreams, SlotIsFilled
  <2>2. s = C[1].slot => Is(C, 1, "copy", s)
    BY <1>0
  <2> QED
    BY <1>0, <2>1, <2>2, BeginFilled
<1>3. ViewIsFenced'
  BY DEF TwoStreams, ViewIsFenced, loader
<1>4. KernelsAreServed'
  <2> SUFFICES ASSUME NEW i \in 1 .. Len(D), D[i].kind = "kernel"
               PROVE  Served(C, D, D[i].slot, D[i].x, dev'[D[i].slot], i)
    BY DEF KernelsAreServed
  <2>1. Served(C, D, D[i].slot, D[i].x, dev[D[i].slot], i) /\ D[i].slot \in Slots
    BY <1>0, QueueFacts DEF TwoStreams, KernelsAreServed
  <2>2. D[i].slot = C[1].slot => Is(C, 1, "copy", D[i].slot)
    BY <1>0
  <2> QED
    BY <1>0, <2>1, <2>2, BeginServed
<1> QED
  BY <1>1, <1>2, <1>3, <1>4 DEF TwoStreams

\* A copy ends on the copy stream: its slab holds the block.
LEMMA FinishCopyStream ==
  ASSUME UTypeOK, StreamOK, TwoStreams, C # <<>>, C[1].kind = "copy",
         C' = Tail(C), D' = D, UNCHANGED <<loader, call, issued>>,
         \A s \in Slots : dev'[s] = IF C[1].slot = s THEN C[1].x ELSE dev[s]
  PROVE  TwoStreams'
<1>0. C \in Seq(Ops) /\ D \in Seq(Ops) /\ Len(D) \in Nat
  BY QueueFacts
<1>1. ReuseIsFenced'
  <2> SUFFICES ASSUME NEW s \in Slots, ~Unmarked(s), NEW i \in 1 .. Len(D), Is(D, i, "kernel", s)
               PROVE  Reusable(Tail(C), D, s, recorded[s], i)
    BY DEF ReuseIsFenced, Unmarked, loader
  <2>1. Reusable(C, D, s, recorded[s], i) /\ recorded[s] \in BOOLEAN /\ i \in Nat
    BY DEF TwoStreams, ReuseIsFenced, UTypeOK
  <2> QED
    BY <1>0, <2>1, PopCReusable
<1>2. SlotIsFilled'
  <2> SUFFICES ASSUME NEW s \in Slots, slot[s] # NoBlock
               PROVE  Filled(Tail(C), s, slot[s], IF C[1].slot = s THEN C[1].x ELSE dev[s],
                             issued["staged"][s])
    BY DEF SlotIsFilled, loader
  <2>1. Filled(C, s, slot[s], dev[s], issued["staged"][s])
    BY DEF TwoStreams, SlotIsFilled
  <2> QED
    BY <1>0, <2>1, FinishFilled
<1>3. ViewIsFenced'
  BY <1>0, PopCViewed DEF TwoStreams, ViewIsFenced, loader
<1>4. KernelsAreServed'
  <2> SUFFICES ASSUME NEW i \in 1 .. Len(D), D[i].kind = "kernel"
               PROVE  Served(Tail(C), D, D[i].slot, D[i].x, dev'[D[i].slot], i)
    BY DEF KernelsAreServed
  <2>1. Served(C, D, D[i].slot, D[i].x, dev[D[i].slot], i) /\ i \in Nat /\ D[i].slot \in Slots
    BY <1>0, QueueFacts DEF TwoStreams, KernelsAreServed
  <2>2. Served(Tail(C), D, D[i].slot, D[i].x, IF C[1].slot = D[i].slot THEN C[1].x ELSE dev[D[i].slot], i)
    BY <1>0, <2>1, FinishServed
  <2> QED
    BY <2>1, <2>2
<1> QED
  BY <1>1, <1>2, <1>3, <1>4 DEF TwoStreams

\* Something other than a copy ends on the default stream. If it is a wait for a copy,
\* the copy is over.
LEMMA PopDefaultStream ==
  ASSUME UTypeOK, StreamOK, RecordsInOrder, CallOK, TwoStreams, D # <<>>,
         C' = C, D' = Tail(D), UNCHANGED <<loader, call, dev, issued>>,
         D[1].kind = "awaitStaged" => D[1].x <= passed["staged"][D[1].slot]
  PROVE  TwoStreams'
<1>0. /\ C \in Seq(Ops) /\ D \in Seq(Ops) /\ Len(D) \in Nat /\ Len(Tail(D)) \in Nat
      /\ \A i \in 1 .. Len(Tail(D)) : /\ i \in Nat /\ i + 1 \in 1 .. Len(D)
                                      /\ Tail(D)[i] = D[i + 1]
  BY QueueFacts, Popped
<1>a. ASSUME NEW s \in Slots, Is(D, 1, "awaitStaged", s), NEW j \in 1 .. Len(C),
             Is(C, j, "recordStaged", s)
      PROVE  C[j].x # D[1].x
  <2>1. passed["staged"][s] < C[j].x
    BY <1>a DEF RecordsInOrder, Ordered
  <2>2. D[1].x <= passed["staged"][s]
    BY <1>a DEF Is
  <2>3. passed["staged"][s] \in Nat
    BY DEF UTypeOK, Events
  <2>4. C[j].x \in Nat
    BY <1>a, QueueFacts DEF Carries, Is, Kernelish
  <2> QED
    BY <2>1, <2>2, <2>3, <2>4
<1>1. ReuseIsFenced'
  <2> SUFFICES ASSUME NEW s \in Slots, ~Unmarked(s), NEW i \in 1 .. Len(Tail(D)),
                      Is(Tail(D), i, "kernel", s)
               PROVE  Reusable(C, Tail(D), s, recorded[s], i)
    BY DEF ReuseIsFenced, Unmarked, loader
  <2>1. i + 1 \in 1 .. Len(D) /\ Is(D, i + 1, "kernel", s) /\ i \in Nat
    BY <1>0, PoppedIs
  <2>2. Reusable(C, D, s, recorded[s], i + 1)
    BY <2>1 DEF TwoStreams, ReuseIsFenced
  <2> QED
    BY <1>0, <2>1, <2>2, PopDReusable
<1>2. SlotIsFilled'
  BY DEF TwoStreams, SlotIsFilled, loader
<1>3. ViewIsFenced'
  <2> SUFFICES ASSUME call.at = "held"
               PROVE  Viewed(C, Tail(D), active, issued["staged"][active])
    BY DEF ViewIsFenced, loader
  <2>1. Viewed(C, D, active, issued["staged"][active]) /\ active \in Slots
    BY DEF TwoStreams, ViewIsFenced, UTypeOK
  <2>2. slot[active] # NoBlock
    BY TurboAssumption DEF CallOK
  <2>3. Filled(C, active, slot[active], dev[active], issued["staged"][active])
    BY <2>1, <2>2 DEF TwoStreams, SlotIsFilled
  <2>4. ~Is(D, 1, "awaitStaged", active) \/ D[1].x # issued["staged"][active] \/ NoCopyFrom(C, active, 1)
    BY <1>a, <2>1, <2>3 DEF Filled, Fills
  <2> QED
    BY <1>0, <2>1, <2>4, PopDViewed
<1>4. KernelsAreServed'
  <2> SUFFICES ASSUME NEW i \in 1 .. Len(Tail(D)), D[i + 1].kind = "kernel"
               PROVE  Served(C, Tail(D), D[i + 1].slot, D[i + 1].x, dev[D[i + 1].slot], i)
    BY <1>0 DEF KernelsAreServed
  <2>1. i \in Nat /\ i + 1 \in 1 .. Len(D)
    BY <1>0
  <2>2. D[i + 1].slot \in Slots
    BY <2>1, QueueFacts
  <2>3. Served(C, D, D[i + 1].slot, D[i + 1].x, dev[D[i + 1].slot], i + 1)
    BY <2>1 DEF TwoStreams, KernelsAreServed
  <2>4. \/ ~Is(D, 1, "awaitStaged", D[i + 1].slot)
        \/ \A j \in 1 .. Len(C) : Fills(C, D[i + 1].slot, D[i + 1].x, j) => C[j].x # D[1].x
    BY <1>a, <2>2 DEF Fills
  <2> QED
    BY <1>0, <2>1, <2>3, <2>4, PopDServed
<1> QED
  BY <1>1, <1>2, <1>3, <1>4 DEF TwoStreams

\* With one stream: something other than a copy ends.
LEMMA PopOneStream ==
  ASSUME StreamOK, OneStream, D # <<>>, D[1].kind # "copy",
         D' = Tail(D), UNCHANGED <<loader, dev>>
  PROVE  OneStream'
<1>0. /\ D \in Seq(Ops) /\ Len(D) \in Nat /\ Len(Tail(D)) \in Nat /\ Len(Tail(D)) + 1 = Len(D)
      /\ \A i \in 1 .. Len(Tail(D)) : /\ i \in Nat /\ i + 1 \in 1 .. Len(D)
                                      /\ Tail(D)[i] = D[i + 1]
  BY QueueFacts, Popped
<1>1. ASSUME NEW i \in 1 .. Len(Tail(D)), D[i + 1].kind = "kernel"
      PROVE  Last(Tail(D), D[i + 1].slot, D[i + 1].x, dev[D[i + 1].slot], i)
  <2>1. Last(D, D[i + 1].slot, D[i + 1].x, dev[D[i + 1].slot], i + 1) /\ i \in Nat
    BY <1>0, <1>1 DEF OneStream
  <2> QED
    BY <1>0, <2>1, PopLast
<1>2. ASSUME NEW s \in Slots, slot[s] # NoBlock
      PROVE  Last(Tail(D), s, slot[s], dev[s], Len(Tail(D)) + 1)
  <2>1. Last(D, s, slot[s], dev[s], (Len(Tail(D)) + 1) + 1) /\ Len(Tail(D)) + 1 \in Nat
    BY <1>0, <1>2 DEF OneStream
  <2> QED
    BY <1>0, <2>1, PopLast
<1> QED
  BY <1>0, <1>1, <1>2 DEF OneStream, loader

LEMMA BeginOneStream ==
  ASSUME StreamOK, OneStream, D # <<>>, D[1].kind = "copy",
         D' = D, UNCHANGED loader, \A s \in Slots : s # D[1].slot => dev'[s] = dev[s]
  PROVE  OneStream'
<1>0. D \in Seq(Ops) /\ Len(D) \in Nat \ {0} /\ Is(D, 1, "copy", D[1].slot)
  BY QueueFacts, Popped DEF Is
<1>1. ASSUME NEW i \in 1 .. Len(D), D[i].kind = "kernel"
      PROVE  Last(D, D[i].slot, D[i].x, dev'[D[i].slot], i)
  <2>1. Last(D, D[i].slot, D[i].x, dev[D[i].slot], i) /\ i \in Nat /\ D[i].slot \in Slots
    BY <1>0, <1>1, QueueFacts DEF OneStream
  <2>2. i > 1
    BY <1>0, <1>1
  <2>3. D[i].slot = D[1].slot => Is(D, 1, "copy", D[i].slot)
    BY <1>0
  <2> QED
    BY <2>1, <2>2, <2>3, BeginLast
<1>2. ASSUME NEW s \in Slots, slot[s] # NoBlock
      PROVE  Last(D, s, slot[s], dev'[s], Len(D) + 1)
  <2>1. Last(D, s, slot[s], dev[s], Len(D) + 1) /\ Len(D) + 1 \in Nat /\ Len(D) + 1 > 1
    BY <1>0, <1>2 DEF OneStream
  <2>2. s = D[1].slot => Is(D, 1, "copy", s)
    BY <1>0
  <2> QED
    BY <2>1, <2>2, BeginLast
<1> QED
  BY <1>1, <1>2 DEF OneStream, loader

LEMMA FinishOneStream ==
  ASSUME StreamOK, OneStream, D # <<>>, D[1].kind = "copy",
         D' = Tail(D), UNCHANGED loader,
         \A s \in Slots : dev'[s] = IF D[1].slot = s THEN D[1].x ELSE dev[s]
  PROVE  OneStream'
<1>0. /\ D \in Seq(Ops) /\ Len(D) \in Nat /\ Len(Tail(D)) \in Nat /\ Len(Tail(D)) + 1 = Len(D)
      /\ \A i \in 1 .. Len(Tail(D)) : /\ i \in Nat /\ i > 0 /\ i + 1 \in 1 .. Len(D)
                                      /\ Tail(D)[i] = D[i + 1]
  BY QueueFacts, Popped
<1>1. ASSUME NEW i \in 1 .. Len(Tail(D)), D[i + 1].kind = "kernel"
      PROVE  Last(Tail(D), D[i + 1].slot, D[i + 1].x, dev'[D[i + 1].slot], i)
  <2>1. Last(D, D[i + 1].slot, D[i + 1].x, dev[D[i + 1].slot], i + 1) /\ i \in Nat /\ i > 0
        /\ D[i + 1].slot \in Slots
    BY <1>0, <1>1, QueueFacts DEF OneStream
  <2>2. Last(Tail(D), D[i + 1].slot, D[i + 1].x,
             IF D[1].slot = D[i + 1].slot THEN D[1].x ELSE dev[D[i + 1].slot], i)
    BY <1>0, <2>1, FinishLast
  <2> QED
    BY <2>1, <2>2
<1>2. ASSUME NEW s \in Slots, slot[s] # NoBlock
      PROVE  Last(Tail(D), s, slot[s], dev'[s], Len(Tail(D)) + 1)
  <2>1. Last(D, s, slot[s], dev[s], (Len(Tail(D)) + 1) + 1) /\ Len(Tail(D)) + 1 \in Nat
        /\ Len(Tail(D)) + 1 > 0
    BY <1>0, <1>2 DEF OneStream
  <2>2. Last(Tail(D), s, slot[s], IF D[1].slot = s THEN D[1].x ELSE dev[s], Len(Tail(D)) + 1)
    BY <1>0, <2>1, FinishLast
  <2> QED
    BY <2>2
<1> QED
  BY <1>0, <1>1, <1>2 DEF OneStream, loader

\* An operation that is not a copy ends; a wait was satisfied.
LEMMA PopAchieved ==
  ASSUME Queued, Achieved, NEW st \in Streams, stream[st] # <<>>, Oldest(st).kind # "copy",
         stream'[st] = Tail(stream[st]), \A t \in Streams : t # st => stream'[t] = stream[t],
         UNCHANGED <<mode, loader, call, dev, issued>>,
         Oldest(st).kind = "awaitDone" => Oldest(st).x <= passed["done"][Oldest(st).slot],
         Oldest(st).kind = "awaitStaged" => Oldest(st).x <= passed["staged"][Oldest(st).slot]
  PROVE  Achieved'
<1>1. UTypeOK /\ StreamOK /\ RecordsInOrder /\ CallOK
  BY DEF Queued
<1>2. SUFFICES ASSUME mode.store
               PROVE  IF mode.on = "copy" THEN TwoStreams' ELSE OneStream'
  BY DEF Achieved
<1>3. Oldest(st) = stream[st][1] /\ Oldest(st).kind \in KindsOn(st) /\ Carries(Oldest(st))
      /\ Oldest(st).slot \in Slots
  BY <1>1, HeadFacts
<1>4. CASE st = "copy"
  <2>1. C = stream[st] /\ C' = Tail(C) /\ D' = D
    BY <1>4 DEF C, D, Streams
  <2>2. CASE mode.on = "copy"
    <3>1. TwoStreams
      BY <1>2, <2>2 DEF Achieved
    <3>2. ASSUME NEW s \in Slots
          PROVE  HeadFree(C, D, s)
      <4> SUFFICES ASSUME C[1].kind = "awaitDone", C[1].slot = s,
                          NEW m \in 1 .. Len(D), Is(D, m, "recordDone", s)
                   PROVE  ~(D[m].x <= C[1].x)
        BY DEF HeadFree
      <4>1. passed["done"][s] < D[m].x
        BY <1>1 DEF RecordsInOrder, Ordered
      <4>2. C[1].x <= passed["done"][s]
        BY <1>3, <2>1
      <4>3. passed["done"][s] \in Nat
        BY <1>1 DEF UTypeOK, Events
      <4>4. C[1].x \in Nat
        BY <1>3, <2>1 DEF Carries, Kernelish
      <4>5. D[m].x \in Nat
        BY <1>1, QueueFacts DEF Carries, Kernelish, Is
      <4> QED
        BY <4>1, <4>2, <4>3, <4>4, <4>5
    <3> QED
      BY <1>1, <1>3, <2>1, <2>2, <3>1, <3>2, PopCopyStream
  <2>3. CASE mode.on # "copy"
    BY <1>2, <2>1, <2>3 DEF Achieved, OneStream, loader
  <2> QED
    BY <2>2, <2>3
<1>5. CASE st = "default"
  <2>1. D = stream[st] /\ D' = Tail(D) /\ C' = C
    BY <1>5 DEF C, D, Streams
  <2>2. D # <<>> /\ D[1] = Oldest(st)
    BY <1>3, <2>1
  <2>3. CASE mode.on = "copy"
    <3>1. TwoStreams
      BY <1>2, <2>3 DEF Achieved
    <3> QED
      BY <1>1, <2>1, <2>2, <2>3, <3>1, PopDefaultStream
  <2>4. CASE mode.on # "copy"
    <3>1. OneStream
      BY <1>2, <2>4 DEF Achieved
    <3> QED
      BY <1>1, <2>1, <2>2, <2>4, <3>1, PopOneStream
  <2> QED
    BY <2>3, <2>4
<1> QED
  BY <1>4, <1>5 DEF Streams

LEMMA RecordAchieved ==
  ASSUME Queued, Achieved, NEW st \in Streams, Record(st)
  PROVE  Achieved'
<1>1. StreamOK
  BY DEF Queued
<1>2. stream[st] # <<>> /\ Oldest(st).kind \in {"recordStaged", "recordDone"} /\ Ends(st)
      /\ UNCHANGED <<mode, loader, call, dev, issued>>
  BY DEF Record, At
<1>3. stream'[st] = Tail(stream[st]) /\ \A t \in Streams : t # st => stream'[t] = stream[t]
  BY <1>1, <1>2, PopStreamOK
<1> QED
  BY <1>2, <1>3, PopAchieved

LEMMA WaitOverAchieved ==
  ASSUME Queued, Achieved, NEW st \in Streams, WaitOver(st)
  PROVE  Achieved'
<1>1. UTypeOK /\ StreamOK
  BY DEF Queued
<1>2. stream[st] # <<>> /\ Oldest(st).kind \in {"awaitStaged", "awaitDone"} /\ Ends(st)
      /\ UNCHANGED <<mode, loader, call, dev, issued>>
  BY DEF WaitOver, At, device
<1>3. stream'[st] = Tail(stream[st]) /\ \A t \in Streams : t # st => stream'[t] = stream[t]
  BY <1>1, <1>2, PopStreamOK
<1>4. Oldest(st).x \in Nat /\ Oldest(st).slot \in Slots
  BY <1>1, <1>2, HeadFacts DEF Carries, Kernelish
<1>5. \A e \in Events : passed[e][Oldest(st).slot] \in Nat
  BY <1>1, <1>4 DEF UTypeOK
<1>6. /\ Oldest(st).kind = "awaitDone" => passed["done"][Oldest(st).slot] >= Oldest(st).x
      /\ Oldest(st).kind = "awaitStaged" => passed["staged"][Oldest(st).slot] >= Oldest(st).x
  BY DEF WaitOver
<1>7. /\ Oldest(st).kind = "awaitDone" => Oldest(st).x <= passed["done"][Oldest(st).slot]
      /\ Oldest(st).kind = "awaitStaged" => Oldest(st).x <= passed["staged"][Oldest(st).slot]
  BY <1>4, <1>5, <1>6 DEF Events
<1> QED
  BY <1>2, <1>3, <1>7, PopAchieved

LEMMA BeginAchieved ==
  ASSUME Queued, Achieved, NEW st \in Streams, BeginOp(st)
  PROVE  Achieved'
<1>1. UTypeOK /\ StreamOK
  BY DEF Queued
<1>2. stream[st] # <<>> /\ UNCHANGED <<mode, loader, call, stream, issued>>
  BY DEF BeginOp, At
<1>3. SUFFICES ASSUME mode.store
               PROVE  IF mode.on = "copy" THEN TwoStreams' ELSE OneStream'
  BY <1>2 DEF Achieved
<1>4. Oldest(st) = stream[st][1] /\ Oldest(st).kind \in KindsOn(st) /\ Oldest(st).slot \in Slots
  BY <1>1, <1>2, HeadFacts
<1>5. C' = C /\ D' = D
  BY <1>2 DEF C, D
<1>6. CASE Oldest(st).kind = "copy"
  <2>1. \A s \in Slots : s # Oldest(st).slot => dev'[s] = dev[s]
    BY <1>1, <1>6 DEF BeginOp, UTypeOK
  <2>2. CASE mode.on = "copy"
    <3>1. st = "copy"
      BY <1>4, <1>6, <2>2 DEF KindsOn, Streams
    <3>2. C # <<>> /\ C[1] = Oldest(st)
      BY <1>2, <1>4, <3>1 DEF C
    <3>3. TwoStreams
      BY <1>3, <2>2 DEF Achieved
    <3>4. TwoStreams'
      BY <1>1, <1>2, <1>5, <1>6, <2>1, <3>2, <3>3, BeginCopyStream
    <3> QED
      BY <2>2, <3>4
  <2>3. CASE mode.on # "copy"
    <3>1. st = "default"
      BY <1>4, <1>6, <2>3 DEF KindsOn, Streams
    <3>2. D # <<>> /\ D[1] = Oldest(st)
      BY <1>2, <1>4, <3>1 DEF D
    <3>3. OneStream
      BY <1>3, <2>3 DEF Achieved
    <3>4. OneStream'
      BY <1>1, <1>2, <1>5, <1>6, <2>1, <3>2, <3>3, BeginOneStream
    <3> QED
      BY <2>3, <3>4
  <2> QED
    BY <2>2, <2>3
<1>7. CASE Oldest(st).kind # "copy"
  <2>1. dev' = dev
    BY <1>7 DEF BeginOp
  <2> QED
    BY <1>2, <1>3, <1>5, <2>1
       DEF Achieved, TwoStreams, OneStream, ReuseIsFenced, SlotIsFilled, ViewIsFenced,
           KernelsAreServed, Unmarked, loader
<1> QED
  BY <1>6, <1>7

LEMMA FinishAchieved ==
  ASSUME Queued, Achieved, NEW st \in Streams, FinishOp(st)
  PROVE  Achieved'
<1>1. UTypeOK /\ StreamOK /\ BegunOK
  BY DEF Queued
<1>2. stream[st] # <<>> /\ Ends(st) /\ Oldest(st).kind \in Kernelish /\ begun[st] # NoBlock
      /\ UNCHANGED <<mode, loader, call, issued>>
  BY DEF FinishOp, At, Kernelish
<1>3. stream'[st] = Tail(stream[st]) /\ \A t \in Streams : t # st => stream'[t] = stream[t]
  BY <1>1, <1>2, PopStreamOK
<1>4. Oldest(st) = stream[st][1] /\ Oldest(st).kind \in KindsOn(st) /\ Oldest(st).slot \in Slots
  BY <1>1, <1>2, HeadFacts
<1>5. CASE Oldest(st).kind = "copy"
  <2>1. SUFFICES ASSUME mode.store
                 PROVE  IF mode.on = "copy" THEN TwoStreams' ELSE OneStream'
    BY <1>2 DEF Achieved
  <2>2. begun[st] = Oldest(st).x /\ Source(Oldest(st)) = Oldest(st).x
    BY <1>1, <1>2, <2>1 DEF BegunOK, Source
  <2>3. dev' = [dev EXCEPT ![Oldest(st).slot] = Oldest(st).x]
    BY <1>5, <2>2 DEF FinishOp
  <2>4. \A s \in Slots : dev'[s] = IF Oldest(st).slot = s THEN Oldest(st).x ELSE dev[s]
    BY <1>1, <1>4, <2>3 DEF UTypeOK
  <2>5. CASE mode.on = "copy"
    <3>1. st = "copy"
      BY <1>4, <1>5, <2>5 DEF KindsOn, Streams
    <3>2. C # <<>> /\ C[1] = Oldest(st) /\ C' = Tail(C) /\ D' = D
      BY <1>2, <1>3, <1>4, <3>1 DEF C, D, Streams
    <3>3. TwoStreams
      BY <2>1, <2>5 DEF Achieved
    <3>4. TwoStreams'
      BY <1>1, <1>2, <1>5, <2>4, <3>2, <3>3, FinishCopyStream
    <3> QED
      BY <2>5, <3>4
  <2>6. CASE mode.on # "copy"
    <3>1. st = "default"
      BY <1>4, <1>5, <2>6 DEF KindsOn, Streams
    <3>2. D # <<>> /\ D[1] = Oldest(st) /\ D' = Tail(D)
      BY <1>2, <1>3, <1>4, <3>1 DEF D
    <3>3. OneStream
      BY <2>1, <2>6 DEF Achieved
    <3>4. OneStream'
      BY <1>1, <1>2, <1>5, <2>4, <3>2, <3>3, FinishOneStream
    <3> QED
      BY <2>6, <3>4
  <2> QED
    BY <2>5, <2>6
<1>6. CASE Oldest(st).kind # "copy"
  <2>1. dev' = dev
    BY <1>6 DEF FinishOp
  <2>2. Oldest(st).kind \notin {"awaitDone", "awaitStaged"}
    BY <1>2 DEF Kernelish
  <2> QED
    BY <1>2, <1>3, <1>6, <2>1, <2>2, PopAchieved
<1> QED
  BY <1>5, <1>6

----------------------------------------------------------------------------
(* The host: a block is staged.                                            *)

LEMMA PushCarries ==
  ASSUME NEW q \in Seq(Ops), NEW p \in Seq(Ops), NEW K,
         \A i \in 1 .. Len(q) : Carries(q[i]) /\ q[i].kind \in K,
         \A i \in 1 .. Len(p) : Carries(p[i]) /\ p[i].kind \in K
  PROVE  \A i \in 1 .. Len(q \o p) : Carries((q \o p)[i]) /\ (q \o p)[i].kind \in K
<1> SUFFICES ASSUME NEW i \in 1 .. Len(q \o p)
             PROVE  Carries((q \o p)[i]) /\ (q \o p)[i].kind \in K
  OBVIOUS
<1>1. i \in 1 .. Len(q) + Len(p) /\ i \in Nat /\ Len(q) \in Nat
  BY Pushed
<1>2. CASE i \in 1 .. Len(q)
  <2>1. (q \o p)[i] = q[i]
    BY <1>2, Pushed
  <2> QED
    BY <1>2, <2>1
<1>3. CASE i - Len(q) \in 1 .. Len(p)
  <2>1. (q \o p)[Len(q) + (i - Len(q))] = p[i - Len(q)] /\ Len(q) + (i - Len(q)) = i
    BY <1>1, <1>3, Pushed
  <2> QED
    BY <1>3, <2>1
<1> QED
  BY <1>1, <1>2, <1>3, Pushed

\* The caller is where it was, or goes on to look for its block.
CallStep == call' = call \/ (call.at = "dispatch" /\ call' = [call EXCEPT !.at = "fence"])

LEMMA StageFacts ==
  ASSUME Queued, NEW b \in Blocks, Stage(b), ~Staged(b), mode' = mode, active' = active
  PROVE  /\ IdleSlot \in Slots /\ active \in Slots /\ IdleSlot # active
         /\ slot' = [slot EXCEPT ![IdleSlot] = b] /\ slot' \in [Slots -> Blocks \cup {NoBlock}]
         /\ recorded' = [recorded EXCEPT ![IdleSlot] = FALSE] /\ recorded' \in [Slots -> BOOLEAN]
         /\ recorded[IdleSlot] \in BOOLEAN
         /\ host' \in [Slots -> Blocks \cup {NoBlock}]
         /\ issued["done"][IdleSlot] \in Nat /\ issued["staged"][IdleSlot] + 1 \in Nat
         /\ issued' \in [Events -> [Slots -> Nat]] /\ issued'["done"] = issued["done"]
         /\ issued'["staged"][IdleSlot] = issued["staged"][IdleSlot] + 1
         /\ \A t \in Slots : t # IdleSlot => issued'["staged"][t] = issued["staged"][t]
<1>1. UTypeOK
  BY DEF Queued
<1>2. IdleSlot \in Slots /\ active \in Slots /\ IdleSlot # active
  BY <1>1 DEF UTypeOK, IdleSlot, Slots
<1>3. /\ slot' = [slot EXCEPT ![IdleSlot] = b] /\ recorded' = [recorded EXCEPT ![IdleSlot] = FALSE]
      /\ host' = (IF mode.store THEN host ELSE [host EXCEPT ![IdleSlot] = b])
      /\ issued' = [issued EXCEPT !["staged"][IdleSlot] = @ + 1]
  BY DEF Stage, Issue
<1> HIDE DEF IdleSlot
<1>4. /\ slot' \in [Slots -> Blocks \cup {NoBlock}] /\ recorded' \in [Slots -> BOOLEAN]
      /\ host' \in [Slots -> Blocks \cup {NoBlock}] /\ recorded[IdleSlot] \in BOOLEAN
  BY <1>1, <1>2, <1>3 DEF UTypeOK
<1>5. /\ issued["done"][IdleSlot] \in Nat /\ issued["staged"][IdleSlot] + 1 \in Nat
      /\ issued' \in [Events -> [Slots -> Nat]] /\ issued'["done"] = issued["done"]
      /\ issued'["staged"][IdleSlot] = issued["staged"][IdleSlot] + 1
      /\ \A t \in Slots : t # IdleSlot => issued'["staged"][t] = issued["staged"][t]
  BY <1>1, <1>2, <1>3 DEF UTypeOK, Events
<1> QED
  BY <1>2, <1>3, <1>4, <1>5

\* The operations that staging queues, in the two modes.
Waits == WaitOps(IdleSlot, recorded[IdleSlot], issued["done"][IdleSlot])
Copies(b) == CopyOps(IdleSlot, b, issued["staged"][IdleSlot] + 1)

LEMMA StageQueues ==
  ASSUME Queued, NEW b \in Blocks, Stage(b), ~Staged(b), mode' = mode, active' = active
  PROVE  /\ StreamOK'
         /\ Waits \in Seq(Ops) /\ Copies(b) \in Seq(Ops)
         /\ Stages(Waits \o Copies(b), IdleSlot, b, issued["done"][IdleSlot],
                   issued["staged"][IdleSlot] + 1, recorded[IdleSlot])
         /\ mode.on = "copy" => C' = C \o (Waits \o Copies(b)) /\ D' = D
         /\ mode.on # "copy" => C' = C \o Waits /\ D' = D \o Copies(b)
<1> DEFINE w == Waits
           c == Copies(b)
<1>1. UTypeOK /\ StreamOK
  BY DEF Queued
<1>3. IdleSlot \in Slots /\ issued["done"][IdleSlot] \in Nat /\ issued["staged"][IdleSlot] + 1 \in Nat
      /\ recorded[IdleSlot] \in BOOLEAN
  BY StageFacts
<1>2. /\ w \in Seq(Ops) /\ c \in Seq(Ops)
      /\ Stages(w \o c, IdleSlot, b, issued["done"][IdleSlot],
                   issued["staged"][IdleSlot] + 1, recorded[IdleSlot])
  BY <1>3, StagedOps DEF Waits, Copies
<1>4. \A i \in 1 .. Len(w) : Carries(w[i]) /\ w[i].kind = "awaitDone"
  BY <1>3 DEF Waits, WaitOps, Carries, Op, Kernelish
<1>5. \A i \in 1 .. Len(c) : Carries(c[i]) /\ c[i].kind \in {"copy", "recordStaged"}
  <2>1. Len(c) = 2 /\ c[1] = Op("copy", IdleSlot, b)
        /\ c[2] = Op("recordStaged", IdleSlot, issued["staged"][IdleSlot] + 1)
    BY DEF Copies, CopyOps
  <2>2. Carries(Op("copy", IdleSlot, b))
        /\ Carries(Op("recordStaged", IdleSlot, issued["staged"][IdleSlot] + 1))
    BY <1>3 DEF Carries, Op, Kernelish
  <2>3. \A i \in 1 .. Len(c) : i = 1 \/ i = 2
    BY <2>1
  <2> QED
    BY <2>1, <2>2, <2>3 DEF Op
<1>6. C \in Seq(Ops) /\ D \in Seq(Ops)
      /\ (\A i \in 1 .. Len(C) : Carries(C[i]) /\ C[i].kind \in KindsOn("copy"))
      /\ (\A i \in 1 .. Len(D) : Carries(D[i]) /\ D[i].kind \in KindsOn("default"))
  BY <1>1, QueueFacts
<1>7. stream' = IF mode.on = "copy" THEN [stream EXCEPT !["copy"] = @ \o (w \o c)]
                ELSE [stream EXCEPT !["copy"] = @ \o w, !["default"] = @ \o c]
  BY DEF Stage, Queues, Waits, Copies, WaitOps, CopyOps, ReuseWait, C, D
<1>8. KindsOn("copy")' = KindsOn("copy") /\ KindsOn("default")' = KindsOn("default")
  BY DEF KindsOn
<1> HIDE DEF w, c
<1>9. w \o c \in Seq(Ops)
  BY <1>2, Pushed
<1>10. CASE mode.on = "copy"
  <2>1. stream' \in [Streams -> Seq(Ops)] /\ C' = C \o (w \o c) /\ D' = D
    BY <1>1, <1>6, <1>7, <1>9, <1>10, Pushed DEF C, D, StreamOK, Streams
  <2>2. KindsOn("copy") = {"copy", "recordStaged", "awaitDone"}
    BY <1>10 DEF KindsOn
  <2>3. \A i \in 1 .. Len(w \o c) : Carries((w \o c)[i]) /\ (w \o c)[i].kind \in KindsOn("copy")
    <3>1. /\ \A i \in 1 .. Len(w) : Carries(w[i]) /\ w[i].kind \in KindsOn("copy")
          /\ \A i \in 1 .. Len(c) : Carries(c[i]) /\ c[i].kind \in KindsOn("copy")
      BY <1>4, <1>5, <2>2
    <3> QED
      BY <1>2, <3>1, PushCarries
  <2>4. \A i \in 1 .. Len(C') : Carries(C'[i]) /\ C'[i].kind \in KindsOn("copy")
    BY <1>6, <1>9, <2>1, <2>3, PushCarries
  <2>5. StreamOK'
    BY <1>6, <1>8, <2>1, <2>4 DEF StreamOK, C, D, Streams
  <2> QED
    BY <1>2, <1>10, <2>1, <2>5 DEF w, c
<1>11. CASE mode.on # "copy"
  <2>1. stream' \in [Streams -> Seq(Ops)] /\ C' = C \o w /\ D' = D \o c
    BY <1>1, <1>2, <1>6, <1>7, <1>11, Pushed DEF C, D, StreamOK, Streams
  <2>2. "awaitDone" \in KindsOn("copy") /\ {"copy", "recordStaged"} \subseteq KindsOn("default")
    BY <1>11 DEF KindsOn
  <2>3. \A i \in 1 .. Len(C') : Carries(C'[i]) /\ C'[i].kind \in KindsOn("copy")
    BY <1>2, <1>4, <1>6, <2>1, <2>2, PushCarries
  <2>4. \A i \in 1 .. Len(D') : Carries(D'[i]) /\ D'[i].kind \in KindsOn("default")
    BY <1>2, <1>5, <1>6, <2>1, <2>2, PushCarries
  <2>5. StreamOK'
    BY <1>8, <2>1, <2>3, <2>4 DEF StreamOK, C, D, Streams
  <2> QED
    BY <1>2, <1>11, <2>1, <2>5 DEF w, c
<1> QED
  BY <1>10, <1>11

\* With one stream the copy stream carries waits only.
LEMMA NoRecordLeft ==
  ASSUME StreamOK', mode.on # "copy", mode' = mode, NEW s
  PROVE  \A i \in 1 .. Len(C') : ~Is(C', i, "recordStaged", s)
  BY DEF StreamOK, KindsOn, C, Is, Streams

LEMMA StageRecords ==
  ASSUME Queued, NEW b \in Blocks, Stage(b), ~Staged(b), UNCHANGED <<mode, active, device>>
  PROVE  RecordsInOrder'
<1> DEFINE p == Waits \o Copies(b)
<1>1. UTypeOK /\ StreamOK /\ RecordsInOrder /\ StreamOK'
  BY StageQueues DEF Queued
<1>2. /\ Waits \in Seq(Ops) /\ Copies(b) \in Seq(Ops) /\ p \in Seq(Ops)
      /\ Stages(p, IdleSlot, b, issued["done"][IdleSlot],
                issued["staged"][IdleSlot] + 1, recorded[IdleSlot])
      /\ mode.on = "copy" => C' = C \o p /\ D' = D
      /\ mode.on # "copy" => C' = C \o Waits /\ D' = D \o Copies(b)
  BY StageQueues, Pushed
<1>3. C \in Seq(Ops) /\ D \in Seq(Ops) /\ mode' = mode /\ passed' = passed
      /\ (\A i \in 1 .. Len(C) : Carries(C[i]) /\ C[i].kind \in KindsOn("copy"))
      /\ (\A i \in 1 .. Len(D) : Carries(D[i]) /\ D[i].kind \in KindsOn("default"))
  BY <1>1, QueueFacts DEF device
<1> HIDE DEF p
<1>4. \A i \in 1 .. Len(p) : \A k, t : k # "awaitDone" => (Is(p, i, k, t) =>
           /\ t = IdleSlot /\ k \in {"copy", "recordStaged"}
           /\ k = "recordStaged" => i = Len(p) /\ p[i].x = issued["staged"][IdleSlot] + 1)
  <2>1. recorded[IdleSlot] \in BOOLEAN
    BY StageFacts
  <2>2. ASSUME NEW i \in 1 .. Len(p), NEW k, NEW t, k # "awaitDone", Is(p, i, k, t)
        PROVE  /\ t = IdleSlot /\ k \in {"copy", "recordStaged"}
               /\ k = "recordStaged" => i = Len(p) /\ p[i].x = issued["staged"][IdleSlot] + 1
    <3>1. Stages(p, IdleSlot, b, issued["done"][IdleSlot],
                 issued["staged"][IdleSlot] + 1, recorded[IdleSlot])
      BY <1>2
    <3>2. /\ t = IdleSlot /\ k = IF i = Len(p) THEN "recordStaged"
                                 ELSE IF i = Len(p) - 1 THEN "copy" ELSE "awaitDone"
          /\ p[i].x = IF i = Len(p) THEN issued["staged"][IdleSlot] + 1
                      ELSE IF i = Len(p) - 1 THEN b ELSE issued["done"][IdleSlot]
      BY <2>1, <2>2, <3>1, StagedIs
    <3> QED
      BY <2>2, <3>2
  <2> QED
    BY <2>2
<1>5. \A i \in 1 .. Len(Copies(b)) : \A k, t : Is(Copies(b), i, k, t) =>
           /\ t = IdleSlot /\ k \in {"copy", "recordStaged"}
           /\ k = "recordStaged" => i = Len(Copies(b)) /\ Copies(b)[i].x = issued["staged"][IdleSlot] + 1
  <2>1. Len(Copies(b)) = 2 /\ Copies(b)[1] = Op("copy", IdleSlot, b)
        /\ Copies(b)[2] = Op("recordStaged", IdleSlot, issued["staged"][IdleSlot] + 1)
    BY DEF Copies, CopyOps
  <2>2. \A i \in 1 .. Len(Copies(b)) : i = 1 \/ i = 2
    BY <2>1
  <2> QED
    BY <2>1, <2>2 DEF Is, Op
<1> SUFFICES ASSUME NEW s \in Slots
             PROVE  /\ \A f \in Events : passed[f][s] <= issued'[f][s]
                    /\ Ordered(C', "recordStaged", s, passed["staged"][s], issued'["staged"][s])
                    /\ Ordered(D', "recordDone", s, passed["done"][s], issued'["done"][s])
                    /\ mode.on = "default" =>
                         Ordered(D', "recordStaged", s, passed["staged"][s], issued'["staged"][s])
  BY <1>3 DEF RecordsInOrder
<1>6. /\ issued'["done"][s] = issued["done"][s]
      /\ issued'["staged"][s] = IF s = IdleSlot THEN issued["staged"][s] + 1 ELSE issued["staged"][s]
  BY StageFacts
<1>7. /\ passed["done"][s] \in Nat /\ issued["done"][s] \in Nat
      /\ passed["staged"][s] \in Nat /\ issued["staged"][s] \in Nat
  BY <1>1 DEF UTypeOK, Events
<1>8. /\ passed["done"][s] <= issued["done"][s] /\ passed["staged"][s] <= issued["staged"][s]
      /\ Ordered(C, "recordStaged", s, passed["staged"][s], issued["staged"][s])
      /\ Ordered(D, "recordDone", s, passed["done"][s], issued["done"][s])
      /\ mode.on = "default" =>
           Ordered(D, "recordStaged", s, passed["staged"][s], issued["staged"][s])
  BY <1>1 DEF RecordsInOrder, Events
<1>9. \A f \in Events : passed[f][s] <= issued'[f][s]
  BY <1>6, <1>7, <1>8 DEF Events
<1>10. /\ \A i \in 1 .. Len(C) : Is(C, i, "recordStaged", s) => C[i].x \in Nat
       /\ \A i \in 1 .. Len(D) : Is(D, i, "recordStaged", s) => D[i].x \in Nat
  BY <1>3 DEF Is, Carries, Kernelish
<1>11. CASE mode.on = "copy"
  <2>1. Ordered(C \o p, "recordStaged", s, passed["staged"][s], issued'["staged"][s])
    <3>1. CASE s = IdleSlot
      <4>1. \A k \in 1 .. Len(p) : Is(p, k, "recordStaged", s) =>
              k = Len(p) /\ p[k].x = issued["staged"][s] + 1
        BY <1>4, <3>1
      <4>2. Ordered(C \o p, "recordStaged", s, passed["staged"][s], issued["staged"][s] + 1)
        BY <1>2, <1>3, <1>7, <1>8, <1>10, <4>1, PushRecord
      <4> QED
        BY <1>6, <3>1, <4>2
    <3>2. CASE s # IdleSlot
      <4>1. \A k \in 1 .. Len(p) : ~Is(p, k, "recordStaged", s)
        BY <1>4, <3>2
      <4>2. Ordered(C \o p, "recordStaged", s, passed["staged"][s], issued["staged"][s])
        BY <1>2, <1>3, <1>8, <4>1, PushOrdered
      <4> QED
        BY <1>6, <3>2, <4>2
    <3> QED
      BY <3>1, <3>2
  <2> QED
    BY <1>2, <1>6, <1>8, <1>9, <1>11, <2>1
<1>12. CASE mode.on # "copy"
  <2>1. \A i \in 1 .. Len(C') : ~Is(C', i, "recordStaged", s)
    BY <1>1, <1>3, <1>12, NoRecordLeft
  <2>2. Ordered(C', "recordStaged", s, passed["staged"][s], issued'["staged"][s])
    BY <2>1 DEF Ordered
  <2>3. Ordered(D \o Copies(b), "recordDone", s, passed["done"][s], issued["done"][s])
    <3>1. \A k \in 1 .. Len(Copies(b)) : ~Is(Copies(b), k, "recordDone", s)
      BY <1>5
    <3> QED
      BY <1>2, <1>3, <1>8, <3>1, PushOrdered
  <2>4. ASSUME mode.on = "default"
        PROVE  Ordered(D \o Copies(b), "recordStaged", s, passed["staged"][s], issued'["staged"][s])
    <3>1. CASE s = IdleSlot
      <4>1. \A k \in 1 .. Len(Copies(b)) : Is(Copies(b), k, "recordStaged", s) =>
              k = Len(Copies(b)) /\ Copies(b)[k].x = issued["staged"][s] + 1
        BY <1>5, <3>1
      <4>2. Ordered(D \o Copies(b), "recordStaged", s, passed["staged"][s], issued["staged"][s] + 1)
        BY <1>2, <1>3, <1>7, <1>8, <1>10, <2>4, <4>1, PushRecord
      <4> QED
        BY <1>6, <3>1, <4>2
    <3>2. CASE s # IdleSlot
      <4>1. \A k \in 1 .. Len(Copies(b)) : ~Is(Copies(b), k, "recordStaged", s)
        BY <1>5, <3>2
      <4>2. Ordered(D \o Copies(b), "recordStaged", s, passed["staged"][s], issued["staged"][s])
        BY <1>2, <1>3, <1>8, <2>4, <4>1, PushOrdered
      <4> QED
        BY <1>6, <3>2, <4>2
    <3> QED
      BY <3>1, <3>2
  <2> QED
    BY <1>2, <1>6, <1>9, <1>12, <2>2, <2>3, <2>4
<1> QED
  BY <1>11, <1>12

\* What has begun stays at the head when operations are queued behind it.
LEMMA PushBegun ==
  ASSUME StreamOK, BegunOK, UNCHANGED <<mode, begun>>,
         \A st \in Streams : \E p \in Seq(Ops) : stream'[st] = stream[st] \o p
  PROVE  BegunOK'
<1> SUFFICES ASSUME NEW st \in Streams, begun[st] # NoBlock
             PROVE  /\ stream'[st] # <<>> /\ Head(stream'[st]).kind \in Kernelish
                    /\ mode.store => begun[st] = Head(stream'[st]).x
  BY DEF BegunOK, Oldest
<1>1. stream[st] \in Seq(Ops) /\ stream[st] # <<>> /\ Head(stream[st]).kind \in Kernelish
      /\ (mode.store => begun[st] = Head(stream[st]).x)
  BY DEF BegunOK, Oldest, StreamOK
<1>2. PICK p \in Seq(Ops) : stream'[st] = stream[st] \o p
  OBVIOUS
<1>3. stream'[st] # <<>> /\ Head(stream'[st]) = Head(stream[st])
  BY <1>1, <1>2, PushHead
<1> QED
  BY <1>1, <1>3

LEMMA PushNothing ==
  ASSUME NEW q \in Seq(Ops)
  PROVE  <<>> \in Seq(Ops) /\ q = q \o <<>>
  OBVIOUS

LEMMA StageQueued ==
  ASSUME Queued, NEW b \in Blocks, Stage(b), ~Staged(b), UNCHANGED <<mode, active, device>>,
         CallStep, deferred' \in Blocks \cup {NoBlock}
  PROVE  Queued'
<1>1. UTypeOK /\ StreamOK /\ CallOK /\ BegunOK
  BY DEF Queued
<1>2. UTypeOK'
  BY <1>1, StageFacts DEF UTypeOK, CallStep, device
<1>3. CallOK'
  BY <1>1, StageFacts DEF CallOK, CallStep, UTypeOK
<1>4. \A st \in Streams : \E p \in Seq(Ops) : stream'[st] = stream[st] \o p
  <2>1. /\ Waits \in Seq(Ops) /\ Copies(b) \in Seq(Ops) /\ Waits \o Copies(b) \in Seq(Ops)
        /\ mode.on = "copy" => C' = C \o (Waits \o Copies(b)) /\ D' = D
        /\ mode.on # "copy" => C' = C \o Waits /\ D' = D \o Copies(b)
        /\ C \in Seq(Ops) /\ D \in Seq(Ops)
    BY <1>1, StageQueues, QueueFacts, Pushed
  <2>2. /\ \E p \in Seq(Ops) : C' = C \o p
        /\ \E p \in Seq(Ops) : D' = D \o p
    BY <2>1, PushNothing
  <2> QED
    BY <2>2 DEF C, D, Streams
<1>5. BegunOK'
  BY <1>1, <1>4, PushBegun DEF device
<1> QED
  BY <1>2, <1>3, <1>5, StageQueues, StageRecords DEF Queued

LEMMA StageTwoStreams ==
  ASSUME Queued, TwoStreams, mode.on = "copy", NEW b \in Blocks, Stage(b), ~Staged(b),
         UNCHANGED <<mode, active, device>>, CallStep
  PROVE  TwoStreams'
<1> DEFINE p == Waits \o Copies(b)
           z == IdleSlot
<1>1. UTypeOK /\ StreamOK /\ RecordsInOrder
  BY DEF Queued
<1>2. /\ p \in Seq(Ops) /\ C' = C \o p /\ D' = D
      /\ Stages(p, z, b, issued["done"][z], issued["staged"][z] + 1, recorded[z])
  BY StageQueues, Pushed
<1>3. /\ z \in Slots /\ z # active /\ active \in Slots /\ recorded[z] \in BOOLEAN
      /\ slot' = [slot EXCEPT ![z] = b] /\ recorded' = [recorded EXCEPT ![z] = FALSE]
      /\ issued["done"][z] \in Nat /\ issued["staged"][z] + 1 \in Nat
      /\ issued'["done"] = issued["done"] /\ issued'["staged"][z] = issued["staged"][z] + 1
      /\ \A t \in Slots : t # z => issued'["staged"][t] = issued["staged"][t]
  BY StageFacts
<1>4. /\ slot'[z] = b /\ recorded'[z] = FALSE
      /\ \A t \in Slots : t # z => slot'[t] = slot[t] /\ recorded'[t] = recorded[t]
  BY <1>1, <1>3 DEF UTypeOK
<1>5. C \in Seq(Ops) /\ D \in Seq(Ops) /\ Len(C) \in Nat /\ active' = active /\ dev' = dev
      /\ (\A i \in 1 .. Len(D) : D[i].slot \in Slots)
  BY <1>1, QueueFacts DEF device
<1> HIDE DEF p, z
<1>6. \A k \in 1 .. Len(p) : \A t : Is(p, k, "copy", t) => t = z /\ k = Len(p) - 1
  BY <1>2, <1>3, StagedIs
<1>7. ASSUME NEW i \in 1 .. Len(D), Is(D, i, "kernel", z)
      PROVE  /\ Reusable(C \o p, D, z, FALSE, i)
             /\ Fenced(C \o p, D, z, Len(C) + (Len(p) - 1), i)
  <2>1. ~Unmarked(z)
    BY <1>3 DEF Unmarked
  <2>2. Reusable(C, D, z, recorded[z], i)
    BY <1>3, <1>7, <2>1 DEF TwoStreams, ReuseIsFenced
  <2>3. \A m \in 1 .. Len(D) : Is(D, m, "recordDone", z) => D[m].x <= issued["done"][z]
    BY <1>1, <1>3 DEF RecordsInOrder, Ordered
  <2>4. Fenced(C \o p, D, z, Len(C) + (Len(p) - 1), i)
    <3>1. z \in Slots /\ issued["done"][z] \in Nat /\ issued["staged"][z] + 1 \in Nat /\ recorded[z] \in BOOLEAN
      BY <1>3
    <3> QED
      BY <1>2, <1>5, <2>2, <2>3, <3>1, StageFenced
  <2>5. Reusable(C \o p, D, z, FALSE, i)
    BY <1>2, <1>5, <2>2, <2>4, StageReusable
  <2> QED
    BY <2>4, <2>5
<1>8. ReuseIsFenced'
  <2> SUFFICES ASSUME NEW s \in Slots, ~Unmarked(s)', NEW i \in 1 .. Len(D), Is(D, i, "kernel", s)
               PROVE  Reusable(C \o p, D, s, recorded'[s], i)
    BY <1>2 DEF ReuseIsFenced
  <2>1. ~Unmarked(s)
    BY <1>5 DEF Unmarked, CallStep
  <2>2. Reusable(C, D, s, recorded[s], i)
    BY <2>1 DEF TwoStreams, ReuseIsFenced
  <2>3. CASE s = z
    BY <1>4, <1>7, <2>3
  <2>4. CASE s # z
    BY <1>2, <1>4, <1>5, <2>2, <2>4, PushCReusable
  <2> QED
    BY <2>3, <2>4
<1>9. SlotIsFilled'
  <2> SUFFICES ASSUME NEW s \in Slots, slot'[s] # NoBlock
               PROVE  Filled(C \o p, s, slot'[s], dev[s], issued'["staged"][s])
    BY <1>2, <1>5 DEF SlotIsFilled
  <2>1. CASE s = z
    <3>1. Filled(C \o p, z, b, dev[z], issued["staged"][z] + 1)
      BY <1>2, <1>3, <1>5, StageFilled
    <3> QED
      BY <1>3, <1>4, <2>1, <3>1
  <2>2. CASE s # z
    <3>1. Filled(C, s, slot[s], dev[s], issued["staged"][s])
      BY <1>4, <2>2 DEF TwoStreams, SlotIsFilled
    <3>2. \A k \in 1 .. Len(p) : ~Is(p, k, "copy", s)
      BY <1>6, <2>2
    <3>3. Filled(C \o p, s, slot[s], dev[s], issued["staged"][s])
      BY <1>2, <1>5, <3>1, <3>2, PushCFilled
    <3> QED
      BY <1>3, <1>4, <2>2, <3>3
  <2> QED
    BY <2>1, <2>2
<1>10. ViewIsFenced'
  <2> SUFFICES ASSUME call'.at = "held"
               PROVE  Viewed(C \o p, D, active, issued'["staged"][active])
    BY <1>2, <1>5 DEF ViewIsFenced
  <2>1. call.at = "held"
    BY <1>1 DEF CallStep, UTypeOK
  <2>2. Viewed(C, D, active, issued["staged"][active])
    BY <2>1 DEF TwoStreams, ViewIsFenced
  <2>3. \A k \in 1 .. Len(p) : ~Is(p, k, "copy", active)
    BY <1>3, <1>6
  <2>4. Viewed(C \o p, D, active, issued["staged"][active])
    BY <1>2, <1>5, <2>2, <2>3, PushCViewed
  <2> QED
    BY <1>3, <2>4
<1>11. KernelsAreServed'
  <2> SUFFICES ASSUME NEW i \in 1 .. Len(D), D[i].kind = "kernel"
               PROVE  Served(C \o p, D, D[i].slot, D[i].x, dev[D[i].slot], i)
    BY <1>2, <1>5 DEF KernelsAreServed
  <2>1. Served(C, D, D[i].slot, D[i].x, dev[D[i].slot], i)
    BY DEF TwoStreams, KernelsAreServed
  <2>2. ASSUME NEW k \in 1 .. Len(p), Is(p, k, "copy", D[i].slot)
        PROVE  Fenced(C \o p, D, D[i].slot, Len(C) + k, i)
    <3>1. D[i].slot = z /\ k = Len(p) - 1
      BY <1>6, <2>2
    <3>2. Is(D, i, "kernel", z)
      BY <3>1 DEF Is
    <3> QED
      BY <1>7, <3>1, <3>2
  <2> QED
    BY <1>2, <1>5, <2>1, <2>2, PushCServed
<1> QED
  BY <1>8, <1>9, <1>10, <1>11 DEF TwoStreams

LEMMA StageOneStream ==
  ASSUME Queued, OneStream, mode.on # "copy", NEW b \in Blocks, Stage(b), ~Staged(b),
         UNCHANGED <<mode, active, device>>
  PROVE  OneStream'
<1> DEFINE p == Copies(b)
           z == IdleSlot
<1>1. UTypeOK /\ StreamOK
  BY DEF Queued
<1>2. p \in Seq(Ops) /\ D' = D \o p
  BY StageQueues
<1>3. /\ z \in Slots /\ slot' = [slot EXCEPT ![z] = b] /\ issued["staged"][z] + 1 \in Nat
  BY StageFacts
<1>4. slot'[z] = b /\ \A t \in Slots : t # z => slot'[t] = slot[t]
  BY <1>1, <1>3 DEF UTypeOK
<1>5. D \in Seq(Ops) /\ Len(D) \in Nat /\ dev' = dev /\ Len(D \o p) = Len(D) + Len(p) /\ Len(p) = 2
  BY <1>1, <1>2, QueueFacts, Pushed DEF device, Copies, CopyOps
<1>6. p[1] = Op("copy", z, b) /\ p[2].kind = "recordStaged"
  BY DEF Copies, CopyOps, Op
<1>7. \A k \in 1 .. Len(p) : k = 1 \/ k = 2
  BY <1>5
<1>8. \A s \in Slots : Last(D \o p, z, b, dev[z], Len(D \o p) + 1)
  BY <1>3, <1>5, StageLast DEF Copies
<1> HIDE DEF p, z
<1>9. ASSUME NEW i \in 1 .. Len(D \o p), (D \o p)[i].kind = "kernel"
      PROVE  Last(D \o p, (D \o p)[i].slot, (D \o p)[i].x, dev[(D \o p)[i].slot], i)
  <2>1. CASE i \in 1 .. Len(D)
    <3>1. (D \o p)[i] = D[i]
      BY <1>2, <1>5, <2>1, Pushed
    <3>2. Last(D, D[i].slot, D[i].x, dev[D[i].slot], i) /\ i \in 1 .. Len(D) + 1
      BY <1>5, <1>9, <2>1, <3>1 DEF OneStream
    <3>3. Last(D \o p, D[i].slot, D[i].x, dev[D[i].slot], i)
      BY <1>2, <1>5, <3>2, PushLast
    <3> QED
      BY <3>1, <3>3
  <2>2. CASE i - Len(D) \in 1 .. Len(p)
    <3>1. (D \o p)[Len(D) + (i - Len(D))] = p[i - Len(D)] /\ Len(D) + (i - Len(D)) = i
      BY <1>2, <1>5, <2>2, Pushed
    <3>2. p[i - Len(D)].kind # "kernel"
      BY <1>6, <1>7, <2>2 DEF Op
    <3> QED
      BY <1>9, <3>1, <3>2
  <2> QED
    BY <1>5, <2>1, <2>2
<1>10. ASSUME NEW s \in Slots, slot'[s] # NoBlock
       PROVE  Last(D \o p, s, slot'[s], dev[s], Len(D \o p) + 1)
  <2>1. CASE s = z
    BY <1>4, <1>8, <2>1
  <2>2. CASE s # z
    <3>1. Last(D, s, slot[s], dev[s], Len(D) + 1)
      BY <1>4, <1>10, <2>2 DEF OneStream
    <3>2. \A k \in 1 .. Len(p) : ~Is(p, k, "copy", s)
      BY <1>6, <1>7, <2>2 DEF Is, Op
    <3>3. Last(D \o p, s, slot[s], dev[s], Len(D \o p) + 1)
      BY <1>2, <1>5, <3>1, <3>2, PushLastEnd
    <3> QED
      BY <1>4, <2>2, <3>3
  <2> QED
    BY <2>1, <2>2
<1> QED
  BY <1>2, <1>5, <1>9, <1>10 DEF OneStream

LEMMA StageStep ==
  ASSUME UInv, NEW b \in Blocks, Stage(b), ~Staged(b), UNCHANGED <<mode, active, device>>,
         CallStep, deferred' \in Blocks \cup {NoBlock}
  PROVE  UInv'
<1>1. Queued /\ Queued'
  BY StageQueued DEF UInv
<1>2. Achieved'
  <2> SUFFICES ASSUME mode.store
               PROVE  IF mode.on = "copy" THEN TwoStreams' ELSE OneStream'
    BY DEF Achieved
  <2>1. CASE mode.on = "copy"
    <3>1. TwoStreams
      BY <2>1 DEF UInv, Achieved
    <3> QED
      BY <1>1, <2>1, <3>1, StageTwoStreams
  <2>2. CASE mode.on # "copy"
    <3>1. OneStream
      BY <2>2 DEF UInv, Achieved
    <3> QED
      BY <1>1, <2>2, <3>1, StageOneStream
  <2> QED
    BY <2>1, <2>2
<1> QED
  BY <1>1, <1>2 DEF UInv

----------------------------------------------------------------------------
(* The host: nothing is queued.                                            *)

LEMMA StillStep ==
  ASSUME UInv, UNCHANGED <<mode, slot, active, recorded, host, device, stream, issued>>,
         deferred' \in Blocks \cup {NoBlock},
         \/ CallStep
         \/ call.at = "free" /\ \E b \in Blocks : call' = [at |-> "dispatch", block |-> b]
  PROVE  UInv'
<1>1. UTypeOK' /\ CallOK'
  BY DEF UInv, Queued, UTypeOK, CallOK, CallStep, device
<1>2. StreamOK' /\ RecordsInOrder' /\ BegunOK'
  BY DEF UInv, Queued, StreamOK, RecordsInOrder, BegunOK, KindsOn, C, D, Oldest, device
<1>3. C' = C /\ D' = D /\ dev' = dev
  BY DEF C, D, device
<1>4. /\ call'.at = "held" => call.at = "held"
      /\ call'.at # "launched" => call.at # "launched"
  BY DEF CallStep, UInv, Queued, UTypeOK
<1>5. TwoStreams => TwoStreams'
  BY <1>3, <1>4 DEF TwoStreams, ReuseIsFenced, SlotIsFilled, ViewIsFenced, KernelsAreServed, Unmarked
<1>6. OneStream => OneStream'
  BY <1>3 DEF OneStream
<1> QED
  BY <1>1, <1>2, <1>5, <1>6 DEF UInv, Queued, Achieved

----------------------------------------------------------------------------
(* The host: one operation is queued on the default stream.                *)

\* What all the calls that do so have in common.
LEMMA PushQueues ==
  ASSUME StreamOK, BegunOK, NEW o \in Ops, Queues("default", <<o>>), Carries(o),
         o.kind \in {"kernel", "recordDone", "awaitStaged"}, UNCHANGED <<mode, begun>>
  PROVE  /\ StreamOK' /\ BegunOK' /\ C' = C /\ D' = D \o <<o>>
         /\ <<o>> \in Seq(Ops) /\ Len(<<o>>) = 1 /\ <<o>>[1] = o
         /\ D \in Seq(Ops) /\ Len(D) \in Nat /\ Len(D') = Len(D) + 1 /\ D'[Len(D) + 1] = o
         /\ \A i \in 1 .. Len(D) : D'[i] = D[i]
<1>1. <<o>> \in Seq(Ops) /\ Len(<<o>>) = 1 /\ <<o>>[1] = o
  OBVIOUS
<1>2. \A i \in 1 .. Len(<<o>>) : Carries(<<o>>[i]) /\ <<o>>[i].kind \in KindsOn("default")
  BY <1>1 DEF KindsOn
<1>3. StreamOK' /\ C' = C /\ D' = D \o <<o>>
  BY <1>1, <1>2, PushStreamOK DEF C, D, Streams
<1>4. D \in Seq(Ops) /\ C \in Seq(Ops)
  BY QueueFacts
<1>5. 1 \in 1 .. Len(<<o>>)
  BY <1>1
<1>6. (D \o <<o>>)[Len(D) + 1] = <<o>>[1]
  BY <1>1, <1>4, <1>5, Pushed
<1>7. Len(D) \in Nat /\ Len(D \o <<o>>) = Len(D) + Len(<<o>>) /\ \A i \in 1 .. Len(D) : (D \o <<o>>)[i] = D[i]
  BY <1>1, <1>4, Pushed
<1>8. BegunOK'
  <2>1. /\ \E p \in Seq(Ops) : C' = C \o p
        /\ \E p \in Seq(Ops) : D' = D \o p
    BY <1>1, <1>3, <1>4, PushNothing
  <2>2. \A st \in Streams : \E p \in Seq(Ops) : stream'[st] = stream[st] \o p
    BY <2>1 DEF C, D, Streams
  <2> QED
    BY <2>2, PushBegun
<1> QED
  BY <1>1, <1>3, <1>4, <1>6, <1>7, <1>8

\* A record of kernels is the next one of its slot, or none is queued.
LEMMA PushRecords ==
  ASSUME UTypeOK, StreamOK, RecordsInOrder, NEW o \in Ops, <<o>> \in Seq(Ops),
         Len(<<o>>) = 1, <<o>>[1] = o, D \in Seq(Ops),
         C' = C, D' = D \o <<o>>, UNCHANGED <<mode, passed>>,
         \/ o.kind \in {"kernel", "awaitStaged"} /\ issued' = issued
         \/ /\ o.kind = "recordDone" /\ o.x = issued["done"][o.slot] + 1 /\ Issue("done", o.slot)
  PROVE  RecordsInOrder'
<1> DEFINE p == <<o>>
<1>1. p \in Seq(Ops) /\ Len(p) = 1 /\ p[1] = o
  OBVIOUS
<1> HIDE DEF p
<1>2. \A k \in 1 .. Len(p) : k = 1
  BY <1>1
<1> SUFFICES ASSUME NEW s \in Slots
             PROVE  /\ \A f \in Events : passed[f][s] <= issued'[f][s]
                    /\ Ordered(C, "recordStaged", s, passed["staged"][s], issued'["staged"][s])
                    /\ Ordered(D \o p, "recordDone", s, passed["done"][s], issued'["done"][s])
                    /\ mode.on = "default" =>
                         Ordered(D \o p, "recordStaged", s, passed["staged"][s], issued'["staged"][s])
  BY DEF RecordsInOrder, p
<1>3. /\ passed["done"][s] \in Nat /\ issued["done"][s] \in Nat
      /\ passed["staged"][s] \in Nat /\ issued["staged"][s] \in Nat
  BY DEF UTypeOK, Events
<1>4. /\ passed["done"][s] <= issued["done"][s] /\ passed["staged"][s] <= issued["staged"][s]
      /\ Ordered(C, "recordStaged", s, passed["staged"][s], issued["staged"][s])
      /\ Ordered(D, "recordDone", s, passed["done"][s], issued["done"][s])
      /\ mode.on = "default" =>
           Ordered(D, "recordStaged", s, passed["staged"][s], issued["staged"][s])
  BY DEF RecordsInOrder, Events
<1>5. issued'["staged"][s] = issued["staged"][s]
  BY DEF Issue, UTypeOK, Events
<1>6. mode.on = "default" =>
        Ordered(D \o p, "recordStaged", s, passed["staged"][s], issued["staged"][s])
  <2>1. \A k \in 1 .. Len(p) : ~Is(p, k, "recordStaged", s)
    BY <1>1, <1>2 DEF Is
  <2> QED
    BY <1>1, <1>4, <2>1, PushOrdered
<1>7. CASE o.kind = "recordDone" /\ o.slot = s
  <2>1. issued'["done"][s] = issued["done"][s] + 1
    BY <1>7 DEF Issue, UTypeOK, Events
  <2>2. \A k \in 1 .. Len(p) : Is(p, k, "recordDone", s) => k = Len(p) /\ p[k].x = issued["done"][s] + 1
    BY <1>1, <1>2, <1>7
  <2>3. \A i \in 1 .. Len(D) : Is(D, i, "recordDone", s) => D[i].x \in Nat
    BY QueueFacts DEF Is, Carries, Kernelish
  <2>4. Ordered(D \o p, "recordDone", s, passed["done"][s], issued["done"][s] + 1)
    BY <1>1, <1>3, <1>4, <2>2, <2>3, PushRecord
  <2> QED
    BY <1>3, <1>4, <1>5, <1>6, <2>1, <2>4 DEF Events
<1>8. CASE ~(o.kind = "recordDone" /\ o.slot = s)
  <2>1. issued'["done"][s] = issued["done"][s]
    BY <1>8 DEF Issue, UTypeOK, Events
  <2>2. \A k \in 1 .. Len(p) : ~Is(p, k, "recordDone", s)
    BY <1>1, <1>2, <1>8 DEF Is
  <2>3. Ordered(D \o p, "recordDone", s, passed["done"][s], issued["done"][s])
    BY <1>1, <1>4, <2>2, PushOrdered
  <2> QED
    BY <1>3, <1>4, <1>5, <1>6, <2>1, <2>3 DEF Events
<1> QED
  BY <1>7, <1>8

\* The kernels that were queued are served as before; so must be those that are queued now.
LEMMA PushServed ==
  ASSUME NEW o \in Ops, <<o>> \in Seq(Ops), D \in Seq(Ops), Len(D) \in Nat,
         Len(D') = Len(D) + 1, D'[Len(D) + 1] = o, \A i \in 1 .. Len(D) : D'[i] = D[i],
         KernelsAreServed, C' = C, D' = D \o <<o>>, dev' = dev,
         o.kind = "kernel" => Served(C, D \o <<o>>, o.slot, o.x, dev[o.slot], Len(D) + 1)
  PROVE  KernelsAreServed'
<1> SUFFICES ASSUME NEW i \in 1 .. Len(D'), D'[i].kind = "kernel"
             PROVE  Served(C, D \o <<o>>, D'[i].slot, D'[i].x, dev[D'[i].slot], i)
  BY DEF KernelsAreServed
<1>1. CASE i \in 1 .. Len(D)
  <2>1. Served(C, D, D[i].slot, D[i].x, dev[D[i].slot], i) /\ D'[i] = D[i]
    BY <1>1 DEF KernelsAreServed
  <2>2. Served(C, D \o <<o>>, D[i].slot, D[i].x, dev[D[i].slot], i)
    BY <2>1, PushDServed
  <2> QED
    BY <2>1, <2>2
<1>2. CASE i = Len(D) + 1
  BY <1>2
<1> QED
  BY <1>1, <1>2

LEMMA PushOneStream ==
  ASSUME NEW o \in Ops, <<o>> \in Seq(Ops), Len(<<o>>) = 1, <<o>>[1] = o,
         D \in Seq(Ops), Len(D) \in Nat,
         Len(D') = Len(D) + 1, D'[Len(D) + 1] = o, \A i \in 1 .. Len(D) : D'[i] = D[i],
         OneStream, D' = D \o <<o>>, UNCHANGED <<slot, dev>>, o.kind # "copy",
         o.kind = "kernel" => slot[o.slot] = o.x /\ o.x # NoBlock /\ o.slot \in Slots
  PROVE  OneStream'
<1>1. ASSUME NEW i \in 1 .. Len(D'), D'[i].kind = "kernel"
      PROVE  Last(D', D'[i].slot, D'[i].x, dev[D'[i].slot], i)
  <2>1. CASE i \in 1 .. Len(D)
    <3>1. Last(D, D[i].slot, D[i].x, dev[D[i].slot], i) /\ D'[i] = D[i]
      BY <1>1, <2>1 DEF OneStream
    <3>2. i \in 1 .. Len(D) + 1
      BY <2>1
    <3>3. Last(D \o <<o>>, D[i].slot, D[i].x, dev[D[i].slot], i)
      BY <3>1, <3>2, PushLast
    <3> QED
      BY <3>1, <3>3
  <2>2. CASE i = Len(D) + 1
    <3>1. Last(D, o.slot, o.x, dev[o.slot], Len(D) + 1)
      BY <1>1, <2>2 DEF OneStream
    <3>2. Len(D) + 1 \in 1 .. Len(D) + 1
      OBVIOUS
    <3>3. Last(D \o <<o>>, o.slot, o.x, dev[o.slot], Len(D) + 1)
      BY <3>1, <3>2, PushLast
    <3> QED
      BY <2>2, <3>3
  <2> QED
    BY <2>1, <2>2
<1>2. ASSUME NEW s \in Slots, slot[s] # NoBlock
      PROVE  Last(D', s, slot[s], dev[s], Len(D') + 1)
  <2>1. Last(D, s, slot[s], dev[s], Len(D) + 1)
    BY <1>2 DEF OneStream
  <2>2. \A k \in 1 .. Len(<<o>>) : ~Is(<<o>>, k, "copy", s)
    BY DEF Is
  <2> QED
    BY <2>1, <2>2, PushLastEnd
<1> QED
  BY <1>1, <1>2 DEF OneStream

LEMMA FenceStep ==
  ASSUME UInv, Fence
  PROVE  UInv'
<1>1. UTypeOK /\ StreamOK /\ RecordsInOrder /\ CallOK /\ BegunOK
  BY DEF UInv, Queued
<1>2. PICK s \in Slots : /\ slot[s] = call.block /\ active' = s
                         /\ Queues("default", <<Op("awaitStaged", s, issued["staged"][s])>>)
  BY DEF Fence
<1>3. call.at = "fence" /\ call' = [call EXCEPT !.at = "held"]
      /\ UNCHANGED <<mode, slot, recorded, deferred, host, dev, begun, passed, issued>>
  BY DEF Fence, device
<1> DEFINE o == Op("awaitStaged", s, issued["staged"][s])
<1>4. issued["staged"][s] \in Nat
  BY <1>1 DEF UTypeOK, Events
<1>5. o \in Ops /\ Carries(o) /\ o.kind = "awaitStaged" /\ o.slot = s /\ o.x = issued["staged"][s]
  BY <1>4 DEF Op, Ops, Carries, Kernelish
<1>6. call.block \in Blocks /\ call.block # NoBlock
  BY <1>1, <1>3, TurboAssumption DEF CallOK
<1> HIDE DEF o
<1>7. /\ StreamOK' /\ BegunOK' /\ C' = C /\ D' = D \o <<o>>
      /\ <<o>> \in Seq(Ops) /\ Len(<<o>>) = 1 /\ <<o>>[1] = o
      /\ D \in Seq(Ops) /\ Len(D) \in Nat /\ Len(D') = Len(D) + 1 /\ D'[Len(D) + 1] = o
      /\ \A i \in 1 .. Len(D) : D'[i] = D[i]
  BY <1>1, <1>2, <1>3, <1>5, PushQueues DEF o
<1>8. RecordsInOrder'
  BY <1>1, <1>3, <1>5, <1>7, PushRecords
<1>9. UTypeOK' /\ CallOK'
  BY <1>1, <1>2, <1>3, <1>6 DEF UTypeOK, CallOK
<1>10. TwoStreams => TwoStreams'
  <2> SUFFICES ASSUME TwoStreams PROVE TwoStreams'
    OBVIOUS
  <2>1. KernelsAreServed'
    BY <1>3, <1>5, <1>7, PushServed DEF TwoStreams
  <2>2. SlotIsFilled'
    BY <1>3, <1>7 DEF TwoStreams, SlotIsFilled
  <2>3. ViewIsFenced'
    <3>1. Viewed(C, D \o <<o>>, s, issued["staged"][s])
      <4>1. Is(D \o <<o>>, Len(D) + 1, "awaitStaged", s) /\ Len(D) + 1 \in 1 .. Len(D \o <<o>>)
        BY <1>5, <1>7 DEF Is
      <4> QED
        BY <1>5, <1>7, <4>1 DEF Viewed
    <3> QED
      BY <1>2, <1>3, <1>7, <3>1 DEF ViewIsFenced
  <2>4. ReuseIsFenced'
    <3> SUFFICES ASSUME NEW t \in Slots, NEW i \in 1 .. Len(D'), Is(D', i, "kernel", t)
                 PROVE  Reusable(C, D \o <<o>>, t, recorded[t], i)
      BY <1>3, <1>7 DEF ReuseIsFenced
    <3>1. i \in 1 .. Len(D) /\ Is(D, i, "kernel", t)
      BY <1>5, <1>7 DEF Is
    <3>2. ~Unmarked(t)
      BY <1>3 DEF Unmarked
    <3>3. Reusable(C, D, t, recorded[t], i)
      BY <3>1, <3>2 DEF TwoStreams, ReuseIsFenced
    <3> QED
      BY <1>7, <3>3, PushDReusable
  <2> QED
    BY <2>1, <2>2, <2>3, <2>4 DEF TwoStreams
<1>11. OneStream => OneStream'
  BY <1>3, <1>5, <1>7, PushOneStream
<1> QED
  BY <1>3, <1>7, <1>8, <1>9, <1>10, <1>11 DEF UInv, Queued, Achieved

LEMMA QueueKernelsStep ==
  ASSUME UInv, QueueKernels
  PROVE  UInv'
<1>1. UTypeOK /\ StreamOK /\ RecordsInOrder /\ CallOK /\ BegunOK
  BY DEF UInv, Queued
<1> DEFINE o == Op("kernel", active, call.block)
<1>2. call.at = "held" /\ call' = [call EXCEPT !.at = "launched"] /\ Queues("default", <<o>>)
      /\ UNCHANGED <<mode, slot, active, recorded, deferred, host, dev, begun, passed, issued>>
  BY DEF QueueKernels, device, loader
<1>3. call.block \in Blocks /\ call.block # NoBlock /\ slot[active] = call.block /\ active \in Slots
  BY <1>1, <1>2, TurboAssumption DEF CallOK, UTypeOK
<1>4. o \in Ops /\ Carries(o) /\ o.kind = "kernel" /\ o.slot = active /\ o.x = call.block
  BY <1>3 DEF Op, Ops, Carries, Kernelish
<1> HIDE DEF o
<1>5. /\ StreamOK' /\ BegunOK' /\ C' = C /\ D' = D \o <<o>>
      /\ <<o>> \in Seq(Ops) /\ Len(<<o>>) = 1 /\ <<o>>[1] = o
      /\ D \in Seq(Ops) /\ Len(D) \in Nat /\ Len(D') = Len(D) + 1 /\ D'[Len(D) + 1] = o
      /\ \A i \in 1 .. Len(D) : D'[i] = D[i]
  BY <1>1, <1>2, <1>4, PushQueues
<1>6. RecordsInOrder'
  BY <1>1, <1>2, <1>4, <1>5, PushRecords
<1>7. UTypeOK' /\ CallOK'
  BY <1>1, <1>2, <1>3 DEF UTypeOK, CallOK
<1>8. TwoStreams => TwoStreams'
  <2> SUFFICES ASSUME TwoStreams PROVE TwoStreams'
    OBVIOUS
  <2>1. Served(C, D \o <<o>>, active, call.block, dev[active], Len(D) + 1)
    <3>1. Filled(C, active, call.block, dev[active], issued["staged"][active])
      BY <1>3 DEF TwoStreams, SlotIsFilled
    <3>2. Viewed(C, D, active, issued["staged"][active])
      BY <1>2 DEF TwoStreams, ViewIsFenced
    <3>3. CASE dev[active] = call.block /\ NoCopyFrom(C, active, 1)
      BY <3>3 DEF Served, FencedFrom, NoCopyFrom
    <3>4. CASE \E j \in 1 .. Len(C) : /\ Fills(C, active, call.block, j)
                                      /\ C[j].x = issued["staged"][active] /\ NoCopyFrom(C, active, j)
      <4>1. PICK j \in 1 .. Len(C) : /\ Fills(C, active, call.block, j)
                                     /\ C[j].x = issued["staged"][active] /\ NoCopyFrom(C, active, j)
        BY <3>4
      <4>2. ~NoCopyFrom(C, active, 1)
        BY <4>1 DEF Fills, NoCopyFrom, Is
      <4>3. PICK k \in 1 .. Len(D) : Is(D, k, "awaitStaged", active) /\ D[k].x = issued["staged"][active]
        BY <3>2, <4>2 DEF Viewed
      <4>4. /\ k \in 1 .. Len(D \o <<o>>) /\ k < Len(D) + 1
            /\ (D \o <<o>>)[k] = D[k] /\ Is(D \o <<o>>, k, "awaitStaged", active)
        BY <1>5, <4>3 DEF Is
      <4>5. FencedFrom(C, D \o <<o>>, active, j, Len(D) + 1)
        BY <4>1 DEF FencedFrom, NoCopyFrom
      <4> QED
        BY <4>1, <4>3, <4>4, <4>5 DEF Served
    <3> QED
      BY <3>1, <3>3, <3>4 DEF Filled
  <2>2. KernelsAreServed'
    BY <1>2, <1>4, <1>5, <2>1, PushServed DEF TwoStreams
  <2>3. SlotIsFilled' /\ ViewIsFenced'
    BY <1>1, <1>2, <1>5 DEF TwoStreams, SlotIsFilled, ViewIsFenced, UTypeOK
  <2>4. ReuseIsFenced'
    <3> SUFFICES ASSUME NEW t \in Slots, ~Unmarked(t)', NEW i \in 1 .. Len(D'), Is(D', i, "kernel", t)
                 PROVE  Reusable(C, D \o <<o>>, t, recorded[t], i)
      BY <1>2, <1>5 DEF ReuseIsFenced
    <3>1. t # active
      BY <1>1, <1>2 DEF Unmarked, UTypeOK
    <3>2. i \in 1 .. Len(D) /\ Is(D, i, "kernel", t)
      BY <1>4, <1>5, <3>1 DEF Is
    <3>3. ~Unmarked(t)
      BY <1>2 DEF Unmarked
    <3>4. Reusable(C, D, t, recorded[t], i)
      BY <3>2, <3>3 DEF TwoStreams, ReuseIsFenced
    <3> QED
      BY <1>5, <3>4, PushDReusable
  <2> QED
    BY <2>2, <2>3, <2>4 DEF TwoStreams
<1>9. OneStream => OneStream'
  BY <1>2, <1>3, <1>4, <1>5, PushOneStream
<1> QED
  BY <1>2, <1>5, <1>6, <1>7, <1>8, <1>9 DEF UInv, Queued, Achieved

LEMMA MarkStep ==
  ASSUME UInv, Mark
  PROVE  UInv'
<1>1. UTypeOK /\ StreamOK /\ RecordsInOrder /\ CallOK /\ BegunOK
  BY DEF UInv, Queued
<1> DEFINE o == Op("recordDone", active, issued["done"][active] + 1)
<1>2. call.at = "launched" /\ call' = Idle /\ Queues("default", <<o>>)
      /\ recorded' = [recorded EXCEPT ![active] = TRUE] /\ Issue("done", active)
      /\ UNCHANGED <<mode, slot, active, deferred, host, dev, begun, passed>>
  BY DEF Mark, device
<1>3. active \in Slots /\ issued["done"][active] \in Nat
  BY <1>1 DEF UTypeOK, Events
<1>4. o \in Ops /\ Carries(o) /\ o.kind = "recordDone" /\ o.slot = active
      /\ o.x = issued["done"][active] + 1
  BY <1>3 DEF Op, Ops, Carries, Kernelish
<1> HIDE DEF o
<1>5. /\ StreamOK' /\ BegunOK' /\ C' = C /\ D' = D \o <<o>>
      /\ <<o>> \in Seq(Ops) /\ Len(<<o>>) = 1 /\ <<o>>[1] = o
      /\ D \in Seq(Ops) /\ Len(D) \in Nat /\ Len(D') = Len(D) + 1 /\ D'[Len(D) + 1] = o
      /\ \A i \in 1 .. Len(D) : D'[i] = D[i]
  BY <1>1, <1>2, <1>4, PushQueues
<1>6. RecordsInOrder'
  BY <1>1, <1>2, <1>4, <1>5, PushRecords
<1>7. UTypeOK' /\ CallOK' /\ issued'["staged"] = issued["staged"]
  BY <1>1, <1>2, <1>3 DEF UTypeOK, CallOK, Idle, Issue, Events
<1>8. TwoStreams => TwoStreams'
  <2> SUFFICES ASSUME TwoStreams PROVE TwoStreams'
    OBVIOUS
  <2>1. KernelsAreServed'
    BY <1>2, <1>4, <1>5, PushServed DEF TwoStreams
  <2>2. SlotIsFilled' /\ ViewIsFenced'
    BY <1>2, <1>5, <1>7 DEF TwoStreams, SlotIsFilled, ViewIsFenced, Idle
  <2>3. ReuseIsFenced'
    <3> SUFFICES ASSUME NEW t \in Slots, NEW i \in 1 .. Len(D'), Is(D', i, "kernel", t)
                 PROVE  Reusable(C, D \o <<o>>, t, recorded'[t], i)
      BY <1>5 DEF ReuseIsFenced
    <3>1. i \in 1 .. Len(D) /\ Is(D, i, "kernel", t)
      BY <1>4, <1>5 DEF Is
    <3>2. CASE t = active
      <4>1. recorded'[t] = TRUE
        BY <1>1, <1>2, <3>2 DEF UTypeOK
      <4>2. Is(D \o <<o>>, Len(D) + 1, "recordDone", t) /\ Len(D) + 1 \in 1 .. Len(D \o <<o>>)
            /\ i < Len(D) + 1
        BY <1>4, <1>5, <3>1, <3>2 DEF Is
      <4> QED
        BY <4>1, <4>2 DEF Reusable
    <3>3. CASE t # active
      <4>1. ~Unmarked(t) /\ recorded'[t] = recorded[t]
        BY <1>1, <1>2, <3>3 DEF Unmarked, UTypeOK
      <4>2. Reusable(C, D, t, recorded[t], i)
        BY <3>1, <4>1 DEF TwoStreams, ReuseIsFenced
      <4> QED
        BY <1>5, <4>1, <4>2, PushDReusable
    <3> QED
      BY <3>2, <3>3
  <2> QED
    BY <2>1, <2>2, <2>3 DEF TwoStreams
<1>9. OneStream => OneStream'
  BY <1>2, <1>4, <1>5, PushOneStream
<1> QED
  BY <1>2, <1>5, <1>6, <1>7, <1>8, <1>9 DEF UInv, Queued, Achieved

----------------------------------------------------------------------------
(* The theorems.                                                           *)

LEMMA UInvInit == UInit => UInv
<1> SUFFICES ASSUME UInit PROVE UInv
  OBVIOUS
<1>1. C = <<>> /\ D = <<>> /\ stream \in [Streams -> Seq(Ops)]
  BY DEF UInit, C, D, Streams
<1>2. UTypeOK
  BY TurboAssumption DEF UInit, UTypeOK, Streams, Slots, Events, Idle
<1>3. StreamOK /\ BegunOK /\ CallOK
  BY <1>1 DEF UInit, StreamOK, BegunOK, CallOK, Idle, C, D, Streams
<1>4. RecordsInOrder
  BY <1>1 DEF UInit, RecordsInOrder, Ordered, Events
<1>5. TwoStreams
  BY <1>1 DEF UInit, TwoStreams, ReuseIsFenced, SlotIsFilled, ViewIsFenced, KernelsAreServed, Idle
<1>6. OneStream
  BY <1>1 DEF UInit, OneStream
<1> QED
  BY <1>2, <1>3, <1>4, <1>5, <1>6 DEF UInv, Queued, Achieved

\* Either nothing is to be staged, or the block is a block and goes into the idle slot.
LEMMA NothingStaged ==
  ASSUME NEW b, Stage(b), Staged(b)
  PROVE  UNCHANGED <<slot, recorded, host, stream, issued>>
  BY DEF Stage

LEMMA HostStep ==
  ASSUME UInv, Host
  PROVE  UInv'
<1>1. UTypeOK /\ CallOK
  BY DEF UInv, Queued
<1>2. CASE \E b \in Blocks : Prefetch(b)
  <2>1. PICK b \in Blocks : Prefetch(b)
    BY <1>2
  <2>2. Stage(b) /\ UNCHANGED <<mode, active, call, device>> /\ deferred' \in Blocks \cup {NoBlock}
        /\ CallStep
    BY <1>1, <2>1 DEF Prefetch, UTypeOK, CallStep
  <2>3. CASE Staged(b)
    BY <2>2, <2>3, NothingStaged, StillStep
  <2>4. CASE ~Staged(b)
    BY <2>2, <2>4, StageStep
  <2> QED
    BY <2>3, <2>4
<1>3. CASE \E b \in Blocks : Defer(b)
  <2>1. PICK b \in Blocks : Defer(b)
    BY <1>3
  <2> QED
    BY <2>1, StillStep DEF Defer, CallStep
<1>4. CASE \E b \in Blocks : AwaitBlock(b)
  <2>1. PICK b \in Blocks : AwaitBlock(b)
    BY <1>4
  <2>2. /\ UNCHANGED <<mode, slot, active, recorded, host, device, stream, issued>>
        /\ deferred' \in Blocks \cup {NoBlock}
        /\ call.at = "free" /\ call' = [at |-> "dispatch", block |-> b]
    BY <1>1, <2>1 DEF AwaitBlock, loader, UTypeOK
  <2> QED
    BY <2>2, StillStep
<1>5. CASE DispatchPending
  <2>1. CallStep /\ deferred' \in Blocks \cup {NoBlock} /\ UNCHANGED <<mode, active, device>>
        /\ IF deferred = NoBlock THEN UNCHANGED <<slot, recorded, host, stream, issued>>
                                 ELSE Stage(deferred)
    BY <1>5 DEF DispatchPending, CallStep
  <2>2. CASE deferred = NoBlock \/ Staged(deferred)
    BY <2>1, <2>2, NothingStaged, StillStep
  <2>3. CASE deferred # NoBlock /\ ~Staged(deferred)
    <3>1. deferred \in Blocks
      BY <1>1, <2>3 DEF UTypeOK
    <3> QED
      BY <2>1, <2>3, <3>1, StageStep
  <2> QED
    BY <2>2, <2>3
<1>6. CASE Miss
  <2>1. /\ Stage(call.block) /\ ~Staged(call.block) /\ call.block \in Blocks /\ CallStep
        /\ deferred' \in Blocks \cup {NoBlock} /\ UNCHANGED <<mode, active, device>>
    BY <1>1, <1>6 DEF Miss, CallOK, CallStep, UTypeOK
  <2> QED
    BY <2>1, StageStep
<1> QED
  BY <1>2, <1>3, <1>4, <1>5, <1>6, FenceStep, QueueKernelsStep, MarkStep DEF Host

LEMMA UInvNext == UInv /\ [UNext]_uvars => UInv'
<1> SUFFICES ASSUME UInv, [UNext]_uvars PROVE UInv'
  OBVIOUS
<1>1. CASE Host
  BY <1>1, HostStep
<1>2. ASSUME NEW st \in Streams, Record(st) \/ WaitOver(st) \/ BeginOp(st) \/ FinishOp(st)
      PROVE  UInv'
  <2>1. Queued /\ Achieved
    BY DEF UInv
  <2>2. Queued'
    BY <1>2, <2>1, RecordQueued, WaitOverQueued, BeginQueued, FinishQueued
  <2>3. Achieved'
    BY <1>2, <2>1, RecordAchieved, WaitOverAchieved, BeginAchieved, FinishAchieved
  <2> QED
    BY <2>2, <2>3 DEF UInv
<1>3. CASE UNCHANGED uvars
  <2>1. /\ UNCHANGED <<mode, slot, active, recorded, host, device, stream, issued>> /\ CallStep
        /\ deferred' \in Blocks \cup {NoBlock}
    BY <1>3 DEF uvars, loader, CallStep, UInv, Queued, UTypeOK
  <2> QED
    BY <2>1, StillStep
<1> QED
  BY <1>1, <1>2, <1>3 DEF UNext

\* The invariant: the queues hold what they should, and the waits in them are enough.
THEOREM UInvariance == USpec => []UInv
<1>1. UInit => UInv
  BY UInvInit
<1>2. UInv /\ [UNext]_uvars => UInv'
  BY UInvNext
<1> QED
  BY <1>1, <1>2, PTL DEF USpec

\* Every variable of the loader and of the device keeps its type, in every mode.
THEOREM TurboTypes == USpec => []UTypeOK
<1>1. UInv => UTypeOK
  BY DEF UInv, Queued
<1> QED
  BY <1>1, UInvariance, PTL

\* TurboBlockLoader over the pinned store, on either stream: while the kernels of a block
\* run, its slab holds that block and nothing else, however far ahead the host is.
THEOREM KernelsReadWhatTheyAwaited == USpec => [](mode.store => KernelsReadTheirBlock)
<1>1. UInv => (mode.store => KernelsReadTheirBlock)
  <2> SUFFICES ASSUME UInv, mode.store, At("default", {"kernel"})
               PROVE  dev[Oldest("default").slot] = Oldest("default").x
    BY DEF KernelsReadTheirBlock
  <2>1. StreamOK /\ "default" \in Streams
    BY DEF UInv, Queued, Streams
  <2>2. D # <<>> /\ D[1] = Oldest("default") /\ D[1].kind = "kernel"
    BY <2>1, HeadFacts DEF At, D
  <2>3. D \in Seq(Ops) /\ Len(D) \in Nat \ {0} /\ 1 \in 1 .. Len(D)
    BY <2>1, <2>2, QueueFacts, Popped
  <2>4. CASE mode.on = "copy"
    <3>1. Served(C, D, D[1].slot, D[1].x, dev[D[1].slot], 1)
      BY <2>2, <2>3, <2>4 DEF UInv, Achieved, TwoStreams, KernelsAreServed
    <3> QED
      BY <2>2, <3>1 DEF Served
  <2>5. CASE mode.on # "copy"
    <3>1. Last(D, D[1].slot, D[1].x, dev[D[1].slot], 1)
      BY <2>2, <2>3, <2>5 DEF UInv, Achieved, OneStream
    <3> QED
      BY <2>2, <3>1 DEF Last
  <2> QED
    BY <2>4, <2>5
<1> QED
  BY <1>1, UInvariance, PTL
====
