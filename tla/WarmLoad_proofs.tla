--------------------------- MODULE WarmLoad_proofs ---------------------------
(***************************************************************************)
(* Proofs about the page warmer, for any numbers of starts, submissions,   *)
(* readers and files, any size and any budgets.                            *)
(*                                                                         *)
(* Most of the invariant is about one start at a time. That its readers    *)
(* share one budget rests on numbering the reads its work list holds: the  *)
(* f-th file has the reads (f - 1) * Size + 1 .. f * Size, and those up to *)
(* the budget are planned. What is still to be read of them is a set that  *)
(* loses an element with each read.                                        *)
(*                                                                         *)
(* At the end, the types of MCStorage, the run that explores the warmer and*)
(* the job book side by side: they follow from the theorems of the two,    *)
(* which is why this module extends JobBook's proofs.                      *)
(***************************************************************************)
EXTENDS MCStorage, JobBook_proofs

Early(s) == at[s] \in {"new", "token", "spawned"}
HasFile  == {"open", "read", "tell"}

\* Before its thread runs, a start has read nothing.
NotYetOK(s) ==
  Early(s) => /\ warmed[s] = 0 /\ cursor[s] = 0
              /\ \A r \in Readers : rd[s][r] = Gone /\ late[s][r] = 0

\* Where a reader is in its file, and how much of it is planned.
ReaderOK(s, r) ==
  /\ rd[s][r].sum <= warmed[s]
  /\ rd[s][r].at \notin HasFile => rd[s][r].file = 0
  /\ rd[s][r].at \in HasFile => rd[s][r].file \in 1 .. NFiles /\ rd[s][r].file <= cursor[s]
  /\ rd[s][r].at = "open" => rd[s][r].got = 0
  /\ rd[s][r].at = "read" => rd[s][r].got < Limit(s, rd[s][r].file)

\* A reader that made a late read belongs to a superseded start and will make no other.
LateOK(s, r) ==
  late[s][r] # 0 => late[s][r] = 1 /\ ~Current(s) /\ rd[s][r].at \notin {"open", "read"}

\* The cursor passes the end of the list once for each reader that is gone.
GoneReaders(s) == {r \in Readers : rd[s][r].at = "gone"}
CursorOK(s) == cursor[s] <= NFiles + Cardinality(GoneReaders(s))

\* No two readers have the same file.
DistinctOK(s) ==
  \A r, q \in Readers : r # q /\ rd[s][r].file # 0 => rd[s][r].file # rd[s][q].file

\* Planned reads that no reader has made yet: of files nobody has taken, and of the rest
\* of those that are being read.
Holds(s, r, n) == /\ rd[s][r].at \in HasFile
                  /\ (rd[s][r].file - 1) * Size + rd[s][r].got < n /\ n <= rd[s][r].file * Size
Unread(s) == {n \in 1 .. budget[s] : cursor[s] * Size < n \/ \E r \in Readers : Holds(s, r, n)}
BudgetOK(s) == warmed[s] + Cardinality(Unread(s)) <= budget[s]

StartOK(s) ==
  /\ NotYetOK(s) /\ CursorOK(s) /\ DistinctOK(s) /\ BudgetOK(s)
  /\ \A r \in Readers : ReaderOK(s, r) /\ LateOK(s, r)

\* Tokens are taken once each.
TokensOK ==
  /\ \A s \in Starts : at[s] = "new" <=> token[s] = 0
  /\ \A s, t \in Starts : token[s] # 0 /\ token[s] = token[t] => s = t

Taken == {s \in Starts : at[s] # "new"}
Bumped == {c \in Submits : submit[c] # "new"}
CountOK == generation = Cardinality(Taken) + Cardinality(Bumped)

\* A status that says the warm completed was written by the start it names, as its last step.
Complete == {"complete", "budget_complete", "complete_with_errors"}
ReportedOK ==
  status.state \in Complete =>
    \E s \in Starts : at[s] = "over" /\ token[s] # 0 /\ Shown(s) /\ status.bytes = warmed[s]

SharedOK == WTypeOK /\ TokensOK /\ CountOK /\ StatusIsItsOwn /\ ReportedOK

WInv == SharedOK /\ \A s \in Starts : StartOK(s)

----------------------------------------------------------------------------
(* Arithmetic and counting.                                                *)

LEMMA Sized == NFiles \in Nat /\ Size \in Nat \ {0} /\ Planned \in Nat
BY WarmAssumption DEF Planned

\* The reads of one more file.
LEMMA OneMoreFile ==
  ASSUME NEW c \in Nat
  PROVE  c * Size \in Nat /\ (c + 1) * Size = c * Size + Size
BY Sized

\* The reads of a file are before those of a later file.
LEMMA FilesInOrder ==
  ASSUME NEW f \in Nat, NEW g \in Nat, f <= g
  PROVE  f * Size <= g * Size
<1>1. PICK d \in Nat : g = f + d
  <2>1. g - f \in Nat /\ g = f + (g - f)
    OBVIOUS
  <2> QED
    BY <2>1
<1>2. g * Size = f * Size + d * Size
  BY <1>1, Sized
<1>3. f * Size \in Nat /\ d * Size \in Nat
  BY Sized
<1> QED
  BY <1>2, <1>3

\* A file that somebody has, numbered from 1: its reads end Size after those of the one before.
LEMMA FileReads ==
  ASSUME NEW f \in Nat \ {0}
  PROVE  (f - 1) * Size \in Nat /\ f * Size = (f - 1) * Size + Size
<1>1. f - 1 \in Nat /\ f = (f - 1) + 1
  OBVIOUS
<1> QED
  BY <1>1, OneMoreFile

LEMMA MinOfTwo ==
  ASSUME NEW a \in Int, NEW b \in Int
  PROVE  Min({a, b}) \in {a, b} /\ Min({a, b}) <= a /\ Min({a, b}) <= b
<1>1. a <= b \/ b <= a
  OBVIOUS
<1>2. a <= a /\ b <= b
  OBVIOUS
<1>3. \E x \in {a, b} : \A y \in {a, b} : x <= y
  BY <1>1, <1>2
<1> QED
  BY <1>3 DEF Min

LEMMA MaxOfTwo ==
  ASSUME NEW a \in Int, NEW b \in Int
  PROVE  Max({a, b}) \in {a, b} /\ Max({a, b}) >= a /\ Max({a, b}) >= b
<1>1. \E x \in {a, b} : \A y \in {a, b} : x >= y
  OBVIOUS
<1> QED
  BY <1>1 DEF Max

\* A planned read lies in its file and within the budget.
LEMMA PlannedReads ==
  ASSUME NEW s \in Starts, NEW f \in 1 .. NFiles, NEW got \in Nat, budget[s] \in Nat,
         got < Limit(s, f)
  PROVE  got < Size /\ (f - 1) * Size + got < budget[s]
<1>1. f \in Nat \ {0} /\ (f - 1) * Size \in Nat
  BY Sized, FileReads
<1>2. 0 \in Int /\ budget[s] - (f - 1) * Size \in Int
  BY <1>1
<1> DEFINE left == Max({0, budget[s] - (f - 1) * Size})
<1>3. left \in {0, budget[s] - (f - 1) * Size} /\ left \in Int
  BY <1>2, MaxOfTwo
<1>4. Limit(s, f) = Min({Size, left}) /\ Size \in Int
  BY Sized DEF Limit
<1> HIDE DEF left
<1>5. Limit(s, f) <= Size /\ Limit(s, f) <= left /\ Limit(s, f) \in Int
  BY <1>3, <1>4, MinOfTwo
<1> QED
  BY <1>1, <1>2, <1>3, <1>5, Sized

\* The work list is no longer than the files.
LEMMA ListIsShort ==
  ASSUME NEW s \in Starts
  PROVE  Listed(s) \in 0 .. NFiles
<1>1. IsFiniteSet(1 .. NFiles) /\ Cardinality(1 .. NFiles) = NFiles
  BY Sized, FS_Interval
<1>2. {f \in 1 .. NFiles : (f - 1) * Size < budget[s]} \subseteq 1 .. NFiles
  OBVIOUS
<1> QED
  BY <1>1, <1>2, FS_Subset, FS_CardinalityType, Sized DEF Listed

\* The reads within a budget are as many as the budget.
LEMMA ReadsOfBudget ==
  ASSUME NEW b \in Nat, NEW S \in SUBSET (1 .. b)
  PROVE  IsFiniteSet(S) /\ Cardinality(S) \in 0 .. b
<1>1. IsFiniteSet(1 .. b) /\ Cardinality(1 .. b) = b
  BY FS_Interval
<1>2. IsFiniteSet(S) /\ Cardinality(S) <= b
  BY <1>1, FS_Subset
<1> QED
  BY <1>2, FS_CardinalityType

----------------------------------------------------------------------------
(* One start.                                                              *)

\* The type of what a start has, without its bounds.
LEMMA Typed ==
  ASSUME WTypeOK, NEW s \in Starts
  PROVE  /\ generation \in Nat /\ token[s] \in 0 .. generation
         /\ budget[s] \in 0 .. Planned /\ cursor[s] \in Nat /\ warmed[s] \in 0 .. Planned
         /\ rd[s] \in [Readers -> ReaderStates] /\ late[s] \in [Readers -> Nat]
         /\ \A r \in Readers : /\ rd[s][r].file \in 0 .. NFiles /\ rd[s][r].got \in 0 .. Size
                               /\ rd[s][r].sum \in 0 .. Planned
<1>1. IsFiniteSet(Starts) /\ IsFiniteSet(Submits) /\ IsFiniteSet(Readers)
  BY WarmAssumption
<1>2. Cardinality(Starts) \in Nat /\ Cardinality(Submits) \in Nat /\ Cardinality(Readers) \in Nat
  BY <1>1, FS_CardinalityType
<1>3. {0} \cup Budgets \subseteq 0 .. Planned
  BY WarmAssumption, Sized DEF Planned
<1> QED
  BY <1>2, <1>3, Sized DEF WTypeOK, ReaderStates

\* What no step of another start or of a submission disturbs. A start that is superseded
\* remains so.
LEMMA OtherStart ==
  ASSUME NEW s \in Starts, StartOK(s),
         cursor'[s] = cursor[s], warmed'[s] = warmed[s], budget'[s] = budget[s],
         rd'[s] = rd[s], late'[s] = late[s],
         Early(s)' => Early(s), ~Current(s) => ~Current(s)'
  PROVE  StartOK(s)'
<1>1. NotYetOK(s)' /\ CursorOK(s)' /\ DistinctOK(s)'
  BY DEF StartOK, NotYetOK, CursorOK, DistinctOK, GoneReaders
<1>2. BudgetOK(s)'
  BY DEF StartOK, BudgetOK, Unread, Holds
<1>3. \A r \in Readers : ReaderOK(s, r)' /\ LateOK(s, r)'
  BY DEF StartOK, ReaderOK, LateOK, Limit
<1> QED
  BY <1>1, <1>2, <1>3 DEF StartOK

\* A superseded start stays superseded until it has a token: the counter only grows.
LEMMA StaysSuperseded ==
  ASSUME WTypeOK, NEW s \in Starts, token'[s] = token[s], generation' \in {generation, generation + 1}
  PROVE  ~Current(s) => ~Current(s)'
BY Typed DEF Current

\* Removing planned reads keeps a start within its budget.
LEMMA FewerUnread ==
  ASSUME WTypeOK, NEW s \in Starts, BudgetOK(s), warmed'[s] = warmed[s], budget'[s] = budget[s],
         Unread(s)' \subseteq Unread(s)
  PROVE  BudgetOK(s)'
<1>1. budget[s] \in Nat /\ warmed[s] \in Nat
  BY Typed, Sized
<1>2. Unread(s) \in SUBSET (1 .. budget[s])
  BY DEF Unread
<1>3. IsFiniteSet(Unread(s)) /\ Cardinality(Unread(s)) \in Nat
  BY <1>1, <1>2, ReadsOfBudget
<1>4. Unread(s)' \in SUBSET (1 .. budget[s])
  BY <1>2
<1>5. Cardinality(Unread(s)') \in Nat
  BY <1>1, <1>4, ReadsOfBudget
<1>6. Cardinality(Unread(s)') <= Cardinality(Unread(s))
  BY <1>3, FS_Subset
<1> QED
  BY <1>1, <1>3, <1>5, <1>6 DEF BudgetOK

\* A reader gives its file up, goes, or goes on with the next read of its file; what it
\* was to read then nobody will. All other steps of readers but Read and the taking of
\* a file are of this kind.
GoesOn(s, r, x) ==
  \/ x \in {AtTop, Gone}
  \/ /\ x = [at |-> "read", file |-> rd[s][r].file, got |-> rd[s][r].got, sum |-> 0]
     /\ rd[s][r].at \in HasFile /\ Current(s) /\ rd[s][r].got < Limit(s, rd[s][r].file)

LEMMA ReaderMoves ==
  ASSUME WTypeOK, NEW s \in Starts, NEW r \in Readers, StartOK(s),
         at[s] = "reading", at' = at, rd[s][r].at # "gone",
         NEW x, GoesOn(s, r, x), rd' = [rd EXCEPT ![s][r] = x],
         UNCHANGED <<generation, token, budget, cursor, warmed, late>>
  PROVE  StartOK(s)'
<1> DEFINE y == rd[s][r]
<1>1. /\ rd'[s][r] = x /\ \A q \in Readers \ {r} : rd'[s][q] = rd[s][q]
      /\ x.file \in {0, y.file} /\ x.got \in Nat /\ x.sum = 0
      /\ x.at \in {"gone", "top", "read"} /\ (x.at # "read" => x.file = 0)
      /\ (x.at = "read" => x.file = y.file /\ x.got = y.got /\ y.at \in HasFile
                           /\ Current(s) /\ x.got < Limit(s, x.file))
  BY Typed DEF GoesOn, AtTop, Gone, WTypeOK
<1>2. NotYetOK(s)'
  BY DEF NotYetOK, Early
<1>3. CursorOK(s)'
  <2>1. GoneReaders(s) \subseteq GoneReaders(s)' /\ GoneReaders(s)' \subseteq Readers
    BY <1>1 DEF GoneReaders
  <2>2. IsFiniteSet(GoneReaders(s)') /\ IsFiniteSet(GoneReaders(s))
    BY <2>1, WarmAssumption, FS_Subset
  <2>3. Cardinality(GoneReaders(s)) <= Cardinality(GoneReaders(s)')
    BY <2>1, <2>2, FS_Subset
  <2>4. Cardinality(GoneReaders(s)) \in Nat /\ Cardinality(GoneReaders(s)') \in Nat
    BY <2>2, FS_CardinalityType
  <2>5. cursor'[s] = cursor[s] /\ cursor[s] \in Nat
    BY Typed
  <2> QED
    BY <2>3, <2>4, <2>5, Sized DEF CursorOK, StartOK
<1>4. DistinctOK(s)'
  BY <1>1 DEF DistinctOK, StartOK
<1>5. BudgetOK(s)'
  <2>1. \A n : Holds(s, r, n)' => Holds(s, r, n)
    BY <1>1 DEF Holds, HasFile
  <2>2. \A q \in Readers \ {r} : \A n : Holds(s, q, n)' => Holds(s, q, n)
    BY <1>1 DEF Holds
  <2>3. Unread(s)' \subseteq Unread(s)
    BY <2>1, <2>2 DEF Unread
  <2> QED
    BY <2>3, FewerUnread DEF StartOK
<1>6. ASSUME NEW q \in Readers PROVE ReaderOK(s, q)' /\ LateOK(s, q)'
  <2>1. ReaderOK(s, q) /\ LateOK(s, q) /\ ReaderOK(s, r) /\ LateOK(s, r)
    BY DEF StartOK
  <2>2. \A f : Limit(s, f)' = Limit(s, f)
    BY DEF Limit
  <2>3. warmed'[s] = warmed[s] /\ warmed[s] \in Nat /\ (Current(s)' <=> Current(s))
    BY Typed, Sized DEF Current
  <2>4. CASE q = r
    <3>1. ReaderOK(s, q)'
      BY <1>1, <2>1, <2>2, <2>3, <2>4 DEF ReaderOK, HasFile
    <3>2. LateOK(s, q)'
      BY <1>1, <2>1, <2>3, <2>4 DEF LateOK, HasFile
    <3> QED
      BY <3>1, <3>2
  <2>5. CASE q # r
    BY <1>1, <2>1, <2>2, <2>3, <2>5 DEF ReaderOK, LateOK
  <2> QED
    BY <2>4, <2>5
<1> QED
  BY <1>2, <1>3, <1>4, <1>5, <1>6 DEF StartOK

\* A start takes its token: it has read nothing, so its plan is its whole budget.
LEMMA TokenTaken ==
  ASSUME WTypeOK, NEW s \in Starts, StartOK(s), TakeToken(s)
  PROVE  StartOK(s)'
<1>1. /\ Early(s) /\ Early(s)' /\ budget'[s] \in Budgets
      /\ UNCHANGED <<cursor, warmed, rd, late>>
  BY DEF TakeToken, Early, WTypeOK
<1>2. /\ warmed[s] = 0 /\ cursor[s] = 0
      /\ \A r \in Readers : rd[s][r] = Gone /\ late[s][r] = 0
  BY <1>1 DEF StartOK, NotYetOK
<1>3. NotYetOK(s)' /\ CursorOK(s)'
  BY <1>1, <1>2 DEF NotYetOK, CursorOK, GoneReaders, StartOK
<1>4. DistinctOK(s)'
  BY <1>1, <1>2 DEF DistinctOK, Gone
<1>5. BudgetOK(s)'
  <2>1. Budgets \subseteq 0 .. Planned
    BY WarmAssumption DEF Planned
  <2>2. budget'[s] \in Nat
    <3>1. budget'[s] \in 0 .. Planned
      BY <1>1, <2>1
    <3> QED
      BY <3>1, Sized
  <2>3. Unread(s)' \in SUBSET (1 .. budget'[s])
    BY DEF Unread
  <2>4. Cardinality(Unread(s)') \in 0 .. budget'[s]
    BY <2>2, <2>3, ReadsOfBudget
  <2>5. warmed'[s] = 0
    BY <1>1, <1>2
  <2> QED
    BY <2>2, <2>4, <2>5 DEF BudgetOK
<1>6. \A r \in Readers : ReaderOK(s, r)' /\ LateOK(s, r)'
  BY <1>1, <1>2 DEF ReaderOK, LateOK, Gone, HasFile
<1> QED
  BY <1>3, <1>4, <1>5, <1>6 DEF StartOK

\* Its readers start: each at the top of its loop, with no file.
LEMMA ReadersStart ==
  ASSUME WTypeOK, NEW s \in Starts, StartOK(s), Begin(s)
  PROVE  StartOK(s)'
<1>1. /\ Early(s) /\ ~Early(s)' /\ rd'[s] = [r \in Readers |-> AtTop]
      /\ UNCHANGED <<cursor, warmed, budget, late>>
  BY DEF Begin, Early, WTypeOK
<1>2. /\ warmed[s] = 0 /\ cursor[s] = 0
      /\ \A r \in Readers : rd[s][r] = Gone /\ late[s][r] = 0
  BY <1>1 DEF StartOK, NotYetOK
<1>3. \A r \in Readers : rd'[s][r] = AtTop /\ late'[s][r] = 0
  BY <1>1, <1>2
<1>4. CursorOK(s)'
  <2>1. GoneReaders(s)' \subseteq Readers
    BY DEF GoneReaders
  <2>2. IsFiniteSet(GoneReaders(s)')
    BY <2>1, WarmAssumption, FS_Subset
  <2>3. Cardinality(GoneReaders(s)') \in Nat
    BY <2>2, FS_CardinalityType
  <2>4. cursor'[s] = 0
    BY <1>1, <1>2
  <2> QED
    BY <2>3, <2>4, Sized DEF CursorOK
<1>5. DistinctOK(s)'
  BY <1>3 DEF DistinctOK, AtTop, Gone
<1>6. BudgetOK(s)'
  <2>1. \A r \in Readers : \A n : ~Holds(s, r, n)'
    BY <1>3 DEF Holds, HasFile, AtTop, Gone
  <2>2. Unread(s)' \subseteq Unread(s)
    BY <1>1, <2>1 DEF Unread
  <2> QED
    BY <1>1, <2>2, FewerUnread DEF StartOK
<1>7. \A r \in Readers : ReaderOK(s, r)' /\ LateOK(s, r)'
  BY <1>1, <1>2, <1>3 DEF ReaderOK, LateOK, AtTop, Gone, HasFile
<1> QED
  BY <1>1, <1>4, <1>5, <1>6, <1>7 DEF StartOK, NotYetOK

\* A reader takes the next file: its reads stay to be made, by this reader and no other.
LEMMA FileTaken ==
  ASSUME WTypeOK, NEW s \in Starts, NEW r \in Readers, StartOK(s), TakeFile(s, r),
         Current(s), cursor[s] < Listed(s)
  PROVE  StartOK(s)'
<1> DEFINE c == cursor[s]
<1>1. c \in Nat /\ Listed(s) \in 0 .. NFiles /\ c + 1 \in 1 .. NFiles /\ cursor'[s] = c + 1
  BY Typed, ListIsShort, Sized DEF TakeFile, WTypeOK
<1>2. /\ rd'[s][r] = [at |-> "open", file |-> c + 1, got |-> 0, sum |-> 0]
      /\ \A q \in Readers \ {r} : rd'[s][q] = rd[s][q]
      /\ rd[s][r].at = "top" /\ at[s] = "reading" /\ at' = at
      /\ UNCHANGED <<generation, token, budget, warmed, late>>
  BY Typed DEF TakeFile, Reader, WTypeOK
<1>3. \A q \in Readers : ReaderOK(s, q) /\ LateOK(s, q) /\ rd[s][q].file \in 0 .. c
  <2> SUFFICES ASSUME NEW q \in Readers PROVE ReaderOK(s, q) /\ LateOK(s, q) /\ rd[s][q].file \in 0 .. c
    OBVIOUS
  <2>1. rd[s][q].file \in Nat
    BY Typed, Sized
  <2> QED
    BY <1>1, <2>1 DEF StartOK, ReaderOK
<1>4. NotYetOK(s)'
  BY <1>2 DEF NotYetOK, Early
<1>5. CursorOK(s)'
  <2>1. GoneReaders(s)' \subseteq Readers
    BY DEF GoneReaders
  <2>2. IsFiniteSet(GoneReaders(s)')
    BY <2>1, WarmAssumption, FS_Subset
  <2>3. Cardinality(GoneReaders(s)') \in Nat
    BY <2>2, FS_CardinalityType
  <2> QED
    BY <1>1, <2>3, Sized DEF CursorOK
<1>6. DistinctOK(s)'
  <2> SUFFICES ASSUME NEW p \in Readers, NEW q \in Readers, p # q, rd'[s][p].file # 0
               PROVE  rd'[s][p].file # rd'[s][q].file
    BY DEF DistinctOK
  <2>1. rd'[s][r].file = c + 1
    BY <1>2
  <2>2. \A u \in Readers \ {r} : rd'[s][u].file = rd[s][u].file /\ rd[s][u].file \in 0 .. c
    BY <1>2, <1>3
  <2>3. CASE p = r \/ q = r
    BY <1>1, <2>1, <2>2, <2>3
  <2>4. CASE p # r /\ q # r
    BY <2>2, <2>4 DEF StartOK, DistinctOK
  <2> QED
    BY <2>3, <2>4
<1>7. BudgetOK(s)'
  <2>1. c * Size \in Nat /\ (c + 1) * Size = c * Size + Size /\ (c + 1) - 1 = c
    BY <1>1, OneMoreFile
  <2>2. \A n \in Nat : Holds(s, r, n)' => c * Size < n
    BY <1>1, <1>2, <2>1 DEF Holds
  <2>3. \A q \in Readers \ {r} : \A n : Holds(s, q, n)' => Holds(s, q, n)
    BY <1>2 DEF Holds
  <2>4. \A n \in Nat : cursor'[s] * Size < n => c * Size < n
    BY <1>1, <2>1, Sized
  <2>5. budget'[s] = budget[s] /\ \A n \in 1 .. budget[s] : n \in Nat
    BY <1>2
  <2>6. Unread(s)' \subseteq Unread(s)
    BY <2>2, <2>3, <2>4, <2>5 DEF Unread
  <2> QED
    BY <1>2, <2>6, FewerUnread DEF StartOK
<1>8. ASSUME NEW q \in Readers PROVE ReaderOK(s, q)' /\ LateOK(s, q)'
  <2>1. \A f : Limit(s, f)' = Limit(s, f)
    BY <1>2 DEF Limit
  <2>2. warmed'[s] = warmed[s] /\ warmed[s] \in Nat /\ (Current(s)' <=> Current(s))
    BY <1>2, Typed, Sized DEF Current
  <2>3. CASE q = r
    BY <1>1, <1>2, <1>3, <2>2, <2>3 DEF ReaderOK, LateOK, HasFile
  <2>4. CASE q # r
    BY <1>1, <1>2, <1>3, <2>1, <2>2, <2>4 DEF ReaderOK, LateOK
  <2> QED
    BY <2>3, <2>4
<1> QED
  BY <1>4, <1>5, <1>6, <1>7, <1>8 DEF StartOK

\* A reader goes because the list is at its end: the cursor has been advanced for it in vain.
LEMMA ListAtEnd ==
  ASSUME WTypeOK, NEW s \in Starts, NEW r \in Readers, StartOK(s), TakeFile(s, r),
         Current(s), ~(cursor[s] < Listed(s))
  PROVE  StartOK(s)'
<1> DEFINE c == cursor[s]
<1>1. c \in Nat /\ cursor'[s] = c + 1
  BY Typed DEF TakeFile, WTypeOK
<1>2. /\ rd'[s][r] = Gone /\ \A q \in Readers \ {r} : rd'[s][q] = rd[s][q]
      /\ rd[s][r].at = "top" /\ at[s] = "reading" /\ at' = at
      /\ UNCHANGED <<generation, token, budget, warmed, late>>
  BY Typed DEF TakeFile, Reader, WTypeOK
<1>3. \A q \in Readers : ReaderOK(s, q) /\ LateOK(s, q)
  BY DEF StartOK
<1>4. NotYetOK(s)'
  BY <1>2 DEF NotYetOK, Early
<1>5. CursorOK(s)'
  <2>1. GoneReaders(s)' = GoneReaders(s) \cup {r} /\ r \notin GoneReaders(s)
    BY <1>2 DEF GoneReaders, Gone
  <2>2. GoneReaders(s) \subseteq Readers
    BY DEF GoneReaders
  <2>3. IsFiniteSet(GoneReaders(s))
    BY <2>2, WarmAssumption, FS_Subset
  <2>4. Cardinality(GoneReaders(s) \cup {r}) = Cardinality(GoneReaders(s)) + 1
    BY <2>1, <2>3, FS_AddElement
  <2>5. Cardinality(GoneReaders(s)) \in Nat
    BY <2>3, FS_CardinalityType
  <2>6. Cardinality(GoneReaders(s)') = Cardinality(GoneReaders(s)) + 1
    BY <2>1, <2>4
  <2> QED
    BY <1>1, <2>5, <2>6, Sized DEF CursorOK, StartOK
<1>6. DistinctOK(s)'
  BY <1>2 DEF DistinctOK, StartOK, Gone
<1>7. BudgetOK(s)'
  <2>1. c * Size \in Nat /\ (c + 1) * Size = c * Size + Size
    BY <1>1, OneMoreFile
  <2>2. \A n \in Nat : ~Holds(s, r, n)'
    BY <1>2 DEF Holds, Gone, HasFile
  <2>3. \A q \in Readers \ {r} : \A n : Holds(s, q, n)' => Holds(s, q, n)
    BY <1>2 DEF Holds
  <2>4. \A n \in Nat : cursor'[s] * Size < n => c * Size < n
    BY <1>1, <2>1, Sized
  <2>5. budget'[s] = budget[s] /\ \A n \in 1 .. budget[s] : n \in Nat
    BY <1>2
  <2>6. Unread(s)' \subseteq Unread(s)
    BY <2>2, <2>3, <2>4, <2>5 DEF Unread
  <2> QED
    BY <1>2, <2>6, FewerUnread DEF StartOK
<1>8. ASSUME NEW q \in Readers PROVE ReaderOK(s, q)' /\ LateOK(s, q)'
  <2>1. \A f : Limit(s, f)' = Limit(s, f)
    BY <1>2 DEF Limit
  <2>2. warmed'[s] = warmed[s] /\ warmed[s] \in Nat /\ (Current(s)' <=> Current(s))
    BY <1>2, Typed, Sized DEF Current
  <2>3. CASE q = r
    BY <1>2, <1>3, <2>2, <2>3 DEF ReaderOK, LateOK, HasFile, Gone
  <2>4. CASE q # r
    <3>1. rd'[s][q] = rd[s][q] /\ rd[s][q].file \in Nat
      BY <1>2, <2>4, Typed, Sized
    <3> QED
      BY <1>1, <1>2, <1>3, <2>1, <2>2, <3>1 DEF ReaderOK, LateOK
  <2> QED
    BY <2>3, <2>4
<1> QED
  BY <1>4, <1>5, <1>6, <1>7, <1>8 DEF StartOK

\* A read that is made is one of the planned reads nobody had made, and of no other reader.
LEMMA NextIsUnread ==
  ASSUME WTypeOK, NEW s \in Starts, NEW r \in Readers, StartOK(s), rd[s][r].at = "read"
  PROVE  LET n == (rd[s][r].file - 1) * Size + rd[s][r].got + 1
         IN  /\ n \in Unread(s) /\ n \in Nat /\ rd[s][r].got + 1 \in 1 .. Size
             /\ n <= cursor[s] * Size
             /\ \A q \in Readers \ {r} : ~Holds(s, q, n)
<1> DEFINE f == rd[s][r].file
           g == rd[s][r].got
           n == (f - 1) * Size + g + 1
<1>1. f \in 1 .. NFiles /\ f <= cursor[s] /\ g < Limit(s, f)
  BY DEF StartOK, ReaderOK, HasFile
<1>2. g \in Nat /\ budget[s] \in Nat /\ cursor[s] \in Nat
  BY Typed, Sized
<1>3. g < Size /\ (f - 1) * Size + g < budget[s]
  BY <1>1, <1>2, PlannedReads
<1>4. (f - 1) * Size \in Nat /\ f * Size = (f - 1) * Size + Size /\ f \in Nat \ {0}
  BY <1>1, FileReads, Sized
<1>5. n \in 1 .. budget[s] /\ n \in Nat /\ (f - 1) * Size + g < n /\ n <= f * Size
  BY <1>2, <1>3, <1>4, Sized
<1>6. Holds(s, r, n)
  BY <1>5 DEF Holds, HasFile
<1>7. n <= cursor[s] * Size
  <2>1. f * Size <= cursor[s] * Size
    BY <1>1, <1>2, <1>4, FilesInOrder
  <2>2. f * Size \in Nat /\ cursor[s] * Size \in Nat
    BY <1>2, <1>4, Sized
  <2> QED
    BY <1>5, <2>1, <2>2
<1>8. ASSUME NEW q \in Readers \ {r}, Holds(s, q, n) PROVE FALSE
  <2> DEFINE h == rd[s][q].file
             k == rd[s][q].got
  <2>1. rd[s][q].at \in HasFile /\ h \in 1 .. NFiles
    BY <1>8 DEF StartOK, ReaderOK, Holds
  <2>2. h # f
    BY <1>1, <1>8, Sized DEF StartOK, DistinctOK
  <2>3. h \in Nat \ {0} /\ (h - 1) * Size \in Nat /\ h * Size = (h - 1) * Size + Size /\ k \in Nat
    <3>1. h \in Nat \ {0}
      BY <2>1, Sized
    <3>2. k \in Nat
      BY Typed, Sized
    <3> QED
      BY <3>1, <3>2, FileReads
  <2>4. (h - 1) * Size + k < n /\ n <= h * Size
    BY <1>8 DEF Holds
  <2>5. CASE h < f
    <3>1. h * Size <= (f - 1) * Size
      BY <1>4, <2>3, <2>5, FilesInOrder
    <3> HIDE DEF f, g, h, k
    <3> QED
      BY <1>2, <1>4, <2>3, <2>4, <3>1, Sized DEF n
  <2>6. CASE f < h
    <3>1. f * Size <= (h - 1) * Size
      BY <1>4, <2>3, <2>6, FilesInOrder
    <3> HIDE DEF f, g, h, k
    <3> QED
      BY <1>4, <1>5, <2>3, <2>4, <3>1, Sized
  <2> QED
    BY <1>4, <2>2, <2>3, <2>5, <2>6
<1> QED
  BY <1>2, <1>3, <1>5, <1>6, <1>7, <1>8, Sized DEF Unread

\* The read that succeeded, counted.
Reads(s, r) ==
  /\ warmed' = [warmed EXCEPT ![s] = @ + 1]
  /\ rd' = [rd EXCEPT ![s][r].at = "tell", ![s][r].got = @ + 1, ![s][r].sum = warmed[s] + 1]
  /\ late' = IF Current(s) THEN late ELSE [late EXCEPT ![s][r] = @ + 1]

LEMMA ReadMade ==
  ASSUME WTypeOK, NEW s \in Starts, NEW r \in Readers, StartOK(s), Reader(s, r, "read"), Reads(s, r),
         UNCHANGED <<generation, at, token, budget, cursor>>
  PROVE  StartOK(s)' /\ warmed[s] + 1 <= budget[s]
<1> DEFINE y == rd[s][r]
           n == (y.file - 1) * Size + y.got + 1
<1>1. /\ n \in Unread(s) /\ n \in Nat /\ y.got + 1 \in 1 .. Size
      /\ n <= cursor[s] * Size /\ \A q \in Readers \ {r} : ~Holds(s, q, n)
  BY NextIsUnread DEF Reader
<1>2. /\ rd'[s][r].at = "tell" /\ rd'[s][r].file = y.file /\ rd'[s][r].got = y.got + 1
      /\ rd'[s][r].sum = warmed[s] + 1
      /\ \A q \in Readers \ {r} : rd'[s][q] = rd[s][q]
      /\ y.at = "read" /\ at[s] = "reading" /\ warmed'[s] = warmed[s] + 1
  BY Typed DEF Reads, Reader, WTypeOK
<1>3. warmed[s] \in Nat /\ budget[s] \in Nat /\ cursor[s] \in Nat /\ y.got \in Nat
  BY Typed, Sized
<1>4. \A q \in Readers : ReaderOK(s, q) /\ LateOK(s, q)
  BY DEF StartOK
<1>5. IsFiniteSet(Unread(s)) /\ Cardinality(Unread(s)) \in Nat
  <2>1. Unread(s) \in SUBSET (1 .. budget[s])
    BY DEF Unread
  <2> QED
    BY <1>3, <2>1, ReadsOfBudget
<1>6. Cardinality(Unread(s) \ {n}) = Cardinality(Unread(s)) - 1
      /\ IsFiniteSet(Unread(s) \ {n}) /\ Cardinality(Unread(s) \ {n}) \in Nat
  BY <1>1, <1>5, FS_RemoveElement, FS_CardinalityType
<1>7. BudgetOK(s)'
  <2>1. Unread(s)' \subseteq Unread(s) \ {n}
    <3> SUFFICES ASSUME NEW m \in Unread(s)' PROVE m \in Unread(s) /\ m # n
      OBVIOUS
    <3>1. m \in 1 .. budget[s] /\ m \in Nat
      BY DEF Unread
    <3>2. cursor[s] * Size < m \/ \E q \in Readers : Holds(s, q, m)'
      BY DEF Unread
    <3>3. CASE cursor[s] * Size < m
      <4>1. cursor[s] * Size \in Nat
        BY <1>3, Sized
      <4> QED
        BY <1>1, <3>1, <3>3, <4>1 DEF Unread
    <3>4. CASE Holds(s, r, m)'
      <4>1. (y.file - 1) * Size + (y.got + 1) < m /\ m <= y.file * Size
        BY <1>2, <3>4 DEF Holds
      <4>2. y.file \in Nat \ {0}
        BY <1>2, <1>4, Sized DEF ReaderOK, HasFile
      <4>3. (y.file - 1) * Size \in Nat
        BY <4>2, FileReads
      <4>4. (y.file - 1) * Size + y.got < m /\ m # n
        BY <1>3, <3>1, <4>1, <4>3
      <4>5. Holds(s, r, m)
        BY <1>2, <4>1, <4>4 DEF Holds, HasFile
      <4> QED
        BY <3>1, <4>4, <4>5 DEF Unread
    <3>5. ASSUME NEW q \in Readers \ {r}, Holds(s, q, m)' PROVE m \in Unread(s) /\ m # n
      <4>1. Holds(s, q, m)
        BY <1>2, <3>5 DEF Holds
      <4> QED
        BY <1>1, <3>1, <4>1 DEF Unread
    <3> QED
      BY <3>2, <3>3, <3>4, <3>5
  <2>2. Cardinality(Unread(s)') <= Cardinality(Unread(s) \ {n}) /\ IsFiniteSet(Unread(s)')
    BY <1>6, <2>1, FS_Subset
  <2>3. Cardinality(Unread(s)') \in Nat
    BY <2>2, FS_CardinalityType
  <2>4. warmed[s] + Cardinality(Unread(s)) <= budget[s] /\ budget'[s] = budget[s]
    BY DEF StartOK, BudgetOK
  <2> HIDE DEF n
  <2> QED
    BY <1>2, <1>3, <1>5, <1>6, <2>2, <2>3, <2>4 DEF BudgetOK
<1>8. warmed[s] + 1 <= budget[s]
  <2>1. warmed[s] + Cardinality(Unread(s)) <= budget[s]
    BY DEF StartOK, BudgetOK
  <2> HIDE DEF n
  <2> QED
    BY <1>3, <1>5, <1>6, <2>1
<1>9. NotYetOK(s)' /\ CursorOK(s)' /\ DistinctOK(s)'
  <2>1. GoneReaders(s)' = GoneReaders(s)
    BY <1>2 DEF GoneReaders
  <2> QED
    BY <1>2, <2>1 DEF NotYetOK, Early, CursorOK, DistinctOK, StartOK
<1>10. ASSUME NEW q \in Readers PROVE ReaderOK(s, q)' /\ LateOK(s, q)'
  <2>1. (\A f : Limit(s, f)' = Limit(s, f)) /\ (Current(s)' <=> Current(s))
    BY DEF Limit, Current
  <2>2. CASE q = r
    <3>1. ReaderOK(s, q)'
      BY <1>2, <1>3, <1>4, <2>2 DEF ReaderOK, HasFile
    <3>2. late[s][r] = 0
      BY <1>2, <1>4 DEF LateOK
    <3>3. late'[s][r] = IF Current(s) THEN 0 ELSE 1
      BY <3>2, Typed DEF Reads, WTypeOK
    <3>4. LateOK(s, q)'
      BY <1>2, <2>1, <2>2, <3>3 DEF LateOK
    <3> QED
      BY <3>1, <3>4
  <2>3. CASE q # r
    <3>1. late'[s][q] = late[s][q]
      BY <2>3, Typed DEF Reads, WTypeOK
    <3>2. LateOK(s, q)'
      BY <1>2, <1>4, <2>1, <2>3, <3>1 DEF LateOK
    <3>3. rd[s][q].sum \in Nat /\ rd'[s][q] = rd[s][q]
      BY <1>2, <2>3, Typed, Sized
    <3>4. ReaderOK(s, q)'
      BY <1>2, <1>3, <1>4, <2>1, <3>3 DEF ReaderOK
    <3> QED
      BY <3>2, <3>4
  <2> QED
    BY <2>2, <2>3
<1> QED
  BY <1>7, <1>8, <1>9, <1>10 DEF StartOK

----------------------------------------------------------------------------
(* All starts, step by step.                                               *)

\* What a step leaves of a start it is not about.
Untouched(t) ==
  /\ cursor'[t] = cursor[t] /\ warmed'[t] = warmed[t] /\ budget'[t] = budget[t]
  /\ rd'[t] = rd[t] /\ late'[t] = late[t] /\ token'[t] = token[t]
  /\ generation' \in {generation, generation + 1}
  /\ (Early(t)' => Early(t))

LEMMA UntouchedStart ==
  ASSUME WTypeOK, NEW t \in Starts, StartOK(t), Untouched(t)
  PROVE  StartOK(t)'
BY StaysSuperseded, OtherStart DEF Untouched

\* Before its thread reads, and when it ends.
LEMMA ThreadEdges ==
  ASSUME WTypeOK, NEW s \in Starts, NEW t \in Starts, StartOK(t),
         TakeToken(s) \/ Announce(s) \/ SpawnFails(s) \/ Begin(s) \/ Join(s) \/ Report(s)
  PROVE  StartOK(t)'
<1>1. CASE TakeToken(s)
  <2>1. CASE t = s
    BY <1>1, <2>1, TokenTaken
  <2>2. CASE t # s
    <3>1. Untouched(t)
      BY <1>1, <2>2 DEF TakeToken, Untouched, Early, WTypeOK
    <3> QED
      BY <3>1, UntouchedStart
  <2> QED
    BY <2>1, <2>2
<1>2. CASE Announce(s)
  <2>1. Untouched(t)
    BY <1>2 DEF Announce, Untouched, Early, WTypeOK
  <2> QED
    BY <2>1, UntouchedStart
<1>3. CASE SpawnFails(s)
  <2>1. Untouched(t)
    BY <1>3 DEF SpawnFails, Untouched, Early, WTypeOK
  <2> QED
    BY <2>1, UntouchedStart
<1>4. CASE Begin(s)
  <2>1. CASE t = s
    BY <1>4, <2>1, ReadersStart
  <2>2. CASE t # s
    <3>1. Untouched(t)
      BY <1>4, <2>2 DEF Begin, Untouched, Early, WTypeOK
    <3> QED
      BY <3>1, UntouchedStart
  <2> QED
    BY <2>1, <2>2
<1>5. CASE Join(s)
  <2>1. Untouched(t)
    BY <1>5 DEF Join, Untouched, Early, WTypeOK
  <2> QED
    BY <2>1, UntouchedStart
<1>6. CASE Report(s)
  <2>1. Untouched(t)
    BY <1>6 DEF Report, Untouched, Early, WTypeOK
  <2> QED
    BY <2>1, UntouchedStart
<1> QED
  BY <1>1, <1>2, <1>3, <1>4, <1>5, <1>6

\* What a reader does when it has opened its file or told its bytes.
LEMMA NextReadGoesOn ==
  ASSUME NEW s \in Starts, NEW r \in Readers, WTypeOK, rd[s][r].at \in HasFile
  PROVE  GoesOn(s, r, NextRead(s, rd[s][r].file, rd[s][r].got))
<1>1. rd[s][r].got \in Nat /\ rd[s][r].file \in 0 .. NFiles /\ budget[s] \in Nat
  BY Typed, Sized
<1>2. Limit(s, rd[s][r].file) \in Int
  <2> DEFINE left == budget[s] - (rd[s][r].file - 1) * Size
  <2>1. left \in Int
    BY <1>1, Sized
  <2>2. Limit(s, rd[s][r].file) = Min({Size, Max({0, left})})
    BY DEF Limit
  <2> HIDE DEF left
  <2>3. Max({0, left}) \in {0, left} /\ 0 \in Int
    BY <2>1, MaxOfTwo
  <2>4. Max({0, left}) \in Int /\ Size \in Int
    BY <2>1, <2>3, Sized
  <2>5. Min({Size, Max({0, left})}) \in {Size, Max({0, left})}
    BY <2>4, MinOfTwo
  <2> QED
    BY <2>2, <2>4, <2>5
<1> QED
  BY <1>1, <1>2 DEF GoesOn, NextRead

\* The steps of a reader.
LEMMA ReaderSteps ==
  ASSUME WTypeOK, NEW s \in Starts, NEW r \in Readers, NEW t \in Starts, StartOK(s), StartOK(t),
         ReaderStep(s, r)
  PROVE  StartOK(t)'
<1>1. CASE t # s
  <2>1. Untouched(t)
    <3>1. UNCHANGED <<generation, token, budget, at>> /\ rd'[t] = rd[t]
      BY <1>1 DEF ReaderStep, TakeFile, OpenFile, Read, Tell, WTypeOK
    <3>2. cursor'[t] = cursor[t] /\ warmed'[t] = warmed[t] /\ late'[t] = late[t]
      BY <1>1 DEF ReaderStep, TakeFile, OpenFile, Read, Tell, WTypeOK
    <3> QED
      BY <3>1, <3>2 DEF Untouched, Early
  <2> QED
    BY <2>1, UntouchedStart
<1>2. CASE t = s
  <2>1. CASE TakeFile(s, r)
    <3>1. CASE Current(s) /\ cursor[s] < Listed(s)
      BY <1>2, <2>1, <3>1, FileTaken
    <3>2. CASE Current(s) /\ ~(cursor[s] < Listed(s))
      BY <1>2, <2>1, <3>2, ListAtEnd
    <3>3. CASE ~Current(s)
      <4>1. rd' = [rd EXCEPT ![s][r] = Gone] /\ UNCHANGED <<generation, at, token, budget, warmed, late>>
            /\ at[s] = "reading" /\ rd[s][r].at = "top"
        BY <2>1, <3>3 DEF TakeFile, Reader
      <4>2. cursor' = cursor
        BY <2>1, <3>3 DEF TakeFile, WTypeOK
      <4>3. GoesOn(s, r, Gone)
        BY DEF GoesOn
      <4> QED
        BY <1>2, <4>1, <4>2, <4>3, ReaderMoves
    <3> QED
      BY <3>1, <3>2, <3>3
  <2>2. CASE OpenFile(s, r)
    <3>1. /\ UNCHANGED <<generation, at, token, budget, cursor, warmed, late>>
          /\ at[s] = "reading" /\ rd[s][r].at = "open"
      BY <2>2 DEF OpenFile, Reader
    <3>2. rd[s][r].got = 0
      BY <3>1 DEF StartOK, ReaderOK
    <3>3. PICK x \in {Gone, AtTop, NextRead(s, rd[s][r].file, 0)} : rd' = [rd EXCEPT ![s][r] = x]
      BY <2>2 DEF OpenFile, WTypeOK
    <3>4. GoesOn(s, r, NextRead(s, rd[s][r].file, 0))
      BY <3>1, <3>2, NextReadGoesOn DEF HasFile
    <3>5. GoesOn(s, r, x)
      BY <3>4 DEF GoesOn
    <3> QED
      BY <1>2, <3>1, <3>3, <3>5, ReaderMoves
  <2>3. CASE Read(s, r)
    <3>1. Reader(s, r, "read") /\ UNCHANGED <<generation, at, token, budget, cursor>>
      BY <2>3 DEF Read
    <3>2. CASE Reads(s, r)
      BY <1>2, <3>1, <3>2, ReadMade
    <3>3. CASE rd' = [rd EXCEPT ![s][r] = AtTop] /\ UNCHANGED <<warmed, late>>
      <4>1. GoesOn(s, r, AtTop)
        BY DEF GoesOn
      <4>2. at[s] = "reading" /\ rd[s][r].at = "read"
        BY <3>1 DEF Reader
      <4> QED
        BY <1>2, <3>1, <3>3, <4>1, <4>2, ReaderMoves
    <3> QED
      BY <2>3, <3>2, <3>3 DEF Read, Reads
  <2>4. CASE Tell(s, r)
    <3>1. /\ UNCHANGED <<generation, at, token, budget, cursor, warmed, late>>
          /\ at[s] = "reading" /\ rd[s][r].at = "tell"
      BY <2>4 DEF Tell, Reader
    <3>2. rd' = [rd EXCEPT ![s][r] = NextRead(s, rd[s][r].file, rd[s][r].got)]
      BY <2>4 DEF Tell, WTypeOK
    <3>3. GoesOn(s, r, NextRead(s, rd[s][r].file, rd[s][r].got))
      BY <3>1, NextReadGoesOn DEF HasFile
    <3> QED
      BY <1>2, <3>1, <3>2, <3>3, ReaderMoves
  <2> QED
    BY <2>1, <2>2, <2>3, <2>4 DEF ReaderStep
<1> QED
  BY <1>1, <1>2

\* A submission moves the counter, then the status.
LEMMA SubmitSteps ==
  ASSUME WTypeOK, NEW c \in Submits, NEW t \in Starts, StartOK(t), Supersede(c) \/ MarkCancelled(c)
  PROVE  StartOK(t)'
<1>1. Untouched(t)
  BY DEF Supersede, MarkCancelled, Untouched, Early, warmers
<1> QED
  BY <1>1, UntouchedStart

----------------------------------------------------------------------------
(* The counter, the tokens and the status.                                 *)

\* Starts with a token and submissions that bumped the counter are no more than there are.
LEMMA Counted ==
  ASSUME NEW S \in SUBSET Starts, NEW C \in SUBSET Submits
  PROVE  /\ IsFiniteSet(S) /\ IsFiniteSet(C)
         /\ Cardinality(S) \in 0 .. Cardinality(Starts) /\ Cardinality(C) \in 0 .. Cardinality(Submits)
         /\ Cardinality(S) + Cardinality(C) \in 0 .. Cardinality(Starts) + Cardinality(Submits)
<1>1. IsFiniteSet(S) /\ IsFiniteSet(C) /\ IsFiniteSet(Starts) /\ IsFiniteSet(Submits)
  BY WarmAssumption, FS_Subset
<1>2. Cardinality(S) <= Cardinality(Starts) /\ Cardinality(C) <= Cardinality(Submits)
  BY <1>1, FS_Subset
<1>3. /\ Cardinality(S) \in Nat /\ Cardinality(C) \in Nat
      /\ Cardinality(Starts) \in Nat /\ Cardinality(Submits) \in Nat
  BY <1>1, FS_CardinalityType
<1> QED
  BY <1>1, <1>2, <1>3

\* A step after which nobody else has a token.
LEMMA NoNewToken ==
  ASSUME TokensOK, CountOK, UNCHANGED <<generation, token>>,
         \A t \in Starts : at'[t] = "new" <=> at[t] = "new",
         \A c \in Submits : submit'[c] = "new" <=> submit[c] = "new"
  PROVE  TokensOK' /\ CountOK'
<1>1. Taken' = Taken /\ Bumped' = Bumped
  BY DEF Taken, Bumped
<1>2. CountOK'
  BY <1>1 DEF CountOK
<1>3. TokensOK'
  BY DEF TokensOK
<1> QED
  BY <1>2, <1>3

\* A step that neither moves the counter nor writes the status and keeps what is told and
\* what has been reported.
LEMMA StatusUntouched ==
  ASSUME WTypeOK, StatusIsItsOwn, ReportedOK, UNCHANGED <<status, token>>,
         \A t \in Starts : warmed'[t] \in {warmed[t], warmed[t] + 1},
         \A t \in Starts : at[t] = "over" => at'[t] = "over" /\ warmed'[t] = warmed[t]
  PROVE  StatusIsItsOwn' /\ ReportedOK'
<1>1. status.bytes \in Nat /\ \A t \in Starts : warmed[t] \in Nat
  BY Typed, Sized DEF WTypeOK
<1>2. StatusIsItsOwn'
  BY <1>1 DEF StatusIsItsOwn, Shown
<1>3. ReportedOK'
  BY DEF ReportedOK, Shown, Complete
<1> QED
  BY <1>2, <1>3

LEMMA SharedTakeToken ==
  ASSUME SharedOK, NEW s \in Starts, TakeToken(s)
  PROVE  SharedOK'
<1>1. /\ WTypeOK /\ TokensOK /\ CountOK /\ StatusIsItsOwn /\ ReportedOK
      /\ at[s] = "new" /\ at' = [at EXCEPT ![s] = "token"] /\ generation' = generation + 1
      /\ token' = [token EXCEPT ![s] = generation + 1]
      /\ UNCHANGED <<status, cursor, warmed, faulty, rd, late, submit>>
  BY DEF SharedOK, TakeToken
<1>2. generation \in Nat /\ \A t \in Starts : token[t] \in 0 .. generation
  BY <1>1, Typed DEF WTypeOK
<1>3. CountOK'
  <2>1. Taken' = Taken \cup {s} /\ s \notin Taken /\ Bumped' = Bumped
    BY <1>1 DEF Taken, Bumped, WTypeOK
  <2>2. IsFiniteSet(Taken) /\ Cardinality(Taken) \in Nat /\ Cardinality(Bumped) \in Nat
    <3>1. Taken \in SUBSET Starts /\ Bumped \in SUBSET Submits
      BY DEF Taken, Bumped
    <3> QED
      BY <3>1, Counted, FS_CardinalityType
  <2>3. Cardinality(Taken \cup {s}) = Cardinality(Taken) + 1
    BY <2>1, <2>2, FS_AddElement
  <2>4. Cardinality(Taken') = Cardinality(Taken) + 1
    BY <2>1, <2>3
  <2> QED
    BY <1>1, <2>1, <2>2, <2>4 DEF CountOK
<1>4. generation' \in 0 .. Cardinality(Starts) + Cardinality(Submits)
  <2>1. Taken' \in SUBSET Starts /\ Bumped' \in SUBSET Submits
    BY DEF Taken, Bumped
  <2> QED
    BY <1>3, <2>1, Counted DEF CountOK
<1>5. WTypeOK'
  <2>1. token' \in [Starts -> 0 .. generation'] /\ status'.token \in 0 .. generation'
    BY <1>1, <1>2 DEF WTypeOK
  <2>2. budget' \in [Starts -> {0} \cup Budgets]
    BY <1>1 DEF WTypeOK, TakeToken
  <2>3. at' \in [Starts -> {"new", "token", "spawned", "reading", "final", "over"}]
    BY <1>1 DEF WTypeOK
  <2> QED
    BY <1>1, <1>4, <2>1, <2>2, <2>3 DEF WTypeOK
<1>6. TokensOK'
  <2>1. token'[s] = generation + 1 /\ at'[s] = "token"
        /\ \A t \in Starts \ {s} : token'[t] = token[t] /\ at'[t] = at[t]
    BY <1>1 DEF WTypeOK
  <2>2. ASSUME NEW t \in Starts, NEW u \in Starts, token'[t] # 0, token'[t] = token'[u] PROVE t = u
    BY <1>1, <1>2, <2>1, <2>2 DEF TokensOK
  <2>3. \A t \in Starts : at'[t] = "new" <=> token'[t] = 0
    BY <1>1, <1>2, <2>1 DEF TokensOK
  <2> QED
    BY <2>2, <2>3 DEF TokensOK
<1>7. StatusIsItsOwn'
  <2>1. token'[s] = generation + 1 /\ \A t \in Starts \ {s} : token'[t] = token[t]
    BY <1>1 DEF WTypeOK
  <2>2. status.token \in 0 .. generation
    BY <1>1 DEF WTypeOK
  <2> QED
    BY <1>1, <1>2, <2>1, <2>2 DEF StatusIsItsOwn, Shown
<1>8. ReportedOK'
  BY <1>1 DEF ReportedOK, Shown, Complete, WTypeOK
<1> QED
  BY <1>3, <1>5, <1>6, <1>7, <1>8 DEF SharedOK

LEMMA SharedAnnounce ==
  ASSUME SharedOK, NEW s \in Starts, Announce(s)
  PROVE  SharedOK'
<1>1. /\ WTypeOK /\ TokensOK /\ CountOK /\ StatusIsItsOwn /\ ReportedOK
      /\ at[s] = "token" /\ at' \in {[at EXCEPT ![s] = "over"], [at EXCEPT ![s] = "spawned"]}
      /\ status' \in {[state |-> x, token |-> token[s], bytes |-> 0] : x \in {"empty", "queued"}}
      /\ UNCHANGED <<generation, token, budget, cursor, warmed, faulty, rd, late, submit>>
  BY DEF SharedOK, Announce
<1>2. TokensOK' /\ CountOK'
  <2>1. \A t \in Starts : at'[t] = "new" <=> at[t] = "new"
    BY <1>1 DEF WTypeOK
  <2> QED
    BY <1>1, <2>1, NoNewToken
<1>3. /\ status'.token = token[s] /\ status'.bytes = 0 /\ status'.state \in {"empty", "queued"}
  BY <1>1
<1>4. WTypeOK'
  <2>1. at' \in [Starts -> {"new", "token", "spawned", "reading", "final", "over"}]
    BY <1>1 DEF WTypeOK
  <2>2. status'.token \in 0 .. generation /\ status'.bytes \in 0 .. Planned
    BY <1>1, <1>3, Typed, Sized
  <2> QED
    BY <1>1, <1>3, <2>1, <2>2 DEF WTypeOK, Pending
<1>5. StatusIsItsOwn'
  BY <1>1, <1>3, Typed, Sized DEF StatusIsItsOwn
<1>6. ReportedOK'
  BY <1>3 DEF ReportedOK, Complete
<1> QED
  BY <1>2, <1>4, <1>5, <1>6 DEF SharedOK

\* The status of a start whose thread is not over: nothing that completed is shown for it.
LEMMA NotReported ==
  ASSUME SharedOK, NEW s \in Starts, at[s] \notin {"new", "over"}, Shown(s)
  PROVE  status.state \notin Complete
BY DEF SharedOK, ReportedOK, TokensOK, Shown

LEMMA SharedSpawn ==
  ASSUME SharedOK, NEW s \in Starts, SpawnFails(s) \/ Begin(s)
  PROVE  SharedOK'
<1>1. /\ WTypeOK /\ TokensOK /\ CountOK /\ StatusIsItsOwn /\ ReportedOK
      /\ at[s] = "spawned" /\ at' \in {[at EXCEPT ![s] = "over"], [at EXCEPT ![s] = "reading"]}
      /\ UNCHANGED <<generation, token, budget, cursor, warmed, faulty, late, submit>>
  BY DEF SharedOK, SpawnFails, Begin
<1>2. TokensOK' /\ CountOK'
  <2>1. \A t \in Starts : at'[t] = "new" <=> at[t] = "new"
    BY <1>1 DEF WTypeOK
  <2> QED
    BY <1>1, <2>1, NoNewToken
<1>3. rd' = rd \/ rd' = [rd EXCEPT ![s] = [r \in Readers |-> AtTop]]
  BY DEF SpawnFails, Begin
<1>4. \/ Shown(s) /\ \E v \in {"failed", "warming"} : status' = [status EXCEPT !.state = v]
      \/ status' = status
  BY DEF SpawnFails, Begin
<1>5. /\ status'.token = status.token /\ status'.bytes = status.bytes
      /\ status'.state \in {status.state, "failed", "warming"}
  BY <1>1, <1>4 DEF WTypeOK
<1>6. WTypeOK'
  <2>1. at' \in [Starts -> {"new", "token", "spawned", "reading", "final", "over"}]
    BY <1>1 DEF WTypeOK
  <2>2. rd' \in [Starts -> [Readers -> ReaderStates]]
    <3>1. AtTop \in ReaderStates
      BY Sized DEF AtTop, Gone, ReaderStates
    <3>2. [r \in Readers |-> AtTop] \in [Readers -> ReaderStates]
      BY <3>1
    <3> QED
      BY <1>1, <1>3, <3>2 DEF WTypeOK
  <2>3. status' \in [state : {"idle", "empty", "failed", "cancelled_for_generation", "budget_complete",
                              "complete", "complete_with_errors"} \cup Pending,
                     token : 0 .. generation, bytes : 0 .. Planned]
    BY <1>1, <1>4 DEF WTypeOK, Pending
  <2> QED
    BY <1>1, <1>5, <2>1, <2>2, <2>3 DEF WTypeOK
<1>7. StatusIsItsOwn'
  BY <1>1, <1>5 DEF StatusIsItsOwn, Shown
<1>8. ReportedOK'
  <2> SUFFICES ASSUME status'.state \in Complete
               PROVE  \E t \in Starts : /\ at'[t] = "over" /\ token'[t] # 0 /\ status'.token = token'[t]
                                        /\ status'.bytes = warmed'[t]
    BY DEF ReportedOK, Shown
  <2>1. status.state \in Complete
    BY <1>5 DEF Complete
  <2>2. PICK t \in Starts : at[t] = "over" /\ token[t] # 0 /\ Shown(t) /\ status.bytes = warmed[t]
    BY <1>1, <2>1 DEF ReportedOK
  <2>3. at'[t] = "over"
    BY <1>1, <2>2 DEF WTypeOK
  <2> QED
    BY <1>1, <1>5, <2>2, <2>3 DEF Shown
<1> QED
  BY <1>2, <1>6, <1>7, <1>8 DEF SharedOK

LEMMA SharedTake ==
  ASSUME SharedOK, NEW s \in Starts, NEW r \in Readers, TakeFile(s, r), CursorOK(s)'
  PROVE  SharedOK'
<1>1. /\ WTypeOK /\ TokensOK /\ CountOK /\ StatusIsItsOwn /\ ReportedOK
      /\ UNCHANGED <<generation, status, at, token, budget, warmed, faulty, late, submit>>
      /\ cursor' = [cursor EXCEPT ![s] = IF Current(s) THEN @ + 1 ELSE @]
      /\ \/ rd' = [rd EXCEPT ![s][r] = Gone]
         \/ /\ cursor[s] < Listed(s)
            /\ rd' = [rd EXCEPT ![s][r] = [at |-> "open", file |-> cursor[s] + 1, got |-> 0, sum |-> 0]]
  BY DEF SharedOK, TakeFile
<1>2. TokensOK' /\ CountOK'
  BY <1>1, NoNewToken
<1>3. StatusIsItsOwn' /\ ReportedOK'
  BY <1>1, StatusUntouched
<1>4. cursor' \in [Starts -> 0 .. NFiles + Cardinality(Readers)]
  <2>1. GoneReaders(s)' \subseteq Readers /\ IsFiniteSet(Readers)
    BY WarmAssumption DEF GoneReaders
  <2>2. Cardinality(GoneReaders(s)') <= Cardinality(Readers) /\ IsFiniteSet(GoneReaders(s)')
    BY <2>1, FS_Subset
  <2>3. Cardinality(GoneReaders(s)') \in Nat /\ Cardinality(Readers) \in Nat
    BY <2>1, <2>2, FS_CardinalityType
  <2>4. cursor[s] \in Nat /\ cursor'[s] \in {cursor[s], cursor[s] + 1}
    BY <1>1, Typed DEF WTypeOK
  <2>5. cursor'[s] \in 0 .. NFiles + Cardinality(Readers)
    BY <2>2, <2>3, <2>4, Sized DEF CursorOK
  <2>6. cursor' = [cursor EXCEPT ![s] = cursor'[s]]
    BY <1>1 DEF WTypeOK
  <2> QED
    BY <1>1, <2>5, <2>6 DEF WTypeOK
<1>5. rd' \in [Starts -> [Readers -> ReaderStates]]
  <2> DEFINE x == [at |-> "open", file |-> cursor[s] + 1, got |-> 0, sum |-> 0]
             T == ReaderStates
  <2>1. Gone \in T
    BY Sized DEF Gone, ReaderStates
  <2>2. cursor[s] < Listed(s) => x \in T
    <3>1. cursor[s] < Listed(s) => cursor[s] + 1 \in 0 .. NFiles
      BY <1>1, Typed, ListIsShort, Sized
    <3> QED
      BY <3>1, Sized DEF ReaderStates
  <2>3. rd \in [Starts -> [Readers -> T]]
    BY <1>1 DEF WTypeOK
  <2> HIDE DEF x, T
  <2>4. \A y \in T : [rd EXCEPT ![s][r] = y] \in [Starts -> [Readers -> T]]
    BY <2>3
  <2>5. \E y \in T : rd' = [rd EXCEPT ![s][r] = y]
    BY <1>1, <2>1, <2>2 DEF x
  <2>6. rd' \in [Starts -> [Readers -> T]]
    BY <2>4, <2>5
  <2> QED
    BY <2>6 DEF T
<1>6. WTypeOK'
  BY <1>1, <1>4, <1>5 DEF WTypeOK
<1> QED
  BY <1>2, <1>3, <1>6 DEF SharedOK

\* A reader put anywhere it may be.
LEMMA ReaderTyped ==
  ASSUME WTypeOK, NEW s \in Starts, NEW r \in Readers,
         NEW x \in ReaderStates,
         rd' = [rd EXCEPT ![s][r] = x]
  PROVE  rd' \in [Starts -> [Readers -> ReaderStates]]
<1> DEFINE T == ReaderStates
<1>1. rd \in [Starts -> [Readers -> T]] /\ x \in T
  BY DEF WTypeOK
<1> HIDE DEF T
<1>2. [rd EXCEPT ![s][r] = x] \in [Starts -> [Readers -> T]]
  BY <1>1
<1>3. rd' \in [Starts -> [Readers -> T]]
  BY <1>2
<1> QED
  BY <1>3 DEF T

\* Where a reader goes on to.
LEMMA NextReadTyped ==
  ASSUME WTypeOK, NEW s \in Starts, NEW f \in 0 .. NFiles, NEW g \in 0 .. Size
  PROVE  /\ NextRead(s, f, g) \in ReaderStates
         /\ {AtTop, Gone} \subseteq ReaderStates
<1>1. {AtTop, Gone} \subseteq ReaderStates
  BY Sized DEF AtTop, Gone, ReaderStates
<1>2. [at |-> "read", file |-> f, got |-> g, sum |-> 0] \in ReaderStates
  BY Sized DEF ReaderStates
<1> QED
  BY <1>1, <1>2 DEF NextRead

LEMMA SharedOpen ==
  ASSUME SharedOK, NEW s \in Starts, NEW r \in Readers, OpenFile(s, r)
  PROVE  SharedOK'
<1>1. /\ WTypeOK /\ TokensOK /\ CountOK /\ StatusIsItsOwn /\ ReportedOK
      /\ UNCHANGED <<generation, status, at, token, budget, cursor, warmed, late, submit>>
      /\ faulty' \in {faulty, faulty \cup {s}}
  BY DEF SharedOK, OpenFile
<1>2. TokensOK' /\ CountOK'
  BY <1>1, NoNewToken
<1>3. StatusIsItsOwn' /\ ReportedOK'
  BY <1>1, StatusUntouched
<1>4. PICK x \in {Gone, AtTop, NextRead(s, rd[s][r].file, 0)} : rd' = [rd EXCEPT ![s][r] = x]
  BY <1>1 DEF OpenFile, WTypeOK
<1>5. rd[s][r].file \in 0 .. NFiles /\ 0 \in 0 .. Size
  BY <1>1, Typed, Sized
<1>6. x \in ReaderStates
  <2>1. NextRead(s, rd[s][r].file, 0) \in ReaderStates /\ {AtTop, Gone} \subseteq ReaderStates
    BY <1>1, <1>5, NextReadTyped
  <2> QED
    BY <1>4, <2>1
<1>7. WTypeOK'
  BY <1>1, <1>4, <1>6, ReaderTyped DEF WTypeOK
<1> QED
  BY <1>2, <1>3, <1>7 DEF SharedOK

LEMMA SharedRead ==
  ASSUME SharedOK, NEW s \in Starts, NEW r \in Readers, StartOK(s), Read(s, r)
  PROVE  SharedOK'
<1>1. /\ WTypeOK /\ TokensOK /\ CountOK /\ StatusIsItsOwn /\ ReportedOK
      /\ UNCHANGED <<generation, status, at, token, budget, cursor, submit>>
      /\ faulty' \in {faulty, faulty \cup {s}} /\ Reader(s, r, "read")
  BY DEF SharedOK, Read
<1>2. TokensOK' /\ CountOK'
  BY <1>1, NoNewToken
<1>3. rd[s][r].got + 1 \in 0 .. Size /\ warmed[s] \in Nat
  BY <1>1, NextIsUnread, Typed, Sized DEF Reader
<1>4. Reads(s, r) => warmed[s] + 1 \in 0 .. Planned
  <2>1. budget[s] \in 0 .. Planned
    BY <1>1, Typed
  <2>2. Reads(s, r) => warmed[s] + 1 <= budget[s]
    BY <1>1, ReadMade
  <2> QED
    BY <1>3, <2>1, <2>2, Sized
<1>5. \/ Reads(s, r)
      \/ rd' = [rd EXCEPT ![s][r] = AtTop] /\ UNCHANGED <<warmed, late>>
  BY DEF Read, Reads
<1>6. warmed' \in [Starts -> 0 .. Planned] /\ late' \in [Starts -> [Readers -> Nat]]
  <2>1. warmed \in [Starts -> 0 .. Planned] /\ late \in [Starts -> [Readers -> Nat]]
    BY <1>1 DEF WTypeOK
  <2>2. CASE Reads(s, r)
    <3>1. warmed' \in [Starts -> 0 .. Planned]
      BY <1>4, <2>1, <2>2 DEF Reads
    <3>2. late' \in [Starts -> [Readers -> Nat]]
      BY <2>1, <2>2 DEF Reads
    <3> QED
      BY <3>1, <3>2
  <2> QED
    BY <1>5, <2>1, <2>2
<1>7. rd' \in [Starts -> [Readers -> ReaderStates]]
  <2>1. CASE Reads(s, r)
    <3> DEFINE x == [rd[s][r] EXCEPT !.at = "tell", !.got = rd[s][r].got + 1, !.sum = warmed[s] + 1]
    <3>1. rd' = [rd EXCEPT ![s][r] = x]
      BY <1>1, <2>1 DEF Reads, WTypeOK
    <3>2. x \in ReaderStates
      <4>1. rd[s][r] \in ReaderStates
        BY <1>1, Typed
      <4>2. [rd[s][r] EXCEPT !.at = "tell"] \in ReaderStates
        BY <4>1 DEF ReaderStates
      <4>3. \A y \in ReaderStates : \A g \in 0 .. Size : [y EXCEPT !.got = g] \in ReaderStates
        BY DEF ReaderStates
      <4>4. \A y \in ReaderStates : \A m \in 0 .. Planned : [y EXCEPT !.sum = m] \in ReaderStates
        BY DEF ReaderStates
      <4>5. x = [[[rd[s][r] EXCEPT !.at = "tell"] EXCEPT !.got = rd[s][r].got + 1]
                   EXCEPT !.sum = warmed[s] + 1]
        BY <4>1 DEF ReaderStates
      <4> QED
        BY <1>3, <1>4, <2>1, <4>2, <4>3, <4>4, <4>5
    <3> HIDE DEF x
    <3> QED
      BY <1>1, <3>1, <3>2, ReaderTyped
  <2>2. CASE rd' = [rd EXCEPT ![s][r] = AtTop]
    <3>1. AtTop \in ReaderStates
      BY Sized DEF AtTop, Gone, ReaderStates
    <3> QED
      BY <1>1, <2>2, <3>1, ReaderTyped
  <2> QED
    BY <1>5, <2>1, <2>2
<1>8. WTypeOK'
  BY <1>1, <1>6, <1>7 DEF WTypeOK
<1>9. StatusIsItsOwn' /\ ReportedOK'
  <2>1. \A t \in Starts : warmed'[t] \in {warmed[t], warmed[t] + 1}
    BY <1>1, <1>5 DEF Reads, WTypeOK
  <2>2. \A t \in Starts : at[t] = "over" => at'[t] = "over" /\ warmed'[t] = warmed[t]
    BY <1>1, <1>5 DEF Reads, WTypeOK, Reader
  <2> QED
    BY <1>1, <2>1, <2>2, StatusUntouched
<1> QED
  BY <1>2, <1>8, <1>9 DEF SharedOK

LEMMA SharedTell ==
  ASSUME SharedOK, NEW s \in Starts, NEW r \in Readers, StartOK(s), Tell(s, r)
  PROVE  SharedOK'
<1>1. /\ WTypeOK /\ TokensOK /\ CountOK /\ StatusIsItsOwn /\ ReportedOK
      /\ UNCHANGED <<generation, at, token, budget, cursor, warmed, faulty, late, submit>>
      /\ at[s] = "reading" /\ rd[s][r].at = "tell"
  BY DEF SharedOK, Tell, Reader
<1>2. TokensOK' /\ CountOK'
  BY <1>1, NoNewToken
<1>3. rd[s][r].file \in 0 .. NFiles /\ rd[s][r].got \in 0 .. Size /\ rd[s][r].sum \in 0 .. Planned
  BY <1>1, Typed
<1>4. rd' \in [Starts -> [Readers -> ReaderStates]]
  <2>1. NextRead(s, rd[s][r].file, rd[s][r].got) \in ReaderStates
    BY <1>1, <1>3, NextReadTyped
  <2>2. rd' = [rd EXCEPT ![s][r] = NextRead(s, rd[s][r].file, rd[s][r].got)]
    BY <1>1 DEF Tell, WTypeOK
  <2> QED
    BY <1>1, <2>1, <2>2, ReaderTyped
<1>5. CASE Shown(s)
  <2>1. status' = [status EXCEPT !.bytes = rd[s][r].sum]
    BY <1>5 DEF Tell
  <2>2. status'.state = status.state /\ status'.token = status.token /\ status'.bytes = rd[s][r].sum
    BY <1>1, <2>1 DEF WTypeOK
  <2>3. WTypeOK'
    BY <1>1, <1>3, <1>4, <2>1 DEF WTypeOK
  <2>4. \A t \in Starts : token[t] # 0 /\ Shown(t) => t = s
    BY <1>1, <1>5 DEF TokensOK, Shown
  <2>5. rd[s][r].sum <= warmed[s]
    BY DEF StartOK, ReaderOK
  <2>6. StatusIsItsOwn'
    BY <1>1, <2>2, <2>4, <2>5 DEF StatusIsItsOwn, Shown
  <2>7. status.state \notin Complete
    BY <1>1, <1>5, NotReported
  <2>8. ReportedOK'
    BY <2>2, <2>7 DEF ReportedOK, Complete
  <2> QED
    BY <1>2, <2>3, <2>6, <2>8 DEF SharedOK
<1>6. CASE ~Shown(s)
  <2>1. status' = status
    BY <1>6 DEF Tell
  <2>2. StatusIsItsOwn' /\ ReportedOK'
    BY <1>1, <2>1, StatusUntouched
  <2>3. WTypeOK'
    BY <1>1, <1>4, <2>1 DEF WTypeOK
  <2> QED
    BY <1>2, <2>2, <2>3 DEF SharedOK
<1> QED
  BY <1>5, <1>6

LEMMA SharedJoin ==
  ASSUME SharedOK, NEW s \in Starts, Join(s)
  PROVE  SharedOK'
<1>1. /\ WTypeOK /\ TokensOK /\ CountOK /\ StatusIsItsOwn /\ ReportedOK
      /\ UNCHANGED <<generation, status, token, budget, cursor, warmed, faulty, rd, late, submit>>
      /\ at[s] = "reading" /\ at' \in {[at EXCEPT ![s] = "final"], [at EXCEPT ![s] = "over"]}
  BY DEF SharedOK, Join
<1>2. \A t \in Starts : (at'[t] = "new" <=> at[t] = "new") /\ (at[t] = "over" => at'[t] = "over")
  BY <1>1 DEF WTypeOK
<1>3. TokensOK' /\ CountOK'
  BY <1>1, <1>2, NoNewToken
<1>4. StatusIsItsOwn' /\ ReportedOK'
  BY <1>1, <1>2, StatusUntouched
<1>5. WTypeOK'
  BY <1>1 DEF WTypeOK
<1> QED
  BY <1>3, <1>4, <1>5 DEF SharedOK

LEMMA SharedReport ==
  ASSUME SharedOK, NEW s \in Starts, Report(s)
  PROVE  SharedOK'
<1>1. /\ WTypeOK /\ TokensOK /\ CountOK /\ StatusIsItsOwn /\ ReportedOK
      /\ UNCHANGED <<generation, token, budget, cursor, warmed, faulty, rd, late, submit>>
      /\ at[s] = "final" /\ at' = [at EXCEPT ![s] = "over"]
  BY DEF SharedOK, Report
<1>2. at'[s] = "over"
      /\ \A t \in Starts : (at'[t] = "new" <=> at[t] = "new") /\ (at[t] = "over" => at'[t] = "over")
  BY <1>1 DEF WTypeOK
<1>3. TokensOK' /\ CountOK'
  BY <1>1, <1>2, NoNewToken
<1>4. CASE Shown(s)
  <2>1. status' = [status EXCEPT !.state = Verdict(s), !.bytes = warmed[s]]
    BY <1>4 DEF Report
  <2>2. warmed[s] \in 0 .. Planned
    BY <1>1, Typed
  <2>3. Verdict(s) \in Complete
    BY DEF Verdict, Complete
  <2>4. WTypeOK'
    BY <1>1, <2>1, <2>2, <2>3 DEF WTypeOK, Complete
  <2>5. status'.token = status.token /\ status'.bytes = warmed[s]
    BY <1>1, <2>1 DEF WTypeOK
  <2>6. token[s] # 0 /\ \A t \in Starts : token[t] # 0 /\ Shown(t) => t = s
    BY <1>1, <1>4 DEF TokensOK, Shown
  <2>7. StatusIsItsOwn'
    BY <1>1, <2>2, <2>5, <2>6, Sized DEF StatusIsItsOwn, Shown
  <2>8. ReportedOK'
    BY <1>1, <1>2, <1>4, <2>5, <2>6 DEF ReportedOK, Shown
  <2> QED
    BY <1>3, <2>4, <2>7, <2>8 DEF SharedOK
<1>5. CASE ~Shown(s)
  <2>1. status' = status
    BY <1>5 DEF Report
  <2>2. StatusIsItsOwn' /\ ReportedOK'
    BY <1>1, <1>2, <2>1, StatusUntouched
  <2>3. WTypeOK'
    BY <1>1, <2>1 DEF WTypeOK
  <2> QED
    BY <1>3, <2>2, <2>3 DEF SharedOK
<1> QED
  BY <1>4, <1>5

LEMMA SharedSupersede ==
  ASSUME SharedOK, NEW c \in Submits, Supersede(c)
  PROVE  SharedOK'
<1>1. /\ WTypeOK /\ TokensOK /\ CountOK /\ StatusIsItsOwn /\ ReportedOK
      /\ submit[c] = "new" /\ submit' = [submit EXCEPT ![c] = "bumped"]
      /\ generation' = generation + 1 /\ UNCHANGED <<status, warmers>>
  BY DEF SharedOK, Supersede
<1>2. CountOK'
  <2>1. Bumped' = Bumped \cup {c} /\ c \notin Bumped /\ Taken' = Taken
    BY <1>1 DEF Taken, Bumped, WTypeOK, warmers
  <2>2. IsFiniteSet(Bumped) /\ Cardinality(Taken) \in Nat /\ Cardinality(Bumped) \in Nat
    <3>1. Taken \in SUBSET Starts /\ Bumped \in SUBSET Submits
      BY DEF Taken, Bumped
    <3> QED
      BY <3>1, Counted, FS_CardinalityType
  <2>3. Cardinality(Bumped \cup {c}) = Cardinality(Bumped) + 1
    BY <2>1, <2>2, FS_AddElement
  <2>4. Cardinality(Bumped') = Cardinality(Bumped) + 1
    BY <2>1, <2>3
  <2> QED
    BY <1>1, <2>1, <2>2, <2>4 DEF CountOK
<1>3. generation' \in 0 .. Cardinality(Starts) + Cardinality(Submits)
  <2>1. Taken' \in SUBSET Starts /\ Bumped' \in SUBSET Submits
    BY DEF Taken, Bumped
  <2> QED
    BY <1>2, <2>1, Counted DEF CountOK
<1>4. WTypeOK'
  <2>1. generation \in Nat /\ status.token \in 0 .. generation
        /\ \A t \in Starts : token[t] \in 0 .. generation
    <3>1. generation \in Nat
      BY <1>1, <1>2, Typed, Counted DEF SharedOK, CountOK, Taken, Bumped
    <3> QED
      BY <1>1, <3>1 DEF WTypeOK
  <2>2. token' \in [Starts -> 0 .. generation']
    BY <1>1, <2>1 DEF WTypeOK, warmers
  <2>3. status' \in [state : {"idle", "empty", "failed", "cancelled_for_generation", "budget_complete",
                              "complete", "complete_with_errors"} \cup Pending,
                     token : 0 .. generation', bytes : 0 .. Planned]
    BY <1>1, <2>1 DEF WTypeOK
  <2>4. submit' \in [Submits -> {"new", "bumped", "done"}]
    BY <1>1 DEF WTypeOK
  <2> QED
    BY <1>1, <1>3, <2>2, <2>3, <2>4 DEF WTypeOK, warmers
<1>5. TokensOK' /\ StatusIsItsOwn' /\ ReportedOK'
  BY <1>1 DEF TokensOK, StatusIsItsOwn, ReportedOK, Shown, warmers
<1> QED
  BY <1>2, <1>4, <1>5 DEF SharedOK

LEMMA SharedCancelled ==
  ASSUME SharedOK, NEW c \in Submits, MarkCancelled(c)
  PROVE  SharedOK'
<1>1. /\ WTypeOK /\ TokensOK /\ CountOK /\ StatusIsItsOwn /\ ReportedOK
      /\ submit[c] = "bumped" /\ submit' = [submit EXCEPT ![c] = "done"]
      /\ UNCHANGED <<generation, warmers>>
      /\ status' \in {status, [status EXCEPT !.state = "cancelled_for_generation"]}
  BY DEF SharedOK, MarkCancelled
<1>2. TokensOK' /\ CountOK'
  <2>1. UNCHANGED <<generation, token, at>> /\ \A d \in Submits : submit'[d] = "new" <=> submit[d] = "new"
    BY <1>1 DEF WTypeOK, warmers
  <2> QED
    BY <1>1, <2>1, NoNewToken
<1>3. /\ status'.token = status.token /\ status'.bytes = status.bytes
      /\ status'.state \in {status.state, "cancelled_for_generation"}
  BY <1>1 DEF WTypeOK
<1>4. WTypeOK'
  <2>1. status' \in [state : {"idle", "empty", "failed", "cancelled_for_generation", "budget_complete",
                              "complete", "complete_with_errors"} \cup Pending,
                     token : 0 .. generation, bytes : 0 .. Planned]
    BY <1>1 DEF WTypeOK
  <2>2. submit' \in [Submits -> {"new", "bumped", "done"}]
    BY <1>1 DEF WTypeOK
  <2> QED
    BY <1>1, <2>1, <2>2 DEF WTypeOK, warmers
<1>5. StatusIsItsOwn'
  BY <1>1, <1>3 DEF StatusIsItsOwn, Shown, warmers
<1>6. ReportedOK'
  BY <1>1, <1>3 DEF ReportedOK, Shown, Complete, warmers
<1> QED
  BY <1>2, <1>4, <1>5, <1>6 DEF SharedOK

----------------------------------------------------------------------------
(* The theorems.                                                           *)

LEMMA WInvInit == WInit => WInv
<1> SUFFICES ASSUME WInit PROVE WInv
  OBVIOUS
<1>1. IsFiniteSet(Starts) /\ IsFiniteSet(Submits) /\ IsFiniteSet(Readers)
  BY WarmAssumption
<1>2. /\ Cardinality(Starts) \in Nat /\ Cardinality(Submits) \in Nat /\ Cardinality(Readers) \in Nat
  BY <1>1, FS_CardinalityType
<1>3. Gone \in ReaderStates
  BY Sized DEF Gone, ReaderStates
<1>4. WTypeOK
  <2>1. rd \in [Starts -> [Readers -> ReaderStates]]
    BY <1>3 DEF WInit
  <2>2. status \in [state : {"idle", "empty", "failed", "cancelled_for_generation", "budget_complete",
                             "complete", "complete_with_errors"} \cup Pending,
                    token : 0 .. generation, bytes : 0 .. Planned]
    BY Sized DEF WInit
  <2>3. /\ generation \in 0 .. Cardinality(Starts) + Cardinality(Submits)
        /\ token \in [Starts -> 0 .. generation] /\ warmed \in [Starts -> 0 .. Planned]
        /\ cursor \in [Starts -> 0 .. NFiles + Cardinality(Readers)]
    BY <1>2, Sized DEF WInit
  <2> QED
    BY <2>1, <2>2, <2>3 DEF WTypeOK, WInit
<1>5. TokensOK
  BY DEF TokensOK, WInit
<1>6. CountOK
  <2>1. Taken = {} /\ Bumped = {}
    BY DEF Taken, Bumped, WInit
  <2> QED
    BY <2>1, FS_EmptySet DEF CountOK, WInit
<1>7. StatusIsItsOwn /\ ReportedOK
  BY DEF StatusIsItsOwn, ReportedOK, Complete, WInit
<1>8. ASSUME NEW s \in Starts PROVE StartOK(s)
  <2>1. /\ cursor[s] = 0 /\ warmed[s] = 0 /\ budget[s] = 0 /\ at[s] = "new"
        /\ \A r \in Readers : rd[s][r] = Gone /\ late[s][r] = 0
    BY DEF WInit
  <2>2. CursorOK(s)
    <3>1. GoneReaders(s) \subseteq Readers
      BY DEF GoneReaders
    <3>2. IsFiniteSet(GoneReaders(s))
      BY <1>1, <3>1, FS_Subset
    <3>3. Cardinality(GoneReaders(s)) \in Nat
      BY <3>2, FS_CardinalityType
    <3> QED
      BY <2>1, <3>3, Sized DEF CursorOK
  <2>3. BudgetOK(s)
    <3>1. Unread(s) = {}
      BY <2>1 DEF Unread
    <3> QED
      BY <2>1, <3>1, FS_EmptySet DEF BudgetOK
  <2>4. NotYetOK(s) /\ DistinctOK(s) /\ \A r \in Readers : ReaderOK(s, r) /\ LateOK(s, r)
    BY <2>1 DEF NotYetOK, DistinctOK, ReaderOK, LateOK, Gone, HasFile
  <2> QED
    BY <2>2, <2>3, <2>4 DEF StartOK
<1> QED
  BY <1>4, <1>5, <1>6, <1>7, <1>8 DEF WInv, SharedOK

LEMMA WInvNext == WInv /\ [WNext]_wvars => WInv'
<1> SUFFICES ASSUME WInv, [WNext]_wvars PROVE WInv'
  OBVIOUS
<1>1. WTypeOK /\ SharedOK /\ \A t \in Starts : StartOK(t)
  BY DEF WInv, SharedOK
<1>2. ASSUME NEW s \in Starts,
             TakeToken(s) \/ Announce(s) \/ SpawnFails(s) \/ Begin(s) \/ Join(s) \/ Report(s)
      PROVE  WInv'
  <2>1. \A t \in Starts : StartOK(t)'
    BY <1>1, <1>2, ThreadEdges
  <2>2. SharedOK'
    BY <1>1, <1>2, SharedTakeToken, SharedAnnounce, SharedSpawn, SharedJoin, SharedReport
  <2> QED
    BY <2>1, <2>2 DEF WInv
<1>3. ASSUME NEW s \in Starts, NEW r \in Readers, ReaderStep(s, r)
      PROVE  WInv'
  <2>1. \A t \in Starts : StartOK(t)'
    BY <1>1, <1>3, ReaderSteps
  <2>2. CursorOK(s)'
    BY <2>1 DEF StartOK
  <2>3. SharedOK'
    BY <1>1, <1>3, <2>2, SharedTake, SharedOpen, SharedRead, SharedTell DEF ReaderStep
  <2> QED
    BY <2>1, <2>3 DEF WInv
<1>4. ASSUME NEW c \in Submits, Supersede(c) \/ MarkCancelled(c)
      PROVE  WInv'
  <2>1. \A t \in Starts : StartOK(t)'
    BY <1>1, <1>4, SubmitSteps
  <2>2. SharedOK'
    BY <1>1, <1>4, SharedSupersede, SharedCancelled
  <2> QED
    BY <2>1, <2>2 DEF WInv
<1>5. CASE UNCHANGED wvars
  <2>1. SharedOK'
    BY <1>1, <1>5 DEF SharedOK, WTypeOK, TokensOK, CountOK, Taken, Bumped, StatusIsItsOwn, ReportedOK,
                      Shown, wvars, warmers
  <2>2. ASSUME NEW t \in Starts PROVE StartOK(t)'
    <3>1. Untouched(t)
      BY <1>5 DEF Untouched, Early, wvars, warmers
    <3> QED
      BY <1>1, <3>1, UntouchedStart
  <2> QED
    BY <2>1, <2>2 DEF WInv
<1> QED
  BY <1>2, <1>3, <1>4, <1>5 DEF WNext, Thread

\* The invariant: each start is in order, and so is what the starts share.
THEOREM WInvariance == WSpec => []WInv
<1> QED
  BY WInvInit, WInvNext, PTL DEF WSpec

\* Every variable of the warmer keeps its type: in particular the cursor passes the end
\* of the list at most once for each reader, so its addition never overflows.
THEOREM WarmTypes == WSpec => []WTypeOK
<1>1. WInv => WTypeOK
  BY DEF WInv, SharedOK
<1> QED
  BY <1>1, WInvariance, PTL

\* A submission stops the readers: each finishes at most the one read it had begun.
THEOREM StopsAtOnce == WSpec => []AtMostOneLateRead
<1>1. WInv => AtMostOneLateRead
  BY DEF WInv, StartOK, LateOK, AtMostOneLateRead
<1> QED
  BY <1>1, WInvariance, PTL

\* However many readers share a work list, they stay within its RAM budget, and no file
\* is read by two of them.
THEOREM SharedBudget == WSpec => []WithinBudget
<1>1. WInv => WithinBudget
  <2> SUFFICES ASSUME WInv, NEW s \in Starts PROVE warmed[s] <= budget[s] /\ DistinctOK(s)
    BY DEF WithinBudget, DistinctOK
  <2>1. WTypeOK /\ StartOK(s)
    BY DEF WInv, SharedOK
  <2>2. warmed[s] \in Nat /\ budget[s] \in Nat
    BY <2>1, Typed, Sized
  <2>3. Unread(s) \in SUBSET (1 .. budget[s])
    BY DEF Unread
  <2>4. Cardinality(Unread(s)) \in Nat
    BY <2>2, <2>3, ReadsOfBudget
  <2> QED
    BY <2>1, <2>2, <2>4 DEF StartOK, BudgetOK
<1> QED
  BY <1>1, WInvariance, PTL

\* Readers of a superseded start never write their bytes into the status of the next.
THEOREM OwnBytes == WSpec => []StatusIsItsOwn
<1>1. WInv => StatusIsItsOwn
  BY DEF WInv, SharedOK
<1> QED
  BY <1>1, WInvariance, PTL

\* A status that says the warm completed holds the exact number of bytes.
THEOREM ExactAtTheEnd == WSpec => []CompleteIsExact
<1>1. WInv => CompleteIsExact
  BY DEF WInv, SharedOK, ReportedOK, Complete, CompleteIsExact
<1> QED
  BY <1>1, WInvariance, PTL

----------------------------------------------------------------------------
(* The book and the warmer side by side (MCStorage).                       *)

\* A behaviour of the composition is one of either component, so what is proved of the
\* components holds in every run of MCStorage.
LEMMA StorageComponents == StorageSpec => Spec /\ WSpec
<1>1. StorageInit => Init /\ WInit
  BY DEF StorageInit
<1>2. [StorageNext]_<<component, vars, wvars>> => [Next]_vars /\ [WNext]_wvars
  BY DEF StorageNext
<1> QED
  BY <1>1, <1>2, PTL DEF StorageSpec, Spec, WSpec

\* Every variable of both components has its type in the composition.
THEOREM StorageTypes == StorageSpec => []StorageTypeOK
<1>1. TypeOK /\ WTypeOK => StorageTypeOK
  BY DEF StorageTypeOK
<1> QED
  BY <1>1, StorageComponents, BookTypes, WarmTypes, PTL
====
