------------------------------ MODULE WarmLoad ------------------------------
(***************************************************************************)
(* WarmLoadManager: reading model files into the page cache while a user   *)
(* still chooses, and stopping when a generation is submitted. Every start *)
(* and every cancel takes a new generation; a warmer thread and its        *)
(* readers compare their token with it before each step and with the       *)
(* token in the shared status before each report. A comparison and the     *)
(* read it guards are different steps, as are two locks of the status.     *)
(*                                                                         *)
(* Sizes are in reads (READ_CHUNK_BYTES at most). Labels, times, rates and *)
(* the file count of the status are left out.                              *)
(***************************************************************************)
EXTENDS Naturals, FiniteSets, FiniteSetsExt

CONSTANTS
  Starts,   \* calls of POST /v1/warm-model that name an installed profile
  Submits,  \* accepted image jobs and video requests (cancel_for_generation)
  Readers,  \* WARM_READER_THREADS
  NFiles,   \* files of a profile,
  Size,     \* each of this many reads
  Budgets   \* what warm_budget_bytes may leave of them

ASSUME WarmAssumption ==
  /\ NFiles \in Nat /\ Size \in Nat \ {0} /\ Budgets \subseteq 0 .. NFiles * Size
  /\ IsFiniteSet(Starts) /\ IsFiniteSet(Submits) /\ IsFiniteSet(Readers)

VARIABLES
  generation, \* the atomic counter
  status,     \* the shared WarmLoadStatus: [state, token, bytes]
  at,         \* progress of each start and of its thread
  token,      \* its generation
  budget,     \* its warm_budget_bytes
  cursor,     \* next_file of its work list
  warmed,     \* its warmed_bytes
  faulty,     \* starts whose last_error is set
  rd,         \* its readers: [at, file, got, sum]
  late,       \* ghost: reads each of them made after it was superseded
  submit      \* progress of each cancel_for_generation

warmers == <<at, token, budget, cursor, warmed, faulty, rd, late>>
wvars   == <<generation, status, warmers, submit>>

Planned == NFiles * Size
Gone    == [at |-> "gone", file |-> 0, got |-> 0, sum |-> 0]
AtTop     == [Gone EXCEPT !.at = "top"]
Pending == {"queued", "warming"}
Current(s) == token[s] = generation    \* generation.load() == token
Shown(s)   == status.token = token[s]  \* status.generation == token

WInit ==
  /\ generation = 0
  /\ status = [state |-> "idle", token |-> 0, bytes |-> 0]
  /\ at = [s \in Starts |-> "new"]
  /\ token = [s \in Starts |-> 0] /\ budget = [s \in Starts |-> 0]
  /\ cursor = [s \in Starts |-> 0] /\ warmed = [s \in Starts |-> 0]
  /\ faulty = {}
  /\ rd = [s \in Starts |-> [r \in Readers |-> Gone]]
  /\ late = [s \in Starts |-> [r \in Readers |-> 0]]
  /\ submit = [c \in Submits |-> "new"]

----------------------------------------------------------------------------
(* start.                                                                  *)

\* The files are listed, the budget is computed from MemAvailable and a token taken.
TakeToken(s) ==
  /\ at[s] = "new"
  /\ at' = [at EXCEPT ![s] = "token"]
  /\ generation' = generation + 1
  /\ token' = [token EXCEPT ![s] = generation + 1]
  /\ \E b \in Budgets : budget' = [budget EXCEPT ![s] = b]
  /\ UNCHANGED <<status, cursor, warmed, faulty, rd, late, submit>>

\* The status becomes that of this start; without files or budget that is all.
Announce(s) ==
  /\ at[s] = "token"
  /\ \E empty \in BOOLEAN :
       /\ status' = [state |-> IF empty THEN "empty" ELSE "queued", token |-> token[s], bytes |-> 0]
       /\ at' = [at EXCEPT ![s] = IF empty \/ budget[s] = 0 THEN "over" ELSE "spawned"]
  /\ UNCHANGED <<generation, token, budget, cursor, warmed, faulty, rd, late, submit>>

SpawnFails(s) ==
  /\ at[s] = "spawned"
  /\ at' = [at EXCEPT ![s] = "over"]
  /\ status' = IF Shown(s) THEN [status EXCEPT !.state = "failed"] ELSE status
  /\ UNCHANGED <<generation, token, budget, cursor, warmed, faulty, rd, late, submit>>

\* The thread runs: it says so and starts its readers.
Begin(s) ==
  /\ at[s] = "spawned"
  /\ at' = [at EXCEPT ![s] = "reading"]
  /\ status' = IF Shown(s) THEN [status EXCEPT !.state = "warming"] ELSE status
  /\ rd' = [rd EXCEPT ![s] = [r \in Readers |-> AtTop]]
  /\ UNCHANGED <<generation, token, budget, cursor, warmed, faulty, late, submit>>

----------------------------------------------------------------------------
(* The readers.                                                            *)

\* Mutant of Limit: the budget is not shared by the files.
LimitEach(s, f) == Min({Size, budget[s]})

\* Reads planned for the f-th file: what earlier files left of the budget, at most its size.
Limit(s, f) == Min({Size, Max({0, budget[s] - (f - 1) * Size})})
\* Length of the work list.
Listed(s) == Cardinality({f \in 1 .. NFiles : (f - 1) * Size < budget[s]})

Reader(s, r, from) == at[s] = "reading" /\ rd[s][r].at = from

\* Mutant of NextRead: the generation is looked at only between files.
NextReadOfFile(s, f, got) ==
  IF got >= Limit(s, f) THEN AtTop ELSE [at |-> "read", file |-> f, got |-> got, sum |-> 0]

\* The head of the read loop. (The load of the generation is part of the step before it,
\* with which it commutes; the read it guards is a step of its own.)
NextRead(s, f, got) ==
  IF got >= Limit(s, f) THEN AtTop
  ELSE IF Current(s) THEN [at |-> "read", file |-> f, got |-> got, sum |-> 0] ELSE Gone

\* Mutant of TakeFile: a file is looked up before the cursor is advanced by its reader.
TakeFileTwice(s, r) ==
  /\ Reader(s, r, "top")
  /\ cursor' = cursor
  /\ rd' = [rd EXCEPT ![s][r] = IF Current(s) /\ cursor[s] < Listed(s)
               THEN [at |-> "open", file |-> cursor[s] + 1, got |-> 0, sum |-> 0] ELSE Gone]
  /\ UNCHANGED <<generation, status, at, token, budget, warmed, faulty, late, submit>>

\* The head of the reader's loop: the generation, then next_file.fetch_add.
TakeFile(s, r) ==
  /\ Reader(s, r, "top")
  /\ cursor' = [cursor EXCEPT ![s] = IF Current(s) THEN @ + 1 ELSE @]
  /\ rd' = [rd EXCEPT ![s][r] = IF Current(s) /\ cursor[s] < Listed(s)
               THEN [at |-> "open", file |-> cursor[s] + 1, got |-> 0, sum |-> 0] ELSE Gone]
  /\ UNCHANGED <<generation, status, at, token, budget, warmed, faulty, late, submit>>

\* The file is named in the status, unless that is another start's, and opened.
OpenFile(s, r) ==
  /\ Reader(s, r, "open")
  /\ \/ ~Shown(s) /\ rd' = [rd EXCEPT ![s][r] = Gone] /\ UNCHANGED faulty
     \/ /\ Shown(s)
        /\ rd' = [rd EXCEPT ![s][r] = NextRead(s, @.file, 0)]
        /\ UNCHANGED faulty
     \/ Shown(s) /\ rd' = [rd EXCEPT ![s][r] = AtTop] /\ faulty' = faulty \cup {s}
  /\ UNCHANGED <<generation, status, at, token, budget, cursor, warmed, late, submit>>

\* One read, counted for the file and for the start; an error or an early end of the
\* file gives it up.
Read(s, r) ==
  /\ Reader(s, r, "read")
  /\ \/ /\ warmed' = [warmed EXCEPT ![s] = @ + 1]
        /\ rd' = [rd EXCEPT ![s][r].at = "tell", ![s][r].got = @ + 1, ![s][r].sum = warmed[s] + 1]
        /\ late' = IF Current(s) THEN late ELSE [late EXCEPT ![s][r] = @ + 1]
        /\ UNCHANGED faulty
     \/ /\ rd' = [rd EXCEPT ![s][r] = AtTop]
        /\ faulty' = faulty \cup {s}
        /\ UNCHANGED <<warmed, late>>
  /\ UNCHANGED <<generation, status, at, token, budget, cursor, submit>>

\* Mutant of Tell: the total is written into whatever start's status is shown.
TellAny(s, r) ==
  /\ Reader(s, r, "tell")
  /\ rd' = [rd EXCEPT ![s][r] = NextRead(s, @.file, @.got)]
  /\ status' = [status EXCEPT !.bytes = rd[s][r].sum]
  /\ UNCHANGED <<generation, at, token, budget, cursor, warmed, faulty, late, submit>>

\* The total it saw goes into the status, perhaps after a larger one of another reader.
Tell(s, r) ==
  /\ Reader(s, r, "tell")
  /\ rd' = [rd EXCEPT ![s][r] = NextRead(s, @.file, @.got)]
  /\ status' = IF Shown(s) THEN [status EXCEPT !.bytes = rd[s][r].sum] ELSE status
  /\ UNCHANGED <<generation, at, token, budget, cursor, warmed, faulty, late, submit>>

----------------------------------------------------------------------------
(* The end of the thread, and cancel_for_generation.                       *)

\* The scope joins its readers; a superseded thread reports nothing more.
Join(s) ==
  /\ at[s] = "reading" /\ \A r \in Readers : rd[s][r].at = "gone"
  /\ at' = [at EXCEPT ![s] = IF Current(s) THEN "final" ELSE "over"]
  /\ UNCHANGED <<generation, status, token, budget, cursor, warmed, faulty, rd, late, submit>>

\* How the start ended. With budget b of Planned and n reads warmed.
Verdict(s) ==
  IF warmed[s] >= budget[s] /\ budget[s] < Planned THEN "budget_complete"
  ELSE IF s \in faulty THEN "complete_with_errors" ELSE "complete"

\* Mutant of Report: the byte count stays what a reader told last.
ReportStale(s) ==
  /\ at[s] = "final"
  /\ at' = [at EXCEPT ![s] = "over"]
  /\ status' = IF Shown(s) THEN [status EXCEPT !.state = Verdict(s)] ELSE status
  /\ UNCHANGED <<generation, token, budget, cursor, warmed, faulty, rd, late, submit>>

Report(s) ==
  /\ at[s] = "final"
  /\ at' = [at EXCEPT ![s] = "over"]
  /\ status' = IF Shown(s) THEN [status EXCEPT !.state = Verdict(s), !.bytes = warmed[s]] ELSE status
  /\ UNCHANGED <<generation, token, budget, cursor, warmed, faulty, rd, late, submit>>

\* cancel_for_generation: first the counter, then the status, whose token it keeps.
Supersede(c) ==
  /\ submit[c] = "new"
  /\ submit' = [submit EXCEPT ![c] = "bumped"]
  /\ generation' = generation + 1
  /\ UNCHANGED <<status, warmers>>

MarkCancelled(c) ==
  /\ submit[c] = "bumped"
  /\ submit' = [submit EXCEPT ![c] = "done"]
  /\ status' = IF status.state \in Pending
               THEN [status EXCEPT !.state = "cancelled_for_generation"] ELSE status
  /\ UNCHANGED <<generation, warmers>>

ReaderStep(s, r) == TakeFile(s, r) \/ OpenFile(s, r) \/ Read(s, r) \/ Tell(s, r)

Thread(s) == Begin(s) \/ Join(s) \/ Report(s) \/ \E r \in Readers : ReaderStep(s, r)

WNext ==
  \/ \E s \in Starts : TakeToken(s) \/ Announce(s) \/ SpawnFails(s) \/ Thread(s)
  \/ \E c \in Submits : Supersede(c) \/ MarkCancelled(c)

WSpec == WInit /\ [][WNext]_wvars

----------------------------------------------------------------------------
(* Properties.                                                             *)

ReaderStates == [at : {"gone", "top", "open", "read", "tell"}, file : 0 .. NFiles,
                 got : 0 .. Size, sum : 0 .. Planned]

\* Every variable has its type.
WTypeOK ==
  /\ generation \in 0 .. Cardinality(Starts) + Cardinality(Submits)
  /\ status \in [state : {"idle", "empty", "failed", "cancelled_for_generation", "budget_complete",
                          "complete", "complete_with_errors"} \cup Pending,
                 token : 0 .. generation, bytes : 0 .. Planned]
  /\ at \in [Starts -> {"new", "token", "spawned", "reading", "final", "over"}]
  /\ token \in [Starts -> 0 .. generation] /\ budget \in [Starts -> {0} \cup Budgets]
  /\ cursor \in [Starts -> 0 .. NFiles + Cardinality(Readers)]
  /\ warmed \in [Starts -> 0 .. Planned] /\ faulty \subseteq Starts
  /\ rd \in [Starts -> [Readers -> ReaderStates]]
  /\ late \in [Starts -> [Readers -> Nat]]
  /\ submit \in [Submits -> {"new", "bumped", "done"}]

\* "then stops the instant a real generation is submitted": once a submission or a newer
\* selection has moved the generation, a reader finishes at most the read it had begun.
AtMostOneLateRead == \A s \in Starts : \A r \in Readers : late[s][r] <= 1

\* The readers share one RAM budget: however they take the files, together they never
\* read more than warm_budget_bytes allowed, and no file is read by two of them.
WithinBudget ==
  \A s \in Starts :
    /\ warmed[s] <= budget[s]
    /\ \A r, q \in Readers : r # q /\ rd[s][r].file # 0 => rd[s][r].file # rd[s][q].file

\* Readers of a superseded start are still reporting while the next one's status is
\* shown: the bytes in the status are bytes of the start it names.
StatusIsItsOwn ==
  \A s \in Starts : token[s] # 0 /\ Shown(s) => status.bytes <= warmed[s]

\* Late reports of a slower reader do not survive the end: a status that says the warm
\* completed holds the exact number of bytes.
CompleteIsExact ==
  status.state \in {"complete", "budget_complete", "complete_with_errors"} =>
    \E s \in Starts : Shown(s) /\ status.bytes = warmed[s]

\* generation_cancels_an_active_warmer_immediately: after a submission the status reads
\* "cancelled_for_generation"; the start that was cancelled does not say "warming" again.
CancelledStaysCancelled ==
  [][status.state = "cancelled_for_generation" /\ status'.token = status.token
       => status'.state # "warming"]_status
====
