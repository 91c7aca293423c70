------------------------------ MODULE JobBook ------------------------------
(***************************************************************************)
(* The JobBook across server sessions: the ids handed out by next_id, the  *)
(* order of the active queue under reorder and remove, the rewrite of      *)
(* jobs.db, and what a restart recovers from jobs.db and from the names of *)
(* the artifacts on disk. The server may crash between any two steps; the  *)
(* worker it leaves behind may finish writing its image later.             *)
(*                                                                         *)
(* Everything under the book's mutex is one step, except a save, whose SQL *)
(* statements are steps of their own: no handler runs between them, but a  *)
(* crash may.                                                              *)
(***************************************************************************)
EXTENDS Naturals, Sequences, FiniteSets, FiniteSetsExt

CONSTANTS
  MaxId,       \* bound: ids handed out per session
  MaxSessions  \* bound: sessions of the server

ASSUME BookAssumption == MaxId \in Nat /\ MaxSessions \in Nat

VARIABLES
  session,  \* number of the server's session, 0 before the first
  up,       \* the server runs
  counter,  \* next_id
  prior,    \* rows read from jobs.db at the start of the session
  book,     \* ids of this session in JobBook order
  state,    \* record.state of each id
  due,      \* ids whose end has not been followed by its save yet
  saving,   \* save_jobs_db is between its two transactions
  table,    \* the jobs table on disk
  image,    \* session that wrote job-<id>.png, 0 if there is none
  others,   \* ids in the names of uploads, videos, grids and training runs
  reserved, \* ghost: ids in a name on disk when the session began
  orphan    \* <<id, session>> an orphaned worker is still working on, or NoOrphan

memory == <<counter, prior, book, state, due, saving>>
disk   == <<table, image, others, orphan>>
vars   == <<session, up, memory, disk, reserved>>

Ids      == 1 .. MaxId
Final    == {"done", "failed", "cancelled", "interrupted"}
RowState == {"none", "running"} \cup Final
NoRows   == [j \in Ids |-> "none"]
NoOrphan == <<0, 0>>
Top(S)   == Max(S \cup {0})
Named(j) == image[j] # 0 \/ j \in others

InBook(j) == \E i \in DOMAIN book : book[i] = j
Active(j) == InBook(j) /\ state[j] = "queued"

\* The handlers and the driver hold the book's mutex; a save holds it throughout.
Unlocked == up /\ ~saving

Init ==
  /\ session = 0 /\ up = FALSE /\ counter = 0 /\ prior = NoRows
  /\ book = <<>> /\ state = NoRows /\ due = {} /\ saving = FALSE
  /\ table = NoRows /\ image = [j \in Ids |-> 0] /\ others = {} /\ orphan = NoOrphan
  /\ reserved = {}

----------------------------------------------------------------------------
(* Starting, crashing, and the worker left behind.                         *)

\* Mutant of Loaded: a state that is not terminal is taken over.
LoadedRaw == table

\* load_prior_rows: what is there, with states that are not terminal repaired.
Loaded == [j \in Ids |-> IF table[j] = "running" THEN "interrupted" ELSE table[j]]

\* Mutants of Recovered: the counter is recovered from one source only.
RecoveredRows  == Top({j \in Ids : Loaded[j] # "none"})
RecoveredNames == Top({j \in Ids : Named(j)})

\* max_prior_id and max_existing_output_id.
Recovered == Top({j \in Ids : Loaded[j] # "none" \/ Named(j)})

\* The server starts.
Restart ==
  /\ ~up /\ session < MaxSessions
  /\ up' = TRUE /\ session' = session + 1
  /\ prior' = Loaded /\ counter' = Recovered
  /\ reserved' = {j \in Ids : Named(j)}
  /\ UNCHANGED <<book, state, due, saving, disk>>

\* The server is killed. Its memory is gone; the worker of a running job is not.
Crash ==
  /\ up
  /\ up' = FALSE
  /\ counter' = 0 /\ prior' = NoRows /\ book' = <<>> /\ state' = NoRows
  /\ due' = {} /\ saving' = FALSE
  /\ \/ orphan' = NoOrphan
     \/ \E j \in Ids : state[j] = "running" /\ orphan' = <<j, session>>
  /\ UNCHANGED <<session, table, image, others, reserved>>

\* It notices the closed socket only between blocking ticks, after the image is written.
OrphanWrites ==
  /\ orphan # NoOrphan
  /\ image' = [image EXCEPT ![orphan[1]] = orphan[2]]
  /\ orphan' = NoOrphan
  /\ UNCHANGED <<session, up, memory, table, others, reserved>>

----------------------------------------------------------------------------
(* Jobs.                                                                   *)

\* enqueue_generate, and grid cells: the next id, at the end of the book.
Enqueue ==
  /\ Unlocked /\ counter < MaxId
  /\ counter' = counter + 1
  /\ book' = Append(book, counter + 1)
  /\ state' = [state EXCEPT ![counter + 1] = "queued"]
  /\ UNCHANGED <<session, up, prior, due, saving, disk, reserved>>

\* Uploads, videos, grids and training runs take ids too, and name a file or directory.
TakeId ==
  /\ up /\ counter < MaxId
  /\ counter' = counter + 1
  /\ others' = others \cup {counter + 1}
  /\ UNCHANGED <<session, up, prior, book, state, due, saving, table, image, reserved, orphan>>

\* The driver runs the first queued entry.
Promote ==
  /\ Unlocked /\ \A j \in Ids : state[j] # "running"
  /\ \E i \in DOMAIN book : /\ Active(book[i])
                            /\ \A k \in 1 .. i - 1 : ~Active(book[k])
                            /\ state' = [state EXCEPT ![book[i]] = "running"]
  /\ UNCHANGED <<session, up, counter, prior, book, due, saving, disk, reserved>>

\* The worker writes the image of the running job.
WorkerWrites(j) ==
  /\ up /\ state[j] = "running" /\ image[j] # session
  /\ image' = [image EXCEPT ![j] = session]
  /\ UNCHANGED <<session, up, memory, table, others, orphan, reserved>>

\* The job ends; a save follows, except after the failures before the drive. (An image
\* is there when it ends as "done".)
End(j) ==
  /\ Unlocked /\ state[j] = "running"
  /\ \E s \in {"done", "failed", "cancelled"} :
       /\ s = "done" => image[j] = session
       /\ state' = [state EXCEPT ![j] = s]
       /\ due' = due \cup {j} \/ (s = "failed" /\ due' = due)
  /\ UNCHANGED <<session, up, counter, prior, book, saving, disk, reserved>>

\* POST /v1/cancel/:id of a queued job; a save follows.
CancelQueued(j) ==
  /\ Unlocked /\ Active(j)
  /\ state' = [state EXCEPT ![j] = "cancelled"]
  /\ due' = due \cup {j}
  /\ UNCHANGED <<session, up, counter, prior, book, saving, disk, reserved>>

\* POST /v1/remove.
Remove(j) ==
  /\ Unlocked /\ Active(j)
  /\ \E i \in DOMAIN book :
       /\ book[i] = j
       /\ book' = SubSeq(book, 1, i - 1) \o SubSeq(book, i + 1, Len(book))
  /\ state' = [state EXCEPT ![j] = "none"]
  /\ UNCHANGED <<session, up, counter, prior, due, saving, disk, reserved>>

----------------------------------------------------------------------------
(* The active queue: queue position = index among the active entries.      *)

ActiveCount == Cardinality({i \in DOMAIN book : Active(book[i])})
\* queued_position_of_index and queued_index_at_position in the book b.
PosAt(b, i)   == Cardinality({k \in 1 .. i - 1 : Active(b[k])})
IndexAt(b, p) == CHOOSE i \in DOMAIN b : Active(b[i]) /\ PosAt(b, i) = p
PosOf(b, j)   == PosAt(b, CHOOSE i \in DOMAIN b : b[i] = j)

Swap(b, p, q) == [b EXCEPT ![IndexAt(b, p)] = b[IndexAt(b, q)],
                           ![IndexAt(b, q)] = b[IndexAt(b, p)]]

\* Mutant of Moved: a move towards the end stops one position early.
MovedShort(j, target) ==
  LET pos == PosOf(book, j)
      up_[n \in 0 .. MaxId]   == IF n = 0 THEN book ELSE Swap(up_[n - 1], pos - n + 1, pos - n)
      down_[n \in 0 .. MaxId] == IF n = 0 THEN book ELSE Swap(down_[n - 1], pos + n - 1, pos + n)
  IN IF pos > target THEN up_[pos - target]
     ELSE IF pos + 1 < target THEN down_[target - pos - 1] ELSE book

\* Mutant of Moved: entries are swapped by their index in the book.
MovedByIndex(j, target) ==
  LET i == CHOOSE x \in DOMAIN book : book[x] = j
  IN [book EXCEPT ![i] = book[target + 1], ![target + 1] = j]

\* move_queued_job_to_position: adjacent swaps within the active entries.
Moved(j, target) ==
  LET pos == PosOf(book, j)
      up_[n \in 0 .. MaxId]   == IF n = 0 THEN book ELSE Swap(up_[n - 1], pos - n + 1, pos - n)
      down_[n \in 0 .. MaxId] == IF n = 0 THEN book ELSE Swap(down_[n - 1], pos + n - 1, pos + n)
  IN IF pos > target THEN up_[pos - target] ELSE down_[target - pos]

\* Mutant of TargetBefore: the gap the moved entry leaves is forgotten.
TargetAt(j, before) == PosOf(book, before)

\* reorder_target_position for a before_id.
TargetBefore(j, before) ==
  IF before = j THEN PosOf(book, j)
  ELSE IF PosOf(book, before) > PosOf(book, j) THEN PosOf(book, before) - 1
  ELSE PosOf(book, before)

\* POST /v1/reorder, by position or by before_id.
Reorder(j) ==
  /\ Unlocked /\ Active(j)
  /\ \/ \E t \in 0 .. ActiveCount - 1 : book' = Moved(j, t)
     \/ \E b \in Ids : Active(b) /\ book' = Moved(j, TargetBefore(j, b))
  /\ UNCHANGED <<session, up, counter, prior, state, due, saving, disk, reserved>>

----------------------------------------------------------------------------
(* save_jobs_db.                                                           *)

\* DROP TABLE and CREATE TABLE, each committed on its own; an SQL error before that ends
\* the save, is ignored, and leaves the older rows.
SaveDrop(j) ==
  /\ Unlocked /\ j \in due
  /\ due' = due \ {j}
  /\ \/ saving' = TRUE /\ table' = NoRows
     \/ UNCHANGED <<saving, table>>
  /\ UNCHANGED <<session, up, counter, prior, book, state, image, others, orphan, reserved>>

\* prior rows, then the session's entries that left "queued".
Rows == [j \in Ids |-> IF InBook(j) /\ state[j] # "queued" THEN state[j] ELSE prior[j]]

\* The transaction with the inserts; an SQL error ends the save without it and is ignored.
SaveInsert ==
  /\ saving
  /\ saving' = FALSE
  /\ table' \in {Rows, table}
  /\ UNCHANGED <<session, up, counter, prior, book, state, due, image, others, orphan, reserved>>

Next ==
  \/ Restart \/ Crash \/ OrphanWrites
  \/ Enqueue \/ TakeId \/ Promote
  \/ \E j \in Ids : WorkerWrites(j) \/ End(j) \/ CancelQueued(j) \/ Remove(j) \/ Reorder(j)
  \/ \E j \in Ids : SaveDrop(j)
  \/ SaveInsert

Spec == Init /\ [][Next]_vars

----------------------------------------------------------------------------
(* Properties.                                                             *)

\* Every variable has its type.
TypeOK ==
  /\ session \in 0 .. MaxSessions /\ up \in BOOLEAN /\ counter \in 0 .. MaxId
  /\ prior \in [Ids -> {"none"} \cup Final]
  /\ book \in Seq(Ids) /\ state \in [Ids -> RowState \cup {"queued"}]
  /\ due \subseteq Ids /\ saving \in BOOLEAN
  /\ table \in [Ids -> RowState]
  /\ image \in [Ids -> 0 .. MaxSessions] /\ others \subseteq Ids /\ reserved \subseteq Ids
  /\ orphan \in (Ids \cup {0}) \X (0 .. MaxSessions)

\* enqueue_generate: a new id "never collides with a prior row", and "a server restart
\* must never reuse one of those names" of artifacts, whatever the order of crashes,
\* lost saves and jobs that left only a row or only a file.
NoReissue == \A j \in Ids : InBook(j) => prior[j] = "none" /\ j \notin reserved

\* Over any number of restarts the history keeps its rows and never changes its mind
\* about a job: a completed rewrite holds every row of the earlier sessions unchanged.
HistoryIsKept ==
  [][saving /\ table' # table => \A j \in Ids : prior[j] # "none" => table'[j] = prior[j]]_vars

\* Reorder: the entry lands at the queue position that was asked for and reported back;
\* with before_id it lands directly in front of the other one, from whichever side it comes.
ReorderLands ==
  \A j \in {x \in Ids : Active(x)} :
    /\ \A t \in 0 .. ActiveCount - 1 : PosOf(Moved(j, t), j) = t
    /\ \A b \in {x \in Ids : Active(x)} \ {j} :
         LET m == Moved(j, TargetBefore(j, b)) IN PosOf(m, j) + 1 = PosOf(m, b)

\* A reorder never moves an entry that is not in the active queue and keeps the relative
\* order of the others (what JobServer assumes of /v1/reorder).
ReorderIsMove ==
  \A j \in {x \in Ids : Active(x)} : \A t \in 0 .. ActiveCount - 1 :
    LET b == Moved(j, t)
    IN /\ \A i \in DOMAIN book : ~Active(book[i]) => b[i] = book[i]
       /\ \A x, y \in {z \in Ids : Active(z)} \ {j} :
            PosOf(book, x) < PosOf(book, y) <=> PosOf(b, x) < PosOf(b, y)

\* Both halves of what a reorder does.
ReorderIsExact == ReorderLands /\ ReorderIsMove

\* save_jobs_db: "Crash-safe full rewrite." A crash costs no row of an earlier session.
CrashSafeRewrite == [][up /\ ~up' => \A j \in Ids : prior[j] # "none" => table[j] # "none"]_vars

\* max_existing_output_id: a restart "must never reuse one of those names and truncate a
\* completed artifact". No finished image is overwritten.
NoArtifactOverwritten == [][\A j \in Ids : image[j] # 0 => image'[j] = image[j]]_image
====
