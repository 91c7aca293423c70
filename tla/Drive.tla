------------------------------- MODULE Drive -------------------------------
(***************************************************************************)
(* What a drive is for the rest of the server: drive_one_job and drive_    *)
(* hires_two_pass as a call that is given one job after the other, may be  *)
(* asked to cancel the one it has, and returns once for each. WorkerPipe   *)
(* implements this; JobServer is written against it (Endings).             *)
(***************************************************************************)
EXTENDS Naturals

CONSTANT MaxJobs

VARIABLES
  job,      \* the job of this drive, or of the last one
  busy,     \* the drive has not returned
  asked,    \* its job was asked to stop
  twoPass,  \* its job is a hires job
  held,     \* there is a worker for the next job
  outcome   \* what the drive of each job returned
vars == <<job, busy, asked, twoPass, held, outcome>>

Init ==
  /\ job = 0 /\ busy = FALSE /\ asked = FALSE /\ twoPass = FALSE /\ held = TRUE
  /\ outcome = [j \in 1 .. MaxJobs |-> "none"]

\* How a drive may return: an outcome, and whether the worker is lost with it. "Cancelled"
\* only if somebody asked for it, and a failure that spares the worker only between passes.
Endings ==
  {[ev |-> "done", lost |-> FALSE], [ev |-> "failed", lost |-> TRUE]}
    \cup (IF asked THEN {[ev |-> "cancelled", lost |-> FALSE]} ELSE {})
    \cup (IF twoPass THEN {[ev |-> "failed", lost |-> FALSE]} ELSE {})

Returns(j, e) == outcome[j] = "none" /\ outcome' = [outcome EXCEPT ![j] = e.ev] /\ held' = ~e.lost

\* A lost worker is replaced between jobs.
Replace == ~busy /\ ~held /\ held' = TRUE /\ UNCHANGED <<job, busy, asked, twoPass, outcome>>

\* The next job is driven, or fails because its worker is lost already.
Begin ==
  /\ ~busy /\ held /\ job < MaxJobs
  /\ job' = job + 1 /\ asked' = FALSE /\ twoPass' \in BOOLEAN
  /\ \/ busy' = TRUE /\ UNCHANGED <<held, outcome>>
     \/ Returns(job', [ev |-> "failed", lost |-> TRUE]) /\ UNCHANGED busy

Ask == busy /\ asked' = TRUE /\ UNCHANGED <<job, busy, twoPass, held, outcome>>

End ==
  /\ busy /\ busy' = FALSE
  /\ \E e \in Endings : Returns(job, e)
  /\ UNCHANGED <<job, asked, twoPass>>

Next == Replace \/ Begin \/ Ask \/ End

Spec == Init /\ [][Next]_vars
====
