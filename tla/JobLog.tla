------------------------------- MODULE JobLog -------------------------------
(***************************************************************************)
(* What the channel of a job promises: its log of events is empty until    *)
(* the job starts, gets its end once and nothing after it; the channel is  *)
(* dropped only when the end is in the log, and a job that is withdrawn    *)
(* has an empty log for ever. JobServer implements this for all its jobs,  *)
(* JobStream for the one that its sockets ask for.                         *)
(***************************************************************************)
EXTENDS Naturals, Sequences

CONSTANT Jobs

VARIABLES
  log,       \* of each job: its events, a run of progress counted once
  withdrawn, \* jobs that were removed from the queue
  dropped    \* jobs whose channel was dropped
vars == <<log, withdrawn, dropped>>

Ends == {"done", "failed", "cancelled"}
Over(h) == h # <<>> /\ h[Len(h)] \in Ends

Init == log = [j \in Jobs |-> <<>>] /\ withdrawn = {} /\ dropped = {}

Log(j, ev) ==
  /\ j \notin withdrawn /\ ~Over(log[j])
  /\ log' = [log EXCEPT ![j] = Append(@, ev)]
  /\ UNCHANGED <<withdrawn, dropped>>

Progress(j) == log[j] = <<>> /\ Log(j, "progress")
End(j)      == \E ev \in Ends : Log(j, ev)
Withdraw(j) == log[j] = <<>> /\ withdrawn' = withdrawn \cup {j} /\ UNCHANGED <<log, dropped>>
Drop(j)     == Over(log[j]) /\ dropped' = dropped \cup {j} /\ UNCHANGED <<log, withdrawn>>

Next == \E j \in Jobs : Progress(j) \/ End(j) \/ Withdraw(j) \/ Drop(j)

Spec == Init /\ [][Next]_vars
====
