---------------------------- MODULE JobLifecycle ----------------------------
(***************************************************************************)
(* What the server promises about its jobs and its one GPU, seen from      *)
(* outside: a job is queued once, may be withdrawn while it waits, starts  *)
(* only on a GPU nobody owns, ends once, and the GPU is handed back only   *)
(* after the work on it is over. JobServer implements this.                *)
(***************************************************************************)
CONSTANTS Jobs, Borrowers, Free

VARIABLES phase, owner
vars == <<phase, owner>>

Outcomes == {"done", "failed", "cancelled"}

Init ==
  /\ phase = [j \in Jobs |-> "none"]
  /\ owner = Free

Become(j, p) == phase' = [phase EXCEPT ![j] = p]

\* A client submits j.
Submit(j) == phase[j] = "none" /\ Become(j, "queued") /\ UNCHANGED owner

\* A client cancels or removes j before it started.
Withdraw(j) ==
  /\ phase[j] = "queued"
  /\ Become(j, "cancelled") \/ Become(j, "removed")
  /\ UNCHANGED owner

\* j starts on a GPU that is free,
Start(j) == phase[j] = "queued" /\ owner = Free /\ Become(j, "running") /\ owner' = j

\* ends while it owns the GPU,
End(j) ==
  /\ phase[j] = "running" /\ owner = j
  /\ \E p \in Outcomes : Become(j, p)
  /\ UNCHANGED owner

\* and hands it back afterwards.
HandBack(j) == owner = j /\ phase[j] \in Outcomes /\ owner' = Free /\ UNCHANGED phase

\* A request of another path borrows the free GPU and returns it.
Borrow(r) == owner = Free /\ owner' = r /\ UNCHANGED phase
Return(r) == owner = r /\ owner' = Free /\ UNCHANGED phase

Next ==
  \/ \E j \in Jobs : Submit(j) \/ Withdraw(j) \/ Start(j) \/ End(j) \/ HandBack(j)
  \/ \E r \in Borrowers : Borrow(r) \/ Return(r)

Spec == Init /\ [][Next]_vars
====
