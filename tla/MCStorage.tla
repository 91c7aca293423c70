----------------------------- MODULE MCStorage -----------------------------
(* The two components of the server that deal with the disk: jobs.db and   *)
(* the artifacts (JobBook), and the page cache (WarmLoad). They share no   *)
(* state: a behaviour picks one of them, and the variables of the other    *)
(* keep their initial values.                                              *)
EXTENDS JobBook, WarmLoad, TLC

VARIABLE component

StorageInit == component \in {"book", "warm"} /\ Init /\ WInit

StorageNext ==
  /\ UNCHANGED component
  /\ \/ component = "book" /\ Next /\ UNCHANGED wvars
     \/ component = "warm" /\ WNext /\ UNCHANGED vars

StorageSpec == StorageInit /\ [][StorageNext]_<<component, vars, wvars>>

\* Every variable of both components has its type.
StorageTypeOK == TypeOK /\ WTypeOK

\* The starts of a warm are alike, and so are its readers: no property tells one of them
\* from another.
Alike == Permutations(Starts) \cup Permutations(Readers)
====
