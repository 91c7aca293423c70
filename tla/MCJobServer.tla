---------------------------- MODULE MCJobServer ----------------------------
(* Instances of JobServer for TLC.                                         *)
EXTENDS JobServer, TLC

CONSTANTS j1, j2, k1, k2, v1, v2, m1, s1

\* j1 runs on the launch worker's key, j2 needs the other one.
TwoKeys == (j1 :> k1) @@ (j2 :> k2)
OneKey == (j1 :> k2)
====
