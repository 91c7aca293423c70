----------------------------- MODULE MCJobCasts -----------------------------
(* JobServer with every kind of GPU borrower, a few of them at a time: the  *)
(* initial state draws a cast, and only its members ever come. One run      *)
(* covers several small casts instead of the product of all of them.        *)
EXTENDS MCJobServer

CONSTANT Casts   \* sets of requests that come in one behaviour

CastInit == Init /\ {r \in Reqs \cup Sams : req[r] = "new"} \in Casts

CastSpec == CastInit /\ [][Next]_vars /\ Fairness
====
