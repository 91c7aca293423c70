-------------------------- MODULE ResumableBuild --------------------------
(***************************************************************************)
(* What a restartable converter of a large checkpoint promises, seen from  *)
(* its output directory: the units of the output (shards) are made one by  *)
(* one in order, the first missing one next; a unit that is there stays    *)
(* there, whatever kills and restarts the converter, until its file is     *)
(* lost or the directory is bound to another source.                       *)
(* scripts/squareq_build_slab.py (module SlabBuild) and                    *)
(* scripts/scail2_convert_checkpoint.py (module ScailConvert) promise it.  *)
(***************************************************************************)
EXTENDS Naturals

CONSTANTS
  Units,   \* the units of the output, numbered in the order they are made
  Bases,   \* sources an output directory can be bound to
  NoBase

VARIABLES
  base,    \* the source the directory is bound to
  built    \* the units of that source that need not be made again

Init == base = NoBase /\ built = {}

\* The unit a converter resumes at.
FirstMissing(u) == u \in Units \ built /\ \A v \in Units : v < u => v \in built

Make == \E u \in Units :
  /\ FirstMissing(u)
  /\ built' = built \cup {u}
  /\ UNCHANGED base

\* Only another source makes a directory start again.
Rebase == \E b \in Bases \ {base} :
  /\ base' = b
  /\ built' = {}

Lose == \E lost \in SUBSET Units :
  /\ built' = built \ lost
  /\ UNCHANGED base

Next == Make \/ Rebase \/ Lose

Spec == Init /\ [][Next]_<<base, built>>
====
