----------------------------- MODULE MCParts -----------------------------
(* The parts of the repository that share no state with the others and are *)
(* small: the two restartable converters, the progress stream of a job,    *)
(* and the weight offload. One run explores each of them by itself: a      *)
(* behaviour picks a part, and the variables of the others keep one        *)
(* initial value.                                                          *)
EXTENDS SlabBuild, ScailConvert, JobStream, TurboLoader, TLC

VARIABLE part

PartsInit ==
  /\ part \in {"slab", "scail", "stream", "turbo"}
  /\ Init /\ CInit /\ SInit /\ UInit
  /\ part # "scail" => \A u \in Units : file[u] = NoFile
  /\ part # "stream" => total = 1
  /\ part # "turbo" => mode.on = "copy"

PartsNext ==
  /\ UNCHANGED part
  /\ \/ part = "slab" /\ Next /\ UNCHANGED <<cvars, svars, uvars>>
     \/ part = "scail" /\ CNext /\ UNCHANGED <<vars, svars, uvars>>
     \/ part = "stream" /\ SNext /\ UNCHANGED <<vars, cvars, uvars>>
     \/ part = "turbo" /\ UNext /\ UNCHANGED <<vars, cvars, svars>>

\* The fairness of JobStream, in the behaviours that are about it.
PartsFairness ==
  /\ WF_svars(part = "stream" /\ Publish)
  /\ \A r \in Readers : WF_svars(part = "stream" /\ Reading(r))

PartsSpec == PartsInit /\ [][PartsNext]_<<part, vars, cvars, svars, uvars>> /\ PartsFairness

\* Every variable of every part has its type.
PartsTypeOK == TypeOK /\ CTypeOK /\ STypeOK /\ UTypeOK
====
