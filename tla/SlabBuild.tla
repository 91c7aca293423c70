---------------------------- MODULE SlabBuild ----------------------------
(***************************************************************************)
(* The SquareQ slab builder (scripts/squareq_build_slab.py with            *)
(* squareq/plan.py, stwriter.py and source.py): a batch program that       *)
(* quantizes a checkpoint into a directory of shards, may be killed at any *)
(* point, and is run again by hand until it ends.                          *)
(*                                                                         *)
(* The directory holds the shards, build-state.json (which source, which   *)
(* shards are complete), squareq-plan.partial.json (statistics of what was *)
(* quantized so far), and at the end the index and squareq-plan.json. Each *)
(* file is replaced by a rename, so a step that writes one is atomic, and  *)
(* a kill can only come between two of them. Temporary files are truncated *)
(* by the next writer and read by nobody; they are left out.               *)
(*                                                                         *)
(* The source is a single file here (a directory of shards is opened      *)
(* shard by shard). It may be exchanged for another, or for an earlier one *)
(* again, at any time; a version of it stands for its path, size and       *)
(* mtime. The content of a shard, and the entry its layers get in a plan,  *)
(* is the version and the options it was made with. --blocks-per-shard and *)
(* --max-groups are fixed: they decide how many shards there are, and that *)
(* number is part of the name of each.                                     *)
(***************************************************************************)
EXTENDS Naturals

CONSTANTS
  NumShards,   \* shards of the output: block groups, then the passthrough tensors
  MaxSource,   \* bound: versions of the source
  Opts,        \* settings of --format, --rank, --group and --budget-x (the ranks of the layers)
  None

ASSUME SlabAssumption ==
  /\ NumShards \in Nat /\ MaxSource \in Nat \ {0}
  /\ None \notin [src : 1 .. MaxSource, opt : Opts]
  /\ None \notin [1 .. NumShards -> [src : 1 .. MaxSource, opt : Opts] \cup {None}]
  /\ None \notin Opts

Shards  == 1 .. NumShards
Sources == 1 .. MaxSource
Entry   == [src : Sources, opt : Opts]
Plans   == [Shards -> Entry \cup {None}]
NoPlan  == [s \in Shards |-> None]

VARIABLES
  source,     \* the version of the checkpoint at --src
  \* ---- the output directory
  state,      \* build-state.json; src = 0 while there is none
  shard,      \* the shard files
  partial,    \* squareq-plan.partial.json
  index,      \* model.safetensors.index.json: the format it names
  manifest,   \* squareq-plan.json
  \* ---- the running builder
  step,       \* its next step, "off" while none runs
  run,        \* what it was started on: the identity it read, its options
  plan,       \* the plan it keeps in memory
  at,         \* the shard it is at
  opened,     \* the version its open handle on the source reads
  \* ---- history
  published,  \* the state has seen a build end
  disturbed   \* the source was exchanged while a builder of this state ran

dirVars == <<state, shard, partial, index, manifest>>
ghosts  == <<published, disturbed>>
memVars == <<run, plan, at, opened>>
vars == <<source, dirVars, step, memVars, ghosts>>

Init ==
  /\ source = 1
  /\ state = [src |-> 0, done |-> {}] /\ shard = NoPlan
  /\ partial = None /\ index = None /\ manifest = None
  /\ step = "off"
  /\ run = None /\ plan = NoPlan /\ at = 1 /\ opened = 0
  /\ published = FALSE /\ disturbed = FALSE

\* The builder is gone, and its memory with it.
Exit == step' = "off" /\ run' = None /\ plan' = NoPlan /\ at' = 1 /\ opened' = 0

\* What the shard at hand is made of, and what its layers' plan entries say.
Content == [src |-> opened, opt |-> run.opt]

\* A shard that need not be made again.
Done(s) == s \in state.done /\ shard[s] # None

----------------------------------------------------------------------------
(* The outside: the source is exchanged, shard files are deleted by hand   *)
(* while no builder runs, the builder is killed.                           *)
Exchange ==
  /\ source' \in Sources \ {source}
  /\ disturbed' = (disturbed \/ step # "off")
  /\ UNCHANGED <<dirVars, step, memVars, published>>

DeleteShard(s) ==
  /\ step = "off" /\ shard[s] # None
  /\ shard' = [shard EXCEPT ![s] = None]
  /\ UNCHANGED <<source, state, partial, index, manifest, step, memVars, ghosts>>

\* A kill, or an exception in any step: what was renamed is kept, the memory is lost.
Kill ==
  /\ step # "off"
  /\ Exit
  /\ UNCHANGED <<source, dirVars, ghosts>>

----------------------------------------------------------------------------
(* main().                                                                 *)

\* source_identity of --src, read once per run.
Launch(o) ==
  /\ step = "off"
  /\ step' = "load"
  /\ run' = [src |-> source, opt |-> o]
  /\ UNCHANGED <<source, dirVars, plan, at, opened, ghosts>>

\* load_state: a state of another source is as good as none.
Valid(st) == st.src = run.src

\* Mutant of Valid: the identity of the source is not compared.
AnyState(st) == st.src # 0

LoadState ==
  /\ step = "load"
  /\ step' = "seed"
  /\ IF Valid(state)
     THEN UNCHANGED <<state, ghosts>>
     ELSE /\ state' = [src |-> run.src, done |-> {}]
          /\ published' = FALSE /\ disturbed' = (source # run.src)
  /\ UNCHANGED <<source, shard, partial, index, manifest, memVars>>

\* Mutant of SeedPlan: the builder starts with an empty plan.
SeedNothing ==
  /\ step = "seed"
  /\ step' = "next"
  /\ UNCHANGED <<source, dirVars, memVars, ghosts>>

\* The statistics of the completed shards are recovered from the partial plan.
SeedPlan ==
  /\ step = "seed"
  /\ step' = "next"
  /\ plan' = IF state.done # {} /\ partial # None THEN partial ELSE plan
  /\ UNCHANGED <<source, dirVars, run, at, opened, ghosts>>

\* Mutant of SkipShard: a shard file that exists is taken to be complete.
SkipExisting ==
  /\ step = "next" /\ at \in Shards /\ shard[at] # None
  /\ at' = at + 1
  /\ UNCHANGED <<source, dirVars, step, run, plan, opened, ghosts>>

SkipShard ==
  /\ step = "next" /\ at \in Shards /\ Done(at)
  /\ at' = at + 1
  /\ UNCHANGED <<source, dirVars, step, run, plan, opened, ghosts>>

\* The writer's header goes to a temporary file, then the source is opened again.
OpenShard ==
  /\ step = "next" /\ at \in Shards /\ ~Done(at)
  /\ step' = "write"
  /\ opened' = source
  /\ UNCHANGED <<source, dirVars, run, plan, at, ghosts>>

\* Every declared tensor is written, close() renames the shard into place.
CloseShard ==
  /\ step = "write"
  /\ step' = "stats"
  /\ shard' = [shard EXCEPT ![at] = Content]
  /\ plan' = [plan EXCEPT ![at] = Content]
  /\ UNCHANGED <<source, state, partial, index, manifest, run, at, opened, ghosts>>

\* "Partial plan BEFORE the state",
SavePartial ==
  /\ step = "stats"
  /\ step' = "mark"
  /\ partial' = plan
  /\ UNCHANGED <<source, state, shard, index, manifest, memVars, ghosts>>

\* then the shard is recorded as complete.
SaveState ==
  /\ step = "mark"
  /\ step' = "next"
  /\ state' = [state EXCEPT !.done = @ \cup {at}]
  /\ at' = at + 1
  /\ UNCHANGED <<source, shard, partial, index, manifest, run, plan, opened, ghosts>>

PublishIndex ==
  /\ step = "next" /\ at \notin Shards
  /\ step' = "plan"
  /\ index' = run.opt
  /\ UNCHANGED <<source, state, shard, partial, manifest, memVars, ghosts>>

PublishPlan ==
  /\ step = "plan"
  /\ step' = "clean"
  /\ manifest' = plan
  /\ UNCHANGED <<source, state, shard, partial, index, memVars, ghosts>>

\* The partial plan is unlinked; the program ends.
Finish ==
  /\ step = "clean"
  /\ Exit
  /\ partial' = None
  /\ published' = TRUE
  /\ UNCHANGED <<source, state, shard, index, manifest, disturbed>>

Builder ==
  \/ \E o \in Opts : Launch(o)
  \/ LoadState \/ SeedPlan
  \/ SkipShard \/ OpenShard \/ CloseShard \/ SavePartial \/ SaveState
  \/ PublishIndex \/ PublishPlan \/ Finish

Outside == Exchange \/ Kill \/ \E s \in Shards : DeleteShard(s)

Next == Builder \/ Outside

Spec == Init /\ [][Next]_vars

----------------------------------------------------------------------------
(* Properties.                                                             *)

\* Every variable has its type.
TypeOK ==
  /\ source \in Sources
  /\ state \in [src : {0} \cup Sources, done : SUBSET Shards]
  /\ shard \in Plans
  /\ partial \in Plans \cup {None} /\ manifest \in Plans \cup {None}
  /\ index \in Opts \cup {None}
  /\ step \in {"off", "load", "seed", "next", "write", "stats", "mark", "plan", "clean"}
  /\ run \in Entry \cup {None} /\ (step # "off" => run \in Entry)
  /\ plan \in Plans /\ at \in 1 .. NumShards + 1
  /\ opened \in {0} \cup Sources
  /\ published \in BOOLEAN /\ disturbed \in BOOLEAN

\* When a build ends, however many kills, deletions, exchanges and other options lie
\* behind, every shard is there, and when it is the first build to end since the state was
\* made, squareq-plan.json has an entry for each: no kill between a shard, the partial plan
\* and the state lost one (squareq_build_slab.py:455-457). And unless the source was
\* exchanged under a running builder, which source_identity cannot see once it is back, the
\* shards and the entries are those of the source the state names, not of another one that
\* came and went between two runs.
FinishedBuildIsWhole ==
  step = "clean" => \A s \in Shards :
    /\ shard[s] # None
    /\ ~published => manifest[s] # None
    /\ ~disturbed => /\ shard[s].src = state.src
                     /\ ~published => manifest[s].src = state.src

\* A finished build leaves a plan with an entry for every shard: "the plan records what
\* the builder decided per layer ... and is the manifest the Mojo loader validates
\* against" (squareq/plan.py:3-4). Violated when a finished build is run again.
PlanListsEveryShard ==
  step = "clean" => \A s \in Shards : manifest[s] # None

\* The builder implements ResumableBuild ("A killed build resumes at the first incomplete
\* output shard", squareq_build_slab.py:8): the directory is bound by build-state.json,
\* a unit is built when the state lists it and its file is there.
Abs == INSTANCE ResumableBuild WITH
         Units <- Shards, Bases <- Sources, NoBase <- 0,
         base <- state.src, built <- {s \in state.done : shard[s] # None}
ImplementsResumableBuild == Abs!Spec
====
