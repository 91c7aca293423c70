------------------------- MODULE SlabBuild_proofs -------------------------
(***************************************************************************)
(* Proofs about SlabBuild for any number of shards, versions of the source *)
(* and options: types, a finished build is whole, and the refinement of    *)
(* ResumableBuild. The inductive invariant is SlabInv; its parts say where *)
(* the memory of the builder and each file of the directory stand to the   *)
(* state file at every step, which is what a kill at that step leaves.     *)
(***************************************************************************)
EXTENDS SlabBuild, TLAPS

Looping == {"next", "write", "stats", "mark"}
Ending  == {"plan", "clean"}

\* An entry of the source that the state names, unless that was exchanged under a builder.
Fresh(e) == e # None /\ (~disturbed => e.src = state.src)

\* The builder reads the source whose identity it took, unless it was exchanged; from
\* LoadState on the state file is of that source.
RunInv ==
  /\ step # "off" /\ ~disturbed => source = run.src
  /\ step \in {"seed"} \cup Looping \cup Ending => state.src = run.src

\* A shard that the state lists is of the state's source, if its file is still there.
DoneInv == \A s \in state.done : shard[s] # None => Fresh(shard[s])

\* Everything before the shard at hand is done; at the end all is.
LoopInv ==
  /\ step \in {"off", "load", "seed"} => at = 1
  /\ step \in Looping => \A s \in Shards : s < at => Done(s)
  /\ step \in Ending => \A s \in Shards : Done(s)

\* The shard at hand, and its entry in the plan.
HandInv ==
  /\ step \in Looping \ {"next"} => at \in Shards
  /\ step = "write" => opened \in Sources /\ (~disturbed => opened = run.src)
  /\ step \in {"stats", "mark"} => Fresh(shard[at]) /\ Fresh(plan[at])

\* Until a build of this state ends, the partial plan has an entry for every shard the
\* state lists: it is written first.
PartialInv ==
  ~published => \A s \in state.done : partial # None /\ Fresh(partial[s])

\* So has the plan in memory, once it is seeded; it is what gets written.
PlanInv ==
  /\ ~published /\ step \in Looping \cup Ending => \A s \in state.done : Fresh(plan[s])
  /\ step = "mark" => partial = plan
  /\ step = "clean" => manifest = plan

SlabInv == TypeOK /\ RunInv /\ DoneInv /\ LoopInv /\ HandInv /\ PartialInv /\ PlanInv
----------------------------------------------------------------------------
(* Types.                                                                  *)

\* What CloseShard writes is an entry.
LEMMA ContentType ==
  ASSUME TypeOK, HandInv, RunInv, step = "write"
  PROVE  Content \in Entry /\ Content.src = opened
BY SlabAssumption DEF TypeOK, HandInv, RunInv, Content, Entry, Sources, Looping

LEMMA InitInv == Init => SlabInv
<1> SUFFICES ASSUME Init PROVE SlabInv
  OBVIOUS
<1>types. TypeOK
  <2>1. NoPlan \in Plans
    BY DEF NoPlan, Plans
  <2>2. 1 \in Sources /\ 1 \in 1 .. NumShards + 1
    BY SlabAssumption DEF Sources
  <2> QED
    BY <2>1, <2>2 DEF Init, TypeOK
<1>run. RunInv /\ DoneInv /\ LoopInv
  BY DEF Init, RunInv, DoneInv, LoopInv, Looping, Ending
<1>hand. HandInv /\ PartialInv /\ PlanInv
  BY DEF Init, HandInv, PartialInv, PlanInv, Looping, Ending
<1> QED
  BY <1>types, <1>run, <1>hand DEF SlabInv

\* Every step keeps the types; only CloseShard needs to know where the builder is.
LEMMA TypeStep == SlabInv /\ Next => TypeOK'
<1> SUFFICES ASSUME SlabInv, Next PROVE TypeOK'
  OBVIOUS
<1> USE DEF SlabInv, TypeOK, dirVars, memVars, ghosts
<1>exit. ASSUME Exit PROVE run' \in Entry \cup {None} /\ plan' \in Plans /\ at' \in 1 .. NumShards + 1
                          /\ opened' \in {0} \cup Sources /\ step' = "off"
  BY <1>exit, SlabAssumption DEF Exit, Plans, NoPlan
<1>exchange. CASE Exchange
  BY <1>exchange, SlabAssumption DEF Exchange, Sources
<1>delete. CASE \E s \in Shards : DeleteShard(s)
  BY <1>delete DEF DeleteShard, Plans
<1>kill. CASE Kill
  BY <1>kill, <1>exit DEF Kill
<1>launch. CASE \E o \in Opts : Launch(o)
  BY <1>launch, SlabAssumption DEF Launch, Entry
<1>load. CASE LoadState
  <2>1. run \in Entry /\ run.src \in Sources
    BY <1>load DEF LoadState, Entry
  <2>2. state' \in [src : {0} \cup Sources, done : SUBSET Shards]
    BY <1>load, <2>1 DEF LoadState
  <2> QED
    BY <1>load, <2>1, <2>2 DEF LoadState
<1>seed. CASE SeedPlan
  BY <1>seed DEF SeedPlan
<1>skip. CASE SkipShard
  BY <1>skip, SlabAssumption DEF SkipShard, Shards
<1>open. CASE OpenShard
  BY <1>open DEF OpenShard
<1>close. CASE CloseShard
  BY <1>close, ContentType DEF CloseShard, Plans
<1>partial. CASE SavePartial
  BY <1>partial DEF SavePartial
<1>state. CASE SaveState
  BY <1>state, SlabAssumption DEF SaveState, HandInv, Looping, Shards
<1>index. CASE PublishIndex
  BY <1>index DEF PublishIndex, Entry
<1>plan. CASE PublishPlan
  BY <1>plan DEF PublishPlan
<1>finish. CASE Finish
  BY <1>finish, <1>exit DEF Finish
<1> QED
  BY <1>exchange, <1>delete, <1>kill, <1>launch, <1>load, <1>seed, <1>skip, <1>open, <1>close,
     <1>partial, <1>state, <1>index, <1>plan, <1>finish DEF Next, Builder, Outside

----------------------------------------------------------------------------
(* The inductive invariant.                                                *)

LEMMA PartsStep ==
  SlabInv /\ Next => RunInv' /\ DoneInv' /\ LoopInv' /\ HandInv' /\ PartialInv' /\ PlanInv'
<1> SUFFICES ASSUME SlabInv, Next
             PROVE  RunInv' /\ DoneInv' /\ LoopInv' /\ HandInv' /\ PartialInv' /\ PlanInv'
  OBVIOUS
<1>types. TypeOK /\ TypeOK'
  BY TypeStep DEF SlabInv
<1>old. RunInv /\ DoneInv /\ LoopInv /\ HandInv /\ PartialInv /\ PlanInv
  BY DEF SlabInv
<1> USE <1>types, <1>old, SlabAssumption
    DEF RunInv, DoneInv, LoopInv, HandInv, PartialInv, PlanInv, Looping, Ending, Fresh,
        dirVars, memVars, ghosts
<1>exchange. CASE Exchange
  <2>1. /\ UNCHANGED <<state, shard, partial, manifest, step, run, plan, at, opened, published>>
        /\ disturbed' = (disturbed \/ step # "off")
    BY <1>exchange DEF Exchange
  <2>2. \A e : Fresh(e) => Fresh(e)'
    BY <2>1
  <2> HIDE DEF Fresh
  <2>3. RunInv' /\ LoopInv'
    BY <2>1 DEF Done
  <2>4. DoneInv' /\ PartialInv'
    BY <2>1, <2>2
  <2>5. HandInv' /\ PlanInv'
    BY <2>1, <2>2
  <2> QED
    BY <2>3, <2>4, <2>5
<1>delete. CASE \E s \in Shards : DeleteShard(s)
  BY <1>delete DEF DeleteShard, TypeOK, Plans
<1>kill. CASE Kill
  BY <1>kill DEF Kill, Exit
<1>launch. CASE \E o \in Opts : Launch(o)
  BY <1>launch DEF Launch, TypeOK, Sources
<1>load. CASE LoadState
  <2>1. /\ UNCHANGED <<source, shard, partial, run, at>> /\ step = "load" /\ step' = "seed" /\ at = 1
        /\ \/ UNCHANGED <<state, ghosts>> /\ state.src = run.src
           \/ /\ state' = [src |-> run.src, done |-> {}] /\ disturbed' = (source # run.src)
    BY <1>load DEF LoadState, Valid
  <2>2. LoopInv' /\ HandInv' /\ PlanInv'
    BY <2>1
  <2>3. RunInv' /\ DoneInv' /\ PartialInv'
    <3>1. CASE UNCHANGED <<state, ghosts>> /\ state.src = run.src
      BY <2>1, <3>1
    <3>2. CASE state' = [src |-> run.src, done |-> {}] /\ disturbed' = (source # run.src)
      BY <2>1, <3>2
    <3> QED
      BY <2>1, <3>1, <3>2
  <2> QED
    BY <2>2, <2>3
<1>seed. CASE SeedPlan
  <2>1. UNCHANGED <<source, state, shard, partial, manifest, run, at, opened, ghosts>>
        /\ step = "seed" /\ step' = "next"
    BY <1>seed DEF SeedPlan
  <2>at. at = 1 /\ at' = 1
    BY <2>1
  <2>2. ~published => \A s \in state.done : plan' = partial
    BY <1>seed DEF SeedPlan
  <2>3. LoopInv' /\ HandInv' /\ RunInv' /\ DoneInv' /\ PartialInv'
    BY <2>1, <2>at DEF Shards
  <2>4. PlanInv'
    BY <2>1, <2>2
  <2> QED
    BY <2>3, <2>4
<1>skip. CASE SkipShard
  <2>1. \A s \in Shards : s < at' => s < at \/ s = at
    BY <1>skip DEF SkipShard, Shards
  <2>2. LoopInv'
    BY <1>skip, <2>1 DEF SkipShard, Done
  <2> QED
    BY <1>skip, <2>2 DEF SkipShard
<1>open. CASE OpenShard
  BY <1>open DEF OpenShard, Done, TypeOK, Sources
<1>close. CASE CloseShard
  <2>1. at \in Shards /\ Fresh(Content) /\ state.src = run.src
    BY <1>close, ContentType DEF CloseShard, TypeOK, Entry, Sources
  <2>2. /\ shard'[at] = Content /\ plan'[at] = Content
        /\ \A s \in Shards \ {at} : shard'[s] = shard[s] /\ plan'[s] = plan[s]
    BY <1>close, <2>1 DEF CloseShard, TypeOK, Plans
  <2>3. /\ UNCHANGED <<source, state, partial, run, at, ghosts>>
        /\ step = "write" /\ step' = "stats"
    BY <1>close DEF CloseShard
  <2>4. state.done \subseteq Shards
    BY DEF TypeOK
  <2>loop. LoopInv'
    BY <2>1, <2>2, <2>3 DEF Done, Shards
  <2>done. DoneInv'
    BY <2>1, <2>2, <2>3, <2>4
  <2>plan. PlanInv'
    BY <2>1, <2>2, <2>3, <2>4
  <2>rest. RunInv' /\ HandInv' /\ PartialInv'
    BY <2>1, <2>2, <2>3
  <2> QED
    BY <2>loop, <2>done, <2>plan, <2>rest
<1>partial. CASE SavePartial
  <2>1. /\ UNCHANGED <<source, state, shard, run, plan, at, ghosts>>
        /\ step = "stats" /\ step' = "mark" /\ partial' = plan
    BY <1>partial DEF SavePartial
  <2>2. plan # None
    BY DEF TypeOK, Plans, Entry, Sources, Shards
  <2>loop. LoopInv' /\ RunInv' /\ DoneInv'
    BY <2>1 DEF Done
  <2>hand. HandInv' /\ PlanInv'
    BY <2>1
  <2>partial. PartialInv'
    BY <2>1, <2>2
  <2> QED
    BY <2>loop, <2>hand, <2>partial
<1>state. CASE SaveState
  <2>1. /\ UNCHANGED <<source, shard, partial, run, plan, ghosts>>
        /\ step = "mark" /\ step' = "next" /\ at' = at + 1
        /\ state'.src = state.src /\ state'.done = state.done \cup {at}
    BY <1>state DEF SaveState, TypeOK
  <2>2. at \in Shards /\ partial = plan /\ plan # None /\ shard[at] # None
    BY <2>1 DEF TypeOK, Plans, Entry, Sources, Shards
  <2>3. \A s \in Shards : s < at' => s < at \/ s = at
    BY <2>1, <2>2 DEF Shards
  <2>loop. LoopInv'
    BY <2>1, <2>2, <2>3 DEF Done
  <2>done. DoneInv' /\ RunInv' /\ HandInv'
    BY <2>1, <2>2
  <2>plan. PartialInv' /\ PlanInv'
    BY <2>1, <2>2
  <2> QED
    BY <2>loop, <2>done, <2>plan
<1>index. CASE PublishIndex
  <2>1. \A s \in Shards : s < at
    BY <1>index DEF PublishIndex, Shards, TypeOK
  <2>2. LoopInv'
    BY <1>index, <2>1 DEF PublishIndex, Done
  <2> QED
    BY <1>index, <2>2 DEF PublishIndex
<1>plan. CASE PublishPlan
  BY <1>plan DEF PublishPlan, Done
<1>finish. CASE Finish
  BY <1>finish DEF Finish, Exit
<1> QED
  BY <1>exchange, <1>delete, <1>kill, <1>launch, <1>load, <1>seed, <1>skip, <1>open, <1>close,
     <1>partial, <1>state, <1>index, <1>plan, <1>finish DEF Next, Builder, Outside

\* The invariant holds in every reachable state: each step of the builder leaves a
\* directory that a kill may freeze, and each next run finds it so.
THEOREM SlabInvariance == Spec => []SlabInv
<1>1. SlabInv /\ UNCHANGED vars => SlabInv'
  <2> SUFFICES ASSUME SlabInv, UNCHANGED vars PROVE SlabInv'
    OBVIOUS
  <2>1. TypeOK'
    BY DEF SlabInv, vars, dirVars, memVars, ghosts, TypeOK
  <2>2. RunInv' /\ DoneInv' /\ LoopInv'
    BY DEF SlabInv, vars, dirVars, memVars, ghosts, RunInv, DoneInv, LoopInv, Fresh, Done
  <2>3. HandInv' /\ PartialInv' /\ PlanInv'
    BY DEF SlabInv, vars, dirVars, memVars, ghosts, HandInv, PartialInv, PlanInv, Fresh
  <2> QED
    BY <2>1, <2>2, <2>3 DEF SlabInv
<1>2. SlabInv /\ [Next]_vars => SlabInv'
  BY <1>1, TypeStep, PartsStep DEF SlabInv
<1> QED
  BY InitInv, <1>2, PTL DEF Spec

\* Every variable keeps its type.
THEOREM SlabTypes == Spec => []TypeOK
BY SlabInvariance, PTL DEF SlabInv

\* A build that ends leaves every shard, no kill lost a plan entry of one, and all is of the
\* state's source unless that was exchanged under a builder.
THEOREM SlabWhole == Spec => []FinishedBuildIsWhole
<1>1. SlabInv => FinishedBuildIsWhole
  <2> SUFFICES ASSUME SlabInv, step = "clean", NEW s \in Shards
               PROVE  /\ Fresh(shard[s])
                      /\ ~published => Fresh(manifest[s])
    BY DEF FinishedBuildIsWhole, Fresh
  <2>1. s \in state.done /\ shard[s] # None
    BY DEF SlabInv, LoopInv, Ending, Done
  <2>2. Fresh(shard[s])
    BY <2>1 DEF SlabInv, DoneInv
  <2>3. ~published => manifest = plan /\ Fresh(plan[s])
    BY <2>1 DEF SlabInv, PlanInv, Looping, Ending
  <2> QED
    BY <2>2, <2>3
<1> QED
  BY <1>1, SlabInvariance, PTL

\* Only a build that is run again after it ended loses entries of its plan (SlabBuild_rerun):
\* until then no kill, exchange or other option does, whatever shards were deleted.
THEOREM FirstBuildListsEveryShard == Spec => [](~published => PlanListsEveryShard)
<1>1. SlabInv /\ ~published => PlanListsEveryShard
  <2> SUFFICES ASSUME SlabInv, ~published, step = "clean", NEW s \in Shards
               PROVE  manifest[s] # None
    BY DEF PlanListsEveryShard
  <2>1. s \in state.done
    BY DEF SlabInv, LoopInv, Ending, Done
  <2> QED
    BY <2>1 DEF SlabInv, PlanInv, Looping, Ending, Fresh
<1> QED
  BY <1>1, SlabInvariance, PTL

----------------------------------------------------------------------------
(* Refinement.                                                             *)

\* The units ResumableBuild has built.
Built == {s \in state.done : shard[s] # None}

\* Putting a shard into place or listing it makes the first missing unit, or none.
LEMMA MakeStep ==
  ASSUME SlabInv, step \in {"write", "mark"}, UNCHANGED state.src,
         Built' = Built \cup {at} \/ Built' = Built
  PROVE  Abs!Make \/ (UNCHANGED <<state.src, Built>>)
<1>1. CASE Built' = Built \/ at \in Built
  BY <1>1
<1>2. CASE Built' = Built \cup {at} /\ at \notin Built
  <2>1. at \in Shards /\ \A s \in Shards : s < at => s \in Built
    BY DEF SlabInv, HandInv, LoopInv, Looping, Done, Built
  <2>2. Abs!FirstMissing(at)
    BY <2>1, <1>2 DEF Abs!FirstMissing, Built
  <2> QED
    BY <2>1, <2>2, <1>2 DEF Abs!Make, Built
<1> QED
  BY <1>1, <1>2

LEMMA SlabStep == SlabInv /\ [Next]_vars => [Abs!Next]_<<state.src, Built>>
<1> SUFFICES ASSUME SlabInv, [Next]_vars PROVE [Abs!Next]_<<state.src, Built>>
  OBVIOUS
<1>types. state.done \subseteq Shards /\ shard \in Plans
  BY DEF SlabInv, TypeOK
<1>stutter. ASSUME UNCHANGED <<state, shard>> PROVE UNCHANGED <<state.src, Built>>
  BY <1>stutter DEF Built
<1>delete. CASE \E s \in Shards : DeleteShard(s)
  <2> PICK s \in Shards : DeleteShard(s)
    BY <1>delete
  <2>1. UNCHANGED state.src /\ Built' = Built \ {s}
    BY <1>types DEF DeleteShard, Built, Plans
  <2> QED
    BY <2>1 DEF Abs!Next, Abs!Lose, Built
<1>load. CASE LoadState
  <2>1. CASE Valid(state)
    BY <1>load, <2>1, <1>stutter DEF LoadState
  <2>2. CASE ~Valid(state)
    <3>1. state.src # run.src /\ run.src \in Sources
      BY <1>load, <2>2 DEF LoadState, Valid, SlabInv, TypeOK, Entry
    <3>2. state'.src = run.src /\ Built' = {}
      BY <1>load, <2>2 DEF LoadState, Built
    <3> QED
      BY <3>1, <3>2 DEF Abs!Next, Abs!Rebase, Built
  <2> QED
    BY <2>1, <2>2
<1>close. CASE CloseShard
  <2>1. /\ step = "write" /\ UNCHANGED state /\ at \in Shards
        /\ shard' = [shard EXCEPT ![at] = Content]
    BY <1>close DEF CloseShard, SlabInv, HandInv, Looping
  <2>2. Content # None
    BY <2>1, ContentType, SlabAssumption DEF SlabInv, Entry, Sources
  <2>3. Built' = Built \cup {at} \/ Built' = Built
    <3>1. CASE at \in state.done
      BY <2>1, <2>2, <1>types, <3>1 DEF Built, Plans
    <3>2. CASE at \notin state.done
      BY <2>1, <2>2, <1>types, <3>2 DEF Built, Plans
    <3> QED
      BY <3>1, <3>2
  <2> QED
    BY <2>1, <2>3, MakeStep DEF Abs!Next
<1>state. CASE SaveState
  <2>1. step = "mark" /\ UNCHANGED shard /\ state'.src = state.src /\ state'.done = state.done \cup {at}
    BY <1>state DEF SaveState, SlabInv, TypeOK
  <2>2. shard[at] # None
    BY <2>1 DEF SlabInv, HandInv, Fresh
  <2>3. Built' = Built \cup {at}
    BY <2>1, <2>2 DEF Built
  <2> QED
    BY <2>1, <2>3, MakeStep DEF Abs!Next
<1>rest. CASE \/ Exchange \/ Kill \/ (\E o \in Opts : Launch(o)) \/ SeedPlan \/ SkipShard
              \/ OpenShard \/ SavePartial \/ PublishIndex \/ PublishPlan \/ Finish
              \/ UNCHANGED vars
  <2>1. UNCHANGED <<state, shard>>
    BY <1>rest DEF Exchange, Kill, Launch, SeedPlan, SkipShard, OpenShard, SavePartial, PublishIndex,
       PublishPlan, Finish, vars, dirVars
  <2> QED
    BY <2>1, <1>stutter
<1> QED
  BY <1>delete, <1>load, <1>close, <1>state, <1>rest DEF Next, Builder, Outside

\* The builder implements ResumableBuild.
THEOREM SlabImplements == Spec => ImplementsResumableBuild
<1>1. Init => Abs!Init
  BY DEF Init, Abs!Init
<1>2. SlabInv /\ [Next]_vars => [Abs!Next]_<<state.src, {s \in state.done : shard[s] # None}>>
  BY SlabStep DEF Built
<1> QED
  BY <1>1, <1>2, SlabInvariance, PTL DEF Spec, ImplementsResumableBuild, Abs!Spec
====
