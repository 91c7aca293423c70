----------------------------- MODULE TurboLoader -----------------------------
(***************************************************************************)
(* The double-buffered weight offload: TurboBlockLoader under its planned  *)
(* loader. One host thread queues work on two CUDA streams: copies of a    *)
(* block into one of two device slabs, and the kernels of the model that   *)
(* read a slab. The host never waits for the device; only events recorded  *)
(* on one stream and waited for on the other keep a copy from overtaking   *)
(* the kernels of the slab it fills, and kernels from overtaking a copy.   *)
(*                                                                         *)
(* A step is one call of the host (its queueing included) or the begin or  *)
(* the end of one operation of a stream. Tensors, dtypes, telemetry and    *)
(* the residency states are left out: a block is loaded as a whole, and    *)
(* every block is streamed (blocks pinned on the device take no slot).     *)
(***************************************************************************)
EXTENDS Naturals, Sequences

CONSTANTS
  Blocks,      \* blocks of the plan
  NoBlock, Mixed,
  Stores,      \* values of use_block_store
  CopyModes,   \* "copy", or "default" for use_default_stream_copy
  MaxStages,   \* bound: copies queued
  MaxAwaits    \* bound: blocks awaited

ASSUME TurboAssumption ==
  /\ Stores \subseteq BOOLEAN /\ CopyModes \subseteq {"copy", "default"}
  /\ NoBlock \notin Blocks /\ Mixed \notin Blocks \cup {NoBlock}

VARIABLES
  mode,      \* [store, on]: how the loader was opened
  slot,      \* prefix0, prefix1: the block staged in each slot
  active,    \* active_slot
  recorded,  \* compute_recorded0, compute_recorded1
  deferred,  \* _pending_idx of the planned loader
  call,      \* the caller: [at, block]
  host,      \* content of the pinned slabs host0, host1
  dev,       \* content of the device slabs dev0, dev1
  stream,    \* operations of each stream that have not ended, oldest first
  begun,     \* what the oldest one found at its source when it began, or NoBlock
  issued,    \* records queued so far, per event and slot
  passed     \* records executed so far

loader == <<slot, active, recorded, deferred>>
device == <<dev, begun, passed>>
uvars  == <<mode, loader, call, host, device, stream, issued>>

Slots   == {0, 1}
Streams == {"copy", "default"}
Events  == {"staged", "done"}    \* ev0, ev1 and compute_done0, compute_done1
Idle    == [at |-> "free", block |-> NoBlock]

\* Operations of a stream; x is a block, or the number of a record.
Op(kind, s, x) == [kind |-> kind, slot |-> s, x |-> x]
Queues(st, ops) == stream' = [stream EXCEPT ![st] = @ \o ops]
Count(e) == issued[e][0] + issued[e][1]
Issue(e, s) == issued' = [issued EXCEPT ![e][s] = @ + 1]
Staged(b) == \E s \in Slots : slot[s] = b
IdleSlot  == 1 - active

UInit ==
  /\ mode \in [store : Stores, on : CopyModes]
  /\ slot = [s \in Slots |-> NoBlock] /\ active = 0
  /\ recorded = [s \in Slots |-> FALSE] /\ deferred = NoBlock
  /\ call = Idle
  /\ host = [s \in Slots |-> NoBlock] /\ dev = [s \in Slots |-> NoBlock]
  /\ stream = [st \in Streams |-> <<>>] /\ begun = [st \in Streams |-> NoBlock]
  /\ issued = [e \in Events |-> [s \in Slots |-> 0]]
  /\ passed = [e \in Events |-> [s \in Slots |-> 0]]

----------------------------------------------------------------------------
(* The host.                                                               *)

\* Mutant of ReuseWait: the copy does not wait for the kernels of the slot.
Unfenced(s) == <<>>

\* The wait for compute_done that precedes a copy into slot s, if a mark is outstanding.
ReuseWait(s) == IF recorded[s] THEN <<Op("awaitDone", s, issued["done"][s])>> ELSE <<>>

\* TurboBlockLoader.prefetch. Nothing to do if the block is in a slot; else it goes into
\* the idle one: bytes from the pinned store, or copied into the slot's pinned slab on
\* the spot; the wait on the copy stream; copy and record on the stream of the mode.
Stage(b) ==
  IF Staged(b) THEN UNCHANGED <<slot, recorded, host, stream, issued>>
  ELSE /\ Count("staged") < MaxStages
       /\ slot' = [slot EXCEPT ![IdleSlot] = b]
       /\ recorded' = [recorded EXCEPT ![IdleSlot] = FALSE]
       /\ host' = IF mode.store THEN host ELSE [host EXCEPT ![IdleSlot] = b]
       /\ Issue("staged", IdleSlot)
       /\ LET copy == <<Op("copy", IdleSlot, b),
                        Op("recordStaged", IdleSlot, issued["staged"][IdleSlot] + 1)>>
          IN IF mode.on = "copy" THEN Queues("copy", ReuseWait(IdleSlot) \o copy)
             ELSE stream' = [stream EXCEPT !["copy"] = @ \o ReuseWait(IdleSlot),
                                           !["default"] = @ \o copy]

\* prefetch_with_ctx of the planned loader: the model loop looks ahead.
Prefetch(b) ==
  /\ call.at \in {"free", "held", "launched"}
  /\ Stage(b)
  /\ deferred' = IF deferred = b THEN NoBlock ELSE deferred
  /\ UNCHANGED <<mode, active, call, device>>

\* prefetch of the planned loader, which has no context: left for the next await.
Defer(b) ==
  /\ call.at \in {"free", "held", "launched"}
  /\ deferred' = b
  /\ UNCHANGED <<mode, slot, active, recorded, call, host, device, stream, issued>>

\* await_block is called; the previous block has been marked.
AwaitBlock(b) ==
  /\ call.at = "free" /\ Count("done") < MaxAwaits
  /\ call' = [at |-> "dispatch", block |-> b]
  /\ UNCHANGED <<mode, loader, host, device, stream, issued>>

\* _dispatch_pending.
DispatchPending ==
  /\ call.at = "dispatch"
  /\ call' = [call EXCEPT !.at = "fence"]
  /\ IF deferred = NoBlock THEN UNCHANGED <<slot, recorded, host, stream, issued>>
                           ELSE Stage(deferred)
  /\ deferred' = NoBlock
  /\ UNCHANGED <<mode, active, device>>

\* The block is in no slot (never prefetched, or replaced since): staged now.
Miss ==
  /\ call.at = "fence" /\ ~Staged(call.block)
  /\ Stage(call.block)
  /\ UNCHANGED <<mode, active, deferred, call, device>>

\* Mutant of Fence: the views are handed out without the wait.
FenceForgotten ==
  /\ call.at = "fence"
  /\ \E s \in Slots : slot[s] = call.block /\ active' = s
  /\ call' = [call EXCEPT !.at = "held"]
  /\ UNCHANGED <<mode, slot, recorded, deferred, host, device, stream, issued>>

\* TurboBlockLoader.await_block: the default stream waits for the copy, the slot becomes
\* the active one, and views of its slab are returned.
Fence ==
  /\ call.at = "fence"
  /\ \E s \in Slots :
       /\ slot[s] = call.block
       /\ Queues("default", <<Op("awaitStaged", s, issued["staged"][s])>>)
       /\ active' = s
  /\ call' = [call EXCEPT !.at = "held"]
  /\ UNCHANGED <<mode, slot, recorded, deferred, host, device, issued>>

\* The model queues the kernels of the block.
QueueKernels ==
  /\ call.at = "held"
  /\ Queues("default", <<Op("kernel", active, call.block)>>)
  /\ call' = [call EXCEPT !.at = "launched"]
  /\ UNCHANGED <<mode, loader, host, device, issued>>

\* mark_active_block_done, after all of them.
Mark ==
  /\ call.at = "launched"
  /\ Issue("done", active)
  /\ Queues("default", <<Op("recordDone", active, issued["done"][active] + 1)>>)
  /\ recorded' = [recorded EXCEPT ![active] = TRUE]
  /\ call' = Idle
  /\ UNCHANGED <<mode, slot, active, deferred, host, device>>

----------------------------------------------------------------------------
(* The device: each stream executes its operations in order.               *)

Oldest(st) == Head(stream[st])
At(st, kinds) == stream[st] # <<>> /\ Oldest(st).kind \in kinds
Ends(st) == stream' = [stream EXCEPT ![st] = Tail(@)]

\* A record is executed.
Record(st) ==
  /\ At(st, {"recordStaged", "recordDone"})
  /\ LET e == IF Oldest(st).kind = "recordDone" THEN "done" ELSE "staged"
     IN passed' = [passed EXCEPT ![e][Oldest(st).slot] = Oldest(st).x]
  /\ Ends(st)
  /\ UNCHANGED <<mode, loader, call, host, dev, begun, issued>>

\* A wait is over once the record it was queued after has been executed.
WaitOver(st) ==
  /\ At(st, {"awaitStaged", "awaitDone"})
  /\ LET e == IF Oldest(st).kind = "awaitDone" THEN "done" ELSE "staged"
     IN passed[e][Oldest(st).slot] >= Oldest(st).x
  /\ Ends(st)
  /\ UNCHANGED <<mode, loader, call, host, device, issued>>

\* What a copy reads: the pinned store, or the pinned slab of its slot as it is now.
Source(op) == IF mode.store THEN op.x ELSE host[op.slot]

\* A copy or the kernels of a block begin; from then on a copied slab holds neither block.
BeginOp(st) ==
  /\ At(st, {"copy", "kernel"}) /\ begun[st] = NoBlock
  /\ IF Oldest(st).kind = "copy"
     THEN /\ begun' = [begun EXCEPT ![st] = Source(Oldest(st))]
          /\ dev' = [dev EXCEPT ![Oldest(st).slot] = Mixed]
     ELSE /\ begun' = [begun EXCEPT ![st] = Oldest(st).x]
          /\ UNCHANGED dev
  /\ UNCHANGED <<mode, loader, call, host, passed, stream, issued>>

\* It ends; the slab holds a block if the source held it all the time.
FinishOp(st) ==
  /\ At(st, {"copy", "kernel"}) /\ begun[st] # NoBlock
  /\ dev' = IF Oldest(st).kind = "copy" /\ begun[st] = Source(Oldest(st))
            THEN [dev EXCEPT ![Oldest(st).slot] = begun[st]] ELSE dev
  /\ begun' = [begun EXCEPT ![st] = NoBlock]
  /\ Ends(st)
  /\ UNCHANGED <<mode, loader, call, host, passed, issued>>

Host ==
  \/ \E b \in Blocks : Prefetch(b) \/ Defer(b) \/ AwaitBlock(b)
  \/ DispatchPending \/ Miss \/ Fence \/ QueueKernels \/ Mark

UNext == Host \/ \E st \in Streams : Record(st) \/ WaitOver(st) \/ BeginOp(st) \/ FinishOp(st)

USpec == UInit /\ [][UNext]_uvars

----------------------------------------------------------------------------
(* Properties.                                                             *)

\* Every variable has its type.
UTypeOK ==
  /\ mode \in [store : BOOLEAN, on : Streams]
  /\ slot \in [Slots -> Blocks \cup {NoBlock}] /\ active \in Slots
  /\ recorded \in [Slots -> BOOLEAN] /\ deferred \in Blocks \cup {NoBlock}
  /\ call \in [at : {"free", "dispatch", "fence", "held", "launched"}, block : Blocks \cup {NoBlock}]
  /\ host \in [Slots -> Blocks \cup {NoBlock}]
  /\ dev \in [Slots -> Blocks \cup {NoBlock, Mixed}]
  /\ begun \in [Streams -> Blocks \cup {NoBlock}]
  /\ issued \in [Events -> [Slots -> Nat]] /\ passed \in [Events -> [Slots -> Nat]]

\* The kernels of a block read that block, whole, from their first to their last: no copy
\* of another one has begun to fill their slab, although the host is blocks ahead, slots
\* are reused, lookahead is repeated or wrong, and a block may be staged twice.
KernelsReadTheirBlock ==
  At("default", {"kernel"}) /\ begun["default"] # NoBlock =>
    dev[Oldest("default").slot] = Oldest("default").x
====
