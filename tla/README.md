# Serenity: TLA+ models, checks and proofs

This directory specifies the parts of mojodiffusion that keep state across steps of
several actors: the Rust control plane `serenity-server` (HTTP handlers, the driver
thread, the GPU lease, progress streams, the page warmer), the protocol it speaks with
the Mojo worker processes, the loader that streams weights to the GPU on two CUDA
streams, and the two Python converters that can be killed and run again. `PROJECT.json`
maps every definition to the lines it models; paths below are relative to
`src/serenity-server/crates/server/src/` unless they say otherwise.

To check: `tlc -config <run>.cfg <module>`; to prove: `tlapm <module>_proofs.tla`.

## 1. Inventory

| component | state it keeps | operations | modelled in |
|---|---|---|---|
| JobBook and HTTP job routes (`jobs.rs`, `main.rs`) | `AppState.jobs`: ordered entries with record and `cancel_requested`; `jobs.db`; `next_id` | enqueue, cancel by path, remove, reorder, promote, save, recover | `JobServer`, `JobBook` |
| Driver thread (`main.rs` `run_worker_driver`, `drive_*`) | the `WorkerHandle`, `current_residency_key`, `in_flight`, the `DriverCtl` queue | promote, switch, spawn, handshake, start, drive one or two passes, publish, save, reap | `JobServer`, `WorkerPipe` |
| Event channels (`JobChannel`, `Registry`) | history and broadcast per job | register, publish, schedule_evict | `JobServer` |
| Progress WebSocket (`ws_progress`, `handle_progress_socket`) | snapshot, broadcast receiver | subscribe, replay, deliver, lag, close | `JobStream` |
| GPU lease (`gpu_lock.rs`) | `Option<GpuLease>` | try_acquire, guard drop | `JobServer` |
| Subprocess routes: video, caption, director, magic prompt, training | a guard and a child process each | acquire, evict handshake, wait for the child, release | `JobServer` (`Evictors`, `Holders`) |
| SAM3 handshake (`post_canvas_sam3_prepare`) | none | `PrepareSam`, answered by the driver | `JobServer` (`Sams`) |
| Worker IPC (`crates/ipc`), worker loop, `proc_ipc.mojo`, backends | the socket, `LineReader` buffers, `cancel_flag`, backend phase | start, cancel, ack, poll, kill; step, fence | `WorkerPipe` |
| Page warmer (`warm_load.rs`) | generation counter, shared status, work list, byte counter | start, readers, cancel_for_generation | `WarmLoad` |
| Weight offload (`src/serenitymojo/offload/turbo_loader.mojo`, `turbo_planned_loader.mojo`) | two slots, pinned and device slabs, events, `_pending_idx` | prefetch, deferred prefetch, await, mark; the two CUDA streams | `TurboLoader` |
| SquareQ slab builder (`src/scripts/squareq_build_slab.py`, `squareq/`) | shards, build-state.json, partial and final plan, index | load, seed, skip, write, record, publish; kills | `SlabBuild` |
| SCAIL-2 converter (`src/scripts/scail2_convert_checkpoint.py`) | provenance, shards, checksums, index | bind, keep or make a unit, validate, publish; kills, power cuts | `ScailConvert` |
| Other resumable preparers (`prepare_wan22_diffusers_artifacts.py`, `bernini_r_build_cache.py`) | output files | as above, with fewer checks | planned |
| Trainer state, grid waits, H3 movie library, Comfy `/ws`, gallery, settings, presets, video editing | mostly files | CRUD, waits | planned, or out of scope (section 7) |
| Workflow graph lowering, wire codec | none | pure functions | not modelled |
| Contract checks, gates, profiles (most of `src/scripts`) | none | read sources, reports or a live server, and assert | not modelled |
| Kernels, models, samplers, autograd, reference dumps | tensors | numerical | out of reach of TLC |

How they interact. Handlers and the driver share the JobBook, the registry,
`in_flight` and the lease, each behind a mutex of its own; handlers talk to the
driver through one mpsc channel (`DriverCtl`), and requests that want the worker gone
wait up to 10 s for its answer. The driver owns the worker: nobody else writes to the
socket. Clients read a job twice, from its record and from its event channel, and
after a restart a third time from `jobs.db`. The warmer shares only its status and
its generation with the handlers. A progress socket shares the channel's mutex with the
driver. The offload's host thread and the two CUDA streams share the slabs and meet in
events only. The converters share nothing but their output directory, with their own
earlier runs and with whoever replaces the source.

What is hard, and what makes each part correct:

* Handlers classify under one lock and act after they released it, so promotion,
  cancel, remove and the end of a job interleave. A job must have one outcome, told
  the same way by record, event history and table, and never start after it was
  told "cancelled".
* Record, event, `jobs.db` and channel eviction are separate steps of every end.
* Evicting requests time out and leave their message in the driver's queue, to be
  served when the GPU belongs to somebody else. While the child of such a request
  runs, no worker process may exist; nobody's worker may be taken away in a job.
* The worker may crash at any time; commands and events carry no job id, so a line
  that is late or left in a buffer or in a backend's flag could hit the next job.
* `jobs.db` is rewritten by several transactions; ids are recovered from what a
  crash left in the table and in file names; a worker may survive its server.
* Superseded warmers and their readers run beside their successors and share one
  status.
* A socket replays a snapshot at its client's pace while the broadcast ring runs on; it
  must send each event once, in order, and end with the terminal one.
* The host queues copies and kernels blocks ahead of the device; slabs are reused, and
  nothing but events orders a copy after the kernels that still read its slab.
* A converter may be killed between any two of the files it replaces, the machine may
  lose power, the source may be exchanged; what an earlier run left must be neither lost
  nor trusted too far.

PROJECT.json `hazards` lists these at their lines, with the properties that watch
them, and the few that no property covers yet.

## 2. Modules

| module | what it is |
|---|---|
| `JobLifecycle` | abstract: what the server promises about jobs and its one GPU |
| `JobLog` | abstract: what the channel of a job promises its subscribers |
| `Drive` | abstract: what a drive is for the rest of the server, a call that returns once for each job |
| `JobServer` | handlers, driver, channels, lease, subprocess routes; implements `JobLifecycle` and `JobLog` |
| `MCJobServer`, `MCJobCasts` | values for its constants; initial states with small casts of GPU borrowers |
| `WorkerPipe` | the socket between driver and worker: commands, events, cancels, the sampling fence, hires passes; implements `Drive` |
| `JobBook` | ids, queue order and `jobs.db` across sessions and crashes |
| `WarmLoad` | the page warmer |
| `MCStorage` | `JobBook` and `WarmLoad`, each by itself, in one run |
| `JobStream` | the progress stream of a job to its WebSockets; its job implements `JobLog` |
| `ResumableBuild` | abstract: what a restartable converter promises about its output directory |
| `SlabBuild`, `ScailConvert` | the two converters; each implements `ResumableBuild` |
| `TurboLoader` | the double-buffered weight offload and its two CUDA streams |
| `MCParts` | `SlabBuild`, `ScailConvert`, `JobStream` and `TurboLoader`, each by itself, in one run |
| `JobServer_proofs`, `JobBook_proofs`, `WorkerPipe_proofs`, `WarmLoad_proofs`, `TurboLoader_proofs`, `JobStream_proofs`, `SlabBuild_proofs`, `ScailConvert_proofs` | theorems about each of them for any values of the constants |

**JobServer.** A step is one critical section of one thread, or one send or receive.
`pc` is the driver's control point, one per block of `run_worker_driver` between two
shared accesses (boot, scan, idle, gpuwait, promoted, dispatch, spawn, handshake,
start, drive, publish, settle, save, reap, drop); `cur` its job; `fin` the outcome it
still has to publish and whether the worker is to be reaped and the table saved.
`enq`, `finish` and `pressed` are the positions of `enqueue_generate`,
`post_cancel_path` and the in-flight cancel routes between their locks. `handle` is
the residency key the held worker was spawned for, `alive` whether its process
runs: a crash clears only `alive`, and the driver finds out when it next polls.
`registry`, `history` and `timers` are the channels: a history collapses runs of
progress frames to one and keeps each terminal frame. In `drive`, the worker is
nondeterministic; its protocol is `WorkerPipe`.

A save of `jobs.db` is one step of `JobServer` (`SaveJobs`), because the book's mutex is
held throughout and nobody reads the table while the server runs: it is read back at the
next start. It need not succeed. `save_jobs_db` drops its `Result`, and an SQL error leaves
the table as it was, or empty once the DROP was committed; the ghost `saved` says whether
the last save returned `Ok`. So `JobServer` assumes neither that saves succeed nor that one
is whole or nothing; what it leaves out is the crash of the server between the DROP and
the inserts, which is `JobBook`'s. Its properties of the table are therefore conditional:
what a write that leaves any row holds (`SavesAreWhole`), and what is there unless the last
save failed (`OutcomesArePersisted`).

**WorkerPipe.** `drv` is the driver's side (idle, driving, between hires passes),
`wst` the worker's (idle, job loop, or the phase of a blocking tick). Three `Kinds` of
backend stand for all: *staged* ones tick often (stub, zimage, sdxl, anima), *klein*
blocks after some announcements and fails when its fence times out, *krea2* blocks for
the whole job and carries on without the acknowledgement. Both readers of the socket
are modelled: the loop's `LineReader` (`rbuf`) and the one a fence creates, which drops
whatever it read beyond the acknowledgement. Ghost tags say which run a line was
written for; no guard reads them.

**JobBook.** One step per critical section of the JobBook's mutex, except that
`save_jobs_db` is two steps (the DROP and CREATE that commit at once, and the
transaction), between which the server may crash. Either may fail, and the error is
ignored: the first then leaves the older rows, the second none. Ids recovered at start come from
`max_prior_id` and `max_existing_output_id`. `orphan` is a worker that outlived its
server and will still write its PNG. Reorder is the code's adjacent-swap loop, written
as a recursive function.

**WarmLoad.** A start is a token, a budget, a thread and its readers; a comparison of
the generation and the read it guards are separate steps, as are two locks of the
status. Sizes are counted in reads.

**JobStream.** Events are numbered and published one by one; the ring keeps the last
`Cap`. `place` is where a socket's task stands (away, replay, live, closed; refused when
the channel is gone; gone when the client left), `snap` the length of its snapshot,
`next` its receiver's position, `got` what it sent. The receiver is made under the lock
of the snapshot, so it lags from there, also while the snapshot is still being sent.

**SlabBuild.** One step per file that is replaced (a rename, hence atomic) or read. A
version of the source stands for its path, size and mtime; the content of a shard and of
its plan entry is the version and the options it was made with. `Kill` may come in any
step and loses the memory only. `Exchange` replaces the source by any other version at any
time, an earlier one included, also while the builder runs; the ghost `disturbed` says that
it did so under a builder of the present state file. The options (--format, --rank, --group,
--budget-x) are chosen anew at each start: a resumed build keeps the
shards of the old ones, since the identity that is compared does not contain them. --blocks-per-shard and --max-groups are
fixed: they decide the number of shards, which is part of each shard's name.

**ScailConvert.** As above, with a checksum file per shard and a provenance file. Nothing
is synced: `dirty` holds what was renamed lately, and a power cut tears any subset of it.
A shard or checksum that is torn fails the comparison; a torn provenance file makes every
later run refuse the directory.

**TurboLoader.** The host's calls (`Prefetch`, `Defer`, `AwaitBlock` with its steps
`DispatchPending`, `Miss`, `Fence`, then `QueueKernels` and `Mark`) queue operations on
the streams; `stream` holds those that have not ended. A wait carries the number of the
record it was queued after. A copy or a kernel has a begin and an end, and a slab being
filled holds no block (`Mixed`). The caller marks a block before it awaits the next, as
every loop in `models/dit` and the trainers does; when it looks ahead, and to which
block, is left open. `mode` is how the loader was opened: with or without the pinned
store, copies on a stream of their own or on the default one.

**How they compose.** The modules meet at abstract ones, and each meeting is a theorem on
either side.

* `JobServer` and `WorkerPipe` meet at `Drive`. Driver, worker and socket implement it:
  one return for each job, "cancelled" only if somebody asked, the worker lost exactly
  when the job failed in its hands (`DrivesAsPromised`). `JobServer`'s `DriveEnd` has
  exactly those endings and handles each (`DriveReturnsAsPromised`). That the call
  returns is `EveryDriveEnds`.
* `JobServer` and `JobStream` meet at `JobLog`: an empty log until the job starts, one
  end and nothing behind it, no channel dropped before its end. `JobServer`'s channels
  implement it for all jobs (`ChannelsAreLogs`), and the job `JobStream` takes as given is
  one that `JobLog` allows (`StreamIsLog`). That the end comes is `EveryJobEnds`.
* `JobServer` lets `/v1/reorder` move one queued entry to any queue position
  (`IsQueueMove`): the swap loop of `JobBook` does nothing else (`ReordersMeetServer`).

`MCParts` and `MCStorage` are no
compositions: their components share no state. A behaviour picks one, and the variables
of the others keep one initial value, so the run explores the sum of the instances.

## 3. Runs

| run | question | bounds |
|---|---|---|
| `JobServer_jobs` | do record, history, table and registry agree under every race of enqueue, cancel, remove, reorder, crash and failing save; is each job driven on a worker of its key; is `JobLog` implemented | 2 jobs on 2 keys, one hires, one recycled; in-flight cancels on one of them; every save may fail |
| `JobServer_gpu` | is the GPU exclusive, are evictions safe however late, is `JobLifecycle` implemented; do jobs end, evictions get answers, channels and rows settle | 1 hires job on a recycled key; casts of 2 evictors, of 1 evictor and 1 that only leases, of 1 evictor and 1 SAM handshake |
| `WorkerPipe` | does anything cross from one run to the next, is `Drive` implemented, do drives and fences end | 2 jobs of 1 or 2 passes, 2 cancels per job, 3 kinds, 2 ticks |
| `Storage` | `JobBook`: are ids fresh, is history kept, does reorder do what it says; `WarmLoad`: do readers keep to budget, token and generation | 3 ids per session, 3 sessions, saves that fail; 2 starts of 2 readers, 1 submission, 2 files of 2 reads, a budget of 0 or 3 of the 4 reads |
| `Parts` | is a finished build whole and are the converters resumable; is a client told everything and released; do kernels read their own weights | 2 shards, 2 source versions, exchanged any number of times, 1 setting of the options; 3 units, 2 pins; 4 events, ring of 2, 2 sockets; 3 blocks, 3 copies, 3 awaits, both copy modes |

The remaining runs each show one disagreement (section 5).

Why the bounds are enough to be interesting. Two jobs give a successor to every late
cancel, stale `in_flight` and leftover line; a second key forces the worker switch. Two
evictors give one that has timed out and one that has since taken the lease, which is
the only way a stale eviction can hurt. A cast keeps pairs of borrowers and leaves out
the product of all four; a request outside the cast starts as "over". Two passes, two cancels and three kinds reach
every order of cancel, acknowledgement and end in the pipe. Three ids are needed for a
reorder with an inactive entry between two active ones, and three sessions for a
recovery from what an earlier recovery had left. Two readers on two files, with a
budget that ends inside the second file, make them share it. (A budget below the plan never ends
"complete" but "budget_complete" or "complete_with_errors"; with `Budgets = {3, 4}` the
same properties hold, in 5.7 million states.) Two shards give one that is complete and one at hand, two
versions an exchange at any point, and the way back; no property tells options apart, and the
proofs hold for any number of them; three units give a torn one between two whole ones. A
ring of two is overrun by four events, in the replay as in the live phase. Three blocks
are the fewest that make a slot of two be reused for another block, and the third copy
is the first that has to wait for kernels. (With four copies, three awaits and symmetric
blocks the property holds as well, in 276,000 states.) In the server's models a job, a
request or a submission happens at most once, so no other cap is needed; every cap is
a CONSTANT commented as a bound (`Pressable`, `MaxJobs`, `MaxCancels`, `MaxTicks`,
`MaxId`, `MaxSessions`, `MaxSource`, `MaxEvents`, `MaxStages`, `MaxAwaits`). The
converters' starts, kills, power cuts and exchanges are not counted at all.

Deadlock is not checked, because in each instance the clients are finite: when all
have had their turn, and the driver sleeps in `recv`, nothing is left to do. That
nobody waits on anybody for ever is what the liveness properties say. The converters
and the offload end, or run into their bounds.

## 4. Fairness

`JobServer!FairSpec`: weak fairness of the driver thread as a whole, of every handler
that has begun (handlers run to their end on the runtime or the blocking pool), of
eviction timers, and of the subprocesses, which a deadline kills
(`blocking::subprocess_deadline`; a trainer is taken to finish). A worker that
was given a job is assumed to report an end: histories collapse runs of progress
frames, so a drive cannot make progress for ever, and that a drive ends whatever the
worker does is `WorkerPipe!EveryDriveEnds`. No fairness is given to clients, to timeouts (`EvictGiveUp`,
`SamReturn`), nor to crashes; `EvictionIsAnswered` therefore says that the driver
answers, not that the request gives up.

`WorkerPipe!FairSpec`: weak fairness of the driver's poll loop and of the worker. Not of
cancels, crashes or `FenceTimeout`: a fence is answered without its timeout.

`JobStream!SFairness` (in `Parts`, for the behaviours that are about it): weak fairness of
the driver's publishing, which `EveryJobEnds` justifies, and of each socket's task, as
long as its client takes frames. Not of the eviction timer: the terminal frame closes a
socket, not the end of the grace window.

`JobBook`, `WarmLoad`, `SlabBuild`, `ScailConvert` and `TurboLoader` are checked for
safety only: nobody promises that a killed converter is started again.

## 5. Disagreements found

Each has a violation run of one property and an entry in PROJECT.json `findings`.

* `JobServer_remove`: `/v1/remove` leaves the job's channel in the registry for ever,
  without a terminal event.
* `JobBook_crash`: a crash between the DROP and the inserts of the "crash-safe full
  rewrite" loses the history.
* `JobBook_orphan`: a worker that outlives a crashed server overwrites the image of a
  later job that was given the same id.
* `WorkerPipe_hires`: a cancel that arrives as the base pass ends is lost; the refine
  pass runs and the job ends "done".
* `WarmLoad_cancel`: a submission between a warm's start and its thread's first step is
  shown as "cancelled_for_generation", then as "warming" for ever.

* `SlabBuild_rerun`: a finished build that is run again overwrites its plan with an empty
  one, because the partial plan it would be seeded from has been unlinked.
* `TurboLoader_lowram`: without the pinned store, the host copies a block into a pinned slab
  while the asynchronous copy of an earlier block from that slab is still to run. Only the
  copy stream waits for `compute_done`; the host waits for nothing. In the ordinary loop
  (await, prefetch_next, kernels, mark) with a host one block ahead of the device, the
  kernels of one block read bytes of a later one. With the store the same instance passes
  (`Parts`).

Also noted, without a run. Training and magic prompts take the lease but do not evict the
idle image worker, which keeps its memory beside them (`trainer.rs:14`: "a training run
owns the card"). A slab build that is resumed under other options keeps the shards of the
old ones and publishes an index that names the new one. `source_identity` is read once per
run: a source that is exchanged while a builder runs, and comes back, leaves shards of the
other version listed under its name, although `squareq/plan.py:63` says that a changed
source invalidates them (`disturbed` is the premise of `FinishedBuildIsWhole`). PrepareSam is answered "yes" while
a subprocess of another request holds the lease. `krea2_backend.mojo:25` says "cancel() is honored between the
major phases"; all of them are one `step()`, in which nobody reads the socket, so the
flag it looks at between phases cannot have changed (`EncodeEnd` keeps the test).

## 6. Proofs

Every component has a proof module, checked by TLAPS. Every safety property that a passing
run checks is a theorem, for any values of the constants that satisfy the assumption of
its module: `ServerAssumption` (each request has one role, keys and lease values are
distinct), `SlabAssumption`, `ScailAssumption`, `StreamAssumption`, `PipeAssumption`,
`BookAssumption`, `TurboAssumption` (numbers are numbers, modes are modes, markers differ
from values) and `WarmAssumption` (budgets are at most the plan; starts, submissions and
readers are finitely many, as the counters count them). Nothing else is assumed.

Liveness is out of the prover's reach, but each liveness property that the runs check has
a safety half that is not: at every moment, the step that is to come is still owed by
somebody, and was not lost on the way. Those halves are theorems, defined beside their
proofs, which no run states; with the fairness of section 4 they say why the property
holds.

| liveness (TLC) | its safety half (TLAPS) |
|---|---|
| `EveryJobEnds` | `NoWakeupLost`, for a queued job; `NoDriveIsStuck`, for one that is driven |
| `EvictionIsAnswered` | `NoRequestLost` |
| `ChannelsAreEvicted` | `NoChannelForgotten` |
| `OutcomesArePersisted` | `NoOutcomeForgotten` |
| `EveryDriveEnds` | `NoDriveIsStuck` |
| `FenceIsAnswered` | `NoFenceIsDeaf` |
| `AttachedSocketsClose` | `NoSocketMissesTheEnd`, for the sockets; `NoSilentEnd`, for the event they wait for |

Three of the disagreements of section 5 have a proved complement, which says that the run
shows the only way: a history is lost whole or not at all (`RowsWholeOrNone`, for
`JobBook_crash`), nothing but an orphan overwrites an image (`OnlyOrphansOverwrite`, for
`JobBook_orphan`), and a plan loses no entry before its build has ended once
(`FirstBuildListsEveryShard`, for `SlabBuild_rerun`). `KernelsReadWhatTheyAwaited` is
that of `TurboLoader_lowram`.

Each invariant was first checked by TLC on the instance of its component's run.

### JobServer

The properties are not inductive by themselves. `LeaseExclusive` needs to know that a
driver without a job holds no lease (`DriverInv`); `AtMostOneRunning`, that a job not yet
in the book has no record and that one the driver is finishing has ended
(`RecordInv`); `EvictedMeansReaped`, that a "yes" in flight still means that there is no
worker (`AnswerInv`), which in turn holds because only the driver spawns, only for a job
that holds the lease, and the waiting request holds it. Their conjunction with `TypeOK`
is

    IInv == TypeOK /\ DriverInv /\ RecordInv /\ AnswerInv /\ LeaseExclusive
            /\ AtMostOneRunning /\ EvictedMeansReaped /\ LeaseHolderNeverRefused

`IInvInit` and `IInvNext` show it inductive. Frame lemmas (`DriverFrame`, `RouteFrame`,
`WriterFrame`, `AnswerFrame`, `WorkerFrame`) say which steps leave which variables
alone, so that each preservation lemma looks only at the steps that matter.

| theorem | statement |
|---|---|
| `Invariance` | `Spec => []IInv` |
| `TypeCorrect`, `Exclusion`, `OneRunning`, `Reaped`, `NeverRefused` | the conjuncts of `IInv` that runs check |
| `Implements` | `JobServer` implements `JobLifecycle` with `phase <- state`, `owner <- lease` |
| `Final` | outcomes are never rewritten, by way of `Implements` |
| `CancelledNeverStarts` | with `CancelInv`: a job whose cancel was accepted is not queued |
| `OwnWorker` | with `WorkerInv`: from spawn to drive, the handle has the key of the job |
| `ChannelThere` | with `ChannelInv`: only an ended job has an eviction timer, and one that is to enter the book is registered |
| `OneLastEvent`, `EventsAgree` | with `HistoryInv`: whoever is about to publish an outcome has written it into the record, is alone, and finds the history open |
| `TableTrue` | `PersistedTruth` (a terminal row is the outcome of the record) is inductive beside `IInv`: a save copies the records, or leaves the rows of an earlier one or none, and ended records do not change |
| `CancelsHitTheirJob` | with `AskInv`: wherever a cancel is on its way (a handler, the channel, the driver's memory), its job was asked to stop |
| `NoWakeupLost` | with `WakeInv`: a driver about to block in `recv` has no queued job whose wake-up is not still to come |
| `NoCancelLost` | `CancelsArrive`: the accepted cancel of a job that runs is in its handler, in the channel or with the worker |
| `NoRequestLost` | `RequestsArrive`: an eviction or SAM3 request that waits without an answer has its message in the channel |
| `ChannelsAreLogs` | `JobServer` implements `JobLog`; with `LogInv` |
| `NoSilentEnd` | `EventDue`: an outcome is in its log, or the thread that wrote it is still to publish it |
| `NoChannelForgotten` | `EvictionDue`: a channel whose job ended has its timer, or that thread is still to start it |
| `NoOutcomeForgotten` | `SaveDue`: unless the last save failed, an outcome other than a failure is in `jobs.db`, or that thread is still to save |
| `SavesHoldEveryOutcome` | `SavesAreWhole`: a write of `jobs.db` that leaves any row has every outcome there is, also those whose own save failed or was skipped, and changes none |
| `DriveReturnsAsPromised` | a step is `DriveEnd` exactly if it ends the drive in one of the ways `Drive` allows, with its outcome, reaping and save |

The invariants of the second half are kept apart from `IInv`: each assumes it and its own
part only, with a frame lemma for the steps that leave its variables alone.

`NoWakeupLost`, `NoCancelLost` and `NoRequestLost` say what is still to arrive.
`ChannelSends` and `SentArrives` say who puts a message into the driver's
channel, `ChannelKeeps` that it leaves only by being served. `NoWakeupLost` rests on the
order in `enqueue_generate` (the entry first, then the wake-up) and on a queued record
having its entry, whatever was removed or reordered (`BookKeeps`).

`NoSilentEnd`, `NoChannelForgotten` and `NoOutcomeForgotten` say what is still due when a
job has ended. Two threads can end one, the driver and the handler of a queued cancel, and
each does the rest in steps of its own, beside saves, removes, timers and reorders of
others. All three rest on one observation: a duty is taken on in the step that ends the
job, and stays until the thread that has it performs it (`EndedBy`, `DutiesKept`). An
outcome is in every good save from then on because its job keeps its entry (`Booked`) and
its record (`TableTrue`); only `Remove` takes an entry out, and it takes queued ones only.
`TableFrame` says what a save may do to the table. None of the three theorems about it
(`TableTrue`, `NoOutcomeForgotten`, `SavesHoldEveryOutcome`) assumes that saves succeed:
after one that failed, the row of an outcome may be missing until the next good save, which
restores it; if none follows before the server ends, it is lost.

### JobBook

An id is fresh because the counter is above everything the session found, and the book
holds ids below the counter, none twice (`BookInv`, `BookInvariance`). `IdsAreNew` and
`RowsAreKept` (a completed rewrite keeps every prior row: no entry of the session hides
one) follow. The hard case is `Reorder`, a loop of adjacent swaps among the active entries,
written as a recursive function. `Induction`, from the least element of a set of naturals
(`LeastNumber`), shows that the function exists (`BeforeLoop`, `AfterLoop`), that queue
positions number the active entries without a gap (`PosFound`, `PosOfIndex`), and that
after n swaps the queue is rotated between the entry's position and n places further
(`BeforeRotates`, `AfterRotates`). `Shifted` says where that puts each entry; `ReordersAreExact`
(`LandsFact`, `MoveFact`) is arithmetic on it, for a queue of any length with any gaps. `ReordersMeetServer` draws
from both that a reorder is the move `JobServer` assumes.

`RowsWholeOrNone` and `OnlyOrphansOverwrite` bound what a crash can cost. The second needs
`ArtifactInv` (a record has an id that no earlier session's artifact has) and takes away
one action: its premise is that no orphan writes, and everything else may happen.

### WorkerPipe

The lines the worker's loop will read are `Lines`, its buffer followed by the socket. While
the driver drives, exactly one of three things holds (`Driving`): the start is still on its
way, behind leftovers that start nothing; the worker is at this run and all lines are of
this run; or the event that ends it is the last in the other direction. Between drives
nothing is left that starts anything (`Resting`). `PInvariance` proves it, for any
kinds of backend, jobs, cancels and ticks; `RunsDoNotMix`, `CancelsHitTheirOwn` and
`FencesReadTheirAck` follow. So does `NoDriveIsStuck`. `NoFenceIsDeaf` is
inductive beside it: the fence's reader drops all it read that is no acknowledgement, but
the report the driver is to acknowledge is then still unread, so that the acknowledgement
is still to come (`FinalStays`, `FenceStep`).

`DrivesAsPromised` maps the pipe to `Drive`: its job, whether it has returned, whether a
cancel was sent for it, and the outcome of each. Steps of the worker are stutters; a poll
that ends the drive is its return. `OnceInv` adds that a
job has no outcome before its drive ends.

### WarmLoad

Most of `WInv` is about one start. That its readers share one budget is a counting
argument: the reads of the plan are numbered, `Unread` is the set of planned numbers that
nobody has read, and each read takes one out of it, so that the bytes read and
`Cardinality(Unread(s))` together never exceed the budget. The status shows bytes of the
start it names because tokens are taken once each, and the last report of a start is the
step after which none of its readers is left.

### TurboLoader

`KernelsReadTheirBlock` holds with the pinned store (`KernelsReadWhatTheyAwaited` says so:
`mode.store` is a premise, and without it `TurboLoader_lowram` shows the violation). The
invariant speaks of positions in the two queues. With a copy stream: kernels still queued
are behind a wait for the copy that brings their block (`KernelsAreServed`), and every
later copy into their slot is behind a wait for a record that follows them (`Fenced`,
`ReuseIsFenced`); a slot that is marked as holding a block holds it or will
(`SlotIsFilled`). With both on one stream its order is enough (`OneStream`). The lemmas say
what queueing or ending each kind of operation does to each part.

### SlabBuild

`FinishedBuildIsWhole` speaks of the last step of a run; why it holds is spread over the
files. `SlabInv` adds to the types: once a builder has loaded the state, the state is of
the identity it read, and unless disturbed the source still has it (`RunInv`); a shard
that the state lists, if its file is still there, is of the state's source (`DoneInv`);
the shards below the current one are done, and all are at the end (`LoopInv`); what the
shard at hand is made of (`HandInv`); until a build of this state has ended, the partial
plan has an entry for every shard the state lists (`PartialInv`), and so has the plan in
memory once it is seeded (`PlanInv`). That a shard or entry is of the state's source
(`Fresh`) is claimed as long as the source was not exchanged under a builder of this state.
`SlabInvariance` proves it,
`SlabWhole` the property, `SlabImplements` that the builder implements `ResumableBuild`
with `built <- {s \in state.done : shard[s] # None}`.

### ScailConvert

`CInv` says that a running converter's directory is bound to its pin and every shard and
checksum in it is of that pin or torn (`BoundInv`), and that the units below the current
one validate (`PassedInv`). `ScailIndex` and `ScailImplements` follow; `ScailOnePin` is the
invariant a reader of the directory relies on.

### JobStream

`FramesAreFaithful` is not inductive: a socket in replay has sent a prefix of its snapshot
(`ReplayInv`), a live one what lies below its receiver's position, without a gap unless it
lagged (`LiveInv`), and a channel is only evicted after its terminal event (`EvictInv`).
`StreamInvariance` proves the conjunction, for any ring and any number of sockets; it is
drawn from `StreamSafety`, which has no fairness among its premises.
`NoSocketMissesTheEnd` follows: the receiver of a socket that waits is never past the
terminal event.

### The compositions

`StorageTypes` and `PartsTypes` prove the type invariants of the runs that explore several
components side by side, from the theorems of each component: a behaviour of the
composition is one of the component that was picked, in which the others stand still
(`StorageComponents`, `PartsComponents`). They are at the end of `WarmLoad_proofs` and of
`JobStream_proofs`, which therefore extend the proof modules of the others.

| theorem | statement |
|---|---|
| `BookInvariance`, `BookTypes`, `IdsAreNew`, `RowsAreKept`, `RowsWholeOrNone`, `OnlyOrphansOverwrite`, `ReordersAreExact`, `ReordersMeetServer` | `JobBook` |
| `PInvariance`, `PipeTypes`, `RunsDoNotMix`, `CancelsHitTheirOwn`, `FencesReadTheirAck`, `DrivesAsPromised`, `NoDriveIsStuck`, `NoFenceIsDeaf` | `WorkerPipe` |
| `WInvariance`, `WarmTypes`, `StopsAtOnce`, `SharedBudget`, `OwnBytes`, `ExactAtTheEnd` | `WarmLoad` |
| `UInvariance`, `TurboTypes`, `KernelsReadWhatTheyAwaited` | `TurboLoader` |
| `SlabTypes`, `SlabInvariance`, `SlabWhole`, `FirstBuildListsEveryShard`, `SlabImplements` | `SlabBuild` |
| `ScailInvariance`, `ScailTypes`, `ScailOnePin`, `ScailIndex`, `ScailImplements` | `ScailConvert` |
| `StreamSafety`, `StreamInvariance`, `StreamTypes`, `StreamFaithful`, `NoSocketMissesTheEnd`, `StreamIsLog` | `JobStream` |
| `StorageTypes`, `PartsTypes` | `MCStorage`, `MCParts` |

Only model-checked: the liveness properties (`EveryJobEnds`, `EvictionIsAnswered`,
`ChannelsAreEvicted`, `OutcomesArePersisted`, `EveryDriveEnds`, `FenceIsAnswered`,
`AttachedSocketsClose`), since temporal proofs under fairness need ENABLED, which is beyond
the prover: their safety halves are in the table at the head of this section. The properties of section 5 are refuted, not proved.

## 7. Not modelled

* In the modelled parts: poisoned locks (every `if let Ok(..) = lock()` is taken to
  succeed), the shutdown of the server and `ChannelClosed`, failing thread creation
  (except the warmer's), the content of requests, previews, paths and progress
  numbers, serialization errors of a frame; in the converters, the tensors; in the
  offload, blocks resident on the device (they take no slot), the int8 and fp8 stages in
  pinned memory (the same protocol on slabs of their own), and the release of the slots.
* The greater part of the Python by lines: `src/scripts/check_*`, gates and profiles read
  sources, reports or a live server once and assert what they found, and reference dumps
  compute tensors once with torch. They keep no state from step to step, nothing runs
  beside them, and no property could be stated of them that does not restate their text.
* Kernels, models, samplers and autograd are numerical; gallery, settings, presets and
  video editing are file operations within one request; workflow lowering and the wire
  codec are pure; the legacy Mojo daemon is superseded by the server; the canvas is a
  client.

## 8. Plan

Done: `JobLifecycle`, `JobServer`, `WorkerPipe`, `JobBook`, `WarmLoad`, `ResumableBuild`,
`SlabBuild`, `ScailConvert`, `JobStream` and `TurboLoader`, each with its runs and with
proofs of its safety properties; `JobLog` and `Drive`, at which they meet.

Next, in this order:

1. *Extend the model.* The grid: cells enqueued, waited for and timed out. The trainer:
   `TrainState`, `commands.jsonl`, its watcher thread and a lease lost when the watcher
   cannot be spawned. `WarmLoad` composed with job states: no reader beside a job that
   loads its model. The H3 library's read-merge-write. The remaining resumable preparers
   as further implementations of `ResumableBuild`.
2. *Prove.* What the extensions state; and from `Drive`, `JobLog` and `JobLifecycle`, that
   `JobServer` with `WorkerPipe` in place of its `drive` implements the same.
