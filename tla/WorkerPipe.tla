----------------------------- MODULE WorkerPipe -----------------------------
(***************************************************************************)
(* The socket between the driver thread (drive_one_job, drive_hires_two_   *)
(* pass) and a Mojo worker process (worker loop, backends): newline-framed *)
(* command lines one way, event lines the other. The worker reads its      *)
(* commands through a buffering LineReader; a backend that runs its whole  *)
(* denoise in one blocking tick fences the last sampling step with a       *)
(* LineReader of its own (wait_sampling_ack).                              *)
(*                                                                         *)
(* Every line and event carries a ghost tag, the run <<job, pass>> it was  *)
(* written for; no guard of the code's actions looks at it.                *)
(***************************************************************************)
EXTENDS Naturals, Sequences

CONSTANTS
  Kinds,       \* the kinds of backend the driver may spawn
  MaxJobs,     \* bound: jobs the driver starts, one after the other
  MaxCancels,  \* bound: cancel lines written per job
  MaxTicks     \* bound: short ticks a backend takes for one start

\* staged: every tick is short (zimage, sdxl, anima, stub); klein: announce ticks, then
\* one blocking tick that fails if the fence times out; krea2: one blocking tick for the
\* whole job that carries on without the acknowledgement.
ASSUME PipeAssumption ==
  /\ Kinds \subseteq {"staged", "klein", "krea2"} /\ Kinds # {}
  /\ MaxJobs \in Nat /\ MaxCancels \in Nat /\ MaxTicks \in Nat

VARIABLES
  drv,      \* the driver: "free", "driving" or, between two hires passes, "upscale"
  held,     \* the driver holds a WorkerHandle
  run,      \* <<job, pass>> the driver works on, or worked on last
  hires,    \* the current job has two passes
  sent,     \* cancel lines written in each pass of the current job
  result,   \* how each job ended for its client
  toWorker, \* command lines in the socket
  toServer, \* event lines in the socket
  kind,     \* backend of the worker process
  wst,      \* its state: "dead", "idle", "loop", or the phase of a blocking tick
  wrun,     \* the run it was last started for
  rbuf,     \* lines the loop's LineReader has received and not returned yet
  flag,     \* the backend's cancel_flag
  ticks     \* short ticks it ran for this start

jobVars    == <<run, hires, sent, result>>
driverVars == <<drv, held, jobVars>>
workerVars == <<kind, wst, wrun, rbuf, flag, ticks>>
vars == <<driverVars, toWorker, toServer, workerVars>>

Jobs     == 1 .. MaxJobs
Passes   == {1, 2}
Runs     == Jobs \X Passes
NoRun    == <<0, 1>>
Cmds     == [cmd : {"start", "cancel", "ack"}, tag : Runs]
Events   == [ev : {"progress", "final", "done", "failed", "cancelled"}, tag : Runs]
Blocking == {"encode", "denoise", "fence", "decode"}

Init ==
  /\ drv = "free" /\ held = TRUE /\ run = NoRun /\ hires = FALSE
  /\ sent = [p \in Passes |-> 0]
  /\ result = [j \in Jobs |-> "none"]
  /\ toWorker = <<>> /\ toServer = <<>>
  /\ kind \in Kinds /\ wst = "idle" /\ wrun = NoRun
  /\ rbuf = <<>> /\ flag = FALSE /\ ticks = 0

----------------------------------------------------------------------------
(* The driver thread.                                                      *)

\* WorkerHandle::kill: the process is gone and the driver closes its end of the socket.
Kill ==
  /\ held' = FALSE /\ wst' = "dead"
  /\ toWorker' = <<>> /\ toServer' = <<>> /\ rbuf' = <<>>
  /\ UNCHANGED <<kind, wrun, flag, ticks>>

\* The job is over for its client.
Finish(r) == drv' = "free" /\ result' = [result EXCEPT ![run[1]] = r]

\* A new worker process of some kind, ready.
Spawn ==
  /\ drv = "free" /\ ~held /\ run[1] < MaxJobs
  /\ held' = TRUE /\ wst' = "idle" /\ kind' \in Kinds
  /\ wrun' = NoRun /\ flag' = FALSE /\ ticks' = 0
  /\ UNCHANGED <<drv, jobVars, toWorker, toServer, rbuf>>

\* send_start for the next job; it fails when the worker has died, which ends the job.
SendStart ==
  /\ drv = "free" /\ held /\ run[1] < MaxJobs
  /\ run' = <<run[1] + 1, 1>>
  /\ hires' \in BOOLEAN
  /\ sent' = [p \in Passes |-> 0]
  /\ \/ /\ wst # "dead"
        /\ drv' = "driving"
        /\ toWorker' = Append(toWorker, [cmd |-> "start", tag |-> run'])
        /\ UNCHANGED <<held, result, toServer, workerVars>>
     \/ /\ wst = "dead"
        /\ result' = [result EXCEPT ![run'[1]] = "failed"]
        /\ Kill
        /\ UNCHANGED drv

\* Mutant of SendCancel: the job is over for the driver once the cancel line is written.
SendCancelEnds ==
  /\ drv = "driving" /\ sent[1] + sent[2] < MaxCancels
  /\ sent' = [sent EXCEPT ![run[2]] = @ + 1]
  /\ toWorker' = IF wst = "dead" THEN toWorker ELSE Append(toWorker, [cmd |-> "cancel", tag |-> run])
  /\ Finish("cancelled")
  /\ UNCHANGED <<held, run, hires, toServer, workerVars>>

\* A Cancel for the job in flight was drained from ctl; an error is only logged.
SendCancel ==
  /\ drv = "driving" /\ sent[1] + sent[2] < MaxCancels
  /\ sent' = [sent EXCEPT ![run[2]] = @ + 1]
  /\ toWorker' = IF wst = "dead" THEN toWorker ELSE Append(toWorker, [cmd |-> "cancel", tag |-> run])
  /\ UNCHANGED <<drv, held, run, hires, result, toServer, workerVars>>

\* next_event_poll returned an event of one of these kinds.
Polled(evs) == drv = "driving" /\ toServer # <<>> /\ Head(toServer).ev \in evs

PollProgress ==
  /\ Polled({"progress"})
  /\ toServer' = Tail(toServer)
  /\ UNCHANGED <<driverVars, toWorker, workerVars>>

\* Mutant of PollFinal: the pass of a hires job does not acknowledge.
PollFinalOnePass ==
  /\ Polled({"final"})
  /\ toServer' = Tail(toServer)
  /\ toWorker' = IF wst = "dead" \/ hires THEN toWorker ELSE Append(toWorker, [cmd |-> "ack", tag |-> run])
  /\ UNCHANGED <<driverVars, workerVars>>

\* is_final_sampling_boundary: the worker is acknowledged, or, if that fails, written off.
PollFinal ==
  /\ Polled({"final"})
  /\ \/ /\ wst # "dead"
        /\ toServer' = Tail(toServer)
        /\ toWorker' = Append(toWorker, [cmd |-> "ack", tag |-> run])
        /\ UNCHANGED <<driverVars, workerVars>>
     \/ /\ wst = "dead"
        /\ Finish("failed") /\ Kill
        /\ UNCHANGED <<run, hires, sent>>

\* Mutant of PollDone: every pass of a hires job is followed by another.
PollDoneAgain ==
  /\ Polled({"done"})
  /\ toServer' = Tail(toServer)
  /\ IF hires THEN drv' = "upscale" /\ UNCHANGED result ELSE Finish("done")
  /\ UNCHANGED <<held, run, hires, sent, toWorker, workerVars>>

\* Done ends the job, except that the base pass of a hires job is followed by an upscale.
PollDone ==
  /\ Polled({"done"})
  /\ toServer' = Tail(toServer)
  /\ IF hires /\ run[2] = 1 THEN drv' = "upscale" /\ UNCHANGED result ELSE Finish("done")
  /\ UNCHANGED <<held, run, hires, sent, toWorker, workerVars>>

PollCancelled ==
  /\ Polled({"cancelled"})
  /\ toServer' = Tail(toServer)
  /\ Finish("cancelled")
  /\ UNCHANGED <<held, run, hires, sent, toWorker, workerVars>>

\* Mutant of PollFault: the close of the socket goes unnoticed.
PollFaultDeaf ==
  /\ Polled({"failed"})
  /\ Finish("failed") /\ Kill
  /\ UNCHANGED <<run, hires, sent>>

\* A Failed event, or the worker's end of the socket closed and drained: the client
\* sees "failed" and the worker is killed.
PollFault ==
  /\ \/ Polled({"failed"})
     \/ drv = "driving" /\ wst = "dead" /\ toServer = <<>>
  /\ Finish("failed") /\ Kill
  /\ UNCHANGED <<run, hires, sent>>

\* Between the passes of a hires job: the base image is upscaled and the refine pass
\* started; a failed upscale ends the job but keeps the worker.
Upscale ==
  /\ drv = "upscale"
  /\ \/ /\ wst # "dead"
        /\ drv' = "driving" /\ run' = <<run[1], run[2] + 1>>
        /\ toWorker' = Append(toWorker, [cmd |-> "start", tag |-> run'])
        /\ UNCHANGED <<held, result, toServer, workerVars>>
     \/ wst = "dead" /\ Finish("failed") /\ Kill /\ UNCHANGED run
     \/ Finish("failed") /\ UNCHANGED <<held, run, toWorker, toServer, workerVars>>
  /\ UNCHANGED <<hires, sent>>

----------------------------------------------------------------------------
(* The worker process.                                                     *)

Emit(ev) == toServer' = Append(toServer, [ev |-> ev, tag |-> wrun])
\* The job is over for the worker.
Close(ev) == Emit(ev) /\ wst' = "idle"

\* LineReader.next_line: a buffered line if there is one, else all the socket holds is
\* received and its first line returned.
Buffered == IF rbuf # <<>> THEN rbuf ELSE toWorker
TakeLine ==
  /\ Buffered # <<>>
  /\ rbuf' = Tail(Buffered)
  /\ toWorker' = IF rbuf # <<>> THEN toWorker ELSE <<>>

\* Mutant of WorkerIdle: start() leaves the cancel flag as it was.
WorkerIdleStale ==
  /\ wst = "idle" /\ TakeLine
  /\ IF Head(Buffered).cmd = "start"
     THEN /\ wrun' = Head(Buffered).tag /\ ticks' = 0
          /\ wst' = "loop" /\ UNCHANGED toServer
     ELSE UNCHANGED <<wst, wrun, ticks, toServer>>
  /\ UNCHANGED <<driverVars, kind, flag>>

\* The idle loop takes one line: a start resets the backend, which may refuse the job;
\* a late cancel or acknowledgement is ignored.
WorkerIdle ==
  /\ wst = "idle" /\ TakeLine
  /\ IF Head(Buffered).cmd = "start"
     THEN /\ wrun' = Head(Buffered).tag /\ flag' = FALSE /\ ticks' = 0
          /\ \/ wst' = "loop" /\ UNCHANGED toServer
             \/ toServer' = Append(toServer, [ev |-> "failed", tag |-> wrun']) /\ UNCHANGED wst
     ELSE UNCHANGED <<wst, wrun, flag, ticks, toServer>>
  /\ UNCHANGED <<driverVars, kind>>

\* backend.step() for a job that was not cancelled.
ShortTick == \* some progress; a staged backend may report its last sampling step this way
  /\ kind # "krea2" /\ ticks < MaxTicks
  /\ ticks' = ticks + 1
  /\ Emit("progress") \/ (kind = "staged" /\ Emit("final"))
  /\ UNCHANGED wst
LastTick ==  \* the tick that ends the job, or, in the other kinds, blocks for its length
  \/ kind = "staged" /\ (Close("done") \/ Close("failed")) /\ UNCHANGED ticks
  \/ kind = "klein" /\ wst' = "denoise" /\ UNCHANGED <<toServer, ticks>>
  \/ kind # "staged" /\ Close("failed") /\ UNCHANGED ticks
  \/ kind = "krea2" /\ wst' = "encode" /\ UNCHANGED <<toServer, ticks>>

\* One turn of the job loop: at most one line is taken, a cancel sets the flag, then
\* the backend steps, which looks at the flag first. (klein's _clear_job resets it.)
WorkerTick ==
  /\ wst = "loop"
  /\ IF Buffered = <<>> THEN UNCHANGED <<rbuf, toWorker>> ELSE TakeLine
  /\ LET cancelled == flag \/ (Buffered # <<>> /\ Head(Buffered).cmd = "cancel")
     IN IF cancelled
        THEN Close("cancelled") /\ flag' = (kind # "klein") /\ UNCHANGED ticks
        ELSE (ShortTick \/ LastTick) /\ UNCHANGED flag
  /\ UNCHANGED <<driverVars, kind, wrun>>

\* The blocking ticks. krea2 looks at its flag between encoding and denoising.
EncodeEnd ==
  /\ wst = "encode"
  /\ IF flag THEN Close("cancelled") ELSE wst' = "denoise" /\ UNCHANGED toServer
  /\ UNCHANGED <<driverVars, toWorker, kind, wrun, rbuf, flag, ticks>>

\* The last sampling step is reported and fenced; klein's reference-image samplers and
\* the failing ones report nothing.
DenoiseEnd ==
  /\ wst = "denoise"
  /\ \/ wst' = "fence" /\ Emit("final")
     \/ kind = "klein" /\ wst' = "decode" /\ UNCHANGED toServer
     \/ Close("failed")
  /\ UNCHANGED <<driverVars, toWorker, kind, wrun, rbuf, flag, ticks>>

HasAck == \E i \in DOMAIN toWorker : toWorker[i].cmd = "ack"

\* wait_sampling_ack receives all the socket holds into a reader of its own; lines that
\* are no acknowledgement, and those behind one, are lost.
FenceRead ==
  /\ wst = "fence" /\ toWorker # <<>>
  /\ toWorker' = <<>>
  /\ wst' = IF HasAck THEN "decode" ELSE "fence"
  /\ UNCHANGED <<driverVars, toServer, kind, wrun, rbuf, flag, ticks>>

\* 5 s without one: klein fails the job, krea2 swallows the exception.
FenceTimeout ==
  /\ wst = "fence"
  /\ IF kind = "klein" THEN Close("failed") ELSE wst' = "decode" /\ UNCHANGED toServer
  /\ UNCHANGED <<driverVars, toWorker, kind, wrun, rbuf, flag, ticks>>

DecodeEnd ==
  /\ wst = "decode"
  /\ Close("done") \/ Close("failed")
  /\ UNCHANGED <<driverVars, toWorker, kind, wrun, rbuf, flag, ticks>>

\* The process crashes; what it wrote can still be read.
WorkerDies ==
  /\ wst # "dead"
  /\ wst' = "dead" /\ toWorker' = <<>> /\ rbuf' = <<>>
  /\ UNCHANGED <<driverVars, toServer, kind, wrun, flag, ticks>>

Poll   == PollProgress \/ PollFinal \/ PollDone \/ PollCancelled \/ PollFault \/ Upscale
Driver == Spawn \/ SendStart \/ SendCancel \/ Poll
Worker == WorkerIdle \/ WorkerTick \/ EncodeEnd \/ DenoiseEnd \/ FenceRead \/ DecodeEnd
Next   == Driver \/ Worker \/ FenceTimeout \/ WorkerDies

Spec == Init /\ [][Next]_vars

\* The driver keeps polling and the worker keeps running; clients owe nothing, and no
\* timeout is needed.
FairSpec == Spec /\ WF_vars(Poll) /\ WF_vars(Worker)

----------------------------------------------------------------------------
(* Properties.                                                             *)

\* Every variable has its type.
TypeOK ==
  /\ drv \in {"free", "driving", "upscale"} /\ held \in BOOLEAN
  /\ run \in Runs \cup {NoRun} /\ hires \in BOOLEAN
  /\ sent \in [Passes -> 0 .. MaxCancels]
  /\ result \in [Jobs -> {"none", "done", "failed", "cancelled"}]
  /\ toWorker \in Seq(Cmds) /\ rbuf \in Seq(Cmds) /\ toServer \in Seq(Events)
  /\ kind \in Kinds /\ wst \in {"dead", "idle", "loop"} \cup Blocking
  /\ wrun \in Runs \cup {NoRun} /\ flag \in BOOLEAN /\ ticks \in 0 .. MaxTicks

\* One resident worker serves job after job over one untagged socket: what the driver
\* polls is always about the run it drives, and a worker that is handed back is idle
\* with nothing left to say.
NoCrossTalk ==
  /\ drv = "driving" => \A i \in DOMAIN toServer : toServer[i].tag = run
  /\ drv # "driving" => toServer = <<>> /\ wst \in {"idle", "dead"}

\* A cancel line that arrives late, stays in a buffer or is left in a backend's flag
\* never cancels the next job: only a job that was asked to stop ends "cancelled".
CancelHitsOwnJob ==
  \A i \in DOMAIN toServer : toServer[i].ev = "cancelled" => sent[1] + sent[2] > 0

\* For the control plane a drive is a call that returns once for each job: whatever the
\* worker does and however late its lines are, the drive of a job that nobody asked to stop
\* is never "cancelled", the worker is given up exactly when the job failed in its hands,
\* and no job's outcome is written twice or for another job.
Drives == INSTANCE Drive WITH job <- run[1], busy <- drv # "free", asked <- sent[1] + sent[2] > 0,
                              twoPass <- hires, outcome <- result
ImplementsDrive == Drives!Spec

\* The acknowledgement a fence reads was written for the sampling boundary it fences,
\* not left over from a fence that timed out.
FenceOwnAck ==
  wst = "fence" => \A i \in DOMAIN toWorker : toWorker[i].cmd = "ack" => toWorker[i].tag = wrun

\* Every job the driver starts ends for its client, whatever the worker does.
EveryDriveEnds == \A j \in Jobs : run[1] = j /\ drv # "free" ~> result[j] # "none"

\* A worker at its fence gets its acknowledgement and needs no timeout, in every pass
\* and however cancels are mixed with it.
FenceIsAnswered == wst = "fence" ~> wst # "fence"

\* post_cancel_path: "a RUNNING job's cancel is forwarded to the worker, which emits
\* Cancelled". A job that was cancelled in its base pass does not run its refine pass.
CancelledBaseIsNotRefined == run[2] = 2 => sent[1] = 0
====
