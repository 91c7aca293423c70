----------------------------- MODULE JobServer -----------------------------
(***************************************************************************)
(* The control plane of the Serenity server: the HTTP handlers that put    *)
(* jobs into the JobBook, the single driver thread that promotes one job   *)
(* at a time and owns the worker process, the per-job event channels in    *)
(* the registry, the cross-path GPU lease, and the subprocess routes       *)
(* (video, caption, director, magic prompt, training) that borrow the GPU. *)
(*                                                                         *)
(* A step is one critical section of one thread: the code between two      *)
(* acquisitions of a shared lock, or one send or receive on a channel.     *)
(* What happens between the driver and the worker while a job is driven    *)
(* (IPC lines, hires passes, the sampling fence) is module WorkerPipe;     *)
(* here the worker decides the outcome of a job nondeterministically.      *)
(***************************************************************************)
EXTENDS Naturals, Sequences, FiniteSets

CONSTANTS
  Jobs,         \* job ids; each is submitted at most once (next_id is monotonic)
  Keys,         \* worker residency keys (worker_residency_key)
  KeyOf,        \* [Jobs -> Keys]: the key a job's model maps to
  BootKey,      \* key of the worker binary the server was launched with
  RecycleKeys,  \* keys whose worker is killed after every job ("lens")
  ShareKeys,    \* keys that may stay resident beside SAM3 ("zimage")
  HiresJobs,    \* jobs with hires_scale > 1: two worker passes
  Evictors,     \* subprocess requests that evict the idle worker (video, caption, h3_director)
  Holders,      \* subprocess requests that only take the lease (magic, train)
  Sams,         \* calls of /canvas/sam3/prepare
  Pressable,    \* bound: jobs on which the in-flight cancel routes are used (once each)
  Free, NoJob, NoKey

Reqs == Evictors \cup Holders

ASSUME ServerAssumption ==
  /\ KeyOf \in [Jobs -> Keys]
  /\ BootKey \in Keys
  /\ RecycleKeys \subseteq Keys
  /\ ShareKeys \subseteq Keys
  /\ HiresJobs \subseteq Jobs /\ Pressable \subseteq Jobs
  /\ Evictors \cap Holders = {}
  /\ Reqs \cap Jobs = {}
  /\ Sams \cap Reqs = {}
  /\ Free \notin Jobs \cup Reqs
  /\ NoJob \notin Jobs
  /\ NoKey \notin Keys

VARIABLES
  \* ---- the JobBook and the handlers that touch it
  book,       \* ids in JobBook order
  state,      \* record.state of each id; "none" before the push, "removed" after /v1/remove
  cancelReq,  \* ids whose entry has cancel_requested
  enq,        \* progress of enqueue_generate for each id
  finish,     \* what /v1/cancel/:id still has to do after classifying each id
  pressed,    \* progress of an in-flight cancel (/v1/cancel {job}, /interrupt) of each id
  \* ---- event channels
  registry,   \* ids with a JobChannel in the registry
  history,    \* JobChannel.history, runs of progress frames collapsed to one
  timers,     \* ids with a pending schedule_evict timer
  \* ---- the driver thread and its worker
  ctl,        \* the DriverCtl channel, oldest first
  pc, cur,    \* the driver's control point and promoted job
  fin,        \* how the current job ends
  forwarded,  \* a cancel line was sent to the worker for the current job
  inFlight,   \* AppState.in_flight
  handle,     \* key the held WorkerHandle was spawned with, or NoKey
  alive,      \* that process is running (and holds its VRAM)
  curKey,     \* current_residency_key
  \* ---- the GPU lease and the subprocess routes
  lease, req, reply,
  db,         \* jobs.db: the state persisted for each session id
  saved       \* ghost: the last save_jobs_db returned Ok; its Result is dropped

bookVars   == <<book, state, cancelReq, enq, finish, pressed>>
chanVars   == <<registry, history, timers>>
driverVars == <<pc, cur, fin, forwarded, inFlight>>
workerVars == <<handle, alive, curKey>>
reqVars    == <<req, reply>>
vars == <<bookVars, chanVars, ctl, driverVars, workerVars, lease, reqVars, db, saved>>

Terminal == {"done", "failed", "cancelled"}
States   == {"none", "queued", "running", "removed"} \cup Terminal
Msgs     == [op : {"wake"}, who : {NoJob}] \cup [op : {"cancel"}, who : Jobs]
              \cup [op : {"evict"}, who : Evictors] \cup [op : {"sam"}, who : Sams]
Outcomes == [ev : Terminal, reap : BOOLEAN, save : BOOLEAN]
NoRows   == [j \in Jobs |-> "none"]
NoFin    == [ev |-> "failed", reap |-> FALSE, save |-> FALSE]
Msg(op, who) == [op |-> op, who |-> who]

\* The driver owns the GPU lease at these control points.
Owning  == {"promoted", "dispatch", "spawn", "handshake", "start", "drive",
            "publish", "settle", "save", "reap", "drop"}
\* ... and the promoted record still says "running" at these.
Working == {"promoted", "dispatch", "spawn", "handshake", "start", "drive"}
Points  == {"boot", "scan", "idle", "gpuwait"} \cup Owning
\* A subprocess request holds its GpuGuard in these states.
Guarded == {"leased", "waiting", "running", "exited"}

InBook(j)  == \E i \in DOMAIN book : book[i] = j
Queued     == {j \in Jobs : InBook(j) /\ state[j] = "queued"}
\* jobs::is_active_queued
Active(j)  == j \in Queued /\ j \notin cancelReq
\* The driver's pick: the first entry of the book whose record says "queued".
Next1(j)   == \E i \in DOMAIN book :
                 /\ book[i] = j /\ j \in Queued
                 /\ \A k \in 1 .. i - 1 : book[k] \notin Queued

\* JobChannel.publish, on the collapsed history.
Published(h, ev) ==
  IF ev = "progress" /\ h # <<>> /\ h[Len(h)] = "progress" THEN h ELSE Append(h, ev)
PublishOn(j, ev) == history' = [history EXCEPT ![j] = Published(@, ev)]

\* Mutant of Saved: save_jobs_db writes the queued entries too.
SavedWithQueued(st) == [j \in Jobs |-> IF InBook(j) THEN st[j] ELSE "none"]

\* Mutant of Saved: failures are left out of the history.
SavedServed(st) == [j \in Jobs |-> IF InBook(j) /\ st[j] \notin {"queued", "failed"} THEN st[j] ELSE "none"]

\* The rows of a good save: every entry of the book that left "queued".
Saved(st) == [j \in Jobs |-> IF InBook(j) /\ st[j] # "queued" THEN st[j] ELSE "none"]

\* save_jobs_db, under the book lock throughout; while the server runs nobody reads the
\* table. An SQL error is ignored: at the start it leaves the table as it was, and in the
\* transaction, after the DROP was committed, an empty one. (The crash between the two
\* is in JobBook.)
SaveJobs ==
  \/ db' = Saved(state) /\ saved' = TRUE
  \/ db' \in {db, NoRows} /\ saved' = FALSE

----------------------------------------------------------------------------
(* A server just started: no jobs this session, the driver thread spawning *)
(* the launch worker before it enters its loop. Of the requests that may   *)
(* ever come ("new"), those that never do count as "over".                 *)
Init ==
  /\ book = <<>>
  /\ state = [j \in Jobs |-> "none"]
  /\ cancelReq = {}
  /\ enq = [j \in Jobs |-> "new"]
  /\ finish = [j \in Jobs |-> "no"] /\ pressed = [j \in Jobs |-> "no"]
  /\ registry = {} /\ timers = {}
  /\ history = [j \in Jobs |-> <<>>]
  /\ ctl = <<>>
  /\ pc = "boot" /\ cur = NoJob /\ fin = NoFin /\ forwarded = FALSE /\ inFlight = NoJob
  /\ handle = BootKey /\ alive = TRUE /\ curKey = BootKey
  /\ lease = Free
  /\ req \in [Reqs \cup Sams -> {"new", "over"}]
  /\ reply = [r \in Evictors \cup Sams |-> "none"]
  /\ db = NoRows /\ saved = TRUE

----------------------------------------------------------------------------
(* HTTP handlers on the JobBook.                                           *)

\* enqueue_generate registers the channel before the job becomes promotable,
EnqRegister(j) ==
  /\ enq[j] = "new"
  /\ enq' = [enq EXCEPT ![j] = "registered"]
  /\ registry' = registry \cup {j}
  /\ UNCHANGED <<book, state, cancelReq, finish, pressed, history, timers,
                 ctl, driverVars, workerVars, lease, reqVars, db, saved>>

\* Mutant of EnqPush: the entry is promotable before its channel is registered.
EnqPushFirst(j) ==
  /\ enq[j] \in {"new", "registered"}
  /\ enq' = [enq EXCEPT ![j] = "pushed"]
  /\ book' = Append(book, j)
  /\ state' = [state EXCEPT ![j] = "queued"]
  /\ UNCHANGED <<cancelReq, finish, pressed, chanVars, ctl, driverVars,
                 workerVars, lease, reqVars, db, saved>>

\* pushes the queued entry at the end of the book,
EnqPush(j) ==
  /\ enq[j] = "registered"
  /\ enq' = [enq EXCEPT ![j] = "pushed"]
  /\ book' = Append(book, j)
  /\ state' = [state EXCEPT ![j] = "queued"]
  /\ UNCHANGED <<cancelReq, finish, pressed, chanVars, ctl, driverVars,
                 workerVars, lease, reqVars, db, saved>>

\* Mutant of EnqWake: the wake-up is forgotten.
EnqNoWake(j) ==
  /\ enq[j] = "pushed"
  /\ enq' = [enq EXCEPT ![j] = "sent"]
  /\ UNCHANGED <<book, state, cancelReq, finish, pressed, chanVars, ctl, driverVars,
                 workerVars, lease, reqVars, db, saved>>

\* and wakes the driver.
EnqWake(j) ==
  /\ enq[j] = "pushed"
  /\ enq' = [enq EXCEPT ![j] = "sent"]
  /\ ctl' = Append(ctl, Msg("wake", NoJob))
  /\ UNCHANGED <<book, state, cancelReq, finish, pressed, chanVars, driverVars,
                 workerVars, lease, reqVars, db, saved>>

\* Mutant of CancelPath: a queued job is only marked, the record stays "queued".
CancelPathMarks(j) ==
  /\ InBook(j) /\ state[j] \in {"queued", "running"}
  /\ j \notin cancelReq
  /\ cancelReq' = cancelReq \cup {j}
  /\ finish' = [finish EXCEPT ![j] = IF state[j] = "queued" THEN "publish" ELSE "send"]
  /\ UNCHANGED <<book, state, enq, pressed, chanVars, ctl, driverVars, workerVars, lease,
                 reqVars, db, saved>>

\* Mutant of CancelPath: a running job's record turns "cancelled" at once.
CancelPathEager(j) ==
  /\ InBook(j) /\ state[j] \in {"queued", "running"}
  /\ j \notin cancelReq
  /\ cancelReq' = cancelReq \cup {j}
  /\ state' = [state EXCEPT ![j] = "cancelled"]
  /\ finish' = [finish EXCEPT ![j] = IF state[j] = "queued" THEN "publish" ELSE "send"]
  /\ UNCHANGED <<book, enq, pressed, chanVars, ctl, driverVars, workerVars, lease,
                 reqVars, db, saved>>

\* POST /v1/cancel/:id, the classification under the book lock: a queued job is
\* cancelled on the spot, a running one only marked; the rest follows without the lock.
CancelPath(j) ==
  /\ InBook(j) /\ state[j] \in {"queued", "running"}
  /\ j \notin cancelReq           \* bound: one accepted call per job
  /\ cancelReq' = cancelReq \cup {j}
  /\ IF state[j] = "queued"
     THEN /\ state' = [state EXCEPT ![j] = "cancelled"]
          /\ finish' = [finish EXCEPT ![j] = "publish"]
     ELSE /\ finish' = [finish EXCEPT ![j] = "send"]
          /\ UNCHANGED state
  /\ UNCHANGED <<book, enq, pressed, chanVars, ctl, driverVars, workerVars, lease,
                 reqVars, db, saved>>

\* The job was running when it was classified: the driver is told, perhaps too late.
CancelSend(j) ==
  /\ finish[j] = "send"
  /\ finish' = [finish EXCEPT ![j] = "no"]
  /\ ctl' = Append(ctl, Msg("cancel", j))
  /\ UNCHANGED <<book, state, cancelReq, enq, pressed, chanVars, driverVars, workerVars,
                 lease, reqVars, db, saved>>

\* The rest of a queued cancel: Cancelled is published and the channel's eviction
\* scheduled, then the session is persisted under the book lock.
CancelPublish(j) ==
  /\ finish[j] = "publish"
  /\ finish' = [finish EXCEPT ![j] = "save"]
  /\ IF j \in registry THEN PublishOn(j, "cancelled") ELSE UNCHANGED history
  /\ timers' = timers \cup {j}
  /\ UNCHANGED <<book, state, cancelReq, enq, pressed, registry, ctl, driverVars,
                 workerVars, lease, reqVars, db, saved>>

CancelSave(j) ==
  /\ finish[j] = "save"
  /\ finish' = [finish EXCEPT ![j] = "no"]
  /\ SaveJobs
  /\ UNCHANGED <<book, state, cancelReq, enq, pressed, chanVars, ctl, driverVars,
                 workerVars, lease, reqVars>>

\* POST /v1/cancel {job} and POST /interrupt: in_flight is read, then the driver told.
InterruptRead(j) ==
  /\ inFlight = j
  /\ j \in Pressable /\ pressed[j] = "no"
  /\ pressed' = [pressed EXCEPT ![j] = "read"]
  /\ UNCHANGED <<book, state, cancelReq, enq, finish, chanVars, ctl, driverVars,
                 workerVars, lease, reqVars, db, saved>>

InterruptSend(j) ==
  /\ pressed[j] = "read"
  /\ pressed' = [pressed EXCEPT ![j] = "sent"]
  /\ ctl' = Append(ctl, Msg("cancel", j))
  /\ UNCHANGED <<book, state, cancelReq, enq, finish, chanVars, driverVars,
                 workerVars, lease, reqVars, db, saved>>

\* POST /v1/remove: the entry of an active-queued job leaves the book. Its channel stays.
Remove(j) ==
  /\ Active(j)
  /\ \E i \in DOMAIN book :
       /\ book[i] = j
       /\ book' = SubSeq(book, 1, i - 1) \o SubSeq(book, i + 1, Len(book))
  /\ state' = [state EXCEPT ![j] = "removed"]
  /\ UNCHANGED <<cancelReq, enq, finish, pressed, chanVars, ctl, driverVars,
                 workerVars, lease, reqVars, db, saved>>

\* b is book with the active-queued entry j moved among the active-queued entries:
\* the others keep their order, and entries that are not active-queued their place.
IsQueueMove(b, j) ==
  LET pos(s, x) == CHOOSE i \in DOMAIN s : s[i] = x
      act == {x \in Jobs : Active(x)}
  IN /\ \A i \in DOMAIN book : book[i] \notin act => b[i] = book[i]
     /\ \A x \in act : \E i \in DOMAIN b : b[i] = x
     /\ \A x, y \in act \ {j} : pos(book, x) < pos(book, y) <=> pos(b, x) < pos(b, y)

\* POST /v1/reorder (adjacent swaps; JobBook!ReorderIsMove).
Reorder(j) ==
  /\ Active(j)
  /\ \E b \in [DOMAIN book -> Jobs] : IsQueueMove(b, j) /\ book' = b
  /\ UNCHANGED <<state, cancelReq, enq, finish, pressed, chanVars, ctl, driverVars,
                 workerVars, lease, reqVars, db, saved>>

\* A schedule_evict timer fires after the grace window.
EvictChannel(j) ==
  /\ j \in timers
  /\ timers' = timers \ {j}
  /\ registry' = registry \ {j}
  /\ UNCHANGED <<bookVars, history, ctl, driverVars, workerVars, lease, reqVars, db, saved>>

----------------------------------------------------------------------------
(* The subprocess routes and the SAM handshake.                            *)

\* try_acquire, the admission test of every route: the lease or a 409.
Acquire(r) ==
  /\ req[r] = "new"
  /\ IF lease = Free
     THEN /\ lease' = r
          /\ req' = [req EXCEPT ![r] = IF r \in Evictors THEN "leased" ELSE "running"]
     ELSE /\ req' = [req EXCEPT ![r] = "over"]
          /\ UNCHANGED lease
  /\ UNCHANGED <<bookVars, chanVars, ctl, driverVars, workerVars, reply, db, saved>>

\* Video, caption and director ask the driver to reap the idle image worker.
SendEvict(r) ==
  /\ r \in Evictors /\ req[r] = "leased"
  /\ req' = [req EXCEPT ![r] = "waiting"]
  /\ ctl' = Append(ctl, Msg("evict", r))
  /\ UNCHANGED <<bookVars, chanVars, driverVars, workerVars, lease, reply, db, saved>>

\* recv_timeout: launch on true; on false, or after 10 s without an answer, give up
\* (the guard is dropped on return).
Evicted(r) ==
  /\ r \in Evictors /\ req[r] = "waiting" /\ reply[r] = "yes"
  /\ req' = [req EXCEPT ![r] = "running"]
  /\ UNCHANGED <<bookVars, chanVars, ctl, driverVars, workerVars, lease, reply, db, saved>>

EvictGiveUp(r) ==
  /\ r \in Evictors /\ req[r] = "waiting" /\ reply[r] # "yes"
  /\ req' = [req EXCEPT ![r] = "over"]
  /\ lease' = IF lease = r THEN Free ELSE lease
  /\ UNCHANGED <<bookVars, chanVars, ctl, driverVars, workerVars, reply, db, saved>>

\* The GPU subprocess ends (or its deadline kills it) and is reaped; then the guard drops.
ChildExit(r) ==
  /\ r \in Reqs /\ req[r] = "running"
  /\ req' = [req EXCEPT ![r] = "exited"]
  /\ UNCHANGED <<bookVars, chanVars, ctl, driverVars, workerVars, lease, reply, db, saved>>

Release(r) ==
  /\ r \in Reqs /\ req[r] = "exited"
  /\ req' = [req EXCEPT ![r] = "over"]
  /\ lease' = IF lease = r THEN Free ELSE lease
  /\ UNCHANGED <<bookVars, chanVars, ctl, driverVars, workerVars, reply, db, saved>>

\* POST /canvas/sam3/prepare: no lease, only the handshake.
SamSend(s) ==
  /\ s \in Sams /\ req[s] = "new"
  /\ req' = [req EXCEPT ![s] = "waiting"]
  /\ ctl' = Append(ctl, Msg("sam", s))
  /\ UNCHANGED <<bookVars, chanVars, driverVars, workerVars, lease, reply, db, saved>>

SamReturn(s) ==   \* prepared, refused, or timed out after 10 s
  /\ s \in Sams /\ req[s] = "waiting"
  /\ req' = [req EXCEPT ![s] = "over"]
  /\ UNCHANGED <<bookVars, chanVars, ctl, driverVars, workerVars, lease, reply, db, saved>>

----------------------------------------------------------------------------
(* The driver thread: run_worker_driver.                                   *)

\* WorkerHandle::kill, SIGKILL and wait: the process is gone when it returns.
Kill     == handle' = NoKey /\ alive' = FALSE
\* The reply end of a one-shot answer; a requester that gave up dropped its receiver.
Answer(w, v) == reply' = IF req[w] = "waiting" THEN [reply EXCEPT ![w] = v] ELSE reply

\* The launch worker's handshake, before the loop and without the lease.
BootReady ==
  /\ pc = "boot" /\ alive
  /\ pc' = "scan"
  /\ UNCHANGED <<bookVars, chanVars, ctl, cur, fin, forwarded, inFlight, workerVars,
                 lease, reqVars, db, saved>>

BootFail ==
  /\ pc = "boot"
  /\ pc' = "scan" /\ Kill
  /\ UNCHANGED <<bookVars, chanVars, ctl, cur, fin, forwarded, inFlight, curKey,
                 lease, reqVars, db, saved>>

\* Mutant of Promote: the driver does not ask for the lease.
PromoteUnleased(j) ==
  /\ pc = "scan" /\ Next1(j)
  /\ lease' = j
  /\ state' = [state EXCEPT ![j] = "running"]
  /\ cur' = j /\ pc' = "promoted"
  /\ UNCHANGED <<book, cancelReq, enq, finish, pressed, chanVars, ctl, fin, forwarded,
                 inFlight, workerVars, reqVars, db, saved>>

\* The head of the loop, under the book lock: promote the first queued job if the
\* lease can be taken, ...
Promote(j) ==
  /\ pc = "scan" /\ Next1(j) /\ lease = Free
  /\ lease' = j
  /\ state' = [state EXCEPT ![j] = "running"]
  /\ cur' = j /\ pc' = "promoted"
  /\ UNCHANGED <<book, cancelReq, enq, finish, pressed, chanVars, ctl, fin, forwarded,
                 inFlight, workerVars, reqVars, db, saved>>

\* ... otherwise wait: for a message, or, with a job queued, for at most 250 ms.
ScanWait ==
  /\ pc = "scan"
  /\ \/ Queued = {} /\ pc' = "idle"
     \/ Queued # {} /\ lease # Free /\ pc' = "gpuwait"
  /\ UNCHANGED <<bookVars, chanVars, ctl, cur, fin, forwarded, inFlight, workerVars,
                 lease, reqVars, db, saved>>

GpuWaitTimeout ==
  /\ pc = "gpuwait" /\ ctl = <<>>
  /\ pc' = "scan"
  /\ UNCHANGED <<bookVars, chanVars, ctl, cur, fin, forwarded, inFlight, workerVars,
                 lease, reqVars, db, saved>>

\* Mutant of ServeIdle: the driver answers without reaping the worker.
ServeIdleNoKill ==
  /\ pc \in {"idle", "gpuwait"} /\ ctl # <<>>
  /\ IF Head(ctl).op \in {"evict", "sam"} THEN Answer(Head(ctl).who, "yes") ELSE UNCHANGED reply
  /\ ctl' = Tail(ctl) /\ pc' = "scan"
  /\ UNCHANGED <<bookVars, chanVars, cur, fin, forwarded, inFlight, workerVars, lease, req, db, saved>>

\* Mutant of ServeIdle: in gpu_wait only a wake is understood.
ServeIdleDropsEvict ==
  /\ pc \in {"idle", "gpuwait"} /\ ctl # <<>>
  /\ LET m == Head(ctl)
     IN IF m.op \in {"evict", "sam"} /\ pc = "idle"
        THEN Kill /\ Answer(m.who, "yes") ELSE UNCHANGED <<handle, alive, reply>>
  /\ ctl' = Tail(ctl) /\ pc' = "scan"
  /\ UNCHANGED <<bookVars, chanVars, cur, fin, forwarded, inFlight, curKey, lease, req, db, saved>>

\* Serving ctl between jobs: a wake or a cancel only leads to a re-scan, EvictIdle reaps
\* the worker, PrepareSam reaps it unless its kind can share the GPU with SAM3.
ServeIdle ==
  /\ pc \in {"idle", "gpuwait"} /\ ctl # <<>>
  /\ LET m == Head(ctl)
     IN /\ IF m.op = "evict" \/ (m.op = "sam" /\ curKey \notin ShareKeys)
           THEN Kill ELSE UNCHANGED <<handle, alive>>
        /\ IF m.op \in {"evict", "sam"} THEN Answer(m.who, "yes") ELSE UNCHANGED reply
  /\ ctl' = Tail(ctl) /\ pc' = "scan"
  /\ UNCHANGED <<bookVars, chanVars, cur, fin, forwarded, inFlight, curKey, lease, req, db, saved>>

\* Mutant of EndAs: the event is published but the record is left alone.
EndAsUnrecorded(ev, reap, save) ==
  /\ state' = state
  /\ fin' = [ev |-> ev, reap |-> reap, save |-> save]
  /\ pc' = "publish"

\* The job ends as ev: the record is updated first, then the event is published.
\* reap: the worker must be killed; save: the exit path that rewrites jobs.db.
EndAs(ev, reap, save) ==
  /\ state' = [state EXCEPT ![cur] = ev]
  /\ fin' = [ev |-> ev, reap |-> reap, save |-> save]
  /\ pc' = "publish"

\* The registry lookup of the promoted job's channel.
Lookup ==
  /\ pc = "promoted"
  /\ IF cur \in registry
     THEN pc' = "dispatch" /\ UNCHANGED state
     ELSE pc' = "drop" /\ state' = [state EXCEPT ![cur] = "failed"]
  /\ UNCHANGED <<book, cancelReq, enq, finish, pressed, chanVars, ctl, cur, fin,
                 forwarded, inFlight, workerVars, lease, reqVars, db, saved>>

\* worker_for_model rejects the model, or the wanted binary does not exist.
DispatchReject ==
  /\ pc = "dispatch"
  /\ EndAs("failed", FALSE, FALSE)
  /\ UNCHANGED <<book, cancelReq, enq, finish, pressed, chanVars, ctl, cur,
                 forwarded, inFlight, workerVars, lease, reqVars, db, saved>>

\* Mutant of Dispatch: a worker of another key is reused.
DispatchReusing ==
  /\ pc = "dispatch"
  /\ pc' = IF handle = NoKey THEN "spawn" ELSE "start"
  /\ curKey' = KeyOf[cur]
  /\ UNCHANGED <<bookVars, chanVars, ctl, cur, fin, forwarded, inFlight, handle, alive,
                 lease, reqVars, db, saved>>

\* Same residency key: reuse the worker. Another key: publish the phase, reap the
\* worker and take over the wanted key.
Dispatch ==
  /\ pc = "dispatch"
  /\ IF KeyOf[cur] = curKey
     THEN /\ pc' = IF handle = NoKey THEN "spawn" ELSE "start"
          /\ UNCHANGED <<workerVars, history>>
     ELSE /\ pc' = "spawn" /\ curKey' = KeyOf[cur] /\ Kill
          /\ PublishOn(cur, "progress")
  /\ UNCHANGED <<bookVars, registry, timers, ctl, cur, fin, forwarded, inFlight,
                 lease, reqVars, db, saved>>

\* spawn_and_handshake: fork and exec the worker, then wait up to READY_TIMEOUT for Ready.
Spawn ==
  /\ pc = "spawn"
  /\ pc' = "handshake"
  /\ handle' = curKey /\ alive' = TRUE
  /\ PublishOn(cur, "progress")
  /\ UNCHANGED <<bookVars, registry, timers, ctl, cur, fin, forwarded, inFlight, curKey,
                 lease, reqVars, db, saved>>

HandshakeOk ==
  /\ pc = "handshake" /\ alive
  /\ pc' = "start"
  /\ UNCHANGED <<bookVars, chanVars, ctl, cur, fin, forwarded, inFlight, workerVars,
                 lease, reqVars, db, saved>>

HandshakeFail ==
  /\ pc = "handshake"
  /\ Kill
  /\ EndAs("failed", FALSE, FALSE)
  /\ UNCHANGED <<book, cancelReq, enq, finish, pressed, chanVars, ctl, cur,
                 forwarded, inFlight, curKey, lease, reqVars, db, saved>>

\* in_flight is set, the phase published and the start line sent; the send fails
\* exactly when the worker is gone.
Start ==
  /\ pc = "start"
  /\ inFlight' = cur
  /\ PublishOn(cur, "progress")
  /\ IF alive THEN pc' = "drive" /\ UNCHANGED <<state, fin>>
              ELSE EndAs("failed", TRUE, FALSE)
  /\ UNCHANGED <<book, cancelReq, enq, finish, pressed, registry, timers, ctl, cur, forwarded,
                 workerVars, lease, reqVars, db, saved>>

\* Mutant of DriveServe: any cancel is forwarded, whatever job it names.
DriveServeAnyCancel ==
  /\ pc = "drive" /\ ctl # <<>>
  /\ forwarded' = (forwarded \/ Head(ctl).op = "cancel")
  /\ IF Head(ctl).op \in {"evict", "sam"} THEN Answer(Head(ctl).who, "no") ELSE UNCHANGED reply
  /\ ctl' = Tail(ctl)
  /\ UNCHANGED <<bookVars, chanVars, pc, cur, fin, inFlight, workerVars, lease, req, db, saved>>

\* drive_one_job drains ctl before every poll: a cancel of this job becomes a cancel
\* line, any other is dropped; evictions are refused. (The model lets the driver poll
\* with messages still pending, which also covers those that arrive after the drain.)
DriveServe ==
  /\ pc = "drive" /\ ctl # <<>>
  /\ LET m == Head(ctl)
     IN /\ forwarded' = (forwarded \/ (m.op = "cancel" /\ m.who = cur))
        /\ IF m.op \in {"evict", "sam"} THEN Answer(m.who, "no") ELSE UNCHANGED reply
  /\ ctl' = Tail(ctl)
  /\ UNCHANGED <<bookVars, chanVars, pc, cur, fin, inFlight, workerVars, lease, req, db, saved>>

\* A progress event: the record says "running" again, then the frame is published.
DriveProgress ==
  /\ pc = "drive"
  /\ state' = [state EXCEPT ![cur] = "running"]
  /\ PublishOn(cur, "progress")
  /\ UNCHANGED <<book, cancelReq, enq, finish, pressed, registry, timers, ctl,
                 driverVars, workerVars, lease, reqVars, db, saved>>

\* The ways a drive ends: a terminal event of the worker, the peer closing or an IPC
\* fault, and, for a hires job, a failed upscale between its passes.
DriveEnd ==
  /\ pc = "drive"
  /\ \/ EndAs("done", FALSE, TRUE)
     \/ EndAs("failed", TRUE, TRUE)
     \/ forwarded /\ EndAs("cancelled", FALSE, TRUE)
     \/ cur \in HiresJobs /\ EndAs("failed", FALSE, TRUE)
  /\ UNCHANGED <<book, cancelReq, enq, finish, pressed, chanVars, ctl, cur,
                 forwarded, inFlight, workerVars, lease, reqVars, db, saved>>

\* After the record, the event: history and live subscribers.
Publish ==
  /\ pc = "publish"
  /\ PublishOn(cur, fin.ev)
  /\ pc' = "settle"
  /\ UNCHANGED <<bookVars, registry, timers, ctl, cur, fin, forwarded, inFlight,
                 workerVars, lease, reqVars, db, saved>>

\* Mutant of Settle: no eviction timer is started.
SettleNoTimer ==
  /\ pc = "settle"
  /\ inFlight' = NoJob
  /\ pc' = IF fin.save THEN "save" ELSE "reap"
  /\ UNCHANGED <<bookVars, chanVars, ctl, cur, fin, forwarded, workerVars, lease, reqVars, db, saved>>

\* Mutant of Settle: every exit skips the save.
SettleNoSave ==
  /\ pc = "settle"
  /\ inFlight' = NoJob
  /\ timers' = timers \cup {cur}
  /\ pc' = "reap"
  /\ UNCHANGED <<bookVars, registry, history, ctl, cur, fin, forwarded, workerVars,
                 lease, reqVars, db, saved>>

\* in_flight is cleared and the channel's eviction scheduled; after a drive the session
\* is persisted under the book lock; the early exits skip save_jobs_db.
Settle ==
  /\ pc = "settle"
  /\ inFlight' = NoJob
  /\ timers' = timers \cup {cur}
  /\ pc' = IF fin.save THEN "save" ELSE "reap"
  /\ UNCHANGED <<bookVars, registry, history, ctl, cur, fin, forwarded, workerVars,
                 lease, reqVars, db, saved>>

Persist ==
  /\ pc = "save"
  /\ SaveJobs
  /\ pc' = "reap"
  /\ UNCHANGED <<bookVars, chanVars, ctl, cur, fin, forwarded, inFlight, workerVars,
                 lease, reqVars>>

\* A worker that failed, vanished or broke the protocol is killed; so is one whose
\* kind is recycled after every terminal job.
Reap ==
  /\ pc = "reap"
  /\ IF fin.reap \/ (fin.save /\ curKey \in RecycleKeys)
     THEN Kill ELSE UNCHANGED <<handle, alive>>
  /\ pc' = "drop"
  /\ UNCHANGED <<bookVars, chanVars, ctl, cur, fin, forwarded, inFlight, curKey,
                 lease, reqVars, db, saved>>

\* The iteration ends and its GpuGuard is dropped.
Drop ==
  /\ pc = "drop"
  /\ lease' = IF lease = cur THEN Free ELSE lease
  /\ cur' = NoJob /\ fin' = NoFin /\ forwarded' = FALSE /\ pc' = "scan"
  /\ UNCHANGED <<bookVars, chanVars, ctl, inFlight, workerVars, reqVars, db, saved>>

----------------------------------------------------------------------------
\* The worker process crashes (CUDA fault, OOM kill) at any moment.
WorkerDies ==
  /\ alive
  /\ alive' = FALSE
  /\ UNCHANGED <<bookVars, chanVars, ctl, driverVars, handle, curKey, lease, reqVars, db, saved>>

Driver ==
  \/ BootReady \/ BootFail
  \/ \E j \in Jobs : Promote(j)
  \/ ScanWait \/ GpuWaitTimeout \/ ServeIdle
  \/ Lookup \/ Dispatch \/ DispatchReject \/ Spawn \/ HandshakeOk \/ HandshakeFail
  \/ Start \/ DriveServe \/ DriveProgress \/ DriveEnd
  \/ Publish \/ Settle \/ Persist \/ Reap \/ Drop

Clients ==
  \/ \E j \in Jobs : EnqRegister(j) \/ CancelPath(j) \/ InterruptRead(j)
                       \/ Remove(j) \/ Reorder(j)
  \/ \E r \in Reqs : Acquire(r)
  \/ \E s \in Sams : SamSend(s)

\* The rest of a handler or thread that has begun.
Server ==
  \/ \E j \in Jobs : \/ EnqPush(j) \/ EnqWake(j)
                       \/ CancelSend(j) \/ CancelPublish(j) \/ CancelSave(j)
                       \/ InterruptSend(j) \/ EvictChannel(j)
  \/ \E r \in Reqs : SendEvict(r) \/ Evicted(r) \/ EvictGiveUp(r) \/ ChildExit(r) \/ Release(r)
  \/ \E s \in Sams : SamReturn(s)

Next == Driver \/ Clients \/ Server \/ WorkerDies

Spec == Init /\ [][Next]_vars

\* Threads that can run do run; subprocesses end (their deadline kills them); a worker
\* that was given a job eventually reports its end. Clients and timeouts owe nothing.
Fairness ==
  /\ WF_vars(Driver)
  /\ \A j \in Jobs : /\ WF_vars(EnqPush(j)) /\ WF_vars(EnqWake(j))
                     /\ WF_vars(CancelPublish(j)) /\ WF_vars(CancelSave(j))
                     /\ WF_vars(EvictChannel(j))
  /\ \A r \in Reqs : /\ WF_vars(SendEvict(r)) /\ WF_vars(Evicted(r))
                     /\ WF_vars(ChildExit(r)) /\ WF_vars(Release(r))

FairSpec == Spec /\ Fairness

----------------------------------------------------------------------------
(* Properties.                                                             *)

\* Every variable has its type.
TypeOK ==
  /\ book \in Seq(Jobs)
  /\ state \in [Jobs -> States]
  /\ finish \in [Jobs -> {"no", "send", "publish", "save"}]
  /\ pressed \in [Jobs -> {"no", "read", "sent"}]
  /\ cancelReq \subseteq Jobs
  /\ enq \in [Jobs -> {"new", "registered", "pushed", "sent"}]
  /\ registry \subseteq Jobs /\ timers \subseteq Jobs
  /\ history \in [Jobs -> Seq({"progress"} \cup Terminal)]
  /\ ctl \in Seq(Msgs)
  /\ pc \in Points /\ cur \in Jobs \cup {NoJob} /\ inFlight \in Jobs \cup {NoJob}
  /\ fin \in Outcomes /\ forwarded \in BOOLEAN
  /\ handle \in Keys \cup {NoKey} /\ curKey \in Keys /\ alive \in BOOLEAN
  /\ lease \in Jobs \cup Reqs \cup {Free}
  /\ req \in [Reqs \cup Sams -> {"new", "over"} \cup Guarded]
  /\ reply \in [Evictors \cup Sams -> {"none", "yes", "no"}]
  /\ db \in [Jobs -> States \ {"queued"}] /\ saved \in BOOLEAN

\* gpu_lock: one path computes on the GPU at a time. The driver works on a job only
\* while that job holds the lease, a subprocess runs only while its request does.
LeaseExclusive ==
  /\ pc \in Owning => lease = cur
  /\ \A r \in Reqs : req[r] \in Guarded => lease = r

\* DriverCtl::EvictIdle, "true only after the worker was killed and reaped": while the
\* subprocess of a video, caption or director request runs, no image worker process
\* exists, resident or starting, whatever the order of timeouts and stale evictions.
EvictedMeansReaped ==
  \A r \in Evictors : req[r] \in {"running", "exited"} => ~alive

\* drive_one_job: "The GPU lease makes this unreachable for video while a generate job
\* is active". A request that still holds its lease is never refused the eviction.
LeaseHolderNeverRefused ==
  \A r \in Evictors : req[r] = "waiting" => reply[r] # "no"

\* No eviction, live or left over from a request that timed out, takes the worker away
\* under a job: while a job is driven the handle is that of its own residency key.
DrivenByOwnWorker == pc = "drive" => handle = KeyOf[cur]

\* The book never shows two running jobs, and shows one only while the driver holds it.
AtMostOneRunning == \A j \in Jobs : state[j] = "running" <=> j = cur /\ pc \in Working

\* Registry: the channel of a job that is queued or running is there for the driver and
\* for late subscribers, although evictions fire on timers of their own.
LiveJobHasChannel ==
  \A j \in Jobs : state[j] \in {"queued", "running"} => j \in registry

\* JobChannel: a terminal event is the last of its history, so a subscriber that stops
\* at it has missed nothing and none is published twice (queued cancel against driver).
TerminalEndsHistory ==
  \A j \in Jobs : \A i \in DOMAIN history[j] :
     history[j][i] \in Terminal => i = Len(history[j])

\* A client that sees the terminal event and then asks /v1/job gets the same outcome:
\* the record is written before the event is published and not changed afterwards.
EventMatchesRecord ==
  \A j \in Jobs : \A i \in DOMAIN history[j] :
     history[j][i] \in Terminal => state[j] = history[j][i]

\* save_jobs_db, by the driver or by a cancel, early or late: a write leaves no row behind
\* (the insert failed), or it holds every outcome there is, also those whose own save failed
\* or was skipped, and changes none that the table had.
SavesAreWhole ==
  [][\/ db' = NoRows
     \/ \A j \in Jobs : /\ state[j] \in Terminal => db'[j] = state[j]
                        /\ db[j] \in Terminal => db'[j] = db[j]]_db

\* A terminal or removed record is never written again: a progress frame does not
\* revive a cancelled job and no second outcome replaces the first.
OutcomeIsFinal ==
  [][\A j \in Jobs : state[j] \in Terminal \cup {"removed"} => state'[j] = state[j]]_state

\* A cancel that was decided on an old read of the record or of in_flight reaches the
\* driver late, perhaps in the middle of another job: it stops no job but its own.
OnlyAskedJobsAreCancelled ==
  \A j \in Jobs : state[j] = "cancelled" => j \in cancelReq \/ pressed[j] = "sent"

\* post_cancel_path answered a queued job with "cancelled": the driver never starts it.
AcceptedCancelNeverStarts ==
  [][\A j \in Jobs : lease' = j /\ lease # j => j \notin cancelReq]_<<lease, cancelReq>>

\* Every queued job leaves the queue and every running job ends, whatever wakes,
\* reorders and GPU borrowers come in between (no lost wake-up, no stuck gpu_wait).
EveryJobEnds ==
  \A j \in Jobs : state[j] \in {"queued", "running"} ~> state[j] \in Terminal \cup {"removed"}

\* An evicting request that keeps waiting is answered; it does not need its timeout.
EvictionIsAnswered ==
  \A r \in Evictors : req[r] = "waiting" ~> req[r] # "waiting"

\* JobChannel's registry entry of every job that was not removed is eventually dropped,
\* which is what closes the subscribers that missed the terminal frame.
ChannelsAreEvicted ==
  \A j \in Jobs : j \in registry ~> (j \notin registry \/ state[j] = "removed")

\* A finished session job comes to be in jobs.db for good with the outcome its client saw,
\* unless the last save of all failed (the exits before the drive, which end as "failed",
\* skip the save until a later one).
OutcomesArePersisted ==
  \A j \in Jobs : \A s \in {"done", "cancelled"} : state[j] = s ~> [](saved => db[j] = s)

\* The server, with its races, retries and evictions, implements the job lifecycle.
Lifecycle == INSTANCE JobLifecycle WITH Borrowers <- Reqs, phase <- state, owner <- lease
ImplementsLifecycle == Lifecycle!Spec

\* Handlers, driver and timers together keep what a channel promises its subscribers:
\* progress, one end, nothing behind it; a channel is dropped only with the end in it, and
\* one whose job was removed is still empty.
Channels == INSTANCE JobLog WITH log <- history, withdrawn <- {j \in Jobs : state[j] = "removed"},
                                 dropped <- {j \in Jobs : enq[j] # "new" /\ j \notin registry}
ImplementsJobLog == Channels!Spec

\* ws_progress: "stream live ones until a terminal event, then close". Every channel a
\* subscriber can be attached to is closed in the end.
SubscribersAreReleased == \A j \in Jobs : j \in registry ~> j \notin registry
====
