---------------------------- MODULE JobStream ----------------------------
(***************************************************************************)
(* The progress stream of one job (main.rs: JobChannel, ws_progress and    *)
(* handle_progress_socket). The driver publishes the job's events; the     *)
(* channel keeps all of them in a history and the last few in a broadcast  *)
(* ring. A WebSocket takes a snapshot of the history and a place in the    *)
(* ring under one lock, then sends the snapshot frame by frame, at the     *)
(* pace of its client, and then what comes from the ring.                  *)
(*                                                                         *)
(* Events are numbered; the last one is terminal. JobLog says so of every  *)
(* job: JobServer's channels implement it, and so does the job of this     *)
(* module (SImplementsJobLog). That the end comes is JobServer's           *)
(* EveryJobEnds.                                                           *)
(***************************************************************************)
EXTENDS Naturals, Sequences

CONSTANTS
  MaxEvents,   \* bound: events of the job
  Cap,         \* BROADCAST_CAP: events the ring keeps
  Readers      \* WebSockets that may ask for the job

ASSUME StreamAssumption == MaxEvents \in Nat \ {0} /\ Cap \in Nat \ {0}

VARIABLES
  total,     \* how many events the job will have
  n,         \* how many are published: history is 1 .. n
  evicted,   \* the channel is out of the registry, its sender is dropped
  removed,   \* the job was removed while it was queued
  place,      \* where each reader is: away, replay, live, closed; refused; gone
  snap,      \* the length of its snapshot
  next,      \* the next event of its receiver
  got,       \* the events it sent
  lagged     \* it was told that it lagged

readerVars == <<place, snap, next, got, lagged>>
svars == <<total, n, evicted, removed, readerVars>>

SInit ==
  /\ total \in 1 .. MaxEvents /\ n = 0
  /\ evicted = FALSE /\ removed = FALSE
  /\ place = [r \in Readers |-> "away"]
  /\ snap = [r \in Readers |-> 0] /\ next = [r \in Readers |-> 1]
  /\ got = [r \in Readers |-> <<>>] /\ lagged = [r \in Readers |-> FALSE]

Terminal == n = total

----------------------------------------------------------------------------
(* The server's side of the channel.                                       *)

\* Mutant of Publish: the driver goes on to publish after the terminal event.
PublishAgain ==
  /\ n <= total /\ ~removed
  /\ n' = n + 1
  /\ UNCHANGED <<total, evicted, removed, readerVars>>

\* publish: history and ring under one lock.
Publish ==
  /\ ~Terminal /\ ~removed
  /\ n' = n + 1
  /\ UNCHANGED <<total, evicted, removed, readerVars>>

\* schedule_evict's timer.
Evict ==
  /\ Terminal /\ ~evicted
  /\ evicted' = TRUE
  /\ UNCHANGED <<total, n, removed, readerVars>>

\* post_remove of a queued job: no event was published, none will be.
RemoveQueued ==
  /\ n = 0 /\ ~removed
  /\ removed' = TRUE
  /\ UNCHANGED <<total, n, evicted, readerVars>>

----------------------------------------------------------------------------
(* A reader.                                                               *)

\* Mutant of Attach: the history is copied under one lock, the receiver is made under the
\* next one.
AttachInTwo(r) ==
  /\ place[r] = "away" /\ ~evicted
  /\ place' = [place EXCEPT ![r] = "replay"]
  /\ \E k \in 0 .. n : snap' = [snap EXCEPT ![r] = k]
  /\ next' = [next EXCEPT ![r] = n + 1]
  /\ UNCHANGED <<total, n, evicted, removed, got, lagged>>

\* ws_progress: snapshot_and_subscribe.
Attach(r) ==
  /\ place[r] = "away" /\ ~evicted
  /\ place' = [place EXCEPT ![r] = "replay"]
  /\ snap' = [snap EXCEPT ![r] = n]
  /\ next' = [next EXCEPT ![r] = n + 1]
  /\ UNCHANGED <<total, n, evicted, removed, got, lagged>>

\* An unknown or evicted job: one "failed" frame, and the socket is closed.
Refuse(r) ==
  /\ place[r] = "away" /\ evicted
  /\ place' = [place EXCEPT ![r] = "refused"]
  /\ UNCHANGED <<total, n, evicted, removed, snap, next, got, lagged>>

\* The next frame of the snapshot.
Replay(r) ==
  /\ place[r] = "replay" /\ Len(got[r]) < snap[r]
  /\ got' = [got EXCEPT ![r] = Append(@, Len(@) + 1)]
  /\ UNCHANGED <<total, n, evicted, removed, place, snap, next, lagged>>

\* Mutant of EndReplay: a finished run is not told from a running one.
EndReplayLive(r) ==
  /\ place[r] = "replay" /\ Len(got[r]) = snap[r]
  /\ place' = [place EXCEPT ![r] = "live"]
  /\ UNCHANGED <<total, n, evicted, removed, snap, next, got, lagged>>

\* already_terminal is what it was at the snapshot.
EndReplay(r) ==
  /\ place[r] = "replay" /\ Len(got[r]) = snap[r]
  /\ place' = [place EXCEPT ![r] = IF snap[r] = total THEN "closed" ELSE "live"]
  /\ UNCHANGED <<total, n, evicted, removed, snap, next, got, lagged>>

\* recv() is Ok: the frame is sent, the terminal one ends the loop. It is Closed when the
\* ring is read up and the sender is dropped: the loop ends as well.
Deliver(r) ==
  /\ place[r] = "live" /\ n < next[r] + Cap /\ (next[r] <= n \/ evicted)
  /\ IF next[r] <= n
     THEN /\ got' = [got EXCEPT ![r] = Append(@, next[r])]
          /\ next' = [next EXCEPT ![r] = @ + 1]
          /\ place' = [place EXCEPT ![r] = IF next[r] = total THEN "closed" ELSE "live"]
     ELSE /\ place' = [place EXCEPT ![r] = "closed"]
          /\ UNCHANGED <<got, next>>
  /\ UNCHANGED <<total, n, evicted, removed, snap, lagged>>

\* recv() is Lagged: the receiver is moved to the oldest event of the ring.
Lag(r) ==
  /\ place[r] = "live" /\ n >= next[r] + Cap
  /\ next' = [next EXCEPT ![r] = (n + 1) - Cap]
  /\ lagged' = [lagged EXCEPT ![r] = TRUE]
  /\ UNCHANGED <<total, n, evicted, removed, place, snap, got>>

\* The client hangs up: the next send fails.
HangUp(r) ==
  /\ place[r] \in {"replay", "live"}
  /\ place' = [place EXCEPT ![r] = "gone"]
  /\ UNCHANGED <<total, n, evicted, removed, snap, next, got, lagged>>

Reading(r) == Replay(r) \/ EndReplay(r) \/ Deliver(r) \/ Lag(r)

SNext ==
  \/ Publish \/ Evict \/ RemoveQueued
  \/ \E r \in Readers : Attach(r) \/ Refuse(r) \/ Reading(r) \/ HangUp(r)

\* The driver goes on with the job; a socket's task runs while its client takes frames.
\* Nothing is assumed of the eviction timer.
SFairness ==
  /\ WF_svars(Publish)
  /\ \A r \in Readers : WF_svars(Reading(r))

SSpec == SInit /\ [][SNext]_svars /\ SFairness

----------------------------------------------------------------------------
(* Properties.                                                             *)

\* Every variable has its type.
STypeOK ==
  /\ total \in 1 .. MaxEvents /\ n \in 0 .. total
  /\ evicted \in BOOLEAN /\ removed \in BOOLEAN
  /\ place \in [Readers -> {"away", "replay", "live", "closed", "refused", "gone"}]
  /\ snap \in [Readers -> 0 .. MaxEvents]
  /\ next \in [Readers -> 1 .. MaxEvents + 1]
  /\ got \in [Readers -> Seq(1 .. MaxEvents)]
  /\ lagged \in [Readers -> BOOLEAN]

\* What a client saw: the events in order, "exactly one of {history snapshot, live
\* stream}, never neither/both-missed" (main.rs:158); a gap only where the server knew
\* that the client lagged; and, when the server closes the socket, the terminal event
\* last, however far the ring ran ahead while the snapshot was being sent.
FramesAreFaithful ==
  \A r \in Readers :
    LET seen == got[r] IN
    /\ \A i, k \in DOMAIN seen : i < k => seen[i] < seen[k]
    /\ ~lagged[r] => \A i \in DOMAIN seen : seen[i] = i
    /\ place[r] = "closed" => seen # <<>> /\ seen[Len(seen)] = total

\* The log the sockets read is one that JobLog allows, as are those the server writes: what
\* this module assumes of the job is what JobServer does.
Channel == INSTANCE JobLog WITH
  Jobs <- {"job"},
  log <- [j \in {"job"} |-> (IF n > 0 /\ total > 1 THEN <<"progress">> ELSE <<>>)
                              \o (IF Terminal THEN <<"done">> ELSE <<>>)],
  withdrawn <- IF removed THEN {"job"} ELSE {},
  dropped <- IF evicted THEN {"job"} ELSE {}
SImplementsJobLog == Channel!Spec

\* A socket on a job that was not removed in the queue is closed, and not by the eviction
\* timer: "streams live WorkerEvents as text frames until a terminal event, then close"
\* (main.rs:3254). The removed job is the finding of JobServer_remove.
AttachedSocketsClose ==
  \A r \in Readers :
    place[r] \in {"replay", "live"} ~> place[r] \in {"closed", "gone"} \/ removed
====
