-------------------------- MODULE JobServer_proofs --------------------------
(***************************************************************************)
(* Proofs about JobServer for every set of jobs, keys and requests: the    *)
(* type invariant, the exclusive use of the GPU lease, the reaping of the  *)
(* image worker before an evicting subprocess runs, and the refinement of  *)
(* JobLifecycle and JobLog. The inductive invariant is IInv. On it rest    *)
(* invariants of their own for cancels (CancelInv, AskInv), the worker's   *)
(* key (WorkerInv), channels (ChannelInv), event histories (HistoryInv),   *)
(* the jobs table, what is sent to the driver (WakeInv, CancelsArrive,     *)
(* RequestsArrive), and what is still due after the end of a job: its      *)
(* event (EventDue), its eviction (EvictionDue), its row (SaveDue).        *)
(***************************************************************************)
EXTENDS JobServer, TLAPS, SequenceTheorems

\* The driver has a job exactly while it owns the lease with it.
DriverInv ==
  /\ pc \in Owning => cur \in Jobs /\ lease = cur
  /\ pc \notin Owning => lease \notin Jobs

\* A job that is not in the book yet has no record; one the driver is finishing has ended.
RecordInv ==
  /\ \A j \in Jobs : enq[j] \in {"new", "registered"} => state[j] = "none"
  /\ pc \in Owning \ Working => state[cur] \in Terminal

\* No answer precedes its question, and "yes" says that the worker is gone.
AnswerInv ==
  \A r \in Evictors : /\ req[r] \in {"new", "leased"} => reply[r] = "none"
                      /\ req[r] = "waiting" /\ reply[r] = "yes" => ~alive

IInv ==
  /\ TypeOK
  /\ DriverInv
  /\ RecordInv
  /\ AnswerInv
  /\ LeaseExclusive
  /\ AtMostOneRunning
  /\ EvictedMeansReaped
  /\ LeaseHolderNeverRefused

----------------------------------------------------------------------------
(* Types.                                                                  *)

\* The types hold at start-up: nothing is queued, sent or published.
LEMMA InitType == Init => TypeOK
<1> SUFFICES ASSUME Init PROVE TypeOK
  OBVIOUS
<1>fin. fin \in Outcomes
  BY DEF Init, NoFin, Outcomes, Terminal
<1>seqs. book \in Seq(Jobs) /\ ctl \in Seq(Msgs) /\ history \in [Jobs -> Seq({"progress"} \cup Terminal)]
  BY DEF Init
<1>rest. /\ state \in [Jobs -> States] /\ db \in [Jobs -> States \ {"queued"}]
         /\ pc \in Points /\ req \in [Reqs \cup Sams -> {"new", "over"} \cup Guarded]
  BY DEF Init, NoRows, States, Points
<1> QED
  BY <1>fin, <1>seqs, <1>rest, ServerAssumption DEF Init, TypeOK

\* Publishing extends a history by at most its last frame.
LEMMA PublishType ==
  ASSUME history \in [Jobs -> Seq({"progress"} \cup Terminal)],
         NEW j, NEW ev \in {"progress"} \cup Terminal, PublishOn(j, ev)
  PROVE  history' \in [Jobs -> Seq({"progress"} \cup Terminal)]
<1> DEFINE Frames == {"progress"} \cup Terminal
<1>1. ASSUME NEW h \in Seq(Frames) PROVE Published(h, ev) \in Seq(Frames)
  BY <1>1 DEF Published
<1> QED
  BY <1>1 DEF PublishOn

\* Answering keeps the type of the replies.
LEMMA AnswerType ==
  ASSUME reply \in [Evictors \cup Sams -> {"none", "yes", "no"}],
         NEW w, NEW v \in {"yes", "no"}, Answer(w, v)
  PROVE  reply' \in [Evictors \cup Sams -> {"none", "yes", "no"}]
BY DEF Answer

\* So does a save that of the table, good or failed.
LEMMA SaveType ==
  ASSUME state \in [Jobs -> States], db \in [Jobs -> States \ {"queued"}], SaveJobs
  PROVE  db' \in [Jobs -> States \ {"queued"}] /\ saved' \in BOOLEAN
BY DEF SaveJobs, Saved, NoRows, States

\* A job's end keeps the types of what EndAs writes.
LEMMA EndAsType ==
  ASSUME state \in [Jobs -> States],
         NEW ev \in Terminal, NEW rp \in BOOLEAN, NEW sv \in BOOLEAN, EndAs(ev, rp, sv)
  PROVE  state' \in [Jobs -> States] /\ fin' \in Outcomes /\ pc' \in Points
BY DEF EndAs, States, Outcomes, Points, Owning

\* Messages have their type.
LEMMA MsgType ==
  /\ \A j \in Jobs : Msg("cancel", j) \in Msgs
  /\ \A r \in Evictors : Msg("evict", r) \in Msgs
  /\ \A s \in Sams : Msg("sam", s) \in Msgs
  /\ Msg("wake", NoJob) \in Msgs
BY DEF Msg, Msgs

\* Steps of the driver keep the types.
LEMMA DriverType == TypeOK /\ DriverInv /\ Driver => TypeOK'
<1> SUFFICES ASSUME TypeOK, DriverInv, Driver PROVE TypeOK'
  OBVIOUS
<1> USE DEF TypeOK, bookVars, chanVars, driverVars, workerVars, reqVars, Points
<1>boot. CASE BootReady \/ BootFail
  BY <1>boot DEF BootReady, BootFail, Kill
<1>promote. CASE \E j \in Jobs : Promote(j)
  BY <1>promote DEF Promote, Owning, States
<1>wait. CASE ScanWait \/ GpuWaitTimeout
  BY <1>wait DEF ScanWait, GpuWaitTimeout
<1>idle. CASE ServeIdle
  <2>1. handle' \in Keys \cup {NoKey} /\ alive' \in BOOLEAN
    BY <1>idle DEF ServeIdle, Kill
  <2>2. reply' \in [Evictors \cup Sams -> {"none", "yes", "no"}]
    BY <1>idle, AnswerType DEF ServeIdle
  <2>3. ctl' \in Seq(Msgs)
    BY <1>idle DEF ServeIdle
  <2> QED
    BY <1>idle, <2>1, <2>2, <2>3 DEF ServeIdle
<1>lookup. CASE Lookup
  BY <1>lookup DEF Lookup, Owning, States, Terminal
<1>dispatch. CASE Dispatch
  <2>1. CASE KeyOf[cur] = curKey
    BY <1>dispatch, <2>1 DEF Dispatch, Owning
  <2>2. CASE KeyOf[cur] # curKey
    <3>1. history' \in [Jobs -> Seq({"progress"} \cup Terminal)]
      BY <1>dispatch, <2>2, PublishType DEF Dispatch
    <3>2. KeyOf[cur] \in Keys
      BY <1>dispatch, ServerAssumption DEF Dispatch, DriverInv, Owning
    <3> QED
      BY <1>dispatch, <2>2, <3>1, <3>2 DEF Dispatch, Owning, Kill
  <2> QED
    BY <2>1, <2>2
<1>reject. CASE DispatchReject
  BY <1>reject, EndAsType DEF DispatchReject, Terminal
<1>spawn. CASE Spawn
  BY <1>spawn, PublishType DEF Spawn, Owning
<1>ready. CASE HandshakeOk
  BY <1>ready DEF HandshakeOk, Owning
<1>shake. CASE HandshakeFail
  BY <1>shake, EndAsType DEF HandshakeFail, Kill, Terminal
<1>start. CASE Start
  <2>1. history' \in [Jobs -> Seq({"progress"} \cup Terminal)]
    BY <1>start, PublishType DEF Start
  <2>2. CASE alive
    BY <1>start, <2>1, <2>2 DEF Start, DriverInv, Owning
  <2>3. CASE ~alive
    BY <1>start, <2>1, <2>3, EndAsType DEF Start, Terminal
  <2> QED
    BY <2>2, <2>3
<1>serve. CASE DriveServe
  <2>1. forwarded' \in BOOLEAN
    BY <1>serve, Zenon DEF DriveServe
  <2>2. reply' \in [Evictors \cup Sams -> {"none", "yes", "no"}]
    BY <1>serve, AnswerType DEF DriveServe
  <2>3. ctl' \in Seq(Msgs)
    BY <1>serve DEF DriveServe
  <2> QED
    BY <1>serve, <2>1, <2>2, <2>3 DEF DriveServe
<1>progress. CASE DriveProgress
  BY <1>progress, PublishType DEF DriveProgress, States
<1>end. CASE DriveEnd
  BY <1>end, EndAsType DEF DriveEnd, Terminal
<1>publish. CASE Publish
  BY <1>publish, PublishType DEF Publish, Owning, Outcomes
<1>settle. CASE Settle
  BY <1>settle DEF Settle, DriverInv, Owning
<1>persist. CASE Persist
  BY <1>persist, SaveType DEF Persist, Owning
<1>reap. CASE Reap
  BY <1>reap DEF Reap, Kill, Owning
<1>drop. CASE Drop
  BY <1>drop DEF Drop, NoFin, Outcomes, Terminal
<1> QED
  BY <1>boot, <1>promote, <1>wait, <1>idle, <1>lookup, <1>dispatch, <1>reject, <1>spawn,
     <1>ready, <1>shake, <1>start, <1>serve, <1>progress, <1>end, <1>publish, <1>settle, <1>persist,
     <1>reap, <1>drop DEF Driver

\* Steps of the handlers, the routes and their timers keep the types.
LEMMA HandlerType == TypeOK /\ (Clients \/ Server \/ WorkerDies) => TypeOK'
<1> SUFFICES ASSUME TypeOK, Clients \/ Server \/ WorkerDies PROVE TypeOK'
  OBVIOUS
<1> USE DEF TypeOK, bookVars, chanVars, driverVars, workerVars, reqVars
<1>reg. ASSUME NEW j \in Jobs, EnqRegister(j) PROVE TypeOK'
  BY <1>reg, MsgType DEF EnqRegister, States
<1>push. ASSUME NEW j \in Jobs, EnqPush(j) PROVE TypeOK'
  BY <1>push, MsgType DEF EnqPush, States
<1>wake. ASSUME NEW j \in Jobs, EnqWake(j) PROVE TypeOK'
  BY <1>wake, MsgType DEF EnqWake
<1>cancel. ASSUME NEW j \in Jobs, CancelPath(j) PROVE TypeOK'
  <2>1. CASE state[j] = "queued"
    BY <1>cancel, <2>1 DEF CancelPath, States, Terminal
  <2>2. CASE state[j] # "queued"
    BY <1>cancel, <2>2 DEF CancelPath
  <2> QED
    BY <2>1, <2>2
<1>csend. ASSUME NEW j \in Jobs, CancelSend(j) PROVE TypeOK'
  BY <1>csend, MsgType DEF CancelSend
<1>csave. ASSUME NEW j \in Jobs, CancelSave(j) PROVE TypeOK'
  BY <1>csave, MsgType, SaveType DEF CancelSave
<1>tell. ASSUME NEW j \in Jobs, CancelPublish(j) PROVE TypeOK'
  BY <1>tell, PublishType DEF CancelPublish, Terminal
<1>press. ASSUME NEW j \in Jobs, InterruptRead(j) PROVE TypeOK'
  BY <1>press, MsgType DEF InterruptRead
<1>psend. ASSUME NEW j \in Jobs, InterruptSend(j) PROVE TypeOK'
  BY <1>psend, MsgType DEF InterruptSend
<1>remove. ASSUME NEW j \in Jobs, Remove(j) PROVE TypeOK'
  <2>1. PICK i \in DOMAIN book : book' = SubSeq(book, 1, i - 1) \o SubSeq(book, i + 1, Len(book))
    BY <1>remove DEF Remove
  <2>2. SubSeq(book, 1, i - 1) \in Seq(Jobs) /\ SubSeq(book, i + 1, Len(book)) \in Seq(Jobs)
    BY SubSeqProperties
  <2>3. book' \in Seq(Jobs)
    BY <2>1, <2>2, ConcatProperties
  <2> QED
    BY <1>remove, <2>3 DEF Remove, States
<1>reorder. ASSUME NEW j \in Jobs, Reorder(j) PROVE TypeOK'
  BY <1>reorder DEF Reorder
<1>evict. ASSUME NEW j \in Jobs, EvictChannel(j) PROVE TypeOK'
  BY <1>evict DEF EvictChannel
<1>acquire. ASSUME NEW r \in Reqs, Acquire(r) PROVE TypeOK'
  BY <1>acquire DEF Acquire, Guarded
<1>send. ASSUME NEW r \in Reqs, SendEvict(r) PROVE TypeOK'
  BY <1>send, MsgType DEF SendEvict, Guarded
<1>route. ASSUME NEW r \in Reqs, Evicted(r) \/ EvictGiveUp(r) \/ ChildExit(r) \/ Release(r) PROVE TypeOK'
  BY <1>route DEF Evicted, EvictGiveUp, ChildExit, Release, Guarded
<1>sam. ASSUME NEW s \in Sams, SamSend(s) PROVE TypeOK'
  BY <1>sam, MsgType DEF SamSend, Guarded
<1>sback. ASSUME NEW s \in Sams, SamReturn(s) PROVE TypeOK'
  BY <1>sback, MsgType DEF SamReturn, Guarded
<1>dies. CASE WorkerDies
  BY <1>dies DEF WorkerDies
<1> QED
  BY <1>reg, <1>push, <1>wake, <1>cancel, <1>csend, <1>csave, <1>tell, <1>press, <1>psend,
     <1>remove, <1>reorder, <1>evict, <1>acquire, <1>send, <1>route, <1>sam, <1>sback,
     <1>dies DEF Clients, Server

----------------------------------------------------------------------------
(* The lease.                                                              *)

\* Between Promote and Drop the driver keeps its job and its lease, and it never touches
\* a request.
LEMMA DriverFrame ==
  ASSUME Driver, \A j \in Jobs : ~Promote(j), ~Drop
  PROVE  UNCHANGED <<cur, lease, req, enq>> /\ (pc' \in Owning <=> pc \in Owning)
<1> USE DEF Owning, bookVars, chanVars, driverVars, workerVars, reqVars
<1>1. CASE BootReady \/ BootFail \/ ScanWait \/ GpuWaitTimeout \/ ServeIdle
  BY <1>1 DEF BootReady, BootFail, ScanWait, GpuWaitTimeout, ServeIdle
<1>2. CASE Lookup \/ Dispatch \/ DispatchReject \/ Spawn \/ HandshakeOk \/ HandshakeFail
  BY <1>2 DEF Lookup, Dispatch, DispatchReject, Spawn, HandshakeOk, HandshakeFail, EndAs
<1>3. CASE Start \/ DriveServe \/ DriveProgress \/ DriveEnd
  BY <1>3 DEF Start, DriveServe, DriveProgress, DriveEnd, EndAs
<1>4. CASE Publish \/ Settle \/ Persist \/ Reap
  BY <1>4 DEF Publish, Settle, Persist, Reap
<1> QED
  BY <1>1, <1>2, <1>3, <1>4 DEF Driver

\* No handler moves the driver.
LEMMA HandlerFrame == Clients \/ Server \/ WorkerDies => UNCHANGED <<pc, cur>>
BY DEF Clients, Server, WorkerDies, EnqRegister, CancelPath, InterruptRead, Remove, Reorder,
       Acquire, SamSend, EnqPush, EnqWake, CancelSend, CancelPublish, CancelSave,
       InterruptSend, EvictChannel, SendEvict, Evicted, EvictGiveUp, ChildExit, Release,
       SamReturn, driverVars

\* The only handlers that touch the lease or a request.
Routes == \/ \E r \in Reqs : \/ Acquire(r) \/ SendEvict(r) \/ Evicted(r) \/ EvictGiveUp(r)
                             \/ ChildExit(r) \/ Release(r)
          \/ \E s \in Sams : SamSend(s) \/ SamReturn(s)

\* Handlers other than the subprocess routes leave lease, requests and answers alone.
LEMMA RouteFrame == (Clients \/ Server \/ WorkerDies) /\ ~Routes => UNCHANGED <<lease, req, reply>>
BY DEF Routes, Clients, Server, WorkerDies, EnqRegister, CancelPath, InterruptRead, Remove,
       Reorder, EnqPush, EnqWake, CancelSend, CancelPublish, CancelSave, InterruptSend,
       EvictChannel, reqVars

\* Every step keeps the lease with one owner: gpu_lock::try_acquire takes it only when
\* it is free, and a guard gives back only its own.
LEMMA LeaseStep == IInv /\ Next => DriverInv' /\ LeaseExclusive'
<1> SUFFICES ASSUME IInv, Next PROVE DriverInv' /\ LeaseExclusive'
  OBVIOUS
<1> USE ServerAssumption DEF IInv, TypeOK, DriverInv, LeaseExclusive
<1>promote. ASSUME NEW j \in Jobs, Promote(j) PROVE DriverInv' /\ LeaseExclusive'
  BY <1>promote DEF Promote, Owning, reqVars, Guarded, Reqs
<1>drop. CASE Drop
  BY <1>drop DEF Drop, Owning, reqVars
<1>driver. CASE Driver /\ (\A j \in Jobs : ~Promote(j)) /\ ~Drop
  BY <1>driver, DriverFrame
<1>acquire. ASSUME NEW r \in Reqs, Acquire(r) PROVE DriverInv' /\ LeaseExclusive'
  BY <1>acquire DEF Acquire, Guarded, bookVars, driverVars
<1>route. ASSUME NEW r \in Reqs, SendEvict(r) \/ Evicted(r) \/ ChildExit(r)
          PROVE  DriverInv' /\ LeaseExclusive'
  BY <1>route DEF SendEvict, Evicted, ChildExit, Guarded, driverVars
<1>release. ASSUME NEW r \in Reqs, EvictGiveUp(r) \/ Release(r)
            PROVE  DriverInv' /\ LeaseExclusive'
  <2>1. lease = r /\ r \notin Jobs /\ pc \notin Owning
    BY <1>release DEF EvictGiveUp, Release, Guarded
  <2>2. lease' = Free /\ req' = [req EXCEPT ![r] = "over"] /\ pc' = pc
    BY <1>release, <2>1 DEF EvictGiveUp, Release, driverVars
  <2> QED
    BY <2>1, <2>2 DEF Guarded
<1>sam. ASSUME NEW s \in Sams, SamSend(s) \/ SamReturn(s) PROVE DriverInv' /\ LeaseExclusive'
  BY <1>sam DEF SamSend, SamReturn, Guarded, driverVars
<1>other. CASE (Clients \/ Server \/ WorkerDies) /\ ~Routes
  BY <1>other, HandlerFrame, RouteFrame
<1> QED
  BY <1>promote, <1>drop, <1>driver, <1>acquire, <1>route, <1>release, <1>sam, <1>other
  DEF Next, Driver, Clients, Server, Routes

----------------------------------------------------------------------------
(* The records.                                                            *)

\* The driver steps that write no record, or, for a progress frame, the value it has.
LEMMA RecordFrame ==
  ASSUME TypeOK, AtMostOneRunning,
         BootReady \/ BootFail \/ ScanWait \/ GpuWaitTimeout \/ ServeIdle \/ Dispatch \/ Spawn
           \/ HandshakeOk \/ DriveServe \/ DriveProgress \/ Publish \/ Settle \/ Persist \/ Reap
  PROVE  /\ UNCHANGED <<state, cur, enq>>
         /\ pc' \in Working <=> pc \in Working
         /\ pc' \in Owning \ Working <=> pc \in Owning \ Working
<1> USE DEF Owning, Working, bookVars, driverVars
<1>1. CASE DriveProgress
  <2>1. state[cur] = "running" \/ cur \notin Jobs
    BY <1>1 DEF DriveProgress, AtMostOneRunning
  <2> QED
    BY <1>1, <2>1 DEF DriveProgress, TypeOK
<1>2. CASE BootReady \/ BootFail \/ ScanWait \/ GpuWaitTimeout \/ ServeIdle
  BY <1>2 DEF BootReady, BootFail, ScanWait, GpuWaitTimeout, ServeIdle
<1>3. CASE Dispatch \/ Spawn \/ HandshakeOk \/ DriveServe
  BY <1>3 DEF Dispatch, Spawn, HandshakeOk, DriveServe
<1>4. CASE Publish \/ Settle \/ Persist \/ Reap
  BY <1>4 DEF Publish, Settle, Persist, Reap
<1> QED
  BY <1>1, <1>2, <1>3, <1>4

\* The driver steps that end the running job.
Ends(ev) == /\ pc \in Working /\ pc' \in Owning \ Working
            /\ state' = [state EXCEPT ![cur] = ev]
            /\ UNCHANGED <<cur, enq, lease>>

\* The driver steps that write an outcome are those whose EndAs ends cur.
LEMMA EndSteps ==
  ASSUME Lookup \/ DispatchReject \/ HandshakeFail \/ Start \/ DriveEnd
  PROVE  \/ \E ev \in Terminal : Ends(ev)
         \/ UNCHANGED <<state, cur, enq, lease>> /\ pc \in Working /\ pc' \in Working
<1> USE DEF Ends, Terminal, Working, Owning, EndAs, bookVars
<1>1. CASE Lookup
  BY <1>1 DEF Lookup
<1>2. CASE DispatchReject
  BY <1>2 DEF DispatchReject
<1>3. CASE HandshakeFail
  BY <1>3 DEF HandshakeFail
<1>4. CASE Start
  BY <1>4 DEF Start
<1>5. CASE DriveEnd
  BY <1>5 DEF DriveEnd
<1> QED
  BY <1>1, <1>2, <1>3, <1>4, <1>5

\* The handlers that write a record.
Writers == \E j \in Jobs : EnqRegister(j) \/ EnqPush(j) \/ EnqWake(j) \/ CancelPath(j) \/ Remove(j)

\* Handlers other than enqueue, cancel and remove leave the records alone.
LEMMA WriterFrame == (Clients \/ Server \/ WorkerDies) /\ ~Writers => UNCHANGED <<state, enq>>
BY DEF Writers, Clients, Server, WorkerDies, InterruptRead, Reorder, Acquire, SamSend,
       CancelSend, CancelPublish, CancelSave, InterruptSend, EvictChannel, SendEvict,
       Evicted, EvictGiveUp, ChildExit, Release, SamReturn, bookVars

\* Every step keeps a record "running" exactly for the job the driver works on.
LEMMA RecordStep == IInv /\ Next => RecordInv' /\ AtMostOneRunning'
<1> SUFFICES ASSUME IInv, Next PROVE RecordInv' /\ AtMostOneRunning'
  OBVIOUS
<1> USE DEF IInv, TypeOK, RecordInv, AtMostOneRunning, Owning, Working, Terminal
<1>promote. ASSUME NEW j \in Jobs, Promote(j) PROVE RecordInv' /\ AtMostOneRunning'
  BY <1>promote DEF Promote, Next1, Queued
<1>drop. CASE Drop
  BY <1>drop DEF Drop, bookVars
<1>frame. CASE UNCHANGED <<state, cur, enq>>
               /\ (pc' \in Working <=> pc \in Working)
               /\ (pc' \in Owning \ Working <=> pc \in Owning \ Working)
  BY <1>frame
<1>ends. ASSUME NEW ev \in Terminal, Ends(ev) PROVE RecordInv' /\ AtMostOneRunning'
  <2>1. cur \in Jobs /\ state[cur] = "running"
    BY <1>ends DEF Ends, DriverInv
  <2> QED
    BY <1>ends, <2>1 DEF Ends
<1>job. pc \in Owning => cur \in Jobs
  BY DEF DriverInv
<1>enq. ASSUME NEW j \in Jobs, EnqRegister(j) \/ EnqWake(j)
        PROVE  RecordInv' /\ AtMostOneRunning'
  BY <1>enq DEF EnqRegister, EnqWake, driverVars
<1>push. ASSUME NEW j \in Jobs, EnqPush(j) PROVE RecordInv' /\ AtMostOneRunning'
  <2>1. state[j] = "none"
    BY <1>push DEF EnqPush
  <2> QED
    BY <1>push, <1>job, <2>1 DEF EnqPush, driverVars
<1>cancel. ASSUME NEW j \in Jobs, CancelPath(j) PROVE RecordInv' /\ AtMostOneRunning'
  <2>1. enq[j] \notin {"new", "registered"} /\ state[j] \in {"queued", "running"}
    BY <1>cancel DEF CancelPath
  <2>2. state' = state \/ (state[j] = "queued" /\ state' = [state EXCEPT ![j] = "cancelled"])
    BY <1>cancel DEF CancelPath
  <2>3. UNCHANGED <<enq, pc, cur>>
    BY <1>cancel DEF CancelPath, driverVars
  <2> QED
    BY <1>job, <2>1, <2>2, <2>3
<1>remove. ASSUME NEW j \in Jobs, Remove(j) PROVE RecordInv' /\ AtMostOneRunning'
  <2>1. state[j] = "queued" /\ state' = [state EXCEPT ![j] = "removed"]
    BY <1>remove DEF Remove, Active, Queued
  <2>2. UNCHANGED <<enq, pc, cur>>
    BY <1>remove DEF Remove, driverVars
  <2> QED
    BY <1>job, <2>1, <2>2
<1>other. CASE (Clients \/ Server \/ WorkerDies) /\ ~Writers
  BY <1>other, <1>frame, HandlerFrame, WriterFrame
<1> QED
  BY <1>promote, <1>drop, <1>frame, <1>ends, <1>enq, <1>push, <1>cancel, <1>remove, <1>other,
     RecordFrame, EndSteps
  DEF Next, Driver, Clients, Server, Writers

----------------------------------------------------------------------------
(* Evictions and their answers.                                            *)

\* "evict" and "sam" messages name who is waiting for the answer.
LEMMA HeadMsg ==
  ASSUME TypeOK, ctl # <<>>
  PROVE  /\ Head(ctl).op = "evict" => Head(ctl).who \in Evictors
         /\ Head(ctl).op = "sam" => Head(ctl).who \in Sams
<1>1. Head(ctl) \in Msgs
  BY DEF TypeOK
<1> QED
  BY <1>1 DEF Msgs

\* The driver steps that neither answer nor start a worker leave the requests alone.
LEMMA AnswerFrame ==
  ASSUME Driver, ~ServeIdle, ~DriveServe, ~Spawn
  PROVE  UNCHANGED <<req, reply>> /\ (~alive => ~alive')
<1> USE DEF reqVars, workerVars, Kill, EndAs
<1>1. CASE BootReady \/ BootFail \/ ScanWait \/ GpuWaitTimeout \/ (\E j \in Jobs : Promote(j))
  BY <1>1 DEF BootReady, BootFail, ScanWait, GpuWaitTimeout, Promote
<1>2. CASE Lookup \/ Dispatch \/ DispatchReject \/ HandshakeOk \/ HandshakeFail
  BY <1>2 DEF Lookup, Dispatch, DispatchReject, HandshakeOk, HandshakeFail
<1>3. CASE Start \/ DriveProgress \/ DriveEnd
  BY <1>3 DEF Start, DriveProgress, DriveEnd
<1>4. CASE Publish \/ Settle \/ Persist \/ Reap \/ Drop
  BY <1>4 DEF Publish, Settle, Persist, Reap, Drop
<1> QED
  BY <1>1, <1>2, <1>3, <1>4 DEF Driver

\* No handler starts a worker.
LEMMA AliveFrame == Clients \/ Server \/ WorkerDies => (~alive => ~alive')
BY DEF Clients, Server, WorkerDies, EnqRegister, CancelPath, InterruptRead, Remove, Reorder,
       Acquire, SamSend, EnqPush, EnqWake, CancelSend, CancelPublish, CancelSave,
       InterruptSend, EvictChannel, SendEvict, Evicted, EvictGiveUp, ChildExit, Release,
       SamReturn, workerVars

EvictionInv == AnswerInv /\ EvictedMeansReaped /\ LeaseHolderNeverRefused

\* Every step keeps the promises of an eviction: "yes" only after the worker was reaped,
\* no worker while the evicting subprocess runs, no refusal to the holder of the lease.
LEMMA EvictionStep == IInv /\ Next => EvictionInv'
<1> SUFFICES ASSUME IInv, Next PROVE EvictionInv'
  OBVIOUS
<1> USE ServerAssumption DEF IInv, EvictionInv, AnswerInv, EvictedMeansReaped, LeaseHolderNeverRefused
<1>idle. CASE ServeIdle
  <2>1. CASE Head(ctl).op = "evict"
    <3>1. ~alive' /\ req' = req /\ Answer(Head(ctl).who, "yes")
      BY <1>idle, <2>1 DEF ServeIdle, Kill
    <3> QED
      BY <3>1 DEF Answer, TypeOK, Reqs
  <2>2. CASE Head(ctl).op # "evict"
    <3>1. (~alive => ~alive') /\ req' = req
      BY <1>idle, <2>2 DEF ServeIdle, Kill
    <3>2. \A r \in Evictors : reply'[r] = reply[r]
      BY <1>idle, <2>2, HeadMsg DEF ServeIdle, Answer, TypeOK, Reqs
    <3> QED
      BY <3>1, <3>2
  <2> QED
    BY <2>1, <2>2
<1>serve. CASE DriveServe
  <2>1. \A r \in Evictors : req[r] \notin Guarded
    BY <1>serve DEF DriveServe, LeaseExclusive, DriverInv, Owning, Reqs
  <2>2. alive' = alive /\ req' = req
    BY <1>serve DEF DriveServe, workerVars
  <2>3. \A r \in Evictors : reply'[r] = reply[r]
    BY <1>serve, <2>1, HeadMsg DEF DriveServe, Answer, TypeOK, Reqs, Guarded
  <2> QED
    BY <2>2, <2>3
<1>spawn. CASE Spawn
  <2>1. \A r \in Evictors : req[r] \notin Guarded
    BY <1>spawn DEF Spawn, LeaseExclusive, DriverInv, Owning, Reqs
  <2>2. UNCHANGED <<req, reply>>
    BY <1>spawn DEF Spawn, reqVars
  <2> QED
    BY <2>1, <2>2 DEF Guarded
<1>driver. CASE Driver /\ ~ServeIdle /\ ~DriveServe /\ ~Spawn
  BY <1>driver, AnswerFrame
<1>route. ASSUME NEW r \in Reqs,
                 Acquire(r) \/ SendEvict(r) \/ Evicted(r) \/ EvictGiveUp(r) \/ ChildExit(r) \/ Release(r)
          PROVE  EvictionInv'
  <2>1. UNCHANGED <<reply, alive>> /\ (\A x \in Reqs : x # r => req'[x] = req[x])
    BY <1>route DEF Acquire, SendEvict, Evicted, EvictGiveUp, ChildExit, Release, TypeOK, workerVars
  <2>2. CASE r \notin Evictors
    BY <2>1, <2>2 DEF Reqs
  <2>3. CASE r \in Evictors
    <3>1. CASE Acquire(r)
      BY <2>1, <2>3, <3>1 DEF Acquire, Reqs, TypeOK
    <3>2. CASE SendEvict(r)
      BY <2>1, <2>3, <3>2 DEF SendEvict, Reqs, TypeOK
    <3>3. CASE Evicted(r)
      BY <2>1, <2>3, <3>3 DEF Evicted, Reqs, TypeOK
    <3>4. CASE EvictGiveUp(r) \/ Release(r)
      BY <2>1, <2>3, <3>4 DEF EvictGiveUp, Release, Reqs, TypeOK
    <3>5. CASE ChildExit(r)
      BY <2>1, <2>3, <3>5 DEF ChildExit, Reqs, TypeOK
    <3> QED
      BY <1>route, <3>1, <3>2, <3>3, <3>4, <3>5
  <2> QED
    BY <2>2, <2>3
<1>sam. ASSUME NEW s \in Sams, SamSend(s) \/ SamReturn(s) PROVE EvictionInv'
  <2>1. UNCHANGED <<reply, alive>> /\ (\A r \in Evictors : req'[r] = req[r])
    BY <1>sam DEF SamSend, SamReturn, TypeOK, workerVars, Reqs
  <2> QED
    BY <2>1
<1>other. CASE (Clients \/ Server \/ WorkerDies) /\ ~Routes
  BY <1>other, AliveFrame, RouteFrame
<1> QED
  BY <1>idle, <1>serve, <1>spawn, <1>driver, <1>route, <1>sam, <1>other
  DEF Next, Clients, Server, Routes

----------------------------------------------------------------------------
(* Theorems.                                                               *)

\* The inductive invariant holds at start-up ...
LEMMA IInvInit == Init => IInv
<1> SUFFICES ASSUME Init PROVE IInv
  OBVIOUS
<1>1. DriverInv /\ RecordInv /\ AnswerInv
  BY ServerAssumption DEF Init, DriverInv, RecordInv, AnswerInv, Owning, Reqs
<1>2. LeaseExclusive /\ AtMostOneRunning /\ EvictedMeansReaped /\ LeaseHolderNeverRefused
  BY ServerAssumption DEF Init, LeaseExclusive, AtMostOneRunning, EvictedMeansReaped,
     LeaseHolderNeverRefused, Owning, Working, Guarded, Reqs
<1> QED
  BY <1>1, <1>2, InitType DEF IInv

\* ... and every step of the server preserves it.
LEMMA IInvNext == IInv /\ [Next]_vars => IInv'
<1> SUFFICES ASSUME IInv, [Next]_vars PROVE IInv'
  OBVIOUS
<1>1. CASE Next
  <2>1. TypeOK'
    BY <1>1, DriverType, HandlerType DEF Next, IInv
  <2> QED
    BY <1>1, <2>1, LeaseStep, RecordStep, EvictionStep DEF IInv, EvictionInv
<1>2. CASE UNCHANGED vars
  BY <1>2 DEF IInv, TypeOK, DriverInv, RecordInv, AnswerInv, LeaseExclusive, AtMostOneRunning,
     EvictedMeansReaped, LeaseHolderNeverRefused, vars, bookVars, chanVars, driverVars,
     workerVars, reqVars
<1> QED
  BY <1>1, <1>2

\* The inductive invariant.
THEOREM Invariance == Spec => []IInv
BY IInvInit, IInvNext, PTL DEF Spec

\* Every reachable state is well typed.
THEOREM TypeCorrect == Spec => []TypeOK
<1>1. IInv => TypeOK
  BY DEF IInv
<1> QED
  BY <1>1, Invariance, PTL

\* gpu_lock: the driver and the subprocess routes never use the GPU at the same time.
THEOREM Exclusion == Spec => []LeaseExclusive
<1>1. IInv => LeaseExclusive
  BY DEF IInv
<1> QED
  BY <1>1, Invariance, PTL

\* run_worker_driver: only the job the driver drives is shown as running.
THEOREM OneRunning == Spec => []AtMostOneRunning
<1>1. IInv => AtMostOneRunning
  BY DEF IInv
<1> QED
  BY <1>1, Invariance, PTL

\* DriverCtl::EvictIdle: no image worker process exists while the subprocess of a request
\* that evicted it runs.
THEOREM Reaped == Spec => []EvictedMeansReaped
<1>1. IInv => EvictedMeansReaped
  BY DEF IInv
<1> QED
  BY <1>1, Invariance, PTL

\* drive_one_job never refuses a request that holds the lease.
THEOREM NeverRefused == Spec => []LeaseHolderNeverRefused
<1>1. IInv => LeaseHolderNeverRefused
  BY DEF IInv
<1> QED
  BY <1>1, Invariance, PTL

----------------------------------------------------------------------------
(* The refinement of JobLifecycle.                                         *)

\* What JobLifecycle sees of the server.
Seen == <<state, lease>>

\* The server starts where JobLifecycle starts: no job, no owner.
LEMMA LifecycleInit == Init => Lifecycle!Init
BY DEF Init, Lifecycle!Init

\* A step that leaves records and lease alone is a stutter of JobLifecycle, ...
LEMMA LifecycleEnds ==
  ASSUME IInv, NEW ev \in Terminal, Ends(ev)
  PROVE  Lifecycle!Next
<1>1. cur \in Jobs /\ state[cur] = "running" /\ lease = cur
  BY DEF IInv, Ends, DriverInv, AtMostOneRunning, Working, Owning
<1>2. Lifecycle!End(cur)
  BY <1>1 DEF Ends, Lifecycle!End, Lifecycle!Become, Lifecycle!Outcomes, Terminal
<1> QED
  BY <1>1, <1>2 DEF Lifecycle!Next

\* ... and the others are steps of it.
LEMMA LifecycleStep == IInv /\ [Next]_vars => [Lifecycle!Next]_(Lifecycle!vars)
<1> SUFFICES ASSUME IInv, [Next]_vars PROVE Lifecycle!Next \/ UNCHANGED Seen
  BY DEF Seen, Lifecycle!vars
<1> USE DEF Seen
<1>promote. ASSUME NEW j \in Jobs, Promote(j) PROVE Lifecycle!Next
  <2>1. Lifecycle!Start(j)
    BY <1>promote DEF Promote, Next1, Queued, Lifecycle!Start, Lifecycle!Become
  <2> QED
    BY <2>1 DEF Lifecycle!Next
<1>drop. CASE Drop
  <2>1. cur \in Jobs /\ lease = cur /\ state[cur] \in Terminal
    BY <1>drop DEF Drop, IInv, DriverInv, RecordInv, Owning, Working
  <2>2. Lifecycle!HandBack(cur)
    BY <1>drop, <2>1 DEF Drop, Lifecycle!HandBack, Lifecycle!Outcomes, Terminal, bookVars
  <2> QED
    BY <2>1, <2>2 DEF Lifecycle!Next
<1>frame. CASE /\ Driver /\ (\A j \in Jobs : ~Promote(j)) /\ ~Drop
               /\ ~(Lookup \/ DispatchReject \/ HandshakeFail \/ Start \/ DriveEnd)
  <2>1. UNCHANGED state
    BY <1>frame, RecordFrame DEF IInv, Driver
  <2> QED
    BY <1>frame, <2>1, DriverFrame
<1>ends. CASE Lookup \/ DispatchReject \/ HandshakeFail \/ Start \/ DriveEnd
  BY <1>ends, EndSteps, LifecycleEnds
<1>enq. ASSUME NEW j \in Jobs, EnqRegister(j) \/ EnqWake(j) PROVE UNCHANGED Seen
  BY <1>enq DEF EnqRegister, EnqWake
<1>push. ASSUME NEW j \in Jobs, EnqPush(j) PROVE Lifecycle!Next
  <2>1. state[j] = "none"
    BY <1>push DEF EnqPush, IInv, RecordInv
  <2>2. Lifecycle!Submit(j)
    BY <1>push, <2>1 DEF EnqPush, Lifecycle!Submit, Lifecycle!Become
  <2> QED
    BY <2>2 DEF Lifecycle!Next
<1>cancel. ASSUME NEW j \in Jobs, CancelPath(j) PROVE Lifecycle!Next \/ UNCHANGED Seen
  <2>1. CASE state[j] = "queued"
    <3>1. Lifecycle!Withdraw(j)
      BY <1>cancel, <2>1 DEF CancelPath, Lifecycle!Withdraw, Lifecycle!Become
    <3> QED
      BY <3>1 DEF Lifecycle!Next
  <2>2. CASE state[j] # "queued"
    BY <1>cancel, <2>2 DEF CancelPath
  <2> QED
    BY <2>1, <2>2
<1>remove. ASSUME NEW j \in Jobs, Remove(j) PROVE Lifecycle!Next
  <2>1. Lifecycle!Withdraw(j)
    BY <1>remove DEF Remove, Active, Queued, Lifecycle!Withdraw, Lifecycle!Become
  <2> QED
    BY <2>1 DEF Lifecycle!Next
<1>acquire. ASSUME NEW r \in Reqs, Acquire(r) PROVE Lifecycle!Next \/ UNCHANGED Seen
  <2>1. CASE lease = Free
    <3>1. Lifecycle!Borrow(r)
      BY <1>acquire, <2>1 DEF Acquire, Lifecycle!Borrow, bookVars
    <3> QED
      BY <3>1 DEF Lifecycle!Next
  <2>2. CASE lease # Free
    BY <1>acquire, <2>2 DEF Acquire, bookVars
  <2> QED
    BY <2>1, <2>2
<1>release. ASSUME NEW r \in Reqs, EvictGiveUp(r) \/ Release(r) PROVE Lifecycle!Next
  <2>1. lease = r
    BY <1>release DEF EvictGiveUp, Release, IInv, LeaseExclusive, Guarded
  <2>2. Lifecycle!Return(r)
    BY <1>release, <2>1 DEF EvictGiveUp, Release, Lifecycle!Return, bookVars
  <2> QED
    BY <2>2 DEF Lifecycle!Next
<1>route. ASSUME NEW r \in Reqs, SendEvict(r) \/ Evicted(r) \/ ChildExit(r) PROVE UNCHANGED Seen
  BY <1>route DEF SendEvict, Evicted, ChildExit, bookVars
<1>sam. ASSUME NEW s \in Sams, SamSend(s) \/ SamReturn(s) PROVE UNCHANGED Seen
  BY <1>sam DEF SamSend, SamReturn, bookVars
<1>other. CASE (Clients \/ Server \/ WorkerDies) /\ ~Routes /\ ~Writers
  BY <1>other, RouteFrame, WriterFrame
<1>stutter. CASE UNCHANGED vars
  BY <1>stutter DEF vars, bookVars
<1> QED
  BY <1>promote, <1>drop, <1>frame, <1>ends, <1>enq, <1>push, <1>cancel, <1>remove, <1>acquire,
     <1>release, <1>route, <1>sam, <1>other, <1>stutter
  DEF Next, Driver, Routes, Writers

\* The server, with its races, retries and evictions, implements the job lifecycle.
THEOREM Implements == Spec => ImplementsLifecycle
<1>1. Lifecycle!Spec <=> Lifecycle!Init /\ [][Lifecycle!Next]_(Lifecycle!vars)
  BY DEF Lifecycle!Spec
<1> QED
  BY <1>1, LifecycleInit, LifecycleStep, Invariance, PTL DEF Spec, ImplementsLifecycle

\* Steps of JobLifecycle go one way.
LEMMA Ordered ==
  ASSUME TypeOK, Lifecycle!Next
  PROVE  \A j \in Jobs :
           /\ state[j] \in Terminal \cup {"removed"} => state'[j] = state[j]
           /\ state'[j] \in {"none", "queued"} => state[j] \in {"none", "queued"}
<1> USE DEF Terminal, Lifecycle!Become, Lifecycle!Outcomes, TypeOK
<1>1. CASE \E j \in Jobs : Lifecycle!Submit(j) \/ Lifecycle!Withdraw(j)
  BY <1>1 DEF Lifecycle!Submit, Lifecycle!Withdraw
<1>2. CASE \E j \in Jobs : Lifecycle!Start(j) \/ Lifecycle!End(j)
  BY <1>2 DEF Lifecycle!Start, Lifecycle!End
<1>3. CASE \E j \in Jobs : Lifecycle!HandBack(j)
  BY <1>3 DEF Lifecycle!HandBack
<1>4. CASE \E r \in Reqs : Lifecycle!Borrow(r) \/ Lifecycle!Return(r)
  BY <1>4 DEF Lifecycle!Borrow, Lifecycle!Return
<1> QED
  BY <1>1, <1>2, <1>3, <1>4 DEF Lifecycle!Next

\* No second outcome replaces the first, and no progress frame revives an ended job:
\* JobLifecycle has no step that would.
THEOREM Final == Spec => OutcomeIsFinal
<1> DEFINE Keeps == \A j \in Jobs : state[j] \in Terminal \cup {"removed"} => state'[j] = state[j]
<1>1. IInv /\ [Next]_vars => [Keeps]_state
  BY LifecycleStep, Ordered DEF Lifecycle!vars, IInv
<1> QED
  BY <1>1, Invariance, PTL DEF Spec, OutcomeIsFinal

----------------------------------------------------------------------------
(* Accepted cancels.                                                       *)

\* A job whose cancel was accepted has left the queue.
CancelInv == \A j \in Jobs : j \in cancelReq => state[j] \notin {"none", "queued"}

\* CancelPath is the only step that accepts a cancel.
LEMMA CancelFrame ==
  ASSUME Next, \A j \in Jobs : ~CancelPath(j)
  PROVE  UNCHANGED cancelReq
<1>1. CASE Driver
  BY <1>1 DEF Driver, BootReady, BootFail, Promote, ScanWait, GpuWaitTimeout, ServeIdle, Lookup,
     Dispatch, DispatchReject, Spawn, HandshakeOk, HandshakeFail, Start, DriveServe,
     DriveProgress, DriveEnd, Publish, Settle, Persist, Reap, Drop, bookVars
<1>2. CASE Clients \/ Server \/ WorkerDies
  BY <1>2 DEF Clients, Server, WorkerDies, EnqRegister, InterruptRead, Remove, Reorder, Acquire,
     SamSend, EnqPush, EnqWake, CancelSend, CancelPublish, CancelSave, InterruptSend,
     EvictChannel, SendEvict, Evicted, EvictGiveUp, ChildExit, Release, SamReturn, bookVars
<1> QED
  BY <1>1, <1>2 DEF Next

\* A cancelled record never returns to the queue, so CancelInv is inductive with IInv.
LEMMA CancelStep == IInv /\ CancelInv /\ [Next]_vars => CancelInv'
<1> SUFFICES ASSUME IInv, CancelInv, [Next]_vars PROVE CancelInv'
  OBVIOUS
<1> USE DEF CancelInv, IInv, TypeOK
<1>1. ASSUME NEW j \in Jobs, CancelPath(j) PROVE CancelInv'
  BY <1>1 DEF CancelPath
<1>2. CASE Next /\ \A j \in Jobs : ~CancelPath(j)
  <2>1. cancelReq' = cancelReq
    BY <1>2, CancelFrame
  <2>2. \A j \in Jobs : state'[j] \in {"none", "queued"} => state[j] \in {"none", "queued"}
    BY <1>2, LifecycleStep, Ordered DEF Lifecycle!vars
  <2> QED
    BY <2>1, <2>2
<1>3. CASE UNCHANGED vars
  BY <1>3 DEF vars, bookVars
<1> QED
  BY <1>1, <1>2, <1>3

\* post_cancel_path: a job that was told "cancelled" while it waited is never started. A
\* job gets the lease only from the queue, which CancelInv keeps it out of.
THEOREM CancelledNeverStarts == Spec => AcceptedCancelNeverStarts
<1> DEFINE Refused == \A j \in Jobs : lease' = j /\ lease # j => j \notin cancelReq
<1>1. Init => CancelInv
  BY DEF Init, CancelInv
<1>2. Spec => []CancelInv
  BY <1>1, CancelStep, Invariance, PTL DEF Spec
<1>3. IInv /\ CancelInv /\ [Next]_vars => [Refused]_<<lease, cancelReq>>
  <2> SUFFICES ASSUME IInv, CancelInv, [Next]_vars, NEW j \in Jobs, lease' = j, lease # j
               PROVE  j \notin cancelReq
    OBVIOUS
  <2>1. Lifecycle!Next
    BY LifecycleStep DEF Lifecycle!vars
  <2>2. state[j] = "queued"
    BY <2>1, ServerAssumption DEF Lifecycle!Next, Lifecycle!Submit, Lifecycle!Withdraw,
       Lifecycle!Start, Lifecycle!End, Lifecycle!HandBack, Lifecycle!Borrow, Lifecycle!Return
  <2> QED
    BY <2>2 DEF CancelInv
<1> QED
  BY <1>2, <1>3, Invariance, PTL DEF Spec, AcceptedCancelNeverStarts

----------------------------------------------------------------------------
(* The worker of the driven job.                                           *)

\* The driver knows which worker it holds, and has taken over the wanted key before it
\* spawns or starts one.
WorkerInv ==
  /\ handle \in {NoKey, curKey}
  /\ pc \in {"spawn", "handshake", "start", "drive"} => curKey = KeyOf[cur]
  /\ pc \in {"handshake", "start", "drive"} => handle = curKey

\* No handler replaces the worker handle or its residency key.
LEMMA WorkerFrame == Clients \/ Server \/ WorkerDies => UNCHANGED <<handle, curKey>>
BY DEF Clients, Server, WorkerDies, EnqRegister, CancelPath, InterruptRead, Remove, Reorder,
       Acquire, SamSend, EnqPush, EnqWake, CancelSend, CancelPublish, CancelSave,
       InterruptSend, EvictChannel, SendEvict, Evicted, EvictGiveUp, ChildExit, Release,
       SamReturn, workerVars

\* Between Dispatch and the drive the handle, once there, has the key of the job.
LEMMA WorkerStep == IInv /\ WorkerInv /\ [Next]_vars => WorkerInv'
<1> SUFFICES ASSUME IInv, WorkerInv, [Next]_vars PROVE WorkerInv'
  OBVIOUS
<1> USE DEF WorkerInv, workerVars, Kill
<1>1. CASE BootReady \/ BootFail \/ (\E j \in Jobs : Promote(j)) \/ ScanWait \/ GpuWaitTimeout
  BY <1>1 DEF BootReady, BootFail, Promote, ScanWait, GpuWaitTimeout
<1>2. CASE ServeIdle \/ Lookup \/ DispatchReject
  BY <1>2 DEF ServeIdle, Lookup, DispatchReject, EndAs
<1>3. CASE Dispatch
  BY <1>3, ServerAssumption DEF Dispatch
<1>4. CASE Spawn \/ HandshakeOk \/ HandshakeFail
  BY <1>4 DEF Spawn, HandshakeOk, HandshakeFail, EndAs
<1>5. CASE Start \/ DriveServe \/ DriveProgress \/ DriveEnd
  BY <1>5 DEF Start, DriveServe, DriveProgress, DriveEnd, EndAs, driverVars
<1>6. CASE Publish \/ Settle \/ Persist \/ Reap \/ Drop
  BY <1>6 DEF Publish, Settle, Persist, Reap, Drop
<1>7. CASE Clients \/ Server \/ WorkerDies
  BY <1>7, WorkerFrame, HandlerFrame
<1>8. CASE UNCHANGED vars
  BY <1>8 DEF vars, driverVars
<1> QED
  BY <1>1, <1>2, <1>3, <1>4, <1>5, <1>6, <1>7, <1>8 DEF Next, Driver

\* A worker switch, a failed spawn or a stale eviction never lets the driver start a job
\* on a worker that was spawned for another key.
THEOREM OwnWorker == Spec => []DrivenByOwnWorker
<1>1. Init => WorkerInv
  BY DEF Init, WorkerInv
<1>2. WorkerInv => DrivenByOwnWorker
  BY DEF WorkerInv, DrivenByOwnWorker
<1> QED
  BY <1>1, <1>2, WorkerStep, Invariance, PTL DEF Spec

----------------------------------------------------------------------------
(* Channels: the registry and the eviction timers.                         *)

\* Only a job that has ended has an eviction timer, and one that is about to enter the
\* book has its channel.
ChannelInv ==
  /\ \A j \in Jobs : enq[j] = "registered" => j \in registry
  /\ \A j \in timers : state[j] \in Terminal
  /\ \A j \in Jobs : finish[j] = "publish" => state[j] = "cancelled"
  /\ LiveJobHasChannel

\* The handlers that touch a channel, its timer, or what a cancel has still to do.
ChannelSteps == \E j \in Jobs : EnqRegister(j) \/ EnqPush(j) \/ CancelPath(j) \/ CancelPublish(j)
                                 \/ EvictChannel(j)

\* The others, and the driver up to Settle, leave registry and timers alone.
LEMMA ChannelFrame ==
  ASSUME TypeOK, Next, ~ChannelSteps, ~Settle
  PROVE  /\ UNCHANGED <<registry, timers>>
         /\ \A j \in Jobs : enq'[j] = "registered" => enq[j] = "registered"
         /\ \A j \in Jobs : finish'[j] = "publish" => finish[j] = "publish"
<1> USE DEF bookVars, chanVars, EndAs, TypeOK
<1>1. CASE BootReady \/ BootFail \/ (\E j \in Jobs : Promote(j)) \/ ScanWait \/ GpuWaitTimeout \/ ServeIdle
  BY <1>1 DEF BootReady, BootFail, Promote, ScanWait, GpuWaitTimeout, ServeIdle
<1>2. CASE Lookup \/ Dispatch \/ DispatchReject \/ Spawn \/ HandshakeOk \/ HandshakeFail
  BY <1>2 DEF Lookup, Dispatch, DispatchReject, Spawn, HandshakeOk, HandshakeFail
<1>3. CASE Start \/ DriveServe \/ DriveProgress \/ DriveEnd
  BY <1>3 DEF Start, DriveServe, DriveProgress, DriveEnd
<1>4. CASE Publish \/ Persist \/ Reap \/ Drop
  BY <1>4 DEF Publish, Persist, Reap, Drop
<1>5. ASSUME NEW j \in Jobs, EnqWake(j) \/ CancelSend(j) \/ CancelSave(j)
      PROVE  /\ UNCHANGED <<registry, timers>>
             /\ \A x \in Jobs : enq'[x] = "registered" => enq[x] = "registered"
             /\ \A x \in Jobs : finish'[x] = "publish" => finish[x] = "publish"
  BY <1>5 DEF EnqWake, CancelSend, CancelSave
<1>6. CASE (Clients \/ Server \/ WorkerDies) /\ ~ChannelSteps
           /\ ~(\E j \in Jobs : EnqWake(j) \/ CancelSend(j) \/ CancelSave(j))
  BY <1>6 DEF ChannelSteps, Clients, Server, WorkerDies, InterruptRead, Remove, Reorder, Acquire,
     SamSend, InterruptSend, SendEvict, Evicted, EvictGiveUp, ChildExit, Release, SamReturn
<1> QED
  BY <1>1, <1>2, <1>3, <1>4, <1>5, <1>6 DEF Next, Driver

\* A record becomes "queued" by its push only, and "running" from the queue only.
LEMMA Arrivals ==
  ASSUME IInv, Next, \A j \in Jobs : ~EnqPush(j)
  PROVE  \A j \in Jobs : state'[j] \in {"queued", "running"} => state[j] \in {"queued", "running"}
<1> USE DEF IInv, TypeOK
<1>promote. ASSUME NEW j \in Jobs, Promote(j)
            PROVE  \A x \in Jobs : state'[x] \in {"queued", "running"} => state[x] \in {"queued", "running"}
  BY <1>promote DEF Promote, Next1, Queued
<1>frame. CASE UNCHANGED state
  BY <1>frame
<1>ends. ASSUME NEW ev \in Terminal, Ends(ev)
         PROVE  \A j \in Jobs : state'[j] \in {"queued", "running"} => state[j] \in {"queued", "running"}
  BY <1>ends DEF Ends, Terminal
<1>drop. CASE Drop
  BY <1>drop DEF Drop, bookVars
<1>writers. ASSUME NEW j \in Jobs, EnqRegister(j) \/ EnqWake(j) \/ CancelPath(j) \/ Remove(j)
            PROVE  \A x \in Jobs : state'[x] \in {"queued", "running"} => state[x] \in {"queued", "running"}
  BY <1>writers DEF EnqRegister, EnqWake, CancelPath, Remove
<1> QED
  BY <1>promote, <1>frame, <1>ends, <1>drop, <1>writers, RecordFrame, EndSteps, WriterFrame
  DEF Next, Driver, Writers

\* Records never leave a terminal state.
LEMMA TerminalStays ==
  ASSUME IInv, [Next]_vars
  PROVE  \A j \in Jobs : state[j] \in Terminal => state'[j] = state[j]
BY LifecycleStep, Ordered DEF IInv, Lifecycle!vars

\* An eviction takes the channel of an ended job only.
LEMMA ChannelStep == IInv /\ ChannelInv /\ [Next]_vars => ChannelInv'
<1> SUFFICES ASSUME IInv, ChannelInv, [Next]_vars PROVE ChannelInv'
  OBVIOUS
<1>stays. \A j \in Jobs : state[j] \in Terminal => state'[j] = state[j]
  BY TerminalStays
<1> USE DEF ChannelInv, LiveJobHasChannel, IInv, TypeOK, Terminal
<1>reg. ASSUME NEW j \in Jobs, EnqRegister(j) PROVE ChannelInv'
  BY <1>reg DEF EnqRegister
<1>push. ASSUME NEW j \in Jobs, EnqPush(j) PROVE ChannelInv'
  <2>1. state[j] = "none"
    BY <1>push DEF EnqPush, RecordInv
  <2> QED
    BY <1>push, <2>1 DEF EnqPush, chanVars
<1>cancel. ASSUME NEW j \in Jobs, CancelPath(j) PROVE ChannelInv'
  <2>1. CASE state[j] = "queued"
    <3>1. /\ state' = [state EXCEPT ![j] = "cancelled"] /\ finish' = [finish EXCEPT ![j] = "publish"]
          /\ UNCHANGED <<enq, registry, timers>>
      BY <1>cancel, <2>1 DEF CancelPath, chanVars
    <3> QED
      BY <2>1, <3>1
  <2>2. CASE state[j] # "queued"
    BY <1>cancel, <2>2 DEF CancelPath, chanVars
  <2> QED
    BY <2>1, <2>2
<1>tell. ASSUME NEW j \in Jobs, CancelPublish(j) PROVE ChannelInv'
  BY <1>tell DEF CancelPublish
<1>evict. ASSUME NEW j \in Jobs, EvictChannel(j) PROVE ChannelInv'
  <2>1. state[j] \in Terminal
    BY <1>evict DEF EvictChannel
  <2> QED
    BY <1>evict, <2>1 DEF EvictChannel, RecordInv, bookVars
<1>settle. CASE Settle
  <2>1. cur \in Jobs /\ state[cur] \in Terminal
    BY <1>settle DEF Settle, DriverInv, RecordInv, Owning, Working
  <2> QED
    BY <1>settle, <2>1 DEF Settle, bookVars
<1>other. CASE Next /\ ~ChannelSteps /\ ~Settle
  <2>1. \A j \in Jobs : state'[j] \in {"queued", "running"} => state[j] \in {"queued", "running"}
    BY <1>other, Arrivals DEF ChannelSteps
  <2> QED
    BY <1>other, <1>stays, <2>1, ChannelFrame
<1>stutter. CASE UNCHANGED vars
  BY <1>stutter DEF vars, bookVars, chanVars
<1> QED
  BY <1>reg, <1>push, <1>cancel, <1>tell, <1>evict, <1>settle, <1>other, <1>stutter DEF ChannelSteps

\* run_worker_driver and ws_progress find the channel of every job that is queued or
\* running, whatever timers fire.
THEOREM ChannelThere == Spec => []LiveJobHasChannel
<1>1. Init => ChannelInv
  BY DEF Init, ChannelInv, LiveJobHasChannel
<1>2. ChannelInv => LiveJobHasChannel
  BY DEF ChannelInv
<1> QED
  BY <1>1, <1>2, ChannelStep, Invariance, PTL DEF Spec

----------------------------------------------------------------------------
(* Histories: what subscribers see, against the records.                   *)

\* No terminal event was published yet.
Open(h) == \A i \in DOMAIN h : h[i] \notin Terminal

\* Whoever is about to publish an outcome (the driver, or a queued cancel) wrote it into
\* the record, is alone, and finds the history without one.
HistoryInv ==
  /\ TerminalEndsHistory /\ EventMatchesRecord
  /\ \A j \in Jobs : finish[j] = "publish" => state[j] = "cancelled" /\ Open(history[j])
  /\ pc = "publish" => /\ state[cur] = fin.ev /\ Open(history[cur])
                       /\ finish[cur] # "publish"

\* A job that has not ended has an open history.
LEMMA LiveIsOpen ==
  ASSUME HistoryInv, NEW j \in Jobs, state[j] \notin Terminal
  PROVE  Open(history[j])
BY DEF HistoryInv, EventMatchesRecord, Open

\* JobChannel.publish: a progress frame leaves an open history open, ...
LEMMA ProgressKeepsOpen ==
  ASSUME NEW h \in Seq({"progress"} \cup Terminal), Open(h)
  PROVE  Open(Published(h, "progress"))
BY DEF Open, Published, Terminal

\* ... and an outcome is its last and only terminal event.
LEMMA OutcomeEnds ==
  ASSUME NEW h \in Seq({"progress"} \cup Terminal), NEW ev \in Terminal, Open(h)
  PROVE  LET g == Published(h, ev)
         IN  \A i \in DOMAIN g : g[i] \in Terminal => i = Len(g) /\ g[i] = ev
<1>1. Published(h, ev) = Append(h, ev)
  BY DEF Published, Terminal
<1> QED
  BY <1>1 DEF Open

\* The steps that publish, or decide on an outcome to publish.
HistorySteps ==
  \/ Dispatch \/ Spawn \/ Start \/ DriveProgress \/ Publish
  \/ DispatchReject \/ HandshakeFail \/ DriveEnd
  \/ \E j \in Jobs : CancelPath(j) \/ CancelPublish(j)

\* All others leave the histories and the decided outcomes alone.
LEMMA HistoryFrame ==
  ASSUME TypeOK, Next, ~HistorySteps
  PROVE  /\ history' = history
         /\ pc' = "publish" => pc = "publish" /\ UNCHANGED <<cur, fin>>
         /\ \A j \in Jobs : finish'[j] = "publish" => finish[j] = "publish"
<1> USE DEF bookVars, chanVars, driverVars, TypeOK
<1>1. CASE BootReady \/ BootFail \/ (\E j \in Jobs : Promote(j)) \/ ScanWait \/ GpuWaitTimeout \/ ServeIdle
  BY <1>1 DEF BootReady, BootFail, Promote, ScanWait, GpuWaitTimeout, ServeIdle
<1>2. CASE Lookup \/ HandshakeOk \/ DriveServe
  BY <1>2 DEF Lookup, HandshakeOk, DriveServe
<1>3. CASE Settle \/ Persist \/ Reap \/ Drop
  BY <1>3 DEF Settle, Persist, Reap, Drop
<1>4. ASSUME NEW j \in Jobs, CancelSend(j) \/ CancelSave(j)
      PROVE  /\ UNCHANGED <<history, pc, cur, fin>>
             /\ \A x \in Jobs : finish'[x] = "publish" => finish[x] = "publish"
  BY <1>4 DEF CancelSend, CancelSave
<1>5. CASE (Clients \/ Server \/ WorkerDies) /\ ~HistorySteps
           /\ ~(\E j \in Jobs : CancelSend(j) \/ CancelSave(j))
  BY <1>5 DEF HistorySteps, Clients, Server, WorkerDies, EnqRegister, EnqPush, EnqWake,
     InterruptRead, Remove, Reorder, EvictChannel, Acquire, SamSend, InterruptSend, SendEvict,
     Evicted, EvictGiveUp, ChildExit, Release, SamReturn
<1> QED
  BY <1>1, <1>2, <1>3, <1>4, <1>5 DEF Next, Driver, HistorySteps

\* A progress frame of the running job.
LEMMA ProgressStep ==
  ASSUME IInv, HistoryInv, pc \in Working, PublishOn(cur, "progress")
  PROVE  \A j \in Jobs : /\ j # cur => history'[j] = history[j]
                         /\ j = cur => Open(history'[j])
<1>1. cur \in Jobs /\ state[cur] \notin Terminal
  BY DEF IInv, DriverInv, AtMostOneRunning, Working, Owning, Terminal
<1>2. Open(Published(history[cur], "progress"))
  BY <1>1, LiveIsOpen, ProgressKeepsOpen DEF IInv, TypeOK
<1> QED
  BY <1>1, <1>2 DEF PublishOn, IInv, TypeOK

\* Record first, event afterwards, by one publisher.
LEMMA HistoryStep == IInv /\ HistoryInv /\ [Next]_vars => HistoryInv'
<1> SUFFICES ASSUME IInv, HistoryInv, [Next]_vars PROVE HistoryInv'
  OBVIOUS
<1>stays. \A j \in Jobs : state[j] \in Terminal => state'[j] = state[j]
  BY TerminalStays
<1>types. TypeOK /\ TypeOK'
  BY IInvNext DEF IInv
<1>job. pc \in Working => cur \in Jobs /\ state[cur] = "running" /\ finish[cur] # "publish"
  BY DEF IInv, DriverInv, AtMostOneRunning, Working, Owning, HistoryInv
<1>seqs. \A j \in Jobs : history[j] \in Seq({"progress"} \cup Terminal)
  BY <1>types DEF TypeOK
<1>live. \A j \in Jobs : state[j] \notin Terminal => Open(history[j])
  BY LiveIsOpen
<1> USE DEF HistoryInv, TerminalEndsHistory, EventMatchesRecord
<1>quiet. CASE /\ pc \in Working /\ pc' # "publish" /\ UNCHANGED <<state, finish>>
               /\ PublishOn(cur, "progress")
  BY <1>quiet, <1>job, ProgressStep DEF Open
<1>ends. ASSUME NEW ev \in Terminal, pc \in Working, pc' = "publish",
                state' = [state EXCEPT ![cur] = ev], fin'.ev = ev, UNCHANGED <<cur, finish>>,
                history' = history \/ PublishOn(cur, "progress")
         PROVE  HistoryInv'
  <2>1. \A j \in Jobs : /\ j # cur => history'[j] = history[j] /\ state'[j] = state[j]
                        /\ j = cur => Open(history'[j]) /\ state'[j] = ev /\ finish[j] # "publish"
    <3>1. \A j \in Jobs : j # cur => state'[j] = state[j]
      BY <1>ends, <1>types DEF TypeOK
    <3>2. state'[cur] = ev /\ Open(history[cur])
      <4>1. cur \in Jobs /\ state[cur] \notin Terminal
        BY <1>ends, <1>job DEF Terminal
      <4>2. state'[cur] = ev
        BY <1>ends, <1>types, <4>1 DEF TypeOK
      <4> QED
        BY <1>live, <4>1, <4>2
    <3>3. CASE history' = history
      BY <1>job, <1>ends, <3>1, <3>2, <3>3
    <3>4. CASE PublishOn(cur, "progress")
      BY <1>job, <1>ends, <3>1, <3>2, <3>4, ProgressStep
    <3> QED
      BY <1>ends, <3>3, <3>4
  <2> QED
    BY <1>ends, <1>job, <2>1 DEF Open
<1>dispatch. CASE Dispatch
  <2>1. CASE KeyOf[cur] = curKey
    BY <1>dispatch, <2>1 DEF Dispatch, bookVars
  <2>2. CASE KeyOf[cur] # curKey
    BY <1>dispatch, <1>quiet, <2>2 DEF Dispatch, Working, bookVars
  <2> QED
    BY <2>1, <2>2
<1>spawn. CASE Spawn \/ DriveProgress
  <2>1. UNCHANGED <<state, finish>>
    BY <1>spawn, <1>job, <1>types DEF Spawn, DriveProgress, Working, TypeOK, bookVars
  <2> QED
    BY <1>spawn, <1>quiet, <2>1 DEF Spawn, DriveProgress, Working, driverVars
<1>start. CASE Start
  <2>1. CASE alive
    BY <1>start, <1>quiet, <2>1 DEF Start, Working
  <2>2. CASE ~alive
    BY <1>start, <1>ends, <2>2 DEF Start, EndAs, Working, Terminal
  <2> QED
    BY <2>1, <2>2
<1>end. CASE DispatchReject \/ HandshakeFail \/ DriveEnd
  <2>1. \E ev \in Terminal : state' = [state EXCEPT ![cur] = ev] /\ fin'.ev = ev /\ pc' = "publish"
    BY <1>end DEF DispatchReject, HandshakeFail, DriveEnd, EndAs, Terminal
  <2>2. pc \in Working /\ UNCHANGED <<cur, finish, history>>
    BY <1>end DEF DispatchReject, HandshakeFail, DriveEnd, Working, chanVars
  <2> QED
    BY <1>ends, <2>1, <2>2
<1>publish. CASE Publish
  <2>1. cur \in Jobs /\ fin.ev \in Terminal
    BY <1>publish, <1>types DEF Publish, IInv, DriverInv, Owning, TypeOK, Outcomes
  <2>2. \A i \in DOMAIN history'[cur] :
           history'[cur][i] \in Terminal => i = Len(history'[cur]) /\ history'[cur][i] = fin.ev
    <3>1. history'[cur] = Published(history[cur], fin.ev) /\ Open(history[cur])
      BY <1>publish, <1>types, <2>1 DEF Publish, PublishOn, TypeOK
    <3> QED
      BY <1>seqs, <2>1, <3>1, OutcomeEnds
  <2>3. \A j \in Jobs \ {cur} : history'[j] = history[j]
    BY <1>publish, <1>types DEF Publish, PublishOn, TypeOK
  <2>4. UNCHANGED <<state, finish>> /\ pc' # "publish" /\ state[cur] = fin.ev /\ finish[cur] # "publish"
    BY <1>publish DEF Publish, bookVars
  <2> QED
    BY <2>1, <2>2, <2>3, <2>4
<1>cancel. ASSUME NEW j \in Jobs, CancelPath(j) PROVE HistoryInv'
  <2>1. CASE state[j] = "queued"
    <3>1. Open(history[j]) /\ ~(pc = "publish" /\ cur = j)
      BY <2>1, <1>live, <1>types DEF Terminal, TypeOK, Outcomes
    <3>2. /\ state' = [state EXCEPT ![j] = "cancelled"] /\ finish' = [finish EXCEPT ![j] = "publish"]
          /\ UNCHANGED <<history, pc, cur, fin>>
      BY <1>cancel, <2>1 DEF CancelPath, chanVars, driverVars
    <3>3. /\ state'[j] = "cancelled" /\ finish'[j] = "publish"
          /\ \A x \in Jobs \ {j} : state'[x] = state[x] /\ finish'[x] = finish[x]
      BY <1>types, <3>2 DEF TypeOK
    <3>4. pc = "publish" => cur \in Jobs
      BY DEF IInv, DriverInv, Owning
    <3> QED
      BY <3>1, <3>2, <3>3, <3>4 DEF Open
  <2>2. CASE state[j] # "queued"
    <3>1. finish' = [finish EXCEPT ![j] = "send"] /\ UNCHANGED <<state, history, pc, cur, fin>>
      BY <1>cancel, <2>2 DEF CancelPath, chanVars, driverVars
    <3>2. \A x \in Jobs : finish'[x] = "publish" => finish[x] = "publish"
      BY <1>types, <3>1 DEF TypeOK
    <3>3. pc = "publish" => cur \in Jobs
      BY DEF IInv, DriverInv, Owning
    <3> QED
      BY <3>1, <3>2, <3>3
  <2> QED
    BY <2>1, <2>2
<1>tell. ASSUME NEW j \in Jobs, CancelPublish(j) PROVE HistoryInv'
  <2>1. state[j] = "cancelled" /\ Open(history[j]) /\ ~(pc = "publish" /\ cur = j)
    BY <1>tell DEF CancelPublish
  <2>2. \A i \in DOMAIN history'[j] :
           history'[j][i] \in Terminal => i = Len(history'[j]) /\ history'[j][i] = "cancelled"
    <3>1. CASE j \in registry
      <4>1. history'[j] = Published(history[j], "cancelled")
        BY <1>tell, <1>types, <3>1 DEF CancelPublish, PublishOn, TypeOK
      <4> QED
        BY <1>seqs, <2>1, <4>1, OutcomeEnds DEF Terminal
    <3>2. CASE j \notin registry
      BY <1>tell, <2>1, <3>2 DEF CancelPublish, Open
    <3> QED
      BY <3>1, <3>2
  <2>3. \A x \in Jobs \ {j} : history'[x] = history[x] /\ finish'[x] = finish[x]
    <3>1. finish' = [finish EXCEPT ![j] = "save"]
      BY <1>tell DEF CancelPublish
    <3>2. history' = history \/ history' = [history EXCEPT ![j] = Published(@, "cancelled")]
      BY <1>tell DEF CancelPublish, PublishOn
    <3>3. \A x \in Jobs \ {j} : finish'[x] = finish[x]
      BY <1>types, <3>1 DEF TypeOK
    <3>4. \A x \in Jobs \ {j} : history'[x] = history[x]
      BY <1>types, <3>2 DEF TypeOK
    <3> QED
      BY <3>3, <3>4
  <2>4. UNCHANGED <<state, pc, cur, fin>> /\ finish'[j] = "save"
    <3>1. UNCHANGED <<state, pc, cur, fin>> /\ finish' = [finish EXCEPT ![j] = "save"]
      BY <1>tell DEF CancelPublish, driverVars
    <3> QED
      BY <1>types, <3>1 DEF TypeOK
  <2>5. pc = "publish" => cur \in Jobs
    BY DEF IInv, DriverInv, Owning
  <2> QED
    BY <2>1, <2>2, <2>3, <2>4, <2>5
<1>other. CASE Next /\ ~HistorySteps
  <2>1. /\ history' = history /\ (pc' = "publish" => pc = "publish" /\ UNCHANGED <<cur, fin>>)
        /\ \A j \in Jobs : finish'[j] = "publish" => finish[j] = "publish"
    BY <1>other, <1>types, HistoryFrame
  <2>2. pc = "publish" => cur \in Jobs /\ fin.ev \in Terminal
    BY <1>types DEF IInv, DriverInv, Owning, TypeOK, Outcomes
  <2> QED
    BY <1>stays, <2>1, <2>2 DEF Terminal
<1>stutter. CASE UNCHANGED vars
  BY <1>stutter DEF vars, bookVars, chanVars, driverVars
<1> QED
  BY <1>dispatch, <1>spawn, <1>start, <1>end, <1>publish, <1>cancel, <1>tell, <1>other,
     <1>stutter DEF HistorySteps

\* The histories are right at every moment, from every start.
LEMMA HistoryInvariance == Spec => []HistoryInv
<1>1. Init => HistoryInv
  BY DEF Init, HistoryInv, TerminalEndsHistory, EventMatchesRecord
<1> QED
  BY <1>1, HistoryStep, Invariance, PTL DEF Spec

\* JobChannel: a subscriber that stops at the terminal event has missed nothing, and a
\* queued cancel never publishes beside the driver.
THEOREM OneLastEvent == Spec => []TerminalEndsHistory
<1>1. HistoryInv => TerminalEndsHistory
  BY DEF HistoryInv
<1> QED
  BY <1>1, HistoryInvariance, PTL

\* GET /v1/job after the terminal event agrees with it, for ever.
THEOREM EventsAgree == Spec => []EventMatchesRecord
<1>1. HistoryInv => EventMatchesRecord
  BY DEF HistoryInv
<1> QED
  BY <1>1, HistoryInvariance, PTL

----------------------------------------------------------------------------
(* jobs.db.                                                                *)

\* Only two steps write jobs.db, both from the records under the book lock.
\* A save that fails leaves the older rows or none.
LEMMA TableFrame ==
  ASSUME Next
  PROVE  \/ db' = db /\ saved' = saved
         \/ SaveJobs /\ state' = state
<1>1. CASE Persist
  BY <1>1 DEF Persist, bookVars
<1>2. CASE \E j \in Jobs : CancelSave(j)
  BY <1>2 DEF CancelSave
<1>3. ASSUME BootReady \/ BootFail \/ (\E j \in Jobs : Promote(j)) \/ ScanWait \/ GpuWaitTimeout \/ ServeIdle
      PROVE  db' = db /\ saved' = saved
  BY <1>3 DEF BootReady, BootFail, Promote, ScanWait, GpuWaitTimeout, ServeIdle
<1>4. ASSUME Lookup \/ Dispatch \/ DispatchReject \/ Spawn \/ HandshakeOk \/ HandshakeFail \/ Start
      PROVE  db' = db /\ saved' = saved
  BY <1>4 DEF Lookup, Dispatch, DispatchReject, Spawn, HandshakeOk, HandshakeFail, Start
<1>5. ASSUME DriveServe \/ DriveProgress \/ DriveEnd \/ Publish \/ Settle \/ Reap \/ Drop
      PROVE  db' = db /\ saved' = saved
  BY <1>5 DEF DriveServe, DriveProgress, DriveEnd, Publish, Settle, Reap, Drop
<1>6. ASSUME (Clients \/ Server \/ WorkerDies) /\ ~(\E j \in Jobs : CancelSave(j))
      PROVE  db' = db /\ saved' = saved
  BY <1>6 DEF Clients, Server, WorkerDies, EnqRegister, CancelPath, InterruptRead, Remove, Reorder,
     Acquire, SamSend, EnqPush, EnqWake, CancelSend, CancelPublish, InterruptSend,
     EvictChannel, SendEvict, Evicted, EvictGiveUp, ChildExit, Release, SamReturn
<1> QED
  BY <1>1, <1>2, <1>3, <1>4, <1>5, <1>6 DEF Next, Driver

\* A terminal row is the outcome of the record.
PersistedTruth ==
  \A j \in Jobs : db[j] \in Terminal => state[j] = db[j]

\* save_jobs_db: whichever thread saves, however late, and whether or not the save before it
\* failed, a terminal row is the outcome of the record, which does not change any more.
THEOREM TableTrue == Spec => []PersistedTruth
<1>1. Init => PersistedTruth
  BY DEF Init, PersistedTruth, NoRows, Terminal
<1>2. IInv /\ PersistedTruth /\ [Next]_vars => PersistedTruth'
  <2> SUFFICES ASSUME IInv, PersistedTruth, [Next]_vars, NEW j \in Jobs, db'[j] \in Terminal
               PROVE  state'[j] = db'[j]
    BY DEF PersistedTruth
  <2>1. state[j] \in Terminal => state'[j] = state[j]
    BY TerminalStays
  <2>2. CASE db' = db
    BY <2>1, <2>2 DEF PersistedTruth
  <2>3. CASE SaveJobs /\ state' = state
    BY <2>2, <2>3 DEF SaveJobs, Saved, NoRows, Terminal
  <2> QED
    BY <2>2, <2>3, TableFrame DEF vars
<1> QED
  BY <1>1, <1>2, Invariance, PTL DEF Spec

----------------------------------------------------------------------------
(* Cancels reach the job they were meant for.                              *)

Asked(j) == j \in cancelReq \/ pressed[j] = "sent"

\* Wherever a cancel is on its way (a handler, the channel, the driver's memory), its job
\* was asked to stop.
AskInv ==
  /\ \A j \in Jobs : finish[j] = "send" => j \in cancelReq
  /\ \A i \in DOMAIN ctl : ctl[i].op = "cancel" => ctl[i].who \in Jobs /\ Asked(ctl[i].who)
  /\ forwarded => pc \in Owning /\ Asked(cur)
  /\ OnlyAskedJobsAreCancelled

\* Asking is for ever.
LEMMA AskedStays ==
  ASSUME TypeOK, Next
  PROVE  \A j \in Jobs : Asked(j) => Asked(j)'
<1> USE DEF Asked, TypeOK, bookVars
<1>1. ASSUME NEW j \in Jobs, CancelPath(j) PROVE \A x \in Jobs : Asked(x) => Asked(x)'
  BY <1>1 DEF CancelPath
<1>2. ASSUME NEW j \in Jobs, InterruptRead(j) \/ InterruptSend(j)
      PROVE  \A x \in Jobs : Asked(x) => Asked(x)'
  BY <1>2 DEF InterruptRead, InterruptSend
<1>3. CASE Driver
  BY <1>3 DEF Driver, BootReady, BootFail, Promote, ScanWait, GpuWaitTimeout, ServeIdle, Lookup,
     Dispatch, DispatchReject, Spawn, HandshakeOk, HandshakeFail, Start, DriveServe,
     DriveProgress, DriveEnd, Publish, Settle, Persist, Reap, Drop
<1>4. CASE /\ Clients \/ Server \/ WorkerDies
           /\ ~(\E j \in Jobs : CancelPath(j) \/ InterruptRead(j) \/ InterruptSend(j))
  BY <1>4 DEF Clients, Server, WorkerDies, EnqRegister, Remove, Reorder, Acquire, SamSend, EnqPush,
     EnqWake, CancelSend, CancelPublish, CancelSave, EvictChannel, SendEvict, Evicted,
     EvictGiveUp, ChildExit, Release, SamReturn
<1> QED
  BY <1>1, <1>2, <1>3, <1>4 DEF Next

\* The channel receives messages that are no cancel, a cancel that was asked for, or loses
\* its first one.
LEMMA Messages ==
  ASSUME TypeOK, AskInv, Next
  PROVE  \A i \in DOMAIN ctl' : ctl'[i].op = "cancel" =>
           /\ ctl'[i].who \in Jobs
           /\ ctl'[i].who \in cancelReq' \/ pressed'[ctl'[i].who] = "sent"
<1> DEFINE Later(j) == j \in cancelReq' \/ pressed'[j] = "sent"
           Good(q)  == \A i \in DOMAIN q : q[i].op = "cancel" => q[i].who \in Jobs /\ Later(q[i].who)
<1>later. \A j \in Jobs : Asked(j) => Later(j)
  BY AskedStays DEF Asked
<1>1. Good(ctl)
  BY <1>later DEF AskInv
<1>2. ASSUME NEW m \in Msgs, ctl' = Append(ctl, m), m.op = "cancel" => m.who \in Jobs /\ Later(m.who)
      PROVE  Good(ctl')
  <2>1. /\ Len(ctl') = Len(ctl) + 1 /\ DOMAIN ctl' = 1 .. Len(ctl) + 1
        /\ \A i \in 1 .. Len(ctl) : ctl'[i] = ctl[i]
        /\ ctl'[Len(ctl) + 1] = m
    BY <1>2 DEF TypeOK
  <2>2. \A i \in DOMAIN ctl' : i \in DOMAIN ctl \/ i = Len(ctl) + 1
    BY <2>1 DEF TypeOK
  <2> QED
    BY <1>1, <1>2, <2>1, <2>2 DEF TypeOK
<1>3. CASE ServeIdle \/ DriveServe
  <2>1. ctl # <<>> /\ ctl' = Tail(ctl)
    BY <1>3 DEF ServeIdle, DriveServe
  <2>2. \A i \in DOMAIN ctl' : i + 1 \in DOMAIN ctl /\ ctl'[i] = ctl[i + 1]
    BY <2>1 DEF TypeOK
  <2> QED
    BY <1>1, <2>2
<1>4. ASSUME NEW j \in Jobs, CancelSend(j) \/ InterruptSend(j) PROVE Good(ctl')
  <2>1. ctl' = Append(ctl, Msg("cancel", j)) /\ Later(j)
    BY <1>4 DEF CancelSend, InterruptSend, Asked, AskInv, TypeOK
  <2> QED
    BY <1>2, <2>1, MsgType DEF Msg
<1>5. ASSUME NEW j \in Jobs, EnqWake(j) PROVE Good(ctl')
  BY <1>2, <1>5, MsgType DEF EnqWake, Msg
<1>6. ASSUME NEW r \in Reqs, SendEvict(r) PROVE Good(ctl')
  BY <1>2, <1>6, MsgType DEF SendEvict, Msg
<1>7. ASSUME NEW s \in Sams, SamSend(s) PROVE Good(ctl')
  BY <1>2, <1>7, MsgType DEF SamSend, Msg
<1>8. CASE Driver /\ ~ServeIdle /\ ~DriveServe
  <2>1. ctl' = ctl
    BY <1>8 DEF Driver, BootReady, BootFail, Promote, ScanWait, GpuWaitTimeout, Lookup,
       Dispatch, DispatchReject, Spawn, HandshakeOk, HandshakeFail, Start,
       DriveProgress, DriveEnd, Publish, Settle, Persist, Reap, Drop
  <2> QED
    BY <1>1, <2>1
<1>9. CASE /\ Clients \/ Server \/ WorkerDies
           /\ ~(\E j \in Jobs : EnqWake(j) \/ CancelSend(j) \/ InterruptSend(j))
           /\ ~(\E r \in Reqs : SendEvict(r)) /\ ~(\E s \in Sams : SamSend(s))
  <2>1. ctl' = ctl
    BY <1>9 DEF Clients, Server, WorkerDies, EnqRegister, CancelPath, InterruptRead, Remove, Reorder,
       Acquire, EnqPush, CancelPublish, CancelSave, EvictChannel, Evicted, EvictGiveUp,
       ChildExit, Release, SamReturn
  <2> QED
    BY <1>1, <2>1
<1> QED
  BY <1>3, <1>4, <1>5, <1>6, <1>7, <1>8, <1>9 DEF Next

\* The handlers with a part in a cancel.
CancelSteps == \E j \in Jobs : CancelPath(j) \/ CancelSend(j) \/ CancelPublish(j) \/ CancelSave(j)

\* Nobody else decides to send a cancel, remembers one, or ends a job as cancelled.
LEMMA ForwardFrame ==
  ASSUME IInv, Next, ~CancelSteps, ~DriveServe, ~DriveEnd, ~Drop
  PROVE  /\ finish' = finish
         /\ forwarded' = forwarded
         /\ \A j \in Jobs : state'[j] = "cancelled" => state[j] = "cancelled"
<1> USE DEF IInv, TypeOK, bookVars, driverVars, EndAs
<1>1. CASE BootReady \/ BootFail \/ ScanWait \/ GpuWaitTimeout \/ ServeIdle
  BY <1>1 DEF BootReady, BootFail, ScanWait, GpuWaitTimeout, ServeIdle
<1>2. ASSUME NEW j \in Jobs, Promote(j) \/ Remove(j) \/ EnqPush(j)
      PROVE  /\ finish' = finish /\ forwarded' = forwarded
             /\ \A x \in Jobs : state'[x] = "cancelled" => state[x] = "cancelled"
  BY <1>2 DEF Promote, Remove, EnqPush
<1>3. CASE Lookup \/ Dispatch \/ DispatchReject \/ Spawn \/ HandshakeOk \/ HandshakeFail
  BY <1>3 DEF Lookup, Dispatch, DispatchReject, Spawn, HandshakeOk, HandshakeFail
<1>4. CASE Start \/ DriveProgress
  BY <1>4 DEF Start, DriveProgress
<1>5. CASE Publish \/ Settle \/ Persist \/ Reap
  BY <1>5 DEF Publish, Settle, Persist, Reap
<1>6. CASE /\ Clients \/ Server \/ WorkerDies
           /\ ~CancelSteps /\ ~(\E j \in Jobs : Remove(j) \/ EnqPush(j))
  BY <1>6 DEF CancelSteps, Clients, Server, WorkerDies, EnqRegister, EnqWake, InterruptRead, Reorder,
     Acquire, SamSend, InterruptSend, EvictChannel, SendEvict, Evicted, EvictGiveUp, ChildExit,
     Release, SamReturn
<1> QED
  BY <1>1, <1>2, <1>3, <1>4, <1>5, <1>6 DEF Next, Driver

\* A stale cancel in the channel or in in_flight stops no other job.
LEMMA AskStep == IInv /\ AskInv /\ [Next]_vars => AskInv'
<1> SUFFICES ASSUME IInv, AskInv, [Next]_vars PROVE AskInv'
  OBVIOUS
<1>types. TypeOK /\ TypeOK'
  BY IInvNext DEF IInv
<1>stutter. CASE UNCHANGED vars
  BY <1>stutter DEF vars, bookVars, driverVars, AskInv, Asked, OnlyAskedJobsAreCancelled
<1>next. CASE Next
  <2>ctl. \A i \in DOMAIN ctl' : ctl'[i].op = "cancel" =>
            /\ ctl'[i].who \in Jobs
            /\ ctl'[i].who \in cancelReq' \/ pressed'[ctl'[i].who] = "sent"
    BY <1>next, <1>types, Messages
  <2>asked. \A j \in Jobs : Asked(j) => Asked(j)'
    BY <1>next, <1>types, AskedStays
  <2>old. /\ \A j \in Jobs : finish[j] = "send" => Asked(j) /\ j \in cancelReq
          /\ \A j \in Jobs : state[j] = "cancelled" => Asked(j)
          /\ forwarded => pc \in Owning /\ cur \in Jobs /\ Asked(cur)
    BY DEF AskInv, Asked, OnlyAskedJobsAreCancelled, IInv, DriverInv
  <2>send. \A j \in Jobs : finish'[j] = "send" => j \in cancelReq'
    <3>1. CASE \E j \in Jobs : CancelPath(j)
      BY <3>1, <1>types, <2>old DEF CancelPath, TypeOK
    <3>2. CASE \A j \in Jobs : ~CancelPath(j)
      <4>1. cancelReq' = cancelReq
        BY <1>next, <3>2, CancelFrame
      <4>2. \A j \in Jobs : finish'[j] = "send" => finish[j] = "send"
        <5>1. ASSUME NEW j \in Jobs, CancelSend(j) \/ CancelPublish(j) \/ CancelSave(j)
              PROVE  \A x \in Jobs : finish'[x] = "send" => finish[x] = "send"
          <6>1. CASE CancelSend(j)
            BY <6>1, <1>types DEF CancelSend, TypeOK
          <6>2. CASE CancelPublish(j)
            BY <6>2, <1>types DEF CancelPublish, TypeOK
          <6>3. CASE CancelSave(j)
            BY <6>3, <1>types DEF CancelSave, TypeOK
          <6> QED
            BY <5>1, <6>1, <6>2, <6>3
        <5>2. CASE DriveServe \/ DriveEnd \/ Drop
          BY <5>2 DEF DriveServe, DriveEnd, Drop, bookVars
        <5>3. CASE ~CancelSteps /\ ~DriveServe /\ ~DriveEnd /\ ~Drop
          BY <1>next, <5>3, ForwardFrame
        <5> QED
          BY <3>2, <5>1, <5>2, <5>3 DEF CancelSteps
      <4> QED
        BY <2>old, <4>1, <4>2
    <3> QED
      BY <3>1, <3>2
  <2>forward. forwarded' => pc' \in Owning /\ Asked(cur)'
    <3>1. CASE Drop
      BY <3>1 DEF Drop
    <3>2. CASE DriveServe
      <4>1. cur \in Jobs /\ pc' \in Owning /\ cur' = cur
        BY <3>2 DEF DriveServe, IInv, DriverInv, Owning
      <4>2. forwarded' => forwarded \/ (Head(ctl).op = "cancel" /\ Head(ctl).who = cur)
        BY <3>2, <1>types, Zenon DEF DriveServe, TypeOK
      <4>3. Head(ctl).op = "cancel" => Asked(Head(ctl).who)
        <5>1. 1 \in DOMAIN ctl /\ Head(ctl) = ctl[1]
          BY <3>2, <1>types DEF DriveServe, TypeOK
        <5> QED
          BY <5>1 DEF AskInv
      <4> QED
        BY <2>asked, <2>old, <4>1, <4>2, <4>3 DEF Asked
    <3>3. CASE DriveEnd
      BY <3>3, <2>asked, <2>old DEF DriveEnd, EndAs, Owning, Asked
    <3>4. CASE \E j \in Jobs : Promote(j)
      BY <3>4, <2>old DEF Promote, Owning
    <3>5. CASE Driver /\ ~DriveServe /\ ~DriveEnd /\ ~Drop /\ ~(\E j \in Jobs : Promote(j))
      <4>1. forwarded' = forwarded
        BY <1>next, <3>5 DEF Driver, BootReady, BootFail, ScanWait, GpuWaitTimeout, ServeIdle, Lookup,
           Dispatch, DispatchReject, Spawn, HandshakeOk, HandshakeFail, Start, EndAs,
           DriveProgress, Publish, Settle, Persist, Reap, driverVars
      <4>2. cur' = cur /\ (pc' \in Owning <=> pc \in Owning)
        BY <3>5, DriverFrame
      <4> QED
        BY <2>asked, <2>old, <4>1, <4>2 DEF Asked
    <3>6. CASE Clients \/ Server \/ WorkerDies
      <4>1. forwarded' = forwarded
        BY <3>6 DEF Clients, Server, WorkerDies, EnqRegister, CancelPath, InterruptRead, Remove,
           Reorder, Acquire, SamSend, EnqPush, EnqWake, CancelSend, CancelPublish, CancelSave,
           InterruptSend, EvictChannel, SendEvict, Evicted, EvictGiveUp, ChildExit, Release,
           SamReturn, driverVars
      <4> QED
        BY <3>6, <2>asked, <2>old, <4>1, HandlerFrame DEF Asked
    <3> QED
      BY <1>next, <3>1, <3>2, <3>3, <3>4, <3>5, <3>6 DEF Next
  <2>cancelled. \A j \in Jobs : state'[j] = "cancelled" => Asked(j)'
    <3>1. ASSUME NEW j \in Jobs, CancelPath(j), NEW x \in Jobs, state'[x] = "cancelled" PROVE Asked(x)'
      <4>1. CASE x = j
        <5>1. j \in cancelReq'
          BY <3>1 DEF CancelPath
        <5> QED
          BY <4>1, <5>1 DEF Asked
      <4>2. CASE x # j
        <5>1. state'[x] = state[x]
          <6>1. state' = [state EXCEPT ![j] = "cancelled"] \/ state' = state
            BY <3>1 DEF CancelPath
          <6>2. state \in [Jobs -> States]
            BY <1>types DEF TypeOK
          <6> QED
            BY <4>2, <6>1, <6>2
        <5> QED
          BY <3>1, <5>1, <2>asked, <2>old
      <4> QED
        BY <4>1, <4>2
    <3>2. CASE DriveEnd
      <4>1. UNCHANGED <<cancelReq, pressed>>
        BY <3>2 DEF DriveEnd
      <4>2. \A x \in Jobs : state'[x] = "cancelled" => state[x] = "cancelled" \/ (x = cur /\ forwarded)
        BY <3>2, <1>types DEF DriveEnd, EndAs, TypeOK
      <4> QED
        BY <2>asked, <2>old, <4>2
    <3>3. CASE DriveServe \/ Drop
      BY <3>3, <2>asked, <2>old DEF DriveServe, Drop, bookVars
    <3>4. ASSUME NEW j \in Jobs, CancelSend(j) \/ CancelPublish(j) \/ CancelSave(j)
          PROVE  \A x \in Jobs : state'[x] = "cancelled" => Asked(x)'
      BY <3>4, <2>asked, <2>old DEF CancelSend, CancelPublish, CancelSave
    <3>5. CASE ~CancelSteps /\ ~DriveServe /\ ~DriveEnd /\ ~Drop
      BY <1>next, <3>5, <2>asked, <2>old, ForwardFrame
    <3> QED
      BY <3>1, <3>2, <3>3, <3>4, <3>5 DEF CancelSteps
  <2> QED
    BY <2>ctl, <2>send, <2>forward, <2>cancelled DEF AskInv, OnlyAskedJobsAreCancelled, Asked
<1> QED
  BY <1>next, <1>stutter

\* /v1/cancel, /interrupt and the driver: no job ends as cancelled that nobody cancelled.
THEOREM CancelsHitTheirJob == Spec => []OnlyAskedJobsAreCancelled
<1>1. Init => AskInv
  BY DEF Init, AskInv, OnlyAskedJobsAreCancelled
<1>2. AskInv => OnlyAskedJobsAreCancelled
  BY DEF AskInv
<1> QED
  BY <1>1, <1>2, AskStep, Invariance, PTL DEF Spec

----------------------------------------------------------------------------
(* Nothing that is sent to the driver gets lost: the safety halves of      *)
(* EveryJobEnds and of the answers to evictions.                           *)

InChannel(m) == \E i \in DOMAIN ctl : ctl[i] = m

\* A driver that would block in recv has nothing queued it was not, or will not be, woken for.
WakeupsArrive ==
  pc = "idle" /\ ctl = <<>> => \A j \in Queued : enq[j] = "pushed"

\* The accepted cancel of a job that still runs is in its handler, in the channel, or with
\* the worker.
CancelsArrive ==
  \A j \in Jobs : state[j] = "running" /\ j \in cancelReq
                    => finish[j] = "send" \/ InChannel(Msg("cancel", j)) \/ forwarded

\* A request that waits without an answer has its message in the channel.
RequestsArrive ==
  /\ \A r \in Evictors : req[r] = "waiting" /\ reply[r] = "none" => InChannel(Msg("evict", r))
  /\ \A s \in Sams : req[s] = "waiting" /\ reply[s] = "none" => InChannel(Msg("sam", s))

\* The senders, and the places that take a message out.
Sends(m) ==
  \/ \E j \in Jobs : \/ EnqWake(j) /\ m = Msg("wake", NoJob)
                     \/ (CancelSend(j) \/ InterruptSend(j)) /\ m = Msg("cancel", j)
  \/ \E r \in Reqs : SendEvict(r) /\ m = Msg("evict", r)
  \/ \E s \in Sams : SamSend(s) /\ m = Msg("sam", s)

\* What is sent is in the channel, behind everything that was there.
LEMMA SentArrives ==
  ASSUME TypeOK, NEW m \in Msgs, Sends(m)
  PROVE  ctl' # <<>> /\ InChannel(m)' /\ (\A x \in Msgs : InChannel(x) => InChannel(x)')
<1>1. ctl' = Append(ctl, m) /\ ctl \in Seq(Msgs)
  BY DEF Sends, EnqWake, CancelSend, InterruptSend, SendEvict, SamSend, TypeOK
<1>2. /\ DOMAIN ctl' = 1 .. Len(ctl) + 1 /\ DOMAIN ctl = 1 .. Len(ctl) /\ Len(ctl) \in Nat
      /\ \A i \in 1 .. Len(ctl) : ctl'[i] = ctl[i]
      /\ ctl'[Len(ctl) + 1] = m
  BY <1>1
<1>3. ctl' # <<>>
  BY <1>1
<1>4. InChannel(m)'
  BY <1>2 DEF InChannel
<1>5. ASSUME NEW x \in Msgs, InChannel(x) PROVE InChannel(x)'
  BY <1>2, <1>5 DEF InChannel
<1> QED
  BY <1>3, <1>4, <1>5

\* Every other step leaves the channel alone or takes its first message.
LEMMA ChannelSends ==
  ASSUME Next
  PROVE  \/ \E m \in Msgs : Sends(m)
         \/ ctl' = ctl
         \/ ctl # <<>> /\ ctl' = Tail(ctl) /\ (ServeIdle \/ DriveServe)
<1>1. CASE Driver
  BY <1>1 DEF Driver, BootReady, BootFail, Promote, ScanWait, GpuWaitTimeout, ServeIdle, Lookup,
     Dispatch, DispatchReject, Spawn, HandshakeOk, HandshakeFail, Start, DriveServe,
     DriveProgress, DriveEnd, Publish, Settle, Persist, Reap, Drop
<1>2. ASSUME NEW j \in Jobs, EnqWake(j) \/ CancelSend(j) \/ InterruptSend(j)
      PROVE  \E m \in Msgs : Sends(m)
  BY <1>2, MsgType DEF Sends
<1>3. ASSUME NEW r \in Reqs, SendEvict(r) PROVE \E m \in Msgs : Sends(m)
  BY <1>3, MsgType DEF Sends, SendEvict
<1>4. ASSUME NEW s \in Sams, SamSend(s) PROVE \E m \in Msgs : Sends(m)
  BY <1>4, MsgType DEF Sends
<1>5. CASE /\ Clients \/ Server \/ WorkerDies
           /\ ~(\E j \in Jobs : EnqWake(j) \/ CancelSend(j) \/ InterruptSend(j))
           /\ ~(\E r \in Reqs : SendEvict(r)) /\ ~(\E s \in Sams : SamSend(s))
  BY <1>5 DEF Clients, Server, WorkerDies, EnqRegister, CancelPath, InterruptRead, Remove, Reorder,
     Acquire, EnqPush, CancelPublish, CancelSave, EvictChannel, Evicted, EvictGiveUp,
     ChildExit, Release, SamReturn
<1> QED
  BY <1>1, <1>2, <1>3, <1>4, <1>5 DEF Next

\* A message leaves the channel only when the driver serves it.
LEMMA ChannelKeeps ==
  ASSUME TypeOK, Next, NEW m \in Msgs, InChannel(m)
  PROVE  InChannel(m)' \/ ((ServeIdle \/ DriveServe) /\ Head(ctl) = m)
<1>1. CASE \E x \in Msgs : Sends(x)
  BY <1>1, SentArrives
<1>2. CASE ctl' = ctl
  BY <1>2 DEF InChannel
<1>3. CASE ctl # <<>> /\ ctl' = Tail(ctl) /\ (ServeIdle \/ DriveServe)
  <2>1. ctl \in Seq(Msgs) /\ Len(ctl) \in Nat \ {0} /\ DOMAIN ctl = 1 .. Len(ctl)
    BY <1>3 DEF TypeOK
  <2>2. /\ DOMAIN ctl' = 1 .. Len(ctl) - 1
        /\ \A i \in 1 .. Len(ctl) - 1 : ctl'[i] = ctl[i + 1]
        /\ Head(ctl) = ctl[1]
    BY <1>3, <2>1
  <2>3. PICK i \in 1 .. Len(ctl) : ctl[i] = m
    BY <2>1 DEF InChannel
  <2>4. CASE i = 1
    BY <1>3, <2>2, <2>3, <2>4
  <2>5. CASE i # 1
    <3>1. i - 1 \in 1 .. Len(ctl) - 1 /\ ctl'[i - 1] = ctl[i]
      BY <2>1, <2>2, <2>3, <2>5
    <3> QED
      BY <2>2, <2>3, <3>1 DEF InChannel
  <2> QED
    BY <2>4, <2>5
<1> QED
  BY <1>1, <1>2, <1>3, ChannelSends

\* A request starts to wait when it sends its message, and an answer is never taken back.
LEMMA WaitingSince ==
  ASSUME TypeOK, Next, NEW r \in Evictors \cup Sams
  PROVE  /\ reply'[r] = "none" => reply[r] = "none"
         /\ req'[r] = "waiting" =>
              \/ req[r] = "waiting"
              \/ r \in Evictors /\ Sends(Msg("evict", r))
              \/ r \in Sams /\ Sends(Msg("sam", r))
<1> DEFINE Same == reply'[r] = reply[r] /\ (req'[r] = "waiting" => req[r] = "waiting")
<1>1. CASE ServeIdle \/ DriveServe
  <2>1. req' = req
    BY <1>1 DEF ServeIdle, DriveServe
  <2>2. reply' = reply \/ \E w, v : v \in {"yes", "no"} /\ Answer(w, v)
    BY <1>1 DEF ServeIdle, DriveServe
  <2>3. reply'[r] = "none" => reply[r] = "none"
    BY <2>2 DEF Answer, TypeOK
  <2> QED
    BY <2>1, <2>3
<1>2. CASE Driver /\ ~ServeIdle /\ ~DriveServe
  <2>1. CASE Spawn
    BY <2>1 DEF Spawn, reqVars
  <2>2. CASE ~Spawn
    BY <1>2, <2>2, AnswerFrame
  <2> QED
    BY <2>1, <2>2
<1>3. ASSUME NEW x \in Reqs, Acquire(x) \/ Evicted(x) \/ EvictGiveUp(x) \/ ChildExit(x) \/ Release(x)
      PROVE  Same
  <2>1. reply' = reply
    BY <1>3 DEF Acquire, Evicted, EvictGiveUp, ChildExit, Release
  <2>2. \E v \in {"leased", "running", "over", "exited"} : req' = [req EXCEPT ![x] = v]
    BY <1>3 DEF Acquire, Evicted, EvictGiveUp, ChildExit, Release
  <2> QED
    BY <2>1, <2>2 DEF TypeOK
<1>4. ASSUME NEW x \in Reqs, SendEvict(x)
      PROVE  reply' = reply /\ (r # x => req'[r] = req[r]) /\ Sends(Msg("evict", x)) /\ x \in Evictors
  <2>1. reply' = reply /\ x \in Evictors /\ Sends(Msg("evict", x))
    BY <1>4 DEF SendEvict, Sends
  <2>2. req' = [req EXCEPT ![x] = "waiting"]
    BY <1>4 DEF SendEvict
  <2> QED
    BY <2>1, <2>2 DEF TypeOK
<1>5. ASSUME NEW x \in Sams, SamSend(x)
      PROVE  reply' = reply /\ (r # x => req'[r] = req[r]) /\ Sends(Msg("sam", x))
  <2>1. reply' = reply /\ Sends(Msg("sam", x))
    BY <1>5 DEF SamSend, Sends
  <2>2. req' = [req EXCEPT ![x] = "waiting"]
    BY <1>5 DEF SamSend
  <2> QED
    BY <2>1, <2>2 DEF TypeOK
<1>6. ASSUME NEW x \in Sams, SamReturn(x) PROVE Same
  BY <1>6 DEF SamReturn, TypeOK
<1>7. CASE (Clients \/ Server \/ WorkerDies) /\ ~Routes
  BY <1>7, RouteFrame
<1> QED
  BY <1>1, <1>2, <1>3, <1>4, <1>5, <1>6, <1>7 DEF Next, Routes

\* The driver answers the message it takes out if its sender still waits.
LEMMA ServedIsAnswered ==
  ASSUME TypeOK, ServeIdle \/ DriveServe, NEW r \in Evictors \cup Sams, req[r] = "waiting",
         Head(ctl) \in {Msg("evict", r), Msg("sam", r)}
  PROVE  reply'[r] # "none"
<1>1. Head(ctl).op \in {"evict", "sam"} /\ Head(ctl).who = r
  BY DEF Msg
<1>2. \E v \in {"yes", "no"} : Answer(r, v)
  BY <1>1 DEF ServeIdle, DriveServe
<1> QED
  BY <1>2 DEF Answer, TypeOK

\* A message leaves the channel by being answered, so RequestsArrive is inductive.
LEMMA RequestStep == IInv /\ RequestsArrive /\ [Next]_vars => RequestsArrive'
<1> SUFFICES ASSUME IInv, RequestsArrive, [Next]_vars PROVE RequestsArrive'
  OBVIOUS
<1>types. TypeOK
  BY DEF IInv
<1>1. CASE UNCHANGED vars
  BY <1>1 DEF vars, reqVars, RequestsArrive, InChannel
<1>2. CASE Next
  <2>1. ASSUME NEW r \in Evictors, req'[r] = "waiting", reply'[r] = "none"
        PROVE  InChannel(Msg("evict", r))'
    <3>1. reply[r] = "none" /\ (req[r] = "waiting" \/ Sends(Msg("evict", r)) \/ r \in Sams)
      BY <1>2, <1>types, <2>1, WaitingSince
    <3>2. r \notin Sams
      BY ServerAssumption DEF Reqs
    <3>3. CASE Sends(Msg("evict", r))
      BY <1>types, <3>3, SentArrives, MsgType
    <3>4. CASE req[r] = "waiting"
      <4>1. InChannel(Msg("evict", r))
        BY <3>1, <3>4 DEF RequestsArrive
      <4>2. ~((ServeIdle \/ DriveServe) /\ Head(ctl) = Msg("evict", r))
        BY <1>types, <2>1, <3>4, ServedIsAnswered
      <4> QED
        BY <1>2, <1>types, <4>1, <4>2, ChannelKeeps, MsgType
    <3> QED
      BY <3>1, <3>2, <3>3, <3>4
  <2>2. ASSUME NEW s \in Sams, req'[s] = "waiting", reply'[s] = "none"
        PROVE  InChannel(Msg("sam", s))'
    <3>1. reply[s] = "none" /\ (req[s] = "waiting" \/ Sends(Msg("sam", s)) \/ s \in Evictors)
      BY <1>2, <1>types, <2>2, WaitingSince
    <3>2. s \notin Evictors
      BY ServerAssumption DEF Reqs
    <3>3. CASE Sends(Msg("sam", s))
      BY <1>types, <3>3, SentArrives, MsgType
    <3>4. CASE req[s] = "waiting"
      <4>1. InChannel(Msg("sam", s))
        BY <3>1, <3>4 DEF RequestsArrive
      <4>2. ~((ServeIdle \/ DriveServe) /\ Head(ctl) = Msg("sam", s))
        BY <1>types, <2>2, <3>4, ServedIsAnswered
      <4> QED
        BY <1>2, <1>types, <4>1, <4>2, ChannelKeeps, MsgType
    <3> QED
      BY <3>1, <3>2, <3>3, <3>4
  <2> QED
    BY <2>1, <2>2 DEF RequestsArrive
<1> QED
  BY <1>1, <1>2

\* EvictIdle and PrepareSam: a caller that times out without an answer was not forgotten,
\* its message still waits for the driver.
THEOREM NoRequestLost == Spec => []RequestsArrive
<1>1. Init => RequestsArrive
  BY DEF Init, RequestsArrive, Reqs
<1> QED
  BY <1>1, RequestStep, Invariance, PTL DEF Spec

\* A cancel on its way in a handler is there until it is sent.
LEMMA CancelTravels ==
  ASSUME IInv, AskInv, Next, NEW j \in Jobs, finish[j] = "send"
  PROVE  finish'[j] = "send" \/ Sends(Msg("cancel", j))
<1>types. finish \in [Jobs -> {"no", "send", "publish", "save"}]
  BY DEF IInv, TypeOK
<1>1. ASSUME NEW x \in Jobs, CancelPath(x) PROVE finish'[j] = "send"
  <2>1. x # j
    BY <1>1 DEF AskInv, CancelPath
  <2>2. \E v \in {"send", "publish"} : finish' = [finish EXCEPT ![x] = v]
    BY <1>1 DEF CancelPath
  <2> QED
    BY <1>types, <2>1, <2>2
<1>2. ASSUME NEW x \in Jobs, CancelSend(x) PROVE finish'[j] = "send" \/ Sends(Msg("cancel", j))
  <2>1. finish' = [finish EXCEPT ![x] = "no"]
    BY <1>2 DEF CancelSend
  <2>2. CASE x = j
    BY <1>2, <2>2 DEF Sends
  <2>3. CASE x # j
    BY <1>types, <2>1, <2>3
  <2> QED
    BY <2>2, <2>3
<1>3. ASSUME NEW x \in Jobs, CancelPublish(x) \/ CancelSave(x) PROVE finish'[j] = "send"
  <2>1. x # j
    BY <1>3 DEF CancelPublish, CancelSave
  <2>2. \E v \in {"save", "no"} : finish' = [finish EXCEPT ![x] = v]
    BY <1>3 DEF CancelPublish, CancelSave
  <2> QED
    BY <1>types, <2>1, <2>2
<1>4. CASE DriveServe \/ DriveEnd \/ Drop
  BY <1>4 DEF DriveServe, DriveEnd, Drop, bookVars
<1>5. CASE ~CancelSteps /\ ~DriveServe /\ ~DriveEnd /\ ~Drop
  BY <1>5, ForwardFrame
<1> QED
  BY <1>1, <1>2, <1>3, <1>4, <1>5 DEF CancelSteps

\* What the worker was told it was told, until the job is over.
LEMMA ForwardStays ==
  ASSUME IInv, Next, forwarded, pc \in Working
  PROVE  forwarded'
<1>1. CASE DriveServe
  BY <1>1, Zenon DEF DriveServe, IInv, TypeOK
<1>2. CASE DriveEnd
  BY <1>2 DEF DriveEnd
<1>3. ~Drop
  BY DEF Drop, Working
<1>4. ASSUME NEW j \in Jobs, CancelPath(j) \/ CancelSend(j) \/ CancelPublish(j) \/ CancelSave(j)
      PROVE  forwarded'
  BY <1>4 DEF CancelPath, CancelSend, CancelPublish, CancelSave, driverVars
<1>5. CASE ~CancelSteps /\ ~DriveServe /\ ~DriveEnd /\ ~Drop
  BY <1>5, ForwardFrame
<1> QED
  BY <1>1, <1>2, <1>3, <1>4, <1>5 DEF CancelSteps

\* The three places a cancel passes through hand it on, so CancelsArrive is inductive.
LEMMA CancelArrival ==
  IInv /\ AskInv /\ CancelInv /\ CancelsArrive /\ [Next]_vars => CancelsArrive'
<1> SUFFICES ASSUME IInv, AskInv, CancelInv, CancelsArrive, [Next]_vars PROVE CancelsArrive'
  OBVIOUS
<1>types. TypeOK
  BY DEF IInv
<1>1. CASE UNCHANGED vars
  BY <1>1 DEF vars, bookVars, driverVars, CancelsArrive, InChannel
<1>2. CASE Next
  <2> SUFFICES ASSUME NEW j \in Jobs, state'[j] = "running", j \in cancelReq'
               PROVE  finish'[j] = "send" \/ InChannel(Msg("cancel", j))' \/ forwarded'
    BY DEF CancelsArrive
  <2>msg. Msg("cancel", j) \in Msgs
    BY MsgType
  <2>1. CASE CancelPath(j)
    BY <1>types, <2>1 DEF CancelPath, TypeOK
  <2>2. CASE ~CancelPath(j)
    <3>1. j \in cancelReq
      <4>1. CASE \A x \in Jobs : ~CancelPath(x)
        BY <1>2, <4>1, CancelFrame
      <4>2. ASSUME NEW x \in Jobs, CancelPath(x) PROVE j \in cancelReq
        BY <2>2, <4>2 DEF CancelPath
      <4> QED
        BY <4>1, <4>2
    <3>2. state[j] = "running"
      <4>1. state[j] \notin {"none", "queued"}
        BY <3>1 DEF CancelInv
      <4>2. Lifecycle!Next \/ state' = state
        BY LifecycleStep DEF Lifecycle!vars
      <4>3. state[j] \in Terminal \cup {"removed"} => state'[j] = state[j]
        BY <1>types, <4>2, Ordered
      <4>4. state[j] \in Terminal \cup {"removed", "running"}
        BY <1>types, <4>1 DEF TypeOK, States
      <4> QED
        BY <4>3, <4>4
    <3>3. j = cur /\ pc \in Working
      BY <3>2 DEF IInv, AtMostOneRunning
    <3>4. CASE finish[j] = "send"
      BY <1>2, <1>types, <2>msg, <3>4, CancelTravels, SentArrives
    <3>5. CASE InChannel(Msg("cancel", j))
      <4>1. CASE DriveServe /\ Head(ctl) = Msg("cancel", j)
        <5>1. Head(ctl).op = "cancel" /\ Head(ctl).who = cur
          BY <3>3, <4>1 DEF Msg
        <5> QED
          BY <4>1, <5>1, Zenon DEF DriveServe
      <4>2. ~ServeIdle
        BY <3>3 DEF ServeIdle, Working
      <4> QED
        BY <1>2, <1>types, <2>msg, <3>5, <4>1, <4>2, ChannelKeeps
    <3>6. CASE forwarded
      BY <1>2, <3>3, <3>6, ForwardStays
    <3> QED
      BY <3>1, <3>2, <3>4, <3>5, <3>6 DEF CancelsArrive
  <2> QED
    BY <2>1, <2>2
<1> QED
  BY <1>1, <1>2

\* post_cancel_path: an accepted cancel of a running job cannot fall between the book, the
\* channel and the worker, however early or late in the job it is pressed.
THEOREM NoCancelLost == Spec => []CancelsArrive
<1>1. Init => AskInv /\ CancelInv /\ CancelsArrive
  BY DEF Init, AskInv, CancelInv, CancelsArrive, OnlyAskedJobsAreCancelled
<1> QED
  BY <1>1, AskStep, CancelStep, CancelArrival, Invariance, PTL DEF Spec

\* A queued record has its entry, and an idle driver was woken for it or soon will be.
WakeInv ==
  /\ \A j \in Jobs : state[j] = "queued" => InBook(j)
  /\ pc = "idle" /\ ctl = <<>> => \A j \in Jobs : state[j] = "queued" => enq[j] = "pushed"

\* Every entry but the removed one keeps its place in the book, or another one.
LEMMA BookKeeps ==
  ASSUME IInv, Next, NEW j \in Jobs, state'[j] # "removed", InBook(j)
  PROVE  InBook(j)'
<1>types. book \in Seq(Jobs) /\ state \in [Jobs -> States]
  BY DEF IInv, TypeOK
<1>0. PICK i \in DOMAIN book : book[i] = j
  BY DEF InBook
<1>len. DOMAIN book = 1 .. Len(book) /\ Len(book) \in Nat
  BY <1>types
<1>1. ASSUME NEW x \in Jobs, EnqPush(x) PROVE InBook(j)'
  <2>1. book' = Append(book, x)
    BY <1>1 DEF EnqPush
  <2>2. i \in DOMAIN book' /\ book'[i] = j
    BY <1>types, <1>0, <1>len, <2>1
  <2> QED
    BY <2>2 DEF InBook
<1>2. ASSUME NEW x \in Jobs, Remove(x) PROVE InBook(j)'
  <2>1. x # j
    BY <1>2, <1>types DEF Remove
  <2>2. PICK k \in DOMAIN book :
          book[k] = x /\ book' = SubSeq(book, 1, k - 1) \o SubSeq(book, k + 1, Len(book))
    BY <1>2 DEF Remove
  <2>3. i # k
    BY <1>0, <2>1, <2>2
  <2>4. k \in 1 .. Len(book) /\ i \in 1 .. Len(book)
    BY <1>len
  <2> DEFINE front == SubSeq(book, 1, k - 1)
             back  == SubSeq(book, k + 1, Len(book))
  <2>5. front \in Seq(Jobs) /\ Len(front) = k - 1
    BY <1>types, <1>len, <2>4
  <2>6. back \in Seq(Jobs) /\ Len(back) = Len(book) - k
    BY <1>types, <1>len, <2>4
  <2>7. i < k => front[i] = book[i]
    BY <1>types, <1>len, <2>4
  <2>8. i > k => back[i - k] = book[i]
    BY <1>types, <1>len, <2>4
  <2>9. book' = front \o back
    BY <2>2
  <2> HIDE DEF front, back
  <2>10. /\ DOMAIN (front \o back) = 1 .. Len(front) + Len(back)
         /\ \A n \in 1 .. Len(front) : (front \o back)[n] = front[n]
         /\ \A n \in 1 .. Len(back) : (front \o back)[Len(front) + n] = back[n]
    <3>1. Len(front) \in Nat /\ Len(back) \in Nat
      BY <2>5, <2>6
    <3>2. /\ front \o back \in Seq(Jobs) /\ Len(front \o back) = Len(front) + Len(back)
          /\ \A n \in 1 .. Len(front) + Len(back) :
               (front \o back)[n] = IF n <= Len(front) THEN front[n] ELSE back[n - Len(front)]
      BY <2>5, <2>6, ConcatProperties
    <3>3. \A n \in 1 .. Len(front) : (front \o back)[n] = front[n]
      BY <3>1, <3>2
    <3>4. \A n \in 1 .. Len(back) : (front \o back)[Len(front) + n] = back[n]
      BY <3>1, <3>2
    <3> QED
      BY <3>2, <3>3, <3>4
  <2>11. CASE i < k
    <3>1. i \in 1 .. Len(front) /\ i \in DOMAIN book'
      BY <1>len, <2>4, <2>5, <2>6, <2>9, <2>10, <2>11
    <3>2. book'[i] = j
      BY <1>0, <2>7, <2>9, <2>10, <2>11, <3>1
    <3> QED
      BY <3>1, <3>2 DEF InBook
  <2>12. CASE i > k
    <3>1. i - k \in 1 .. Len(back) /\ i - 1 = Len(front) + (i - k)
      BY <1>len, <2>4, <2>5, <2>6, <2>12
    <3>2. i - 1 \in DOMAIN book'
      BY <1>len, <2>4, <2>5, <2>6, <2>9, <2>10, <2>12
    <3>3. book'[i - 1] = j
      BY <1>0, <2>8, <2>9, <2>10, <2>12, <3>1
    <3> QED
      BY <3>2, <3>3 DEF InBook
  <2> QED
    BY <2>3, <2>4, <2>11, <2>12
<1>3. ASSUME NEW x \in Jobs, Reorder(x) PROVE InBook(j)'
  <2>1. CASE Active(j)
    <3>1. \E n \in DOMAIN book' : book'[n] = j
      BY <1>3, <2>1 DEF Reorder, IsQueueMove
    <3> QED
      BY <3>1 DEF InBook
  <2>2. CASE ~Active(j)
    <3>1. PICK b \in [DOMAIN book -> Jobs] : IsQueueMove(b, x) /\ book' = b
      BY <1>3 DEF Reorder
    <3>2. i \in DOMAIN b /\ b[i] = book[i]
      BY <1>0, <2>2, <3>1 DEF IsQueueMove
    <3> QED
      BY <1>0, <3>1, <3>2 DEF InBook
  <2> QED
    BY <2>1, <2>2
<1>4. CASE Driver
  <2>1. book' = book
    BY <1>4 DEF Driver, BootReady, BootFail, Promote, ScanWait, GpuWaitTimeout, ServeIdle, Lookup,
       Dispatch, DispatchReject, Spawn, HandshakeOk, HandshakeFail, Start, DriveServe,
       DriveProgress, DriveEnd, Publish, Settle, Persist, Reap, Drop, bookVars
  <2> QED
    BY <2>1 DEF InBook
<1>5. CASE /\ Clients \/ Server \/ WorkerDies
           /\ ~(\E x \in Jobs : EnqPush(x) \/ Remove(x) \/ Reorder(x))
  <2>1. book' = book
    BY <1>5 DEF Clients, Server, WorkerDies, EnqRegister, CancelPath, InterruptRead,
       Acquire, SamSend, EnqWake, CancelSend, CancelPublish, CancelSave,
       InterruptSend, EvictChannel, SendEvict, Evicted, EvictGiveUp, ChildExit, Release,
       SamReturn, bookVars
  <2> QED
    BY <2>1 DEF InBook
<1> QED
  BY <1>1, <1>2, <1>3, <1>4, <1>5 DEF Next

\* A record turns "queued" only by the push of enqueue_generate, which owes a wake-up.
LEMMA QueuedSince ==
  ASSUME IInv, Next, NEW j \in Jobs, state'[j] = "queued"
  PROVE  state[j] = "queued" \/ (InBook(j)' /\ enq'[j] = "pushed")
<1>types. /\ book \in Seq(Jobs) /\ state \in [Jobs -> States]
          /\ enq \in [Jobs -> {"new", "registered", "pushed", "sent"}]
  BY DEF IInv, TypeOK
<1>1. ASSUME NEW x \in Jobs, EnqPush(x)
      PROVE  state[j] = "queued" \/ (InBook(j)' /\ enq'[j] = "pushed")
  <2>1. /\ book' = Append(book, x) /\ enq' = [enq EXCEPT ![x] = "pushed"]
        /\ state' = [state EXCEPT ![x] = "queued"]
    BY <1>1 DEF EnqPush
  <2>2. CASE x # j
    BY <1>types, <2>1, <2>2
  <2>3. CASE x = j
    <3>1. Len(book) + 1 \in DOMAIN book' /\ book'[Len(book) + 1] = j
      BY <1>types, <2>1, <2>3
    <3> QED
      BY <1>types, <2>1, <2>3, <3>1 DEF InBook
  <2> QED
    BY <2>2, <2>3
<1>2. CASE ~(\E x \in Jobs : EnqPush(x))
  <2>1. state[j] \in {"queued", "running"}
    BY <1>2, Arrivals
  <2>2. Lifecycle!Next \/ state' = state
    BY LifecycleStep DEF Lifecycle!vars
  <2>3. state[j] \in {"none", "queued"}
    BY <2>2, Ordered DEF IInv
  <2> QED
    BY <2>1, <2>3
<1> QED
  BY <1>1, <1>2

\* The driver becomes idle only after a scan that found nothing.
LEMMA IdleAfterScan ==
  ASSUME Driver, pc' = "idle"
  PROVE  Queued = {} /\ state' = state
<1>1. CASE ScanWait
  BY <1>1 DEF ScanWait, bookVars
<1>2. CASE ~ScanWait
  BY <1>2 DEF Driver, BootReady, BootFail, Promote, GpuWaitTimeout, ServeIdle, Lookup,
     Dispatch, DispatchReject, Spawn, HandshakeOk, HandshakeFail, Start, EndAs, DriveServe,
     DriveProgress, DriveEnd, Publish, Settle, Persist, Reap, Drop, driverVars
<1> QED
  BY <1>1, <1>2

\* A record is queued before its wake-up is sent, so the scan or the wait sees one of them.
LEMMA WakeStep == IInv /\ CancelInv /\ WakeInv /\ [Next]_vars => WakeInv'
<1> SUFFICES ASSUME IInv, CancelInv, WakeInv, [Next]_vars PROVE WakeInv'
  OBVIOUS
<1>types. TypeOK
  BY DEF IInv
<1>1. CASE UNCHANGED vars
  BY <1>1 DEF vars, bookVars, driverVars, WakeInv, InBook
<1>2. CASE Next
  <2>1. ASSUME NEW j \in Jobs, state'[j] = "queued" PROVE InBook(j)'
    <3>1. CASE state[j] = "queued"
      <4>1. InBook(j) /\ state'[j] # "removed"
        BY <2>1, <3>1 DEF WakeInv
      <4> QED
        BY <1>2, <4>1, BookKeeps
    <3>2. CASE state[j] # "queued"
      BY <1>2, <2>1, <3>2, QueuedSince
    <3> QED
      BY <3>1, <3>2
  <2>2. ASSUME pc' = "idle", ctl' = <<>>, NEW j \in Jobs, state'[j] = "queued"
        PROVE  enq'[j] = "pushed"
    <3>1. CASE Driver
      <4>1. Queued = {} /\ state[j] = "queued"
        BY <2>2, <3>1, IdleAfterScan
      <4>2. InBook(j)
        BY <4>1 DEF WakeInv
      <4> QED
        BY <4>1, <4>2 DEF Queued
    <3>2. CASE Clients \/ Server \/ WorkerDies
      <4>1. pc = "idle"
        BY <2>2, <3>2, HandlerFrame
      <4>2. \A m \in Msgs : ~Sends(m)
        BY <1>types, <2>2, SentArrives
      <4>3. ctl = <<>>
        <5>1. ~ServeIdle /\ ~DriveServe
          BY <2>2, <4>1 DEF ServeIdle, DriveServe
        <5> QED
          BY <1>2, <2>2, <4>2, <5>1, ChannelSends
      <4>4. ASSUME state[j] = "queued", enq[j] = "pushed" PROVE enq'[j] = "pushed"
        <5>1. ASSUME NEW x \in Jobs, EnqRegister(x) \/ EnqPush(x) PROVE enq'[j] = "pushed"
          <6>1. x # j
            BY <4>4, <5>1 DEF EnqRegister, EnqPush
          <6>2. \E v \in {"registered", "pushed"} : enq' = [enq EXCEPT ![x] = v]
            BY <5>1 DEF EnqRegister, EnqPush
          <6> QED
            BY <1>types, <4>4, <6>1, <6>2 DEF TypeOK
        <5>2. ASSUME NEW x \in Jobs, CancelPath(x) \/ Remove(x) PROVE enq'[j] = "pushed"
          BY <4>4, <5>2 DEF CancelPath, Remove
        <5>3. ASSUME NEW x \in Jobs, EnqWake(x) PROVE FALSE
          BY <4>2, <5>3, MsgType DEF Sends
        <5>4. CASE ~Writers
          BY <3>2, <4>4, <5>4, WriterFrame
        <5> QED
          BY <5>1, <5>2, <5>3, <5>4 DEF Writers
      <4> QED
        BY <1>2, <2>2, <4>1, <4>3, <4>4, QueuedSince DEF WakeInv
    <3> QED
      BY <1>2, <3>1, <3>2 DEF Next
  <2> QED
    BY <2>1, <2>2 DEF WakeInv
<1> QED
  BY <1>1, <1>2

\* run_worker_driver blocks in recv without a timeout: no enqueue falls between its scan of
\* the book and the wait.
THEOREM NoWakeupLost == Spec => []WakeupsArrive
<1>1. Init => CancelInv /\ WakeInv
  BY DEF Init, CancelInv, WakeInv
<1>2. WakeInv => WakeupsArrive
  BY DEF WakeInv, WakeupsArrive, Queued
<1> QED
  BY <1>1, <1>2, CancelStep, WakeStep, Invariance, PTL DEF Spec

----------------------------------------------------------------------------
(* The channels as logs: the refinement of JobLog.                         *)

\* A job that has not started has an empty log, and the driver asks for an eviction, and a
\* timer runs, only after the end was logged.
LogInv ==
  /\ \A j \in Jobs : state[j] \in {"none", "queued", "removed"} => history[j] = <<>>
  /\ \A j \in timers : j \in registry => Channels!Over(history[j])
  /\ pc = "settle" => Channels!Over(history[cur])

Withdrawn == {j \in Jobs : state[j] = "removed"}
Dropped   == {j \in Jobs : enq[j] # "new" /\ j \notin registry}

\* Only a remove withdraws a job, and only from the queue.
LEMMA WithdrawnFrame ==
  ASSUME IInv, Next
  PROVE  /\ \A j \in Jobs : state'[j] \in {"none", "queued", "removed"}
                              => state[j] \in {"none", "queued", "removed"}
         /\ (\A j \in Jobs : ~Remove(j)) => Withdrawn' = Withdrawn
<1>types. TypeOK
  BY DEF IInv
<1>1. \A j \in Jobs : state'[j] \in {"none", "queued", "removed"} => state[j] \in {"none", "queued", "removed"}
  <2>1. CASE UNCHANGED state
    BY <2>1
  <2>2. CASE \E j \in Jobs : Lifecycle!Submit(j) \/ Lifecycle!Withdraw(j) \/ Lifecycle!Start(j)
    BY <1>types, <2>2 DEF Lifecycle!Submit, Lifecycle!Withdraw, Lifecycle!Start, Lifecycle!Become, TypeOK
  <2>3. CASE \E j \in Jobs : Lifecycle!End(j)
    BY <1>types, <2>3 DEF Lifecycle!End, Lifecycle!Become, Lifecycle!Outcomes, TypeOK
  <2>4. CASE (\E j \in Jobs : Lifecycle!HandBack(j)) \/ (\E r \in Reqs : Lifecycle!Borrow(r) \/ Lifecycle!Return(r))
    BY <2>4 DEF Lifecycle!HandBack, Lifecycle!Borrow, Lifecycle!Return
  <2>5. Lifecycle!Next \/ UNCHANGED state
    BY LifecycleStep DEF Lifecycle!vars
  <2> QED
    BY <2>1, <2>2, <2>3, <2>4, <2>5 DEF Lifecycle!Next
<1>2. ASSUME \A j \in Jobs : ~Remove(j), NEW j \in Jobs, state'[j] = "removed" PROVE state[j] = "removed"
  <2> USE <1>types DEF TypeOK
  <2>1. CASE UNCHANGED state
    BY <1>2, <2>1
  <2>2. ASSUME NEW x \in Jobs, Promote(x) PROVE state[j] = "removed"
    BY <1>2, <2>2 DEF Promote
  <2>3. ASSUME NEW ev \in Terminal, Ends(ev) PROVE state[j] = "removed"
    BY <1>2, <2>3 DEF Ends, Terminal
  <2>4. CASE Drop
    BY <1>2, <2>4 DEF Drop, bookVars
  <2>5. ASSUME NEW x \in Jobs, EnqRegister(x) \/ EnqPush(x) \/ EnqWake(x) \/ CancelPath(x)
        PROVE  state[j] = "removed"
    BY <1>2, <2>5 DEF EnqRegister, EnqPush, EnqWake, CancelPath
  <2> QED
    BY <1>2, <2>1, <2>2, <2>3, <2>4, <2>5, RecordFrame, EndSteps, WriterFrame DEF Next, Driver, Writers, IInv
<1>3. \A j \in Jobs : state[j] = "removed" => state'[j] = "removed"
  BY LifecycleStep, Ordered, <1>types DEF Lifecycle!vars
<1> QED
  BY <1>1, <1>2, <1>3 DEF Withdrawn

\* Only a timer drops a channel: EnqRegister makes the one of a new job.
LEMMA DroppedFrame ==
  ASSUME TypeOK, Next, \A j \in Jobs : ~EvictChannel(j)
  PROVE  Dropped' = Dropped
<1> USE DEF Dropped, TypeOK
<1>1. ASSUME NEW j \in Jobs, EnqRegister(j) PROVE Dropped' = Dropped
  BY <1>1 DEF EnqRegister
<1>2. ASSUME NEW j \in Jobs, EnqPush(j) \/ EnqWake(j) PROVE Dropped' = Dropped
  BY <1>2 DEF EnqPush, EnqWake, chanVars
<1>3. CASE Driver
  <2>1. enq' = enq
    BY <1>3 DEF Driver, BootReady, BootFail, Promote, ScanWait, GpuWaitTimeout, ServeIdle, Lookup,
       Dispatch, DispatchReject, Spawn, HandshakeOk, HandshakeFail, Start, DriveServe,
       DriveProgress, DriveEnd, Publish, Settle, Persist, Reap, Drop, bookVars
  <2>2. registry' = registry
    BY <1>3 DEF Driver, BootReady, BootFail, Promote, ScanWait, GpuWaitTimeout, ServeIdle, Lookup,
       Dispatch, DispatchReject, Spawn, HandshakeOk, HandshakeFail, Start, DriveServe,
       DriveProgress, DriveEnd, Publish, Settle, Persist, Reap, Drop, chanVars
  <2> QED
    BY <2>1, <2>2
<1>4. CASE /\ Clients \/ Server \/ WorkerDies
           /\ ~(\E j \in Jobs : EnqRegister(j) \/ EnqPush(j) \/ EnqWake(j) \/ EvictChannel(j))
  <2>1. enq' = enq /\ registry' = registry
    BY <1>4 DEF Clients, Server, WorkerDies, CancelPath, InterruptRead, Remove, Reorder, Acquire,
       SamSend, CancelSend, CancelPublish, CancelSave, InterruptSend, SendEvict, Evicted,
       EvictGiveUp, ChildExit, Release, SamReturn, bookVars, chanVars
  <2> QED
    BY <2>1
<1> QED
  BY <1>1, <1>2, <1>3, <1>4 DEF Next

\* An open history has no end, and an end closes it.
LEMMA OpenNotOver ==
  ASSUME NEW h \in Seq({"progress"} \cup Terminal)
  PROVE  /\ Open(h) => ~Channels!Over(h)
         /\ Open(h) /\ h # <<>> => Published(h, "progress") = h
         /\ Published(<<>>, "progress") = Append(<<>>, "progress")
         /\ \A ev \in Terminal : Published(h, ev) = Append(h, ev) /\ Channels!Over(Append(h, ev))
<1>1. h # <<>> => Len(h) \in DOMAIN h
  OBVIOUS
<1>2. Open(h) => ~Channels!Over(h)
  BY <1>1 DEF Open, Channels!Over, Channels!Ends, Terminal
<1>3. Open(h) /\ h # <<>> => Published(h, "progress") = h
  <2>1. \A i \in DOMAIN h : h[i] \in {"progress"} \cup Terminal
    OBVIOUS
  <2> QED
    BY <1>1, <2>1 DEF Open, Published
<1>4. Published(<<>>, "progress") = Append(<<>>, "progress")
  BY DEF Published
<1>5. ASSUME NEW ev \in Terminal PROVE Published(h, ev) = Append(h, ev) /\ Channels!Over(Append(h, ev))
  <2>1. Published(h, ev) = Append(h, ev)
    BY DEF Published, Terminal
  <2>2. Append(h, ev) # <<>> /\ Append(h, ev)[Len(Append(h, ev))] = ev
    OBVIOUS
  <2> QED
    BY <2>1, <2>2 DEF Channels!Over, Channels!Ends, Terminal
<1> QED
  BY <1>2, <1>3, <1>4, <1>5

\* The driver logs progress of the job it works on: the first time it is a step of the log.
LEMMA ProgressIsLogged ==
  ASSUME IInv, HistoryInv, pc \in Working, PublishOn(cur, "progress"),
         Withdrawn' = Withdrawn, Dropped' = Dropped
  PROVE  Channels!Next \/ UNCHANGED Channels!vars
<1>1. cur \in Jobs /\ state[cur] = "running" /\ history \in [Jobs -> Seq({"progress"} \cup Terminal)]
  BY DEF IInv, TypeOK, DriverInv, AtMostOneRunning, Working, Owning
<1>2. Open(history[cur]) /\ history[cur] \in Seq({"progress"} \cup Terminal)
  BY <1>1, LiveIsOpen DEF Terminal
<1>3. history' = [history EXCEPT ![cur] = Published(history[cur], "progress")]
  BY DEF PublishOn
<1>4. CASE history[cur] # <<>>
  <2>1. history' = history
    BY <1>1, <1>2, <1>3, <1>4, OpenNotOver
  <2> QED
    BY <2>1 DEF Channels!vars, Withdrawn, Dropped
<1>5. CASE history[cur] = <<>>
  <2>1. history' = [history EXCEPT ![cur] = Append(@, "progress")] /\ ~Channels!Over(history[cur])
    BY <1>2, <1>3, <1>5, OpenNotOver
  <2>2. Channels!Progress(cur)
    BY <1>1, <1>5, <2>1 DEF Channels!Progress, Channels!Log, Withdrawn, Dropped
  <2> QED
    BY <1>1, <2>2 DEF Channels!Next
<1> QED
  BY <1>4, <1>5

\* An outcome is logged as the end.
LEMMA OutcomeIsLogged ==
  ASSUME IInv, NEW j \in Jobs, NEW ev \in Terminal, state[j] = ev, Open(history[j]), PublishOn(j, ev),
         Withdrawn' = Withdrawn, Dropped' = Dropped
  PROVE  Channels!Next /\ Channels!Over(history'[j])
<1>1. history \in [Jobs -> Seq({"progress"} \cup Terminal)] /\ state[j] # "removed"
  BY DEF IInv, TypeOK, Terminal
<1>2. /\ history' = [history EXCEPT ![j] = Append(history[j], ev)] /\ ~Channels!Over(history[j])
      /\ Channels!Over(Append(history[j], ev))
  <2>1. history[j] \in Seq({"progress"} \cup Terminal)
    BY <1>1
  <2> QED
    BY <2>1, OpenNotOver DEF PublishOn
<1>3. Channels!Log(j, ev)
  BY <1>1, <1>2 DEF Channels!Log, Withdrawn, Dropped
<1>4. Channels!End(j)
  BY <1>3 DEF Channels!End, Channels!Ends, Terminal
<1> QED
  BY <1>1, <1>2, <1>4 DEF Channels!Next

\* Every step of the server is one of the log, or leaves it alone.
LEMMA LogStep ==
  ASSUME IInv, ChannelInv, HistoryInv, LogInv, Next
  PROVE  Channels!Next \/ UNCHANGED Channels!vars
<1>types. TypeOK
  BY DEF IInv
<1>remove. ASSUME NEW j \in Jobs, Remove(j) PROVE Channels!Next
  <2>1. state[j] = "queued" /\ history[j] = <<>>
    BY <1>remove DEF Remove, Active, Queued, LogInv
  <2>2. Withdrawn' = Withdrawn \cup {j} /\ history' = history
    BY <1>remove, <1>types DEF Remove, Withdrawn, TypeOK, chanVars
  <2>3. Dropped' = Dropped
    BY <1>remove, <1>types DEF Remove, Dropped, chanVars
  <2>4. Channels!Withdraw(j)
    BY <2>1, <2>2, <2>3 DEF Channels!Withdraw, Withdrawn, Dropped
  <2> QED
    BY <2>4 DEF Channels!Next
<1>evict. ASSUME NEW j \in Jobs, EvictChannel(j) PROVE Channels!Next \/ UNCHANGED Channels!vars
  <2>1. /\ j \in timers /\ registry' = registry \ {j} /\ history' = history /\ enq' = enq /\ state' = state
        /\ enq[j] # "new"
    BY <1>evict DEF EvictChannel, bookVars, ChannelInv, IInv, RecordInv, Terminal
  <2>2. CASE j \in registry
    <3>1. Channels!Over(history[j]) /\ Dropped' = Dropped \cup {j} /\ Withdrawn' = Withdrawn
      BY <2>1, <2>2 DEF LogInv, Dropped, Withdrawn
    <3>2. Channels!Drop(j)
      BY <2>1, <3>1 DEF Channels!Drop, Dropped, Withdrawn
    <3> QED
      BY <3>2 DEF Channels!Next
  <2>3. CASE j \notin registry
    <3>1. Dropped' = Dropped /\ Withdrawn' = Withdrawn
      BY <2>1, <2>3 DEF Dropped, Withdrawn
    <3> QED
      BY <2>1, <3>1 DEF Channels!vars, Dropped, Withdrawn
  <2> QED
    BY <2>2, <2>3
<1>frame. CASE ~\E j \in Jobs : Remove(j) \/ EvictChannel(j)
  <2>1. Withdrawn' = Withdrawn /\ Dropped' = Dropped
    BY <1>frame, <1>types, WithdrawnFrame, DroppedFrame
  <2>2. CASE history' = history
    BY <2>1, <2>2 DEF Channels!vars, Withdrawn, Dropped
  <2>3. CASE pc \in Working /\ PublishOn(cur, "progress")
    BY <2>1, <2>3, ProgressIsLogged
  <2>4. CASE Publish
    <3>1. cur \in Jobs /\ fin.ev \in Terminal /\ state[cur] = fin.ev /\ Open(history[cur])
      BY <1>types, <2>4 DEF Publish, IInv, DriverInv, Owning, TypeOK, Outcomes, HistoryInv
    <3>2. PublishOn(cur, fin.ev)
      BY <2>4 DEF Publish
    <3> QED
      BY <2>1, <3>1, <3>2, OutcomeIsLogged
  <2>5. ASSUME NEW j \in Jobs, CancelPublish(j), history' # history PROVE Channels!Next
    <3>1. state[j] = "cancelled" /\ Open(history[j]) /\ PublishOn(j, "cancelled")
      BY <2>5 DEF CancelPublish, HistoryInv
    <3> QED
      BY <2>1, <3>1, OutcomeIsLogged DEF Terminal
  <2>6. ASSUME HistorySteps, ~Publish, \A j \in Jobs : ~CancelPublish(j)
        PROVE  history' = history \/ (pc \in Working /\ PublishOn(cur, "progress"))
    BY <2>6 DEF HistorySteps, Dispatch, Spawn, Start, DriveProgress, DispatchReject, HandshakeFail,
       DriveEnd, CancelPath, Working, chanVars
  <2>7. CASE ~HistorySteps
    <3>1. history' = history
      BY <1>types, <2>7, HistoryFrame
    <3> QED
      BY <2>2, <3>1
  <2> QED
    BY <2>2, <2>3, <2>4, <2>5, <2>6, <2>7
<1> QED
  BY <1>remove, <1>evict, <1>frame

\* A log that is over stays as it is, and only a job that has started gets a longer one.
LEMMA OverStays ==
  ASSUME IInv, Channels!Next \/ UNCHANGED Channels!vars, NEW j \in Jobs
  PROVE  Channels!Over(history[j]) => history'[j] = history[j]
<1>types. history \in [Jobs -> Seq({"progress"} \cup Terminal)]
  BY DEF IInv, TypeOK
<1>1. CASE UNCHANGED history
  BY <1>1
<1>2. ASSUME NEW x \in Jobs, NEW ev, Channels!Log(x, ev)
      PROVE  Channels!Over(history[j]) => history'[j] = history[j]
  BY <1>types, <1>2 DEF Channels!Log
<1> QED
  BY <1>1, <1>2 DEF Channels!Next, Channels!vars, Channels!Progress, Channels!End, Channels!Withdraw,
     Channels!Drop

\* Logs grow only for a job that runs or has ended.
LEMMA LogsOfStarted ==
  ASSUME IInv, HistoryInv, Next, NEW j \in Jobs, history'[j] # history[j]
  PROVE  state[j] \notin {"none", "queued", "removed"}
<1>types. TypeOK
  BY DEF IInv
<1>1. CASE Dispatch \/ Spawn \/ Start \/ DriveProgress
  <2>1. cur \in Jobs /\ state[cur] = "running"
    BY <1>1 DEF Dispatch, Spawn, Start, DriveProgress, IInv, DriverInv, AtMostOneRunning, Working, Owning
  <2>2. j = cur
    BY <1>1, <1>types, <2>1 DEF Dispatch, Spawn, Start, DriveProgress, PublishOn, TypeOK
  <2> QED
    BY <2>1, <2>2
<1>2. CASE Publish
  <2>1. cur \in Jobs /\ state[cur] \in Terminal
    BY <1>2 DEF Publish, IInv, DriverInv, RecordInv, Owning, Working
  <2>2. j = cur
    BY <1>2, <1>types, <2>1 DEF Publish, PublishOn, TypeOK
  <2> QED
    BY <2>1, <2>2 DEF Terminal
<1>3. ASSUME NEW x \in Jobs, CancelPublish(x) PROVE state[j] \notin {"none", "queued", "removed"}
  <2>1. state[x] = "cancelled"
    BY <1>3 DEF CancelPublish, HistoryInv
  <2>2. j = x
    BY <1>3, <1>types DEF CancelPublish, PublishOn, TypeOK
  <2> QED
    BY <2>1, <2>2
<1>4. CASE DispatchReject \/ HandshakeFail \/ DriveEnd \/ \E x \in Jobs : CancelPath(x)
  BY <1>4 DEF DispatchReject, HandshakeFail, DriveEnd, CancelPath, chanVars
<1>5. CASE ~HistorySteps
  BY <1>types, <1>5, HistoryFrame
<1> QED
  BY <1>1, <1>2, <1>3, <1>4, <1>5 DEF HistorySteps

\* The steps after which a timer runs, or the driver is about to start one.
LEMMA SettlesAfterPublish ==
  ASSUME IInv, Next, pc' = "settle"
  PROVE  Publish \/ (pc = "settle" /\ cur' = cur)
<1>1. CASE Driver
  BY <1>1 DEF Driver, BootReady, BootFail, Promote, ScanWait, GpuWaitTimeout, ServeIdle, Lookup,
     Dispatch, DispatchReject, Spawn, HandshakeOk, HandshakeFail, Start, EndAs, DriveServe,
     DriveProgress, DriveEnd, Settle, Persist, Reap, Drop, driverVars
<1>2. CASE Clients \/ Server \/ WorkerDies
  BY <1>2, HandlerFrame
<1> QED
  BY <1>1, <1>2 DEF Next

LEMMA LogInvStep == IInv /\ ChannelInv /\ HistoryInv /\ LogInv /\ [Next]_vars => LogInv'
<1> SUFFICES ASSUME IInv, ChannelInv, HistoryInv, LogInv, [Next]_vars PROVE LogInv'
  OBVIOUS
<1>types. TypeOK
  BY DEF IInv
<1>1. CASE UNCHANGED vars
  BY <1>1 DEF vars, bookVars, chanVars, driverVars, LogInv, Channels!Over
<1>2. CASE Next
  <2>stays. \A j \in Jobs : Channels!Over(history[j]) => Channels!Over(history'[j])
    BY <1>2, LogStep, OverStays
  <2>reg. \A j \in timers : j \in registry' => j \in registry
    <3>1. ASSUME NEW j \in Jobs, EnqRegister(j) PROVE j \notin timers
      BY <3>1 DEF EnqRegister, ChannelInv, IInv, RecordInv, Terminal
    <3>2. CASE ChannelSteps
      BY <3>1, <3>2 DEF ChannelSteps, EnqRegister, EnqPush, CancelPath, CancelPublish, EvictChannel, chanVars
    <3>3. CASE Settle
      BY <3>3 DEF Settle
    <3>4. CASE ~ChannelSteps /\ ~Settle
      BY <1>2, <1>types, <3>4, ChannelFrame
    <3> QED
      BY <3>2, <3>3, <3>4
  <2>1. ASSUME NEW j \in Jobs, state'[j] \in {"none", "queued", "removed"} PROVE history'[j] = <<>>
    <3>1. state[j] \in {"none", "queued", "removed"}
      BY <1>2, <2>1, WithdrawnFrame
    <3>2. history'[j] = history[j]
      BY <1>2, <3>1, LogsOfStarted
    <3> QED
      BY <3>1, <3>2 DEF LogInv
  <2>2. pc' = "settle" => Channels!Over(history'[cur'])
    <3>1. CASE Publish
      <4>1. cur \in Jobs /\ fin.ev \in Terminal /\ state[cur] = fin.ev /\ Open(history[cur])
        BY <1>types, <3>1 DEF Publish, IInv, DriverInv, Owning, TypeOK, Outcomes, HistoryInv
      <4>2. PublishOn(cur, fin.ev) /\ cur' = cur /\ UNCHANGED <<state, registry, timers>>
        BY <3>1 DEF Publish, bookVars
      <4>5. ASSUME NEW x \in Jobs, Remove(x) PROVE FALSE
        BY <1>types, <4>2, <4>5 DEF Remove, Active, Queued, TypeOK
      <4>6. ASSUME NEW x \in Jobs, EvictChannel(x) PROVE FALSE
        BY <4>2, <4>6 DEF EvictChannel
      <4>3. Withdrawn' = Withdrawn /\ Dropped' = Dropped
        BY <1>2, <1>types, <4>5, <4>6, WithdrawnFrame, DroppedFrame
      <4> QED
        BY <4>1, <4>2, <4>3, OutcomeIsLogged
    <3>2. CASE pc = "settle" /\ cur' = cur
      <4>1. cur \in Jobs /\ Channels!Over(history[cur])
        BY <3>2 DEF LogInv, IInv, DriverInv, Owning
      <4> QED
        BY <2>stays, <3>2, <4>1
    <3> QED
      BY <1>2, <3>1, <3>2, SettlesAfterPublish
  <2>3. ASSUME NEW j \in timers', j \in registry' PROVE Channels!Over(history'[j])
    <3>1. CASE j \in timers
      BY <1>types, <2>reg, <2>stays, <2>3, <3>1 DEF LogInv, TypeOK
    <3>2. CASE Settle /\ j = cur
      <4>1. history' = history /\ pc = "settle"
        BY <3>2 DEF Settle
      <4> QED
        BY <3>2, <4>1 DEF LogInv
    <3>3. CASE j \in Jobs /\ CancelPublish(j)
      <4>1. state[j] = "cancelled" /\ Open(history[j]) /\ registry' = registry
        BY <3>3 DEF CancelPublish, HistoryInv
      <4>2. PublishOn(j, "cancelled")
        BY <2>3, <3>3, <4>1 DEF CancelPublish
      <4>3. \A x \in Jobs : ~Remove(x) /\ ~EvictChannel(x)
        BY <1>types, <3>3 DEF CancelPublish, Remove, EvictChannel, Active, Queued, TypeOK, bookVars, chanVars
      <4>4. Withdrawn' = Withdrawn /\ Dropped' = Dropped
        BY <1>2, <1>types, <4>3, WithdrawnFrame, DroppedFrame
      <4>5. "cancelled" \in Terminal /\ j \in Jobs
        BY <3>3 DEF Terminal
      <4> QED
        BY <4>1, <4>2, <4>4, <4>5, OutcomeIsLogged
    <3>4. j \in timers \/ (Settle /\ j = cur) \/ (j \in Jobs /\ CancelPublish(j))
      <4>1. CASE ChannelSteps
        BY <2>3, <4>1 DEF ChannelSteps, EnqRegister, EnqPush, CancelPath, CancelPublish, EvictChannel, chanVars
      <4>2. CASE Settle
        BY <2>3, <4>2 DEF Settle
      <4>3. CASE ~ChannelSteps /\ ~Settle
        BY <1>2, <1>types, <2>3, <4>3, ChannelFrame
      <4> QED
        BY <4>1, <4>2, <4>3
    <3> QED
      BY <3>1, <3>2, <3>3, <3>4
  <2> QED
    BY <2>1, <2>2, <2>3 DEF LogInv
<1> QED
  BY <1>1, <1>2

\* What the channels of all jobs promise their subscribers, kept by handlers, driver and
\* timers together: one end and nothing behind it, no channel dropped before its end, and
\* nothing in the log of a job that was removed.
THEOREM ChannelsAreLogs == Spec => ImplementsJobLog
<1>1. Init => ChannelInv /\ LogInv /\ Channels!Init
  BY DEF Init, ChannelInv, LiveJobHasChannel, LogInv, Channels!Init
<1>2. IInv /\ ChannelInv /\ HistoryInv /\ LogInv /\ [Next]_vars => [Channels!Next]_(Channels!vars)
  <2> SUFFICES ASSUME IInv, ChannelInv, HistoryInv, LogInv, [Next]_vars
               PROVE  Channels!Next \/ UNCHANGED Channels!vars
    OBVIOUS
  <2>1. CASE UNCHANGED vars
    BY <2>1 DEF vars, bookVars, chanVars, Channels!vars
  <2> QED
    BY <2>1, LogStep
<1>3. Spec => Channels!Spec
  BY <1>1, <1>2, ChannelStep, LogInvStep, Invariance, HistoryInvariance, PTL DEF Spec, Channels!Spec
<1> QED
  BY <1>3 DEF ImplementsJobLog

----------------------------------------------------------------------------
(* What the end of a job leaves to be done.                                *)

\* The outcome in a record is followed by its event, ...
EventDue ==
  \A j \in Jobs : state[j] \in Terminal =>
    \/ Channels!Over(history[j]) \/ finish[j] = "publish" \/ (cur = j /\ pc = "publish")

\* ... by the timer that closes the channel, ...
EvictionDue ==
  \A j \in registry : state[j] \in Terminal =>
    j \in timers \/ finish[j] = "publish" \/ (cur = j /\ pc \in {"publish", "settle"})

\* ... and, unless the job failed, by the save: some thread has still to do each of them.
\* A save that fails leaves the job to the next one.
SaveDue ==
  \A j \in Jobs : saved /\ state[j] \in {"done", "cancelled"} =>
    \/ db[j] = state[j] \/ finish[j] \in {"publish", "save"}
    \/ cur = j /\ fin.save /\ pc \in {"publish", "settle", "save"}

\* The handler that owes the event of a queued cancel will find the channel.
EventInv == EventDue /\ \A j \in Jobs : finish[j] = "publish" => j \in registry

\* A save takes a job in only while it is in the book: only a remove takes it out.
Booked == \A j \in Jobs : state[j] \in {"queued", "running"} \cup Terminal => InBook(j)

\* What a thread has to do after the end of a job it does itself, and nothing else makes
\* it forget it.
LEMMA DutiesKept ==
  ASSUME IInv, Next, NEW j \in Jobs
  PROVE  /\ finish[j] = "publish" => finish'[j] = "publish" \/ CancelPath(j) \/ CancelPublish(j)
         /\ finish[j] = "save" => finish'[j] = "save" \/ CancelPath(j) \/ CancelSave(j)
         /\ pc \in {"publish", "settle", "save"} =>
              \/ UNCHANGED <<pc, cur, fin>>
              \/ UNCHANGED <<cur, fin>> /\ \/ Publish
                                           \/ Settle
                                           \/ Persist
<1>types. finish \in [Jobs -> {"no", "send", "publish", "save"}]
  BY DEF IInv, TypeOK
<1>1. CASE Driver
  <2>1. finish' = finish
    BY <1>1 DEF Driver, BootReady, BootFail, Promote, ScanWait, GpuWaitTimeout, ServeIdle, Lookup,
       Dispatch, DispatchReject, Spawn, HandshakeOk, HandshakeFail, Start, DriveServe,
       DriveProgress, DriveEnd, Publish, Settle, Persist, Reap, Drop, bookVars
  <2>2. pc \in {"publish", "settle", "save"} => Publish \/ Settle \/ Persist
    BY <1>1 DEF Driver, BootReady, BootFail, Promote, ScanWait, GpuWaitTimeout, ServeIdle, Lookup,
       Dispatch, DispatchReject, Spawn, HandshakeOk, HandshakeFail, Start, DriveServe,
       DriveProgress, DriveEnd, Reap, Drop
  <2>3. Publish \/ Settle \/ Persist => UNCHANGED <<cur, fin>>
    BY DEF Publish, Settle, Persist
  <2> QED
    BY <2>1, <2>2, <2>3
<1>2. CASE Clients \/ Server \/ WorkerDies
  <2>1. UNCHANGED <<pc, cur, fin>>
    BY <1>2 DEF Clients, Server, WorkerDies, EnqRegister, CancelPath, InterruptRead, Remove, Reorder,
       Acquire, SamSend, EnqPush, EnqWake, CancelSend, CancelPublish, CancelSave,
       InterruptSend, EvictChannel, SendEvict, Evicted, EvictGiveUp, ChildExit, Release,
       SamReturn, driverVars
  <2>2. ASSUME NEW x \in Jobs, x # j,
               CancelPath(x) \/ CancelSend(x) \/ CancelPublish(x) \/ CancelSave(x)
        PROVE  finish'[j] = finish[j]
    BY <1>types, <2>2 DEF CancelPath, CancelSend, CancelPublish, CancelSave
  <2>3. CASE ~CancelSteps
    <3>1. finish' = finish
      BY <1>2, <2>3 DEF CancelSteps, Clients, Server, WorkerDies, EnqRegister, InterruptRead,
         Remove, Reorder, Acquire, SamSend, EnqPush, EnqWake, InterruptSend, EvictChannel,
         SendEvict, Evicted, EvictGiveUp, ChildExit, Release, SamReturn, bookVars
    <3> QED
      BY <2>1, <3>1
  <2>4. CASE CancelPath(j) \/ CancelSend(j) \/ CancelPublish(j) \/ CancelSave(j)
    BY <2>1, <2>4 DEF CancelSend, CancelPublish, CancelSave
  <2> QED
    BY <2>1, <2>2, <2>3, <2>4 DEF CancelSteps
<1> QED
  BY <1>1, <1>2 DEF Next

\* A job ends by a cancel out of the queue, which leaves the rest to the handler, or by an
\* exit of the driver, which goes on to publish and, unless the job failed, to save.
LEMMA EndedBy ==
  ASSUME IInv, ChannelInv, Next, NEW j \in Jobs, state[j] \notin Terminal, state'[j] \in Terminal
  PROVE  /\ state[j] \in {"queued", "running"}
         /\ \/ finish'[j] = "publish"
            \/ cur' = j /\ pc' = "publish" /\ (state'[j] # "failed" => fin'.save)
<1>types. /\ state \in [Jobs -> States] /\ finish \in [Jobs -> {"no", "send", "publish", "save"}]
          /\ cur \in Jobs \cup {NoJob}
  BY DEF IInv, TypeOK
<1> USE DEF Terminal
<1>1. ASSUME NEW x \in Jobs, CancelPath(x)
      PROVE  state[j] \in {"queued", "running"} /\ finish'[j] = "publish"
  BY <1>types, <1>1 DEF CancelPath
<1>2. CASE Lookup \/ DispatchReject \/ HandshakeFail \/ Start \/ DriveEnd
  <2>1. cur \in Jobs /\ state[cur] = "running" /\ cur \in registry
    BY <1>types, <1>2 DEF IInv, DriverInv, AtMostOneRunning, ChannelInv, LiveJobHasChannel, Owning,
       Working, Lookup, DispatchReject, HandshakeFail, Start, DriveEnd
  <2>2. j = cur /\ cur' = cur /\ pc' = "publish" /\ (state'[j] # "failed" => fin'.save)
    <3>1. CASE Lookup
      BY <2>1, <3>1 DEF Lookup
    <3>2. CASE DispatchReject
      BY <1>types, <3>2 DEF DispatchReject, EndAs
    <3>3. CASE HandshakeFail
      BY <1>types, <3>3 DEF HandshakeFail, EndAs
    <3>4. CASE Start
      BY <1>types, <3>4 DEF Start, EndAs
    <3>5. CASE DriveEnd
      <4>1. j = cur
        BY <1>types, <3>5 DEF DriveEnd, EndAs
      <4>2. PICK ev \in Terminal, lost \in BOOLEAN : EndAs(ev, lost, TRUE)
        BY <3>5 DEF DriveEnd
      <4> QED
        BY <3>5, <4>1, <4>2 DEF DriveEnd, EndAs
    <3> QED
      BY <1>2, <3>1, <3>2, <3>3, <3>4, <3>5
  <2> QED
    BY <2>1, <2>2
<1>3. ASSUME NEW x \in Jobs, Promote(x) \/ EnqPush(x) \/ Remove(x) PROVE FALSE
  BY <1>types, <1>3 DEF Promote, EnqPush, Remove
<1>4. ASSUME Drop \/ state' = state PROVE FALSE
  BY <1>4 DEF Drop, bookVars
<1>5. ASSUME NEW x \in Jobs, EnqRegister(x) \/ EnqWake(x) PROVE FALSE
  BY <1>5 DEF EnqRegister, EnqWake
<1> QED
  BY <1>1, <1>2, <1>3, <1>4, <1>5, RecordFrame, WriterFrame DEF Next, Driver, Writers, IInv

\* The handler of a queued cancel finds the channel: no timer runs before the end is logged.
LEMMA CancelFindsChannel ==
  ASSUME IInv, ChannelInv, HistoryInv, LogInv, [Next]_vars, NEW j \in Jobs,
         finish[j] = "publish" => j \in registry,
         finish'[j] = "publish"
  PROVE  j \in registry'
<1>types. /\ registry \subseteq Jobs /\ finish \in [Jobs -> {"no", "send", "publish", "save"}]
          /\ history \in [Jobs -> Seq({"progress"} \cup Terminal)]
  BY DEF IInv, TypeOK
<1>1. ASSUME NEW x \in Jobs, CancelPath(x) PROVE j \in registry'
  BY <1>types, <1>1 DEF CancelPath, chanVars, ChannelInv, LiveJobHasChannel
<1>2. ASSUME NEW x \in Jobs, EvictChannel(x) PROVE j \in registry'
  <2>1. finish[j] = "publish" /\ j \in registry /\ ~Channels!Over(history[j])
    BY <1>types, <1>2, OpenNotOver DEF EvictChannel, bookVars, HistoryInv
  <2>2. x # j
    BY <1>2, <2>1 DEF EvictChannel, LogInv
  <2> QED
    BY <1>2, <2>1, <2>2 DEF EvictChannel
<1>3. ASSUME NEW x \in Jobs, EnqRegister(x) \/ EnqPush(x) \/ CancelPublish(x) PROVE j \in registry'
  BY <1>types, <1>3 DEF EnqRegister, EnqPush, CancelPublish, chanVars
<1>4. CASE Settle
  BY <1>4 DEF Settle, bookVars
<1>5. CASE Next /\ ~ChannelSteps /\ ~Settle
  BY <1>5, ChannelFrame DEF IInv
<1>6. CASE UNCHANGED vars
  BY <1>6 DEF vars, bookVars, chanVars
<1> QED
  BY <1>1, <1>2, <1>3, <1>4, <1>5, <1>6 DEF ChannelSteps

\* An outcome is announced by the thread that wrote it: the driver by Publish, a handler
\* by CancelPublish.
LEMMA EventDueStep ==
  IInv /\ ChannelInv /\ HistoryInv /\ LogInv /\ EventInv /\ [Next]_vars => EventInv'
<1> SUFFICES ASSUME IInv, ChannelInv, HistoryInv, LogInv, EventInv, [Next]_vars,
                    NEW j \in Jobs, state'[j] \in Terminal
             PROVE  \/ Channels!Over(history'[j]) \/ finish'[j] = "publish"
                    \/ cur' = j /\ pc' = "publish"
  BY CancelFindsChannel DEF EventInv, EventDue
<1>types. /\ history \in [Jobs -> Seq({"progress"} \cup Terminal)] /\ registry \subseteq Jobs
          /\ state \in [Jobs -> States]
  BY DEF IInv, TypeOK
<1>1. CASE UNCHANGED vars
  BY <1>1 DEF vars, bookVars, chanVars, driverVars, EventInv, EventDue, Channels!Over
<1>2. CASE Next /\ state[j] \notin Terminal
  BY <1>2, EndedBy
<1>3. CASE Next /\ state[j] \in Terminal
  <2>1. CASE Channels!Over(history[j])
    BY <1>3, <2>1, LogStep, OverStays
  <2>2. CASE finish[j] = "publish" /\ ~Channels!Over(history[j])
    <3>1. ~CancelPath(j)
      BY <1>3 DEF CancelPath, Terminal
    <3>2. CASE CancelPublish(j)
      <4>1. Open(history[j]) /\ state[j] = "cancelled"
        BY <2>2 DEF HistoryInv
      <4>2. j \in registry
        BY <2>2 DEF EventInv
      <4>3. Channels!Over(Append(history[j], "cancelled"))
        BY <1>types, OpenNotOver DEF Terminal
      <4>4. Published(history[j], "cancelled") = Append(history[j], "cancelled")
        BY <1>types, OpenNotOver DEF Terminal
      <4>5. history'[j] = Append(history[j], "cancelled")
        BY <1>types, <3>2, <4>2, <4>4 DEF CancelPublish, PublishOn
      <4> QED
        BY <4>3, <4>5 DEF Channels!Over
    <3> QED
      BY <1>3, <2>2, <3>1, <3>2, DutiesKept
  <2>3. CASE cur = j /\ pc = "publish"
    <3>1. CASE Publish
      BY <1>types, <1>3, <2>3, <3>1, LogInvStep DEF LogInv, Publish
    <3>2. ~Settle /\ ~Persist
      BY <2>3 DEF Settle, Persist
    <3> QED
      BY <1>3, <2>3, <3>1, <3>2, DutiesKept
  <2> QED
    BY <1>3, <2>1, <2>2, <2>3 DEF EventInv, EventDue
<1> QED
  BY <1>1, <1>2, <1>3 DEF vars

\* No job ends silently: the outcome of every record is in the log of its channel, or the
\* thread that wrote it is still to publish it (the safety half of what ws_progress waits for).
THEOREM NoSilentEnd == Spec => []EventDue
<1>1. Init => ChannelInv /\ LogInv /\ EventInv
  BY DEF Init, ChannelInv, LiveJobHasChannel, LogInv, EventInv, EventDue, Terminal
<1>2. EventInv => EventDue
  BY DEF EventInv
<1> QED
  BY <1>1, <1>2, ChannelStep, LogInvStep, EventDueStep, Invariance, HistoryInvariance, PTL DEF Spec

\* The timer of an ended job runs until it drops the channel, which is not registered again.
LEMMA TimerStays ==
  ASSUME IInv, Next, NEW j \in registry', state[j] \in Terminal
  PROVE  j \in registry /\ (j \in timers => j \in timers')
<1>1. ASSUME NEW x \in Jobs, EnqRegister(x) PROVE j \in registry /\ timers' = timers
  BY <1>1 DEF EnqRegister, IInv, RecordInv, Terminal
<1>2. ASSUME NEW x \in Jobs, EnqPush(x) \/ CancelPath(x) \/ CancelPublish(x) \/ EvictChannel(x)
      PROVE  j \in registry /\ (j \in timers => j \in timers')
  BY <1>2 DEF EnqPush, CancelPath, CancelPublish, EvictChannel, chanVars
<1>3. CASE Settle
  BY <1>3 DEF Settle
<1>4. CASE ~ChannelSteps /\ ~Settle
  BY <1>4, ChannelFrame DEF IInv
<1> QED
  BY <1>1, <1>2, <1>3, <1>4 DEF ChannelSteps

\* Whoever ends a job starts the timer of its channel, the driver in Settle, a handler in
\* CancelPublish.
LEMMA EvictionDueStep == IInv /\ ChannelInv /\ EvictionDue /\ [Next]_vars => EvictionDue'
<1> SUFFICES ASSUME IInv, ChannelInv, EvictionDue, [Next]_vars, NEW j \in registry', state'[j] \in Terminal
             PROVE  j \in timers' \/ finish'[j] = "publish" \/ (cur' = j /\ pc' \in {"publish", "settle"})
  BY DEF EvictionDue
<1>1. CASE UNCHANGED vars
  BY <1>1 DEF vars, bookVars, chanVars, driverVars, EvictionDue
<1>2. CASE Next
  <2>types. j \in Jobs
    BY <1>2, IInvNext DEF IInv, TypeOK
  <2>1. CASE state[j] \notin Terminal
    BY <1>2, <2>types, <2>1, EndedBy
  <2>2. CASE state[j] \in Terminal
    <3>1. j \in registry /\ (j \in timers => j \in timers')
      BY <1>2, <2>2, TimerStays
    <3>2. ~CancelPath(j)
      BY <2>2 DEF CancelPath, Terminal
    <3>3. CancelPublish(j) => j \in timers'
      BY DEF CancelPublish
    <3>4. CASE finish[j] = "publish"
      BY <1>2, <2>types, <3>2, <3>3, <3>4, DutiesKept
    <3>5. CASE cur = j /\ pc \in {"publish", "settle"}
      <4>1. /\ Publish => pc' = "settle"
            /\ Settle => j \in timers'
            /\ ~Persist
        BY <3>5 DEF Publish, Settle, Persist
      <4> QED
        BY <1>2, <2>types, <3>5, <4>1, DutiesKept
    <3> QED
      BY <2>2, <3>1, <3>4, <3>5 DEF EvictionDue
  <2> QED
    BY <2>1, <2>2
<1> QED
  BY <1>1, <1>2

\* schedule_evict: no ended job's channel is forgotten. The channel has its timer, or the
\* thread that ended the job is still to start it (the safety half of ChannelsAreEvicted).
THEOREM NoChannelForgotten == Spec => []EvictionDue
<1>1. Init => ChannelInv /\ EvictionDue
  BY DEF Init, ChannelInv, LiveJobHasChannel, EvictionDue, Terminal
<1> QED
  BY <1>1, ChannelStep, EvictionDueStep, Invariance, PTL DEF Spec

\* Entries leave the book by a remove only, so every other job is there for a save.
LEMMA BookedStep == IInv /\ ChannelInv /\ Booked /\ [Next]_vars => Booked'
<1> SUFFICES ASSUME IInv, ChannelInv, Booked, [Next]_vars, NEW j \in Jobs,
                    state'[j] \in {"queued", "running"} \cup Terminal
             PROVE  InBook(j)'
  BY DEF Booked
<1>1. CASE UNCHANGED vars
  BY <1>1 DEF vars, bookVars, Booked, InBook
<1>2. CASE Next /\ state[j] \in {"queued", "running"} \cup Terminal
  BY <1>2, BookKeeps DEF Booked, Terminal
<1>3. CASE Next /\ state[j] \notin {"queued", "running"} \cup Terminal
  <2>1. state'[j] \notin Terminal
    BY <1>3, EndedBy
  <2>2. state'[j] = "queued"
    <3>1. ASSUME NEW x \in Jobs, EnqPush(x), state'[j] = "running" PROVE FALSE
      BY <1>3, <3>1 DEF EnqPush, IInv, TypeOK
    <3> QED
      BY <1>3, <2>1, <3>1, Arrivals
  <2> QED
    BY <1>3, <2>2, QueuedSince
<1> QED
  BY <1>1, <1>2, <1>3 DEF vars

\* Whoever ends a job as "done" or "cancelled" saves it, and any good save from then on does.
LEMMA SaveDueStep == IInv /\ ChannelInv /\ Booked /\ SaveDue /\ [Next]_vars => SaveDue'
<1> SUFFICES ASSUME IInv, ChannelInv, Booked, SaveDue, [Next]_vars,
                    NEW j \in Jobs, saved', state'[j] \in {"done", "cancelled"}
             PROVE  \/ db'[j] = state'[j] \/ finish'[j] \in {"publish", "save"}
                    \/ cur' = j /\ fin'.save /\ pc' \in {"publish", "settle", "save"}
  BY DEF SaveDue
<1>1. CASE UNCHANGED vars
  BY <1>1 DEF vars, bookVars, driverVars, SaveDue
<1>2. CASE Next /\ state[j] \notin Terminal
  BY <1>2, EndedBy DEF Terminal
<1>3. CASE Next /\ state[j] \in Terminal
  <2>1. state'[j] = state[j]
    BY <1>3, TerminalStays
  <2>2. SaveJobs => db'[j] = state'[j]
    BY <1>3, <2>1 DEF SaveJobs, Saved, Booked, Terminal
  <2>3. /\ CancelSave(j) \/ Persist => SaveJobs
        /\ ~SaveJobs => db' = db /\ saved
    BY <1>3, TableFrame DEF CancelSave, Persist
  <2>4. CASE db[j] = state[j]
    BY <2>1, <2>2, <2>3, <2>4
  <2>5. CASE finish[j] \in {"publish", "save"}
    <3>1. ~CancelPath(j)
      BY <1>3 DEF CancelPath, Terminal
    <3>2. CancelPublish(j) => finish'[j] = "save"
      BY DEF CancelPublish, IInv, TypeOK
    <3> QED
      BY <1>3, <2>2, <2>3, <2>5, <3>1, <3>2, DutiesKept
  <2>6. CASE cur = j /\ fin.save /\ pc \in {"publish", "settle", "save"}
    <3>1. /\ Publish => pc' = "settle"
          /\ Settle => pc' = "save"
      BY <2>6 DEF Publish, Settle
    <3> QED
      BY <1>3, <2>2, <2>3, <2>6, <3>1, DutiesKept
  <2> QED
    BY <2>1, <2>2, <2>3, <2>4, <2>5, <2>6 DEF SaveDue
<1> QED
  BY <1>1, <1>2, <1>3 DEF vars

\* save_jobs_db: no outcome other than a failure is forgotten. Unless the last save failed,
\* the row says it, or the thread that ended the job is still to save, whatever other saves,
\* good or failed, removes and reorders come in between (the safety half of
\* OutcomesArePersisted).
THEOREM NoOutcomeForgotten == Spec => []SaveDue
<1>1. Init => ChannelInv /\ Booked /\ SaveDue
  BY DEF Init, ChannelInv, LiveJobHasChannel, Booked, SaveDue, Terminal
<1> QED
  BY <1>1, ChannelStep, BookedStep, SaveDueStep, Invariance, PTL DEF Spec

\* save_jobs_db rewrites the whole table, from either thread, and may fail: a write that
\* leaves any row holds every outcome there is. An outcome that an earlier save wrote is in
\* it, because no save finds the job gone or changed, and so is one whose own save failed.
THEOREM SavesHoldEveryOutcome == Spec => SavesAreWhole
<1>1. Init => ChannelInv /\ Booked
  BY DEF Init, ChannelInv, LiveJobHasChannel, Booked, Terminal
<1>2. Booked /\ PersistedTruth /\ [Next]_vars
        => [\/ db' = NoRows
            \/ \A j \in Jobs : /\ state[j] \in Terminal => db'[j] = state[j]
                               /\ db[j] \in Terminal => db'[j] = db[j]]_db
  <2> SUFFICES ASSUME Booked, PersistedTruth, Next, db' # db, db' # NoRows,
                      NEW j \in Jobs
               PROVE  /\ state[j] \in Terminal => db'[j] = state[j]
                      /\ db[j] \in Terminal => db'[j] = db[j]
    BY DEF vars
  <2>1. db' = Saved(state)
    BY TableFrame DEF SaveJobs
  <2>2. state[j] \in Terminal => db'[j] = state[j]
    BY <2>1 DEF Booked, Saved, Terminal
  <2> QED
    BY <2>2 DEF PersistedTruth
<1> QED
  BY <1>1, <1>2, ChannelStep, BookedStep, Invariance, TableTrue, PTL DEF Spec, SavesAreWhole

----------------------------------------------------------------------------
(* The drive as the call that WorkerPipe implements.                       *)

\* The driver's side of module Drive, for the job it is driving.
Call == INSTANCE Drive WITH MaxJobs <- 1, job <- cur, busy <- pc = "drive", asked <- forwarded,
                            twoPass <- cur \in HiresJobs, held <- handle # NoKey, outcome <- state

\* drive_one_job, drive_hires_two_pass: the control plane reckons with exactly the endings
\* that the drive may have (WorkerPipe_proofs!DrivesAsPromised says that it has no other),
\* writes the outcome it returned, reaps the worker it lost, and saves after each of them.
THEOREM DriveReturnsAsPromised ==
  DriveEnd <=> /\ pc = "drive"
               /\ \E e \in Call!Endings : EndAs(e.ev, e.lost, TRUE)
               /\ UNCHANGED <<book, cancelReq, enq, finish, pressed, chanVars, ctl, cur,
                              forwarded, inFlight, workerVars, lease, reqVars, db, saved>>
<1>1. ASSUME NEW e \in Call!Endings
      PROVE  \/ e = [ev |-> "done", lost |-> FALSE]
             \/ e = [ev |-> "failed", lost |-> TRUE]
             \/ forwarded /\ e = [ev |-> "cancelled", lost |-> FALSE]
             \/ cur \in HiresJobs /\ e = [ev |-> "failed", lost |-> FALSE]
  BY DEF Call!Endings
<1>2. /\ [ev |-> "done", lost |-> FALSE] \in Call!Endings
      /\ [ev |-> "failed", lost |-> TRUE] \in Call!Endings
      /\ forwarded => [ev |-> "cancelled", lost |-> FALSE] \in Call!Endings
      /\ cur \in HiresJobs => [ev |-> "failed", lost |-> FALSE] \in Call!Endings
  BY DEF Call!Endings
<1>3. (\E e \in Call!Endings : EndAs(e.ev, e.lost, TRUE))
        <=> \/ EndAs("done", FALSE, TRUE)
            \/ EndAs("failed", TRUE, TRUE)
            \/ forwarded /\ EndAs("cancelled", FALSE, TRUE)
            \/ cur \in HiresJobs /\ EndAs("failed", FALSE, TRUE)
  <2> DEFINE Ended(e) == EndAs(e.ev, e.lost, TRUE)
  <2>1. /\ Ended([ev |-> "done", lost |-> FALSE]) <=> EndAs("done", FALSE, TRUE)
        /\ Ended([ev |-> "failed", lost |-> TRUE]) <=> EndAs("failed", TRUE, TRUE)
        /\ Ended([ev |-> "cancelled", lost |-> FALSE]) <=> EndAs("cancelled", FALSE, TRUE)
        /\ Ended([ev |-> "failed", lost |-> FALSE]) <=> EndAs("failed", FALSE, TRUE)
    BY DEF EndAs
  <2>2. (\E e \in Call!Endings : Ended(e))
          <=> \/ Ended([ev |-> "done", lost |-> FALSE])
              \/ Ended([ev |-> "failed", lost |-> TRUE])
              \/ forwarded /\ Ended([ev |-> "cancelled", lost |-> FALSE])
              \/ cur \in HiresJobs /\ Ended([ev |-> "failed", lost |-> FALSE])
    <3> HIDE DEF Ended
    <3> QED
      BY <1>1, <1>2, Zenon
  <2> QED
    BY <2>1, <2>2
<1> QED
  BY <1>3 DEF DriveEnd
====
