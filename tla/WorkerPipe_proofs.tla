-------------------------- MODULE WorkerPipe_proofs --------------------------
(***************************************************************************)
(* Proofs about the socket between the driver and its worker, for any      *)
(* kinds of backend and any bounds.                                        *)
(*                                                                         *)
(* The lines the loop of the worker will read, in the order in which it    *)
(* will read them, are those of its LineReader and then those of the       *)
(* socket. The invariant says what they can be: leftovers of earlier runs, *)
(* then the start of the current run, then what was written for it; once   *)
(* the start is read nothing else is left. So the three states of a drive  *)
(* (the start is on its way, the worker runs, its last event is on its     *)
(* way) are told apart by what the two queues hold.                        *)
(*                                                                         *)
(* From it follow that no line crosses from one run to another, that nobody*)
(* waits for nothing, and that driver, worker and socket implement Drive,  *)
(* the call that JobServer takes a drive to be.                            *)
(***************************************************************************)
EXTENDS WorkerPipe, TLAPS

Lines   == rbuf \o toWorker
Asked   == sent[1] + sent[2] > 0
Working == {"loop"} \cup Blocking
Ends    == {"done", "failed", "cancelled"}

\* Lines that start nothing.
NoStart(q) == \A i \in 1 .. Len(q) : q[i].cmd # "start"

\* Lines written for the run t after its start; a cancel among them was asked for.
Own(q, t, asked) == \A i \in 1 .. Len(q) : /\ q[i].cmd # "start" /\ q[i].tag = t
                                           /\ (q[i].cmd = "cancel" => asked)

\* Leftovers, the start of the run t, and lines written for it.
Pending(q, t, asked) ==
  \E k \in 1 .. Len(q) :
    /\ q[k].cmd = "start" /\ q[k].tag = t
    /\ \A i \in 1 .. k - 1 : q[i].cmd # "start"
    /\ \A i \in k + 1 .. Len(q) : /\ q[i].cmd # "start" /\ q[i].tag = t
                                  /\ (q[i].cmd = "cancel" => asked)

\* Events of the run t: what ends it comes last.
Told(e, t, asked) ==
  \A i \in 1 .. Len(e) : /\ e[i].tag = t /\ (e[i].ev = "cancelled" => asked)
                         /\ (e[i].ev \in Ends => i = Len(e))
Ended(e) == e # <<>> /\ e[Len(e)].ev \in Ends

\* The drive of a run.
Driving ==
  /\ Told(toServer, run, Asked)
  /\ \/ wst = "dead"
     \/ wst = "idle" /\ toServer = <<>> /\ Pending(Lines, run, Asked)
     \/ wst = "idle" /\ Ended(toServer) /\ NoStart(Lines)
     \/ wst \in Working /\ wrun = run /\ ~Ended(toServer) /\ Own(Lines, run, Asked)

\* Between two drives.
Resting == toServer = <<>> /\ wst \in {"idle", "dead"} /\ NoStart(Lines)

PInv ==
  /\ TypeOK
  /\ wst = "dead" => rbuf = <<>> /\ toWorker = <<>>
  /\ ~held => drv = "free" /\ wst = "dead"
  /\ drv # "free" => run \in Runs
  /\ drv = "upscale" => run[2] = 1
  /\ wst \in Working => ~flag
  /\ IF drv = "driving" THEN Driving ELSE Resting

----------------------------------------------------------------------------
(* Queues of lines and of events.                                          *)

\* p is q without its first element, or q with one more at its end.
Shifted(p, q)  == Len(q) \in Nat \ {0} /\ Len(p) = Len(q) - 1 /\ \A i \in 1 .. Len(p) : p[i] = q[i + 1]
Grown(p, q, x) == Len(q) \in Nat /\ Len(p) = Len(q) + 1 /\ p[Len(p)] = x
                  /\ \A i \in 1 .. Len(q) : p[i] = q[i]

LEMMA AppendGrows ==
  ASSUME NEW S, NEW q \in Seq(S), NEW x
  PROVE  Grown(Append(q, x), q, x)
BY DEF Grown

LEMMA TailShifts ==
  ASSUME NEW S, NEW q \in Seq(S), q # <<>>
  PROVE  Shifted(Tail(q), q) /\ Head(q) = q[1]
BY DEF Shifted

\* What is written to the socket comes last.
LEMMA WrittenLast ==
  ASSUME NEW S, NEW b \in Seq(S), NEW w \in Seq(S), NEW x \in S
  PROVE  Grown(b \o Append(w, x), b \o w, x)
<1>1. Append(w, x) \in Seq(S) /\ Len(Append(w, x)) = Len(w) + 1
      /\ \A i \in 1 .. Len(w) : Append(w, x)[i] = w[i]
      /\ Append(w, x)[Len(w) + 1] = x
  OBVIOUS
<1>2. Len(b) \in Nat /\ Len(w) \in Nat /\ Len(b \o w) = Len(b) + Len(w)
      /\ Len(b \o Append(w, x)) = Len(b) + Len(w) + 1
  BY <1>1
<1>3. \A i \in 1 .. Len(b) + Len(w) : (b \o w)[i] = IF i <= Len(b) THEN b[i] ELSE w[i - Len(b)]
  OBVIOUS
<1>4. \A i \in 1 .. Len(b) + Len(w) + 1 :
        (b \o Append(w, x))[i] = IF i <= Len(b) THEN b[i] ELSE Append(w, x)[i - Len(b)]
  BY <1>1
<1>5. \A i \in 1 .. Len(b) + Len(w) : i <= Len(b) \/ i - Len(b) \in 1 .. Len(w)
  BY <1>2
<1>6. \A i \in 1 .. Len(b) + Len(w) : (b \o Append(w, x))[i] = (b \o w)[i]
  BY <1>1, <1>2, <1>3, <1>4, <1>5
<1>7. (b \o Append(w, x))[Len(b) + Len(w) + 1] = x
  BY <1>1, <1>2, <1>4
<1> QED
  BY <1>2, <1>6, <1>7 DEF Grown

\* The worker takes the first line, from its reader or from the socket.
LEMMA TakesFirst ==
  ASSUME rbuf \in Seq(Cmds), toWorker \in Seq(Cmds), TakeLine
  PROVE  /\ rbuf' \in Seq(Cmds) /\ toWorker' \in Seq(Cmds)
         /\ Shifted(Lines', Lines) /\ Head(Buffered) = Lines[1] /\ Lines \in Seq(Cmds)
<1>1. CASE rbuf # <<>>
  <2>1. rbuf' = Tail(rbuf) /\ toWorker' = toWorker /\ Buffered = rbuf
    BY <1>1 DEF TakeLine, Buffered
  <2>2. Shifted(Tail(rbuf), rbuf) /\ Head(rbuf) = rbuf[1] /\ Tail(rbuf) \in Seq(Cmds)
    BY <1>1, TailShifts
  <2>3. /\ Len(Tail(rbuf) \o toWorker) = Len(rbuf \o toWorker) - 1 /\ Len(rbuf \o toWorker) \in Nat \ {0}
        /\ (rbuf \o toWorker)[1] = rbuf[1]
    BY <2>2 DEF Shifted
  <2>4. ASSUME NEW i \in 1 .. Len(Tail(rbuf) \o toWorker)
        PROVE  (Tail(rbuf) \o toWorker)[i] = (rbuf \o toWorker)[i + 1]
    BY <2>2 DEF Shifted
  <2>5. Shifted(Tail(rbuf) \o toWorker, rbuf \o toWorker)
    BY <2>3, <2>4 DEF Shifted
  <2> QED
    BY <2>1, <2>2, <2>3, <2>5 DEF Lines
<1>2. CASE rbuf = <<>>
  <2>1. rbuf' = Tail(toWorker) /\ toWorker' = <<>> /\ Buffered = toWorker /\ toWorker # <<>>
    BY <1>2 DEF TakeLine, Buffered
  <2>2. Shifted(Tail(toWorker), toWorker) /\ Head(toWorker) = toWorker[1] /\ Tail(toWorker) \in Seq(Cmds)
    BY <2>1, TailShifts
  <2>3. rbuf \o toWorker = toWorker /\ Tail(toWorker) \o <<>> = Tail(toWorker)
    BY <1>2, <2>2
  <2> QED
    BY <2>1, <2>2, <2>3 DEF Lines
<1> QED
  BY <1>1, <1>2

LEMMA OwnGrows ==
  ASSUME NEW q, NEW p, NEW x, NEW t, NEW a, NEW b, Own(q, t, a), Grown(p, q, x), a => b,
         x.cmd # "start", x.tag = t, x.cmd = "cancel" => b
  PROVE  Own(p, t, b)
BY DEF Own, Grown

LEMMA OwnShrinks ==
  ASSUME NEW q, NEW p, NEW t, NEW a, Own(q, t, a), Shifted(p, q)
  PROVE  Own(p, t, a) /\ (q[1].cmd = "cancel" => a)
BY DEF Own, Shifted

LEMMA OwnStartsNothing ==
  ASSUME NEW q, NEW t, NEW a, Own(q, t, a)
  PROVE  NoStart(q)
BY DEF Own, NoStart

LEMMA NoStartGrows ==
  ASSUME NEW q, NEW p, NEW x, NoStart(q), Grown(p, q, x)
  PROVE  /\ x.cmd # "start" => NoStart(p)
         /\ \A t, a : x.cmd = "start" /\ x.tag = t => Pending(p, t, a)
<1>1. x.cmd # "start" => NoStart(p)
  BY DEF NoStart, Grown
<1>2. ASSUME NEW t, NEW a, x.cmd = "start", x.tag = t PROVE Pending(p, t, a)
  <2>1. Len(p) \in 1 .. Len(p) /\ p[Len(p)] = x /\ \A i \in 1 .. Len(p) - 1 : p[i].cmd # "start"
    BY DEF NoStart, Grown
  <2>2. ~\E i : i \in Len(p) + 1 .. Len(p)
    BY DEF Grown
  <2> QED
    BY <1>2, <2>1, <2>2 DEF Pending
<1> QED
  BY <1>1, <1>2

LEMMA NoStartShrinks ==
  ASSUME NEW q, NEW p, NoStart(q), Shifted(p, q)
  PROVE  NoStart(p) /\ q[1].cmd # "start"
BY DEF NoStart, Shifted

LEMMA PendingGrows ==
  ASSUME NEW q, NEW p, NEW x, NEW t, NEW a, NEW b, Pending(q, t, a), Grown(p, q, x), a => b,
         x.cmd # "start", x.tag = t, x.cmd = "cancel" => b
  PROVE  Pending(p, t, b)
<1>1. PICK k \in 1 .. Len(q) :
        /\ q[k].cmd = "start" /\ q[k].tag = t
        /\ \A i \in 1 .. k - 1 : q[i].cmd # "start"
        /\ \A i \in k + 1 .. Len(q) : /\ q[i].cmd # "start" /\ q[i].tag = t
                                      /\ (q[i].cmd = "cancel" => a)
  BY DEF Pending
<1>2. k \in 1 .. Len(p) /\ p[k] = q[k] /\ \A i \in 1 .. k - 1 : p[i] = q[i]
  BY DEF Grown
<1>3. \A i \in k + 1 .. Len(p) : (i \in k + 1 .. Len(q) /\ p[i] = q[i]) \/ p[i] = x
  BY DEF Grown
<1> QED
  BY <1>1, <1>2, <1>3 DEF Pending

\* The first line is the start, and the others are the run's own; or the start is still to come.
LEMMA PendingShrinks ==
  ASSUME NEW q, NEW p, NEW t, NEW a, Pending(q, t, a), Shifted(p, q)
  PROVE  /\ q[1].cmd = "start" => q[1].tag = t /\ Own(p, t, a)
         /\ q[1].cmd # "start" => Pending(p, t, a)
<1>1. PICK k \in 1 .. Len(q) :
        /\ q[k].cmd = "start" /\ q[k].tag = t
        /\ \A i \in 1 .. k - 1 : q[i].cmd # "start"
        /\ \A i \in k + 1 .. Len(q) : /\ q[i].cmd # "start" /\ q[i].tag = t
                                      /\ (q[i].cmd = "cancel" => a)
  BY DEF Pending
<1>2. ASSUME q[1].cmd = "start" PROVE q[1].tag = t /\ Own(p, t, a)
  <2>1. k = 1
    BY <1>1, <1>2 DEF Shifted
  <2>2. \A i \in 1 .. Len(p) : i + 1 \in k + 1 .. Len(q) /\ p[i] = q[i + 1]
    BY <2>1 DEF Shifted
  <2> QED
    BY <1>1, <2>1, <2>2 DEF Own
<1>3. ASSUME q[1].cmd # "start" PROVE Pending(p, t, a)
  <2>1. k # 1 /\ k - 1 \in 1 .. Len(p) /\ p[k - 1] = q[k]
    BY <1>1, <1>3 DEF Shifted
  <2>2. \A i \in 1 .. (k - 1) - 1 : i + 1 \in 1 .. k - 1 /\ p[i] = q[i + 1]
    BY <2>1 DEF Shifted
  <2>3. \A i \in (k - 1) + 1 .. Len(p) : i + 1 \in k + 1 .. Len(q) /\ p[i] = q[i + 1]
    BY <2>1 DEF Shifted
  <2> QED
    BY <1>1, <2>1, <2>2, <2>3 DEF Pending
<1> QED
  BY <1>2, <1>3

\* An event more, when nothing has ended the run yet.
LEMMA ToldGrows ==
  ASSUME NEW e, NEW f, NEW x, NEW t, NEW a, Told(e, t, a), Grown(f, e, x), ~Ended(e), e = <<>> <=> Len(e) = 0,
         x.tag = t, x.ev = "cancelled" => a
  PROVE  Told(f, t, a)
<1>1. \A i \in 1 .. Len(e) : e[i].ev \notin Ends
  BY DEF Told, Ended, Grown
<1>2. \A i \in 1 .. Len(f) : (i \in 1 .. Len(e) /\ f[i] = e[i]) \/ (i = Len(f) /\ f[i] = x)
  BY DEF Grown
<1> QED
  BY <1>1, <1>2 DEF Told

LEMMA ToldShrinks ==
  ASSUME NEW e, NEW f, NEW t, NEW a, Told(e, t, a), Shifted(f, e)
  PROVE  /\ Told(f, t, a) /\ (e[1].ev \in Ends => Len(f) = 0)
         /\ (e[1].ev = "cancelled" => a)
<1>1. \A i \in 1 .. Len(f) : i + 1 \in 1 .. Len(e) /\ f[i] = e[i + 1] /\ (i + 1 = Len(e) => i = Len(f))
  BY DEF Shifted
<1>2. Told(f, t, a)
  BY <1>1 DEF Told
<1>3. 1 \in 1 .. Len(e) /\ (Len(e) = 1 => Len(f) = 0)
  BY DEF Shifted
<1> QED
  BY <1>2, <1>3 DEF Told

LEMMA ToldLonger ==
  ASSUME NEW e, NEW t, NEW a, NEW b, Told(e, t, a), a => b
  PROVE  Told(e, t, b)
BY DEF Told

LEMMA EndedGrows ==
  ASSUME NEW e \in Seq(Events), NEW x \in Events
  PROVE  /\ Ended(Append(e, x)) <=> x.ev \in Ends
         /\ e = <<>> <=> Len(e) = 0
<1>1. Append(e, x) # <<>> /\ Append(e, x)[Len(Append(e, x))] = x
  OBVIOUS
<1> QED
  BY <1>1 DEF Ended

LEMMA EndedShrinks ==
  ASSUME NEW e \in Seq(Events), e # <<>>, e[1].ev \notin Ends
  PROVE  Ended(Tail(e)) <=> Ended(e)
<1>1. Len(e) \in Nat \ {0} /\ Len(Tail(e)) = Len(e) - 1 /\ Tail(e) \in Seq(Events)
  OBVIOUS
<1>2. CASE Len(e) = 1
  <2>1. Tail(e) = <<>>
    <3>1. Len(Tail(e)) = 0 /\ Tail(e) \in Seq(Events)
      BY <1>1, <1>2
    <3>2. \A f \in Seq(Events) : Len(f) = 0 => f = <<>>
      OBVIOUS
    <3> QED
      BY <3>1, <3>2
  <2> QED
    BY <1>2, <2>1 DEF Ended
<1>3. CASE Len(e) # 1
  <2>1. \A i \in 1 .. Len(e) - 1 : Tail(e)[i] = e[i + 1]
    OBVIOUS
  <2>2. Len(e) - 1 \in 1 .. Len(e) - 1 /\ (Len(e) - 1) + 1 = Len(e)
    BY <1>1, <1>3
  <2>3. Tail(e)[Len(Tail(e))] = e[Len(e)]
    BY <1>1, <2>1, <2>2
  <2>4. Tail(e) # <<>>
    BY <1>1, <1>3
  <2> QED
    BY <2>3, <2>4 DEF Ended
<1> QED
  BY <1>2, <1>3

----------------------------------------------------------------------------
(* The steps of the driver.                                                *)

LEMMA Typed ==
  ASSUME TypeOK
  PROVE  /\ rbuf \in Seq(Cmds) /\ toWorker \in Seq(Cmds) /\ toServer \in Seq(Events)
         /\ sent[1] \in Nat /\ sent[2] \in Nat /\ MaxJobs \in Nat /\ MaxCancels \in Nat
         /\ run = <<run[1], run[2]>> /\ run[1] \in 0 .. MaxJobs /\ run[2] \in Passes
         /\ (run[1] # 0 <=> run \in Runs)
<1>1. MaxJobs \in Nat /\ MaxCancels \in Nat
  BY PipeAssumption
<1>2. run \in Runs \/ run = NoRun
  BY DEF TypeOK
<1> QED
  BY <1>1, <1>2 DEF TypeOK, Runs, NoRun, Jobs, Passes

\* A driver that kills its worker is free, and nothing is left in the socket.
LEMMA Killed ==
  ASSUME PInv, Kill, drv' = "free", run' \in Runs \cup {NoRun}, hires' \in BOOLEAN,
         sent' \in [Passes -> 0 .. MaxCancels],
         result' \in [Jobs -> {"none", "done", "failed", "cancelled"}]
  PROVE  PInv'
<1>1. TypeOK'
  <2>1. rbuf' \in Seq(Cmds) /\ toWorker' \in Seq(Cmds) /\ toServer' \in Seq(Events)
    BY DEF Kill
  <2>2. /\ drv' = "free" /\ held' = FALSE /\ wst' = "dead" /\ kind' = kind /\ wrun' = wrun
        /\ flag' = flag /\ ticks' = ticks
    BY DEF Kill
  <2>3. TypeOK
    BY DEF PInv
  <2> QED
    BY <2>1, <2>2, <2>3 DEF TypeOK
<1>2. Resting'
  <2>1. rbuf' = <<>> /\ toWorker' = <<>> /\ toServer' = <<>> /\ wst' = "dead"
    BY DEF Kill
  <2>2. Lines' = <<>>
    BY <2>1 DEF Lines
  <2> QED
    BY <2>1, <2>2 DEF Resting, NoStart
<1> QED
  BY <1>1, <1>2 DEF PInv, Kill, Working, Blocking

LEMMA StepSpawn == PInv /\ Spawn => PInv'
<1> SUFFICES ASSUME PInv, Spawn PROVE PInv'
  OBVIOUS
<1>1. TypeOK'
  <2>1. ticks' \in 0 .. MaxTicks
    BY PipeAssumption DEF Spawn
  <2> QED
    BY <2>1 DEF PInv, TypeOK, Spawn, jobVars
<1>2. Lines' = Lines /\ toServer' = toServer /\ drv' = "free" /\ drv = "free"
  BY DEF Spawn, Lines
<1>3. Resting'
  BY <1>2 DEF Spawn, PInv, Resting, NoStart
<1>4. wst = "dead" /\ rbuf = <<>> /\ toWorker = <<>>
  BY DEF PInv, Spawn
<1> QED
  BY <1>1, <1>2, <1>3, <1>4 DEF PInv, Spawn, Working, Blocking

LEMMA StepSendStart == PInv /\ SendStart => PInv'
<1> SUFFICES ASSUME PInv, SendStart PROVE PInv'
  OBVIOUS
<1>1. TypeOK
  BY DEF PInv
<1>2. /\ drv = "free" /\ run' = <<run[1] + 1, 1>> /\ run[1] + 1 \in Jobs /\ run' \in Runs
      /\ hires' \in BOOLEAN /\ sent' \in [Passes -> 0 .. MaxCancels]
  BY <1>1, Typed, PipeAssumption DEF SendStart, Runs, Jobs, Passes
<1>3. CASE wst = "dead"
  <2>1. Kill /\ drv' = "free" /\ result' \in [Jobs -> {"none", "done", "failed", "cancelled"}]
    BY <1>1, <1>2, <1>3 DEF SendStart, TypeOK
  <2> QED
    BY <1>2, <2>1, Killed
<1>4. CASE wst # "dead"
  <2>1. /\ drv' = "driving" /\ toWorker' = Append(toWorker, [cmd |-> "start", tag |-> run'])
        /\ UNCHANGED <<held, result, toServer, workerVars>> /\ held
    BY <1>4 DEF SendStart
  <2>2. toServer = <<>> /\ wst = "idle" /\ NoStart(Lines)
    BY <1>2, <1>4 DEF PInv, Resting
  <2> DEFINE x == [cmd |-> "start", tag |-> run']
  <2>3. x \in Cmds /\ x.cmd = "start" /\ x.tag = run'
    BY <1>2 DEF Cmds
  <2> HIDE DEF x
  <2>4. Grown(Lines', Lines, x) /\ toWorker' \in Seq(Cmds)
    <3>1. toWorker' = Append(toWorker, x) /\ rbuf' = rbuf
      BY <2>1 DEF workerVars, x
    <3>2. Grown(rbuf \o Append(toWorker, x), rbuf \o toWorker, x)
      BY <1>1, <2>3, Typed, WrittenLast
    <3> QED
      BY <1>1, <2>3, <3>1, <3>2, Typed DEF Lines
  <2>5. Pending(Lines', run', Asked')
    BY <2>2, <2>3, <2>4, NoStartGrows
  <2>6. Driving'
    BY <2>1, <2>2, <2>5 DEF Driving, Told, workerVars
  <2>7. TypeOK'
    BY <1>1, <1>2, <2>1, <2>4 DEF TypeOK, workerVars
  <2> QED
    BY <1>2, <2>1, <2>2, <2>6, <2>7 DEF PInv, workerVars, Working, Blocking
<1> QED
  BY <1>3, <1>4

LEMMA StepSendCancel == PInv /\ SendCancel => PInv'
<1> SUFFICES ASSUME PInv, SendCancel PROVE PInv'
  OBVIOUS
<1>1. /\ TypeOK /\ drv = "driving" /\ Driving /\ run \in Runs
      /\ UNCHANGED <<drv, held, run, hires, result, toServer, workerVars>>
  BY DEF PInv, SendCancel
<1>2. sent' \in [Passes -> 0 .. MaxCancels] /\ Asked'
  <2>1. run[2] \in Passes /\ sent[1] \in Nat /\ sent[2] \in Nat /\ MaxCancels \in Nat
    BY <1>1, Typed
  <2>2. sent' = [sent EXCEPT ![run[2]] = @ + 1] /\ sent[1] + sent[2] < MaxCancels
    BY DEF SendCancel
  <2>3. sent \in [Passes -> 0 .. MaxCancels]
    BY <1>1 DEF TypeOK
  <2>4. CASE run[2] = 1
    <3>1. sent'[1] = sent[1] + 1 /\ sent'[2] = sent[2]
      BY <2>2, <2>3, <2>4 DEF Passes
    <3> QED
      BY <2>1, <2>2, <2>3, <2>4, <3>1 DEF Asked, Passes
  <2>5. CASE run[2] = 2
    <3>1. sent'[2] = sent[2] + 1 /\ sent'[1] = sent[1]
      BY <2>2, <2>3, <2>5 DEF Passes
    <3> QED
      BY <2>1, <2>2, <2>3, <2>5, <3>1 DEF Asked, Passes
  <2> QED
    BY <2>1, <2>4, <2>5 DEF Passes
<1>3. Told(toServer', run', Asked')
  BY <1>1, <1>2, ToldLonger DEF Driving
<1>4. CASE wst = "dead"
  <2>1. toWorker' = toWorker /\ wst' = "dead" /\ rbuf' = rbuf
    BY <1>1, <1>4 DEF SendCancel, workerVars
  <2>2. TypeOK'
    BY <1>1, <1>2, <2>1 DEF TypeOK, workerVars
  <2>3. Driving'
    BY <1>3, <2>1 DEF Driving
  <2> QED
    BY <1>1, <1>4, <2>1, <2>2, <2>3 DEF PInv, workerVars
<1>5. CASE wst # "dead"
  <2> DEFINE x == [cmd |-> "cancel", tag |-> run]
  <2>1. x \in Cmds /\ x.cmd = "cancel" /\ x.tag = run /\ toWorker' = Append(toWorker, x)
    BY <1>1, <1>5 DEF Cmds, SendCancel
  <2> HIDE DEF x
  <2>2. Grown(Lines', Lines, x) /\ toWorker' \in Seq(Cmds)
    <3>1. rbuf' = rbuf
      BY <1>1 DEF workerVars
    <3>2. Grown(rbuf \o Append(toWorker, x), rbuf \o toWorker, x)
      BY <1>1, <2>1, Typed, WrittenLast
    <3> QED
      BY <1>1, <2>1, <3>1, <3>2, Typed DEF Lines
  <2>3. TypeOK'
    BY <1>1, <1>2, <2>2 DEF TypeOK, workerVars
  <2>4. CASE wst = "idle" /\ toServer = <<>> /\ Pending(Lines, run, Asked)
    <3>1. Pending(Lines', run, Asked')
      BY <1>2, <2>1, <2>2, <2>4, PendingGrows
    <3> QED
      BY <1>1, <1>3, <2>3, <2>4, <3>1 DEF PInv, Driving, workerVars
  <2>5. CASE wst = "idle" /\ Ended(toServer) /\ NoStart(Lines)
    <3>1. NoStart(Lines')
      BY <2>1, <2>2, <2>5, NoStartGrows
    <3> QED
      BY <1>1, <1>3, <2>3, <2>5, <3>1 DEF PInv, Driving, workerVars
  <2>6. CASE wst \in Working /\ wrun = run /\ ~Ended(toServer) /\ Own(Lines, run, Asked)
    <3>1. Own(Lines', run, Asked')
      BY <1>2, <2>1, <2>2, <2>6, OwnGrows
    <3> QED
      BY <1>1, <1>3, <1>5, <2>3, <2>6, <3>1 DEF PInv, Driving, workerVars
  <2> QED
    BY <1>1, <1>5, <2>4, <2>5, <2>6 DEF Driving
<1> QED
  BY <1>4, <1>5

\* What a driver that takes an event of its run finds.
LEMMA Polls ==
  ASSUME PInv, NEW evs, Polled(evs)
  PROVE  /\ TypeOK /\ drv = "driving" /\ Driving /\ run \in Runs /\ held
         /\ Head(toServer).ev \in evs /\ Head(toServer) = toServer[1]
         /\ Shifted(Tail(toServer), toServer) /\ Tail(toServer) \in Seq(Events)
         /\ Told(Tail(toServer), run, Asked)
         /\ \/ wst = "dead"
            \/ wst = "idle" /\ Ended(toServer) /\ NoStart(Lines)
            \/ wst \in Working /\ wrun = run /\ ~Ended(toServer) /\ Own(Lines, run, Asked)
<1>1. TypeOK /\ drv = "driving" /\ Driving /\ run \in Runs /\ held /\ toServer # <<>>
      /\ Head(toServer).ev \in evs
  BY DEF PInv, Polled
<1>2. Shifted(Tail(toServer), toServer) /\ Head(toServer) = toServer[1]
      /\ Tail(toServer) \in Seq(Events)
  BY <1>1, Typed, TailShifts
<1>3. Told(Tail(toServer), run, Asked)
  BY <1>1, <1>2, ToldShrinks DEF Driving
<1> QED
  BY <1>1, <1>2, <1>3 DEF Driving

LEMMA StepPollProgress == PInv /\ PollProgress => PInv'
<1> SUFFICES ASSUME PInv, PollProgress PROVE PInv'
  OBVIOUS
<1>1. Polled({"progress"}) /\ toServer' = Tail(toServer) /\ UNCHANGED <<driverVars, toWorker, workerVars>>
  BY DEF PollProgress
<1>2. toServer[1].ev \notin Ends /\ toServer # <<>>
  BY <1>1, Polls DEF Ends, Polled
<1>3. Ended(toServer') <=> Ended(toServer)
  BY <1>1, <1>2, EndedShrinks, Typed DEF PInv
<1>4. Lines' = Lines /\ Asked' = Asked
  BY <1>1 DEF Lines, Asked, driverVars, jobVars, workerVars
<1>5. Driving'
  BY <1>1, <1>3, <1>4, Polls DEF Driving, driverVars, jobVars, workerVars
<1>6. TypeOK'
  BY <1>1, Polls DEF TypeOK, driverVars, jobVars, workerVars
<1> QED
  BY <1>1, <1>5, <1>6, Polls DEF PInv, driverVars, jobVars, workerVars

LEMMA StepPollFinal == PInv /\ PollFinal => PInv'
<1> SUFFICES ASSUME PInv, PollFinal PROVE PInv'
  OBVIOUS
<1>1. Polled({"final"})
  BY DEF PollFinal
<1>2. CASE wst = "dead"
  <2>1. Kill /\ Finish("failed") /\ UNCHANGED <<run, hires, sent>>
    BY <1>2 DEF PollFinal
  <2>2. /\ drv' = "free" /\ run' \in Runs \cup {NoRun} /\ hires' \in BOOLEAN
        /\ sent' \in [Passes -> 0 .. MaxCancels]
        /\ result' \in [Jobs -> {"none", "done", "failed", "cancelled"}]
    BY <2>1 DEF PInv, TypeOK, Finish
  <2> QED
    BY <2>1, <2>2, Killed
<1>3. CASE wst # "dead"
  <2> DEFINE x == [cmd |-> "ack", tag |-> run]
  <2>1. /\ toServer' = Tail(toServer) /\ toWorker' = Append(toWorker, x)
        /\ UNCHANGED <<driverVars, workerVars>>
    BY <1>3 DEF PollFinal
  <2>2. x \in Cmds /\ x.cmd = "ack" /\ x.tag = run
    BY <1>1, Polls DEF Cmds
  <2> HIDE DEF x
  <2>3. Grown(Lines', Lines, x) /\ toWorker' \in Seq(Cmds)
    <3>1. rbuf' = rbuf
      BY <2>1 DEF workerVars
    <3>2. TypeOK
      BY DEF PInv
    <3>3. Grown(rbuf \o Append(toWorker, x), rbuf \o toWorker, x)
      BY <2>2, <3>2, Typed, WrittenLast
    <3> QED
      BY <2>1, <2>2, <3>1, <3>2, <3>3, Typed DEF Lines
  <2>4. toServer[1].ev \notin Ends /\ toServer # <<>>
    BY <1>1, Polls DEF Ends, Polled
  <2>5. Ended(toServer') <=> Ended(toServer)
    BY <2>1, <2>4, EndedShrinks, Typed DEF PInv
  <2>6. /\ Asked' = Asked /\ run' = run /\ wst' = wst /\ wrun' = wrun
    BY <2>1 DEF Asked, driverVars, jobVars, workerVars
  <2>7. Told(toServer', run', Asked')
    BY <1>1, <2>1, <2>6, Polls
  <2>8. x.cmd # "start" /\ x.cmd # "cancel" /\ x.tag = run
    BY <2>2
  <2>9. Driving'
    <3>1. CASE wst = "idle" /\ Ended(toServer) /\ NoStart(Lines)
      <4>1. NoStart(Lines')
        BY <2>3, <2>8, <3>1, NoStartGrows
      <4> QED
        BY <2>5, <2>6, <2>7, <3>1, <4>1 DEF Driving
    <3>2. CASE wst \in Working /\ wrun = run /\ ~Ended(toServer) /\ Own(Lines, run, Asked)
      <4>1. Own(Lines', run, Asked)
        BY <2>3, <2>8, <3>2 DEF Own, Grown
      <4> QED
        BY <2>5, <2>6, <2>7, <3>2, <4>1 DEF Driving
    <3> QED
      BY <1>1, <1>3, <3>1, <3>2, Polls
  <2>10. TypeOK'
    BY <1>1, <2>1, <2>3, Polls DEF TypeOK, driverVars, jobVars, workerVars
  <2> QED
    BY <1>1, <1>3, <2>1, <2>6, <2>9, <2>10, Polls DEF PInv, driverVars, jobVars, workerVars
<1> QED
  BY <1>2, <1>3

\* An event that ends the run is its last, and its worker is idle or dead.
LEMMA Ending ==
  ASSUME PInv, NEW evs, evs \subseteq Ends, Polled(evs), toServer' = Tail(toServer),
         toWorker' = toWorker, UNCHANGED workerVars
  PROVE  Resting'
<1>1. Len(Tail(toServer)) = 0 /\ Tail(toServer) \in Seq(Events) /\ Head(toServer).ev \in Ends
  BY Polls, ToldShrinks DEF Driving
<1>2. toServer' = <<>>
  BY <1>1
<1>3. toServer[1].ev \in Ends /\ Told(toServer, run, Asked) /\ 1 \in 1 .. Len(toServer)
  BY Polls DEF Driving, Shifted
<1>4. Ended(toServer)
  BY <1>3, Polls DEF Told, Ended, Polled
<1>5. wst \in {"idle", "dead"} /\ NoStart(Lines)
  <2>1. CASE wst = "dead"
    BY <2>1 DEF PInv, NoStart, Lines
  <2>2. CASE wst # "dead"
    BY <1>4, <2>2, Polls
  <2> QED
    BY <2>1, <2>2
<1>6. Lines' = Lines /\ wst' = wst
  BY DEF Lines, workerVars
<1> QED
  BY <1>2, <1>5, <1>6 DEF Resting

LEMMA StepPollDone == PInv /\ PollDone => PInv'
<1> SUFFICES ASSUME PInv, PollDone PROVE PInv'
  OBVIOUS
<1>1. /\ Polled({"done"}) /\ toServer' = Tail(toServer)
      /\ UNCHANGED <<held, run, hires, sent, toWorker, workerVars>>
      /\ \/ drv' = "upscale" /\ result' = result /\ run[2] = 1
         \/ Finish("done")
  BY DEF PollDone
<1>2. Resting'
  BY <1>1, Ending DEF Ends
<1>3. TypeOK /\ run \in Runs /\ held /\ toServer' \in Seq(Events)
  BY <1>1, Polls
<1>4. drv' \in {"free", "upscale"} /\ result' \in [Jobs -> {"none", "done", "failed", "cancelled"}]
  BY <1>1, <1>3 DEF Finish, TypeOK
<1>5. TypeOK'
  BY <1>1, <1>3, <1>4 DEF TypeOK, workerVars
<1>6. drv' = "upscale" => run'[2] = 1
  BY <1>1 DEF Finish
<1> QED
  BY <1>1, <1>2, <1>3, <1>4, <1>5, <1>6 DEF PInv, workerVars

LEMMA StepPollCancelled == PInv /\ PollCancelled => PInv'
<1> SUFFICES ASSUME PInv, PollCancelled PROVE PInv'
  OBVIOUS
<1>1. /\ Polled({"cancelled"}) /\ toServer' = Tail(toServer) /\ Finish("cancelled")
      /\ UNCHANGED <<held, run, hires, sent, toWorker, workerVars>>
  BY DEF PollCancelled
<1>2. Resting'
  BY <1>1, Ending DEF Ends
<1>3. TypeOK /\ run \in Runs /\ held /\ toServer' \in Seq(Events)
  BY <1>1, Polls
<1>4. drv' = "free" /\ result' \in [Jobs -> {"none", "done", "failed", "cancelled"}]
  BY <1>1, <1>3 DEF Finish, TypeOK
<1>5. TypeOK'
  BY <1>1, <1>3, <1>4 DEF TypeOK, workerVars
<1> QED
  BY <1>1, <1>2, <1>3, <1>4, <1>5 DEF PInv, workerVars

LEMMA StepPollFault == PInv /\ PollFault => PInv'
<1> SUFFICES ASSUME PInv, PollFault PROVE PInv'
  OBVIOUS
<1>1. Kill /\ Finish("failed") /\ UNCHANGED <<run, hires, sent>>
  BY DEF PollFault
<1>2. /\ drv' = "free" /\ run' \in Runs \cup {NoRun} /\ hires' \in BOOLEAN
      /\ sent' \in [Passes -> 0 .. MaxCancels]
      /\ result' \in [Jobs -> {"none", "done", "failed", "cancelled"}]
  BY <1>1 DEF PInv, TypeOK, Finish
<1> QED
  BY <1>1, <1>2, Killed

LEMMA StepUpscale == PInv /\ Upscale => PInv'
<1> SUFFICES ASSUME PInv, Upscale PROVE PInv'
  OBVIOUS
<1>1. TypeOK /\ drv = "upscale" /\ run \in Runs /\ run[2] = 1 /\ Resting /\ held
      /\ UNCHANGED <<hires, sent>>
  BY DEF PInv, Upscale
<1>2. CASE /\ wst # "dead"
           /\ drv' = "driving" /\ run' = <<run[1], run[2] + 1>>
           /\ toWorker' = Append(toWorker, [cmd |-> "start", tag |-> run'])
           /\ UNCHANGED <<held, result, toServer, workerVars>>
  <2> DEFINE x == [cmd |-> "start", tag |-> run']
  <2>1. run' \in Runs
    BY <1>1, <1>2 DEF Runs, Passes
  <2>2. x \in Cmds /\ x.cmd = "start" /\ x.tag = run' /\ toWorker' = Append(toWorker, x) /\ rbuf' = rbuf
    BY <1>2, <2>1 DEF Cmds, workerVars
  <2> HIDE DEF x
  <2>3. Grown(Lines', Lines, x) /\ toWorker' \in Seq(Cmds)
    <3>1. Grown(rbuf \o Append(toWorker, x), rbuf \o toWorker, x)
      BY <1>1, <2>2, Typed, WrittenLast
    <3> QED
      BY <1>1, <2>2, <3>1, Typed DEF Lines
  <2>4. Pending(Lines', run', Asked')
    BY <1>1, <2>2, <2>3, NoStartGrows DEF Resting
  <2>5. wst = "idle" /\ toServer = <<>>
    BY <1>1, <1>2 DEF Resting
  <2>6. Driving'
    BY <1>2, <2>4, <2>5 DEF Driving, Told, workerVars
  <2>7. TypeOK'
    BY <1>1, <1>2, <2>1, <2>3 DEF TypeOK, workerVars
  <2> QED
    BY <1>1, <1>2, <2>1, <2>5, <2>6, <2>7 DEF PInv, workerVars, Working, Blocking
<1>3. CASE wst = "dead" /\ Finish("failed") /\ Kill /\ UNCHANGED run
  <2>1. /\ drv' = "free" /\ run' \in Runs \cup {NoRun} /\ hires' \in BOOLEAN
        /\ sent' \in [Passes -> 0 .. MaxCancels]
        /\ result' \in [Jobs -> {"none", "done", "failed", "cancelled"}]
    BY <1>1, <1>3 DEF TypeOK, Finish
  <2> QED
    BY <1>3, <2>1, Killed
<1>4. CASE Finish("failed") /\ UNCHANGED <<held, run, toWorker, toServer, workerVars>>
  <2>1. drv' = "free" /\ result' \in [Jobs -> {"none", "done", "failed", "cancelled"}]
    BY <1>1, <1>4 DEF Finish, TypeOK
  <2>2. TypeOK'
    BY <1>1, <1>4, <2>1 DEF TypeOK, workerVars
  <2>3. Resting'
    BY <1>1, <1>4 DEF Resting, Lines, workerVars
  <2> QED
    BY <1>1, <1>4, <2>1, <2>2, <2>3 DEF PInv, workerVars
<1> QED
  BY <1>2, <1>3, <1>4 DEF Upscale

----------------------------------------------------------------------------
(* The steps of the worker.                                                *)

\* A worker that runs is driven.
LEMMA IsDriven ==
  ASSUME PInv, wst \in Working
  PROVE  /\ TypeOK /\ drv = "driving" /\ run \in Runs /\ wrun = run /\ held /\ ~flag
         /\ Told(toServer, run, Asked) /\ ~Ended(toServer) /\ Own(Lines, run, Asked)
BY DEF PInv, Driving, Resting, Working, Blocking

\* It says one more thing about its run and goes on, or it ends the run and is idle again.
Says(x) == x \in Events /\ x.tag = run /\ toServer' = Append(toServer, x)

LEMMA Speaks ==
  ASSUME PInv, wst \in Working, UNCHANGED <<driverVars, kind, wrun>>,
         rbuf' \in Seq(Cmds), toWorker' \in Seq(Cmds), ticks' \in 0 .. MaxTicks, flag' \in BOOLEAN,
         Own(Lines', run, Asked),
         \/ UNCHANGED toServer /\ wst' \in Working /\ ~flag'
         \/ \E x : Says(x) /\ x.ev \notin Ends /\ wst' \in Working /\ ~flag'
         \/ \E x : Says(x) /\ x.ev \in Ends /\ wst' = "idle" /\ (x.ev = "cancelled" => Asked)
  PROVE  PInv'
<1>1. /\ TypeOK /\ drv = "driving" /\ run \in Runs /\ wrun = run /\ held
      /\ Told(toServer, run, Asked) /\ ~Ended(toServer) /\ toServer \in Seq(Events)
  BY IsDriven, Typed
<1>2. /\ drv' = drv /\ held' = held /\ run' = run /\ hires' = hires /\ sent' = sent
      /\ result' = result /\ kind' = kind /\ wrun' = wrun /\ Asked' = Asked
  BY DEF driverVars, jobVars, Asked
<1>3. wst' \in {"idle"} \cup Working
  OBVIOUS
<1>4. toServer' \in Seq(Events)
  <2>1. \A x : Says(x) => toServer' \in Seq(Events)
    BY <1>1 DEF Says
  <2> QED
    BY <1>1, <2>1
<1>5. TypeOK'
  BY <1>1, <1>2, <1>3, <1>4 DEF TypeOK, Working, Blocking
<1>6. CASE UNCHANGED toServer /\ wst' \in Working /\ ~flag'
  <2>1. Driving'
    BY <1>1, <1>2, <1>6 DEF Driving
  <2> QED
    BY <1>1, <1>2, <1>5, <1>6, <2>1 DEF PInv, Working, Blocking
<1>7. ASSUME NEW x, Says(x), x.ev \notin Ends, wst' \in Working, ~flag' PROVE PInv'
  <2>1. Grown(toServer', toServer, x) /\ x.tag = run /\ x \in Events
    BY <1>1, <1>7, AppendGrows DEF Says
  <2>2. ~Ended(toServer') /\ (toServer = <<>> <=> Len(toServer) = 0)
    BY <1>1, <1>7, EndedGrows DEF Says
  <2>3. x.ev # "cancelled"
    BY <1>7 DEF Ends
  <2>4. Told(toServer', run, Asked)
    BY <1>1, <2>1, <2>2, <2>3, ToldGrows
  <2>5. Driving'
    BY <1>1, <1>2, <1>7, <2>2, <2>4 DEF Driving
  <2> QED
    BY <1>1, <1>2, <1>5, <1>7, <2>5 DEF PInv, Working, Blocking
<1>8. ASSUME NEW x, Says(x), x.ev \in Ends, wst' = "idle", x.ev = "cancelled" => Asked PROVE PInv'
  <2>1. Grown(toServer', toServer, x) /\ x.tag = run /\ x \in Events
    BY <1>1, <1>8, AppendGrows DEF Says
  <2>2. Ended(toServer') /\ (toServer = <<>> <=> Len(toServer) = 0)
    BY <1>1, <1>8, EndedGrows DEF Says
  <2>3. Told(toServer', run, Asked)
    BY <1>1, <1>8, <2>1, <2>2, ToldGrows
  <2>4. NoStart(Lines')
    BY OwnStartsNothing
  <2>5. Driving'
    BY <1>1, <1>2, <1>8, <2>2, <2>3, <2>4 DEF Driving
  <2> QED
    BY <1>1, <1>2, <1>5, <1>8, <2>5 DEF PInv, Working, Blocking
<1> QED
  BY <1>6, <1>7, <1>8

\* Emit and Close, for a worker that runs.
LEMMA Emits ==
  ASSUME PInv, wst \in Working, NEW ev \in {"progress", "final", "done", "failed", "cancelled"}, Emit(ev)
  PROVE  \E x : Says(x) /\ x.ev = ev
<1>1. [ev |-> ev, tag |-> wrun] \in Events /\ wrun = run
  BY IsDriven DEF Events
<1>2. Says([ev |-> ev, tag |-> wrun]) /\ [ev |-> ev, tag |-> wrun].ev = ev
  BY <1>1 DEF Says, Emit
<1> QED
  BY <1>2

LEMMA StepWorkerTick == PInv /\ WorkerTick => PInv'
<1> SUFFICES ASSUME PInv, WorkerTick PROVE PInv'
  OBVIOUS
<1>1. /\ wst = "loop" /\ wst \in Working /\ TypeOK /\ ~flag /\ Own(Lines, run, Asked)
      /\ UNCHANGED <<driverVars, kind, wrun>>
  BY IsDriven DEF WorkerTick, Working
<1>2. /\ rbuf' \in Seq(Cmds) /\ toWorker' \in Seq(Cmds) /\ Own(Lines', run, Asked)
      /\ (Buffered # <<>> /\ Head(Buffered).cmd = "cancel" => Asked)
  <2>1. CASE Buffered = <<>>
    <3>1. Lines' = Lines
      BY <2>1 DEF WorkerTick, Lines
    <3> QED
      BY <1>1, <2>1, <3>1, Typed DEF WorkerTick
  <2>2. CASE Buffered # <<>>
    <3>1. /\ rbuf' \in Seq(Cmds) /\ toWorker' \in Seq(Cmds)
          /\ Shifted(Lines', Lines) /\ Head(Buffered) = Lines[1]
      BY <1>1, <2>2, TakesFirst, Typed DEF WorkerTick
    <3> QED
      BY <1>1, <3>1, OwnShrinks
  <2> QED
    BY <2>1, <2>2
<1>3. CASE Buffered # <<>> /\ Head(Buffered).cmd = "cancel"
  <2>1. Close("cancelled") /\ flag' \in BOOLEAN /\ ticks' = ticks /\ Asked
    BY <1>2, <1>3 DEF WorkerTick
  <2>2. \E x : Says(x) /\ x.ev = "cancelled"
    BY <1>1, <2>1, Emits DEF Close
  <2>3. wst' = "idle" /\ ticks' \in 0 .. MaxTicks
    BY <1>1, <2>1 DEF Close, TypeOK
  <2> QED
    BY <1>1, <1>2, <2>1, <2>2, <2>3, Speaks DEF Ends
<1>4. CASE ~(Buffered # <<>> /\ Head(Buffered).cmd = "cancel")
  <2>1. (ShortTick \/ LastTick) /\ flag' = flag
    BY <1>1, <1>4 DEF WorkerTick
  <2>2. ticks' \in 0 .. MaxTicks /\ flag' \in BOOLEAN /\ ~flag'
    BY <1>1, <2>1, PipeAssumption DEF ShortTick, LastTick, TypeOK
  <2>3. CASE ShortTick
    <3>1. \E x : Says(x) /\ x.ev \in {"progress", "final"}
      BY <1>1, <2>3, Emits DEF ShortTick
    <3>2. wst' \in Working
      BY <1>1, <2>3 DEF ShortTick
    <3> QED
      BY <1>1, <1>2, <2>1, <2>2, <3>1, <3>2, Speaks DEF Ends
  <2>4. CASE Close("done") \/ Close("failed")
    <3>1. \E x : Says(x) /\ x.ev \in {"done", "failed"}
      BY <1>1, <2>4, Emits DEF Close
    <3>2. wst' = "idle"
      BY <2>4 DEF Close
    <3> QED
      BY <1>1, <1>2, <2>1, <2>2, <3>1, <3>2, Speaks DEF Ends
  <2>5. CASE wst' \in {"denoise", "encode"} /\ toServer' = toServer
    <3>1. wst' \in Working
      BY <2>5 DEF Working, Blocking
    <3> QED
      BY <1>1, <1>2, <2>1, <2>2, <2>5, <3>1, Speaks
  <2> QED
    BY <2>1, <2>3, <2>4, <2>5 DEF LastTick
<1> QED
  BY <1>3, <1>4

\* The steps of a blocking tick read no line, but the fence, which drops some.
LEMMA StepBlocking ==
  PInv /\ (EncodeEnd \/ DenoiseEnd \/ FenceRead \/ FenceTimeout \/ DecodeEnd) => PInv'
<1> SUFFICES ASSUME PInv, EncodeEnd \/ DenoiseEnd \/ FenceRead \/ FenceTimeout \/ DecodeEnd
             PROVE  PInv'
  OBVIOUS
<1>1. /\ wst \in Working /\ UNCHANGED <<driverVars, kind, wrun>> /\ rbuf' = rbuf /\ flag' = flag
      /\ ticks' = ticks
  BY DEF EncodeEnd, DenoiseEnd, FenceRead, FenceTimeout, DecodeEnd, Working, Blocking
<1>2. TypeOK /\ ~flag /\ Own(Lines, run, Asked)
  BY <1>1, IsDriven
<1>3. rbuf' \in Seq(Cmds) /\ ticks' \in 0 .. MaxTicks /\ flag' \in BOOLEAN /\ ~flag'
  BY <1>1, <1>2 DEF TypeOK
<1>4. toWorker' \in Seq(Cmds) /\ Own(Lines', run, Asked)
  <2>1. CASE toWorker' = toWorker
    BY <1>1, <1>2, <2>1, Typed DEF Lines
  <2>2. CASE toWorker' = <<>>
    <3>1. rbuf \in Seq(Cmds) /\ toWorker \in Seq(Cmds)
      BY <1>2, Typed
    <3>2. rbuf \o <<>> = rbuf /\ Len(rbuf) \in Nat
          /\ \A i \in 1 .. Len(rbuf) : i \in 1 .. Len(rbuf \o toWorker) /\ (rbuf \o toWorker)[i] = rbuf[i]
      BY <3>1
    <3>3. Own(rbuf, run, Asked)
      BY <1>2, <3>2 DEF Own, Lines
    <3>4. Lines' = rbuf
      BY <1>1, <2>2, <3>2 DEF Lines
    <3> QED
      BY <2>2, <3>3, <3>4
  <2> QED
    BY <2>1, <2>2 DEF EncodeEnd, DenoiseEnd, FenceRead, FenceTimeout, DecodeEnd
<1>5. CASE Close("done") \/ Close("failed")
  <2>1. \E x : Says(x) /\ x.ev \in {"done", "failed"}
    BY <1>1, <1>5, Emits DEF Close
  <2>2. wst' = "idle"
    BY <1>5 DEF Close
  <2> QED
    BY <1>1, <1>3, <1>4, <2>1, <2>2, Speaks DEF Ends
<1>6. CASE wst' \in Blocking /\ toServer' = toServer
  <2>1. wst' \in Working
    BY <1>6 DEF Working
  <2> QED
    BY <1>1, <1>3, <1>4, <1>6, <2>1, Speaks
<1>7. CASE wst' = "fence" /\ Emit("final")
  <2>1. \E x : Says(x) /\ x.ev = "final"
    BY <1>1, <1>7, Emits
  <2>2. wst' \in Working
    BY <1>7 DEF Working, Blocking
  <2> QED
    BY <1>1, <1>3, <1>4, <2>1, <2>2, Speaks DEF Ends
<1> QED
  BY <1>2, <1>5, <1>6, <1>7
     DEF EncodeEnd, DenoiseEnd, FenceRead, FenceTimeout, DecodeEnd, Blocking

LEMMA StepWorkerIdle == PInv /\ WorkerIdle => PInv'
<1> SUFFICES ASSUME PInv, WorkerIdle PROVE PInv'
  OBVIOUS
<1>1. TypeOK /\ wst = "idle" /\ TakeLine /\ UNCHANGED <<driverVars, kind>>
  BY DEF PInv, WorkerIdle
<1>2. /\ rbuf' \in Seq(Cmds) /\ toWorker' \in Seq(Cmds) /\ Shifted(Lines', Lines)
      /\ Head(Buffered) = Lines[1] /\ Lines \in Seq(Cmds)
  BY <1>1, TakesFirst, Typed
<1>3. /\ drv' = drv /\ held' = held /\ run' = run /\ hires' = hires /\ sent' = sent
      /\ result' = result /\ kind' = kind /\ Asked' = Asked
  BY <1>1 DEF driverVars, jobVars, Asked
<1>4. CASE Lines[1].cmd # "start"
  <2>1. UNCHANGED <<wst, wrun, flag, ticks, toServer>>
    BY <1>2, <1>4 DEF WorkerIdle
  <2>2. TypeOK'
    BY <1>1, <1>2, <1>3, <2>1 DEF TypeOK
  <2>3. CASE drv = "driving"
    <3>1. /\ Told(toServer, run, Asked)
          /\ \/ toServer = <<>> /\ Pending(Lines', run, Asked)
             \/ Ended(toServer) /\ NoStart(Lines')
      BY <1>1, <1>2, <1>4, <2>3, PendingShrinks, NoStartShrinks DEF PInv, Driving, Working, Blocking
    <3>2. Driving'
      BY <1>1, <1>3, <2>1, <3>1 DEF Driving
    <3> QED
      BY <1>1, <1>3, <2>1, <2>2, <2>3, <3>2 DEF PInv, Working, Blocking
  <2>4. CASE drv # "driving"
    <3>1. NoStart(Lines')
      BY <1>2, <2>4, NoStartShrinks DEF PInv, Resting
    <3>2. Resting'
      BY <1>1, <2>1, <2>4, <3>1 DEF PInv, Resting
    <3> QED
      BY <1>1, <1>3, <2>1, <2>2, <2>4, <3>2 DEF PInv, Working, Blocking
  <2> QED
    BY <2>3, <2>4
<1>5. CASE Lines[1].cmd = "start"
  <2>1. drv = "driving" /\ Driving
    BY <1>2, <1>5, NoStartShrinks DEF PInv, Resting
  <2>2. toServer = <<>> /\ Pending(Lines, run, Asked)
    BY <1>1, <1>2, <1>5, <2>1, NoStartShrinks DEF Driving, Working, Blocking
  <2>3. Lines[1].tag = run /\ Own(Lines', run, Asked)
    BY <1>2, <1>5, <2>2, PendingShrinks
  <2>4. /\ wrun' = run /\ flag' = FALSE /\ ticks' = 0 /\ run \in Runs
        /\ \/ wst' = "loop" /\ toServer' = toServer
           \/ wst' = "idle" /\ toServer' = Append(toServer, [ev |-> "failed", tag |-> run])
    BY <1>1, <1>2, <1>5, <2>1, <2>3 DEF WorkerIdle, PInv
  <2>5. ticks' \in 0 .. MaxTicks
    BY <2>4, PipeAssumption
  <2>6. CASE wst' = "loop" /\ toServer' = toServer
    <3>1. TypeOK'
      BY <1>1, <1>2, <1>3, <2>4, <2>5, <2>6 DEF TypeOK
    <3>2. Told(toServer', run, Asked) /\ ~Ended(toServer')
      BY <2>2, <2>6 DEF Told, Ended
    <3>3. Driving'
      BY <1>3, <2>3, <2>4, <2>6, <3>2 DEF Driving, Working
    <3> QED
      BY <1>3, <2>1, <2>4, <2>6, <3>1, <3>3 DEF PInv
  <2>7. CASE wst' = "idle" /\ toServer' = Append(toServer, [ev |-> "failed", tag |-> run])
    <3> DEFINE x == [ev |-> "failed", tag |-> run]
    <3>1. x \in Events /\ x.tag = run /\ x.ev = "failed" /\ toServer' = Append(toServer, x)
      BY <2>4, <2>7 DEF Events
    <3> HIDE DEF x
    <3>2. toServer \in Seq(Events) /\ Told(toServer, run, Asked) /\ ~Ended(toServer)
      BY <1>1, <2>1, <2>2, Typed DEF Driving, Ended
    <3>3. toServer' \in Seq(Events)
      BY <3>1, <3>2
    <3>4. Ended(toServer') /\ (toServer = <<>> <=> Len(toServer) = 0)
      BY <3>1, <3>2, EndedGrows DEF Ends
    <3>5. Grown(toServer', toServer, x)
      BY <3>1, <3>2, AppendGrows
    <3>6. x.ev # "cancelled"
      BY <3>1
    <3>7. Told(toServer', run, Asked)
      BY <3>1, <3>2, <3>4, <3>5, <3>6, ToldGrows
    <3>8. TypeOK'
      BY <1>1, <1>2, <1>3, <2>4, <2>5, <2>7, <3>3 DEF TypeOK
    <3>9. Driving'
      BY <1>3, <2>3, <2>7, <3>4, <3>7, OwnStartsNothing DEF Driving
    <3> QED
      BY <1>1, <1>3, <2>1, <2>4, <2>7, <3>8, <3>9 DEF PInv, Working, Blocking
  <2> QED
    BY <2>4, <2>6, <2>7
<1> QED
  BY <1>4, <1>5

LEMMA StepWorkerDies == PInv /\ WorkerDies => PInv'
<1> SUFFICES ASSUME PInv, WorkerDies PROVE PInv'
  OBVIOUS
<1>1. /\ wst' = "dead" /\ toWorker' = <<>> /\ rbuf' = <<>> /\ TypeOK
      /\ UNCHANGED <<driverVars, toServer, kind, wrun, flag, ticks>>
  BY DEF WorkerDies, PInv
<1>2. TypeOK'
  <2>1. toWorker' \in Seq(Cmds) /\ rbuf' \in Seq(Cmds)
    BY <1>1
  <2> QED
    BY <1>1, <2>1 DEF TypeOK, driverVars, jobVars
<1>3. Lines' = <<>> /\ NoStart(Lines')
  <2>1. Lines' = <<>>
    BY <1>1 DEF Lines
  <2> QED
    BY <2>1 DEF NoStart
<1>4. IF drv' = "driving" THEN Driving' ELSE Resting'
  BY <1>1, <1>3 DEF PInv, Driving, Resting, Asked, driverVars, jobVars
<1> QED
  BY <1>1, <1>2, <1>4 DEF PInv, Working, Blocking, driverVars, jobVars

----------------------------------------------------------------------------
(* The theorems.                                                           *)

LEMMA PInvInit == Init => PInv
<1> SUFFICES ASSUME Init PROVE PInv
  OBVIOUS
<1>1. TypeOK
  <2>1. toWorker \in Seq(Cmds) /\ rbuf \in Seq(Cmds) /\ toServer \in Seq(Events)
    BY DEF Init
  <2>2. sent \in [Passes -> 0 .. MaxCancels] /\ ticks \in 0 .. MaxTicks
    BY PipeAssumption DEF Init
  <2>3. /\ drv \in {"free", "driving", "upscale"} /\ held \in BOOLEAN /\ hires \in BOOLEAN
        /\ run \in Runs \cup {NoRun} /\ wrun \in Runs \cup {NoRun} /\ flag \in BOOLEAN
        /\ kind \in Kinds /\ wst \in {"dead", "idle", "loop"} \cup Blocking
    BY DEF Init
  <2>4. result \in [Jobs -> {"none", "done", "failed", "cancelled"}]
    BY DEF Init
  <2> QED
    BY <2>1, <2>2, <2>3, <2>4 DEF TypeOK
<1>2. Lines = <<>>
  BY DEF Init, Lines
<1>3. Resting
  BY <1>2 DEF Init, Resting, NoStart
<1> QED
  BY <1>1, <1>3 DEF PInv, Init

LEMMA PInvNext == PInv /\ [Next]_vars => PInv'
<1> SUFFICES ASSUME PInv, [Next]_vars PROVE PInv'
  OBVIOUS
<1>1. CASE Driver
  BY <1>1, StepSpawn, StepSendStart, StepSendCancel, StepPollProgress, StepPollFinal, StepPollDone,
     StepPollCancelled, StepPollFault, StepUpscale DEF Driver, Poll
<1>2. CASE Worker \/ FenceTimeout
  BY <1>2, StepWorkerIdle, StepWorkerTick, StepBlocking DEF Worker
<1>3. CASE WorkerDies
  BY <1>3, StepWorkerDies
<1>4. CASE UNCHANGED vars
  <2>1. UNCHANGED <<drv, held, run, hires, sent, result, toWorker, toServer, kind, wst, wrun, rbuf, flag, ticks>>
    BY <1>4 DEF vars, driverVars, jobVars, workerVars
  <2> QED
    BY <2>1 DEF PInv, TypeOK, Driving, Resting, Lines, Asked
<1> QED
  BY <1>1, <1>2, <1>3, <1>4 DEF Next

\* The invariant: the two queues hold what the state of the drive allows.
THEOREM PInvariance == Spec => []PInv
<1> QED
  BY PInvInit, PInvNext, PTL DEF Spec

\* Every variable of the driver, the worker and the socket between them keeps its type.
THEOREM PipeTypes == Spec => []TypeOK
<1>1. PInv => TypeOK
  BY DEF PInv
<1> QED
  BY <1>1, PInvariance, PTL

\* A worker that serves one job after the other over an untagged socket never mixes them:
\* what the driver polls is about its run, and a worker that is handed back has nothing to say.
THEOREM RunsDoNotMix == Spec => []NoCrossTalk
<1>1. PInv => NoCrossTalk
  <2> SUFFICES ASSUME PInv PROVE NoCrossTalk
    OBVIOUS
  <2>1. toServer \in Seq(Events)
    BY DEF PInv, TypeOK
  <2> QED
    BY <2>1 DEF PInv, Driving, Resting, Told, NoCrossTalk
<1> QED
  BY <1>1, PInvariance, PTL

\* However late a cancel line arrives, and wherever it is buffered, the worker reports
\* "cancelled" only for a run whose job was asked to stop.
THEOREM CancelsHitTheirOwn == Spec => []CancelHitsOwnJob
<1>1. PInv => CancelHitsOwnJob
  <2> SUFFICES ASSUME PInv PROVE CancelHitsOwnJob
    OBVIOUS
  <2>1. toServer \in Seq(Events)
    BY DEF PInv, TypeOK
  <2> QED
    BY <2>1 DEF PInv, Driving, Resting, Told, Asked, CancelHitsOwnJob
<1> QED
  BY <1>1, PInvariance, PTL

\* An acknowledgement that a fence finds was written for the boundary it fences.
THEOREM FencesReadTheirAck == Spec => []FenceOwnAck
<1>1. PInv => FenceOwnAck
  <2> SUFFICES ASSUME PInv, wst = "fence", NEW i \in DOMAIN toWorker PROVE toWorker[i].tag = wrun
    BY DEF FenceOwnAck
  <2>1. TypeOK /\ Own(Lines, run, Asked) /\ wrun = run
    BY IsDriven DEF Working, Blocking
  <2>2. rbuf \in Seq(Cmds) /\ toWorker \in Seq(Cmds)
    BY <2>1, Typed
  <2>3. Len(rbuf) + i \in 1 .. Len(rbuf \o toWorker) /\ (rbuf \o toWorker)[Len(rbuf) + i] = toWorker[i]
    BY <2>2
  <2> QED
    BY <2>1, <2>3 DEF Own, Lines
<1> QED
  BY <1>1, PInvariance, PTL

----------------------------------------------------------------------------
(* A drive as its caller sees it: every step of the driver and the worker  *)
(* is a step of the abstract drive or is not visible to it.                *)

\* Nothing is known yet of the jobs to come, nor of the one that is driven; only a job of
\* two passes is upscaled.
OnceInv ==
  /\ drv = "upscale" => hires
  /\ \A j \in Jobs : j > run[1] => result[j] = "none"
  /\ drv # "free" => result[run[1]] = "none"

\* A step that leaves the driver alone is not seen.
LEMMA DriveUnseen ==
  ASSUME OnceInv, UNCHANGED driverVars
  PROVE  OnceInv' /\ UNCHANGED Drives!vars
<1>1. /\ drv' = drv /\ held' = held /\ run' = run /\ hires' = hires /\ sent' = sent /\ result' = result
  BY DEF driverVars, jobVars
<1>2. OnceInv'
  BY <1>1 DEF OnceInv
<1>3. UNCHANGED Drives!vars
  BY <1>1 DEF Drives!vars
<1> QED
  BY <1>2, <1>3

\* A job that ends in one of the ways a drive may return.
LEMMA DriveReturns ==
  ASSUME PInv, OnceInv, drv # "free", NEW r, Finish(r), UNCHANGED <<run, hires, sent>>,
         held' \in BOOLEAN, [ev |-> r, lost |-> ~held'] \in Drives!Endings
  PROVE  OnceInv' /\ Drives!End
<1>1. TypeOK /\ run[1] \in Jobs /\ result[run[1]] = "none"
  <2>1. TypeOK /\ run \in Runs
    BY DEF PInv
  <2>2. run[1] \in Jobs
    BY <2>1 DEF Runs
  <2> QED
    BY <2>1, <2>2 DEF OnceInv
<1>2. drv' = "free" /\ result' = [result EXCEPT ![run[1]] = r]
  BY DEF Finish
<1>3. OnceInv'
  <2>1. \A j \in Jobs : j > run[1] => result'[j] = result[j]
    BY <1>1, <1>2, PipeAssumption DEF TypeOK, Jobs
  <2> QED
    BY <1>2, <2>1 DEF OnceInv
<1>4. Drives!Returns(run[1], [ev |-> r, lost |-> ~held'])
  BY <1>1, <1>2 DEF Drives!Returns
<1>5. UNCHANGED <<run[1], Asked, hires>>
  BY DEF Asked
<1> QED
  BY <1>2, <1>3, <1>4, <1>5 DEF Drives!End, Asked

LEMMA DriveSpawn == PInv /\ OnceInv /\ Spawn => OnceInv' /\ Drives!Replace
<1> SUFFICES ASSUME PInv, OnceInv, Spawn PROVE OnceInv' /\ Drives!Replace
  OBVIOUS
<1>1. /\ drv = "free" /\ drv' = drv /\ run' = run /\ hires' = hires /\ sent' = sent /\ result' = result
      /\ ~held /\ held' = TRUE
  BY DEF Spawn, jobVars
<1>2. OnceInv'
  BY <1>1 DEF OnceInv
<1> QED
  BY <1>1, <1>2 DEF Drives!Replace

LEMMA DriveSendStart == PInv /\ OnceInv /\ SendStart => OnceInv' /\ Drives!Begin
<1> SUFFICES ASSUME PInv, OnceInv, SendStart PROVE OnceInv' /\ Drives!Begin
  OBVIOUS
<1>1. /\ drv = "free" /\ held /\ run[1] < MaxJobs /\ run' = <<run[1] + 1, 1>> /\ hires' \in BOOLEAN
      /\ sent' = [p \in Passes |-> 0] /\ TypeOK
  BY DEF SendStart, PInv
<1>2. run[1] \in Nat /\ MaxJobs \in Nat /\ run[1] + 1 \in Jobs /\ run'[1] = run[1] + 1
  BY <1>1, Typed DEF Jobs
<1>3. result[run[1] + 1] = "none" /\ \A j \in Jobs : j > run[1] + 1 => result[j] = "none"
  BY <1>2 DEF OnceInv, Jobs
<1>4. Asked' = FALSE
  <2>1. sent'[1] = 0 /\ sent'[2] = 0
    BY <1>1 DEF Passes
  <2> QED
    BY <2>1 DEF Asked
<1>5. CASE wst # "dead"
  <2>1. drv' = "driving" /\ held' = held /\ result' = result
    BY <1>5 DEF SendStart
  <2>2. OnceInv'
    BY <1>2, <1>3, <2>1 DEF OnceInv
  <2> QED
    BY <1>1, <1>2, <1>4, <2>1, <2>2 DEF Drives!Begin, Asked
<1>6. CASE wst = "dead"
  <2>1. drv' = drv /\ held' = FALSE /\ result' = [result EXCEPT ![run[1] + 1] = "failed"]
    BY <1>2, <1>6 DEF SendStart, Kill
  <2>2. OnceInv'
    <3>1. \A j \in Jobs : j > run[1] + 1 => result'[j] = result[j]
      BY <1>1, <1>2, <2>1 DEF TypeOK, Jobs
    <3> QED
      BY <1>1, <1>2, <1>3, <2>1, <3>1 DEF OnceInv
  <2>3. Drives!Returns(run'[1], [ev |-> "failed", lost |-> TRUE])
    BY <1>2, <1>3, <2>1 DEF Drives!Returns
  <2> QED
    BY <1>1, <1>2, <1>4, <2>1, <2>2, <2>3 DEF Drives!Begin, Asked
<1> QED
  BY <1>5, <1>6

\* A cancel line was written: its job has been asked to stop.
LEMMA DriveSendCancel == PInv /\ OnceInv /\ SendCancel => OnceInv' /\ Drives!Ask
<1> SUFFICES ASSUME PInv, OnceInv, SendCancel PROVE OnceInv' /\ Drives!Ask
  OBVIOUS
<1>1. /\ drv = "driving" /\ drv' = drv /\ held' = held /\ run' = run /\ hires' = hires /\ result' = result
      /\ sent' = [sent EXCEPT ![run[2]] = @ + 1]
  BY DEF SendCancel
<1>2. Asked'
  <2>1. sent \in [Passes -> 0 .. MaxCancels] /\ run[2] \in Passes /\ sent[1] \in Nat /\ sent[2] \in Nat
    BY Typed DEF PInv, TypeOK
  <2>2. CASE run[2] = 1
    <3>1. sent'[1] = sent[1] + 1 /\ sent'[2] = sent[2]
      BY <1>1, <2>1, <2>2 DEF Passes
    <3> QED
      BY <2>1, <3>1 DEF Asked
  <2>3. CASE run[2] = 2
    <3>1. sent'[1] = sent[1] /\ sent'[2] = sent[2] + 1
      BY <1>1, <2>1, <2>3 DEF Passes
    <3> QED
      BY <2>1, <3>1 DEF Asked
  <2> QED
    BY <2>1, <2>2, <2>3 DEF Passes
<1>3. OnceInv'
  BY <1>1 DEF OnceInv
<1> QED
  BY <1>1, <1>2, <1>3 DEF Drives!Ask, Asked

\* The worker is killed: the job failed in its hands.
LEMMA DriveKilled ==
  ASSUME PInv, OnceInv, drv # "free", Finish("failed"), Kill, UNCHANGED <<run, hires, sent>>
  PROVE  OnceInv' /\ Drives!End
<1>1. ~held' /\ [ev |-> "failed", lost |-> ~held'] = [ev |-> "failed", lost |-> TRUE]
  BY DEF Kill
<1>2. [ev |-> "failed", lost |-> ~held'] \in Drives!Endings
  BY <1>1 DEF Drives!Endings
<1>3. held' \in BOOLEAN
  BY DEF Kill
<1> QED
  BY <1>2, <1>3, DriveReturns

\* An event the driver polls ends the drive, or is not seen.
LEMMA DrivePolls ==
  PInv /\ OnceInv /\ (PollProgress \/ PollFinal \/ PollDone \/ PollCancelled \/ PollFault)
    => OnceInv' /\ (Drives!End \/ UNCHANGED Drives!vars)
<1> SUFFICES ASSUME PInv, OnceInv, PollProgress \/ PollFinal \/ PollDone \/ PollCancelled \/ PollFault
             PROVE  OnceInv' /\ (Drives!End \/ UNCHANGED Drives!vars)
  OBVIOUS
<1>1. drv = "driving"
  BY DEF PollProgress, PollFinal, PollDone, PollCancelled, PollFault, Polled
<1>2. CASE UNCHANGED driverVars
  BY <1>2, DriveUnseen
<1>3. CASE Finish("failed") /\ Kill /\ UNCHANGED <<run, hires, sent>>
  BY <1>1, <1>3, DriveKilled
<1>4. CASE PollDone
  <2>1. Polled({"done"}) /\ UNCHANGED <<held, run, hires, sent>> /\ held
        /\ held' \in BOOLEAN
    BY <1>4, Polls DEF PollDone, TypeOK
  <2>2. CASE hires /\ run[2] = 1
    <3>1. drv' = "upscale" /\ result' = result
      BY <1>4, <2>2 DEF PollDone
    <3>2. OnceInv'
      BY <1>1, <2>1, <2>2, <3>1 DEF OnceInv
    <3>3. UNCHANGED Drives!vars
      BY <1>1, <2>1, <3>1 DEF Drives!vars
    <3> QED
      BY <3>2, <3>3
  <2>3. CASE ~(hires /\ run[2] = 1)
    <3>1. Finish("done")
      BY <1>4, <2>3 DEF PollDone
    <3>2. [ev |-> "done", lost |-> ~held'] = [ev |-> "done", lost |-> FALSE]
      BY <2>1
    <3>3. [ev |-> "done", lost |-> ~held'] \in Drives!Endings
      BY <3>2 DEF Drives!Endings
    <3> QED
      BY <1>1, <2>1, <3>1, <3>3, DriveReturns
  <2> QED
    BY <2>2, <2>3
<1>5. CASE PollCancelled
  <2>1. Polled({"cancelled"}) /\ UNCHANGED <<held, run, hires, sent>> /\ held /\ Finish("cancelled")
        /\ held' \in BOOLEAN
    BY <1>5, Polls DEF PollCancelled, TypeOK
  <2>2. Asked
    BY <2>1, Polls, ToldShrinks DEF Driving
  <2>3. [ev |-> "cancelled", lost |-> ~held'] = [ev |-> "cancelled", lost |-> FALSE]
    BY <2>1
  <2>4. [ev |-> "cancelled", lost |-> ~held'] \in Drives!Endings
    BY <2>2, <2>3 DEF Drives!Endings, Asked
  <2> QED
    BY <1>1, <2>1, <2>4, DriveReturns
<1> QED
  BY <1>2, <1>3, <1>4, <1>5 DEF PollProgress, PollFinal, PollFault

\* Between the passes the drive goes on, unseen, or it returns; only here does a failure
\* leave the worker alive.
LEMMA DriveUpscale == PInv /\ OnceInv /\ Upscale => OnceInv' /\ (Drives!End \/ UNCHANGED Drives!vars)
<1> SUFFICES ASSUME PInv, OnceInv, Upscale PROVE OnceInv' /\ (Drives!End \/ UNCHANGED Drives!vars)
  OBVIOUS
<1>1. drv = "upscale" /\ hires /\ held /\ UNCHANGED <<hires, sent>>
  BY DEF Upscale, PInv, OnceInv
<1>2. CASE drv' = "driving" /\ run' = <<run[1], run[2] + 1>> /\ UNCHANGED <<held, result>>
  <2>1. run'[1] = run[1]
    BY <1>2
  <2>2. OnceInv'
    BY <1>1, <1>2, <2>1 DEF OnceInv
  <2>3. UNCHANGED Drives!vars
    BY <1>1, <1>2, <2>1 DEF Drives!vars
  <2> QED
    BY <2>2, <2>3
<1>3. CASE Finish("failed") /\ Kill /\ UNCHANGED run
  BY <1>1, <1>3, DriveKilled
<1>4. CASE Finish("failed") /\ UNCHANGED <<held, run>>
  <2>1. [ev |-> "failed", lost |-> ~held'] = [ev |-> "failed", lost |-> FALSE]
    BY <1>1, <1>4
  <2>2. [ev |-> "failed", lost |-> ~held'] \in Drives!Endings
    BY <1>1, <2>1 DEF Drives!Endings
  <2>3. held' \in BOOLEAN
    BY <1>4 DEF PInv, TypeOK
  <2> QED
    BY <1>1, <1>4, <2>2, <2>3, DriveReturns
<1> QED
  BY <1>2, <1>3, <1>4 DEF Upscale

LEMMA DriveInit == Init => OnceInv /\ Drives!Init
<1> SUFFICES ASSUME Init PROVE OnceInv /\ Drives!Init
  OBVIOUS
<1>1. /\ drv = "free" /\ held = TRUE /\ run[1] = 0 /\ hires = FALSE /\ result = [j \in Jobs |-> "none"]
  BY DEF Init, NoRun
<1>2. sent[1] = 0 /\ sent[2] = 0
  BY DEF Init, Passes
<1>3. OnceInv
  BY <1>1 DEF OnceInv
<1>4. Asked = FALSE
  BY <1>2 DEF Asked
<1> QED
  BY <1>1, <1>3, <1>4 DEF Drives!Init, Jobs, Asked

LEMMA DriveNext == PInv /\ OnceInv /\ [Next]_vars => OnceInv' /\ [Drives!Next]_(Drives!vars)
<1> SUFFICES ASSUME PInv, OnceInv, [Next]_vars PROVE OnceInv' /\ [Drives!Next]_(Drives!vars)
  OBVIOUS
<1>1. CASE Spawn \/ SendStart \/ SendCancel
  BY <1>1, DriveSpawn, DriveSendStart, DriveSendCancel DEF Drives!Next
<1>2. CASE Poll
  BY <1>2, DrivePolls, DriveUpscale DEF Poll, Drives!Next
<1>3. CASE Worker \/ FenceTimeout \/ WorkerDies \/ UNCHANGED vars
  <2>1. UNCHANGED driverVars
    BY <1>3 DEF Worker, WorkerIdle, WorkerTick, EncodeEnd, DenoiseEnd, FenceRead, DecodeEnd,
                FenceTimeout, WorkerDies, vars
  <2> QED
    BY <2>1, DriveUnseen
<1> QED
  BY <1>1, <1>2, <1>3 DEF Next, Driver

\* The driver, the worker and the socket together implement a drive: a call that returns
\* once for every job, "cancelled" only if its job was asked to stop, and that loses its
\* worker exactly when the job failed in the worker's hands.
THEOREM DrivesAsPromised == Spec => ImplementsDrive
<1>1. Init => OnceInv /\ Drives!Init
  BY DriveInit
<1>2. PInv /\ OnceInv /\ [Next]_vars => OnceInv' /\ [Drives!Next]_(Drives!vars)
  BY DriveNext
<1>3. Spec => Drives!Spec
  BY <1>1, <1>2, PInvariance, PTL DEF Spec, Drives!Spec
<1> QED
  BY <1>3 DEF ImplementsDrive

----------------------------------------------------------------------------
(* Nothing gets stuck: the safety halves of EveryDriveEnds and of          *)
(* FenceIsAnswered. Fairness of the two processes does the rest.           *)

\* Whenever the driver polls for its run, somebody owes the next step of it: there is an
\* event to poll, or the worker is dead (which ends the job), or runs, or has the start
\* line still to read.
DriveMoves ==
  drv = "driving" =>
    \/ toServer # <<>> \/ wst = "dead" \/ wst \in Working
    \/ \E i \in DOMAIN Lines : Lines[i].cmd = "start" /\ Lines[i].tag = run

\* A worker at its fence has its acknowledgement in the socket, or the event that makes the
\* driver write it has not been polled yet: no line the fence dropped was the one it waits for.
FenceHears == wst = "fence" => HasAck \/ \E i \in DOMAIN toServer : toServer[i].ev = "final"

\* No wait of the driver for its worker is a wait for nothing: it polls without a deadline
\* (next_event_poll), so a job whose start or whose last event had been lost would never end.
THEOREM NoDriveIsStuck == Spec => []DriveMoves
<1>1. PInv => DriveMoves
  <2> SUFFICES ASSUME PInv, drv = "driving", wst = "idle", Pending(Lines, run, Asked)
               PROVE  \E i \in DOMAIN Lines : Lines[i].cmd = "start" /\ Lines[i].tag = run
    BY DEF DriveMoves, PInv, Driving, Ended
  <2>1. PICK k \in 1 .. Len(Lines) : Lines[k].cmd = "start" /\ Lines[k].tag = run
    BY DEF Pending
  <2>2. Lines \in Seq(Cmds)
    BY Typed DEF PInv, Lines
  <2> QED
    BY <2>1, <2>2
<1> QED
  BY <1>1, PInvariance, PTL

\* The report of the boundary stays in the socket until PollFinal takes it.
LEMMA FinalStays ==
  ASSUME PInv, FenceHears, wst = "fence", wst' = "fence", Driver
  PROVE  FenceHears'
<1>1. /\ TypeOK /\ drv = "driving" /\ toServer \in Seq(Events) /\ toWorker \in Seq(Cmds)
  BY IsDriven, Typed DEF Working, Blocking
<1>2. ASSUME HasAck, toWorker' = toWorker \/ \E x : toWorker' = Append(toWorker, x) PROVE HasAck'
  <2>1. PICK i \in DOMAIN toWorker : toWorker[i].cmd = "ack"
    BY <1>2 DEF HasAck
  <2>2. i \in DOMAIN toWorker' /\ toWorker'[i] = toWorker[i]
    BY <1>1, <1>2, <2>1
  <2> QED
    BY <2>1, <2>2 DEF HasAck
<1>3. ASSUME toServer # <<>>, toServer' = Tail(toServer), Head(toServer).ev # "final",
             NEW i \in DOMAIN toServer, toServer[i].ev = "final"
      PROVE  \E k \in DOMAIN toServer' : toServer'[k].ev = "final"
  <2>1. i # 1
    BY <1>1, <1>3
  <2>2. i - 1 \in DOMAIN toServer' /\ toServer'[i - 1] = toServer[i]
    BY <1>1, <1>3, <2>1
  <2> QED
    BY <1>3, <2>2
<1>4. CASE SendCancel
  <2>1. toServer' = toServer /\ (toWorker' = toWorker \/ \E x : toWorker' = Append(toWorker, x))
    BY <1>4 DEF SendCancel
  <2> QED
    BY <1>2, <2>1 DEF FenceHears
<1>5. CASE PollFinal
  <2>1. toWorker' = Append(toWorker, [cmd |-> "ack", tag |-> run])
    BY <1>5 DEF PollFinal, Kill
  <2>2. Len(toWorker) + 1 \in DOMAIN toWorker' /\ toWorker'[Len(toWorker) + 1].cmd = "ack"
    BY <1>1, <2>1
  <2> QED
    BY <2>2 DEF FenceHears, HasAck
<1>6. CASE PollProgress \/ PollDone \/ PollCancelled
  <2>1. /\ toWorker' = toWorker /\ toServer # <<>> /\ toServer' = Tail(toServer)
        /\ Head(toServer).ev # "final"
    BY <1>6 DEF PollProgress, PollDone, PollCancelled, Polled
  <2> QED
    BY <1>2, <1>3, <2>1 DEF FenceHears
<1>7. ~(PollFault \/ Spawn \/ SendStart \/ Upscale)
  BY <1>1 DEF PollFault, Kill, Spawn, SendStart, Upscale
<1> QED
  BY <1>4, <1>5, <1>6, <1>7 DEF Driver, Poll

LEMMA FenceStep == PInv /\ FenceHears /\ [Next]_vars => FenceHears'
<1> SUFFICES ASSUME PInv, FenceHears, [Next]_vars, wst' = "fence" PROVE FenceHears'
  BY DEF FenceHears
<1>1. CASE wst = "fence"
  <2>1. CASE Driver
    BY <1>1, <2>1, FinalStays
  <2>2. CASE Worker
    <3>1. FenceRead
      BY <1>1, <2>2 DEF Worker, WorkerIdle, WorkerTick, EncodeEnd, DenoiseEnd, DecodeEnd
    <3>2. ~HasAck /\ toServer' = toServer
      BY <1>1, <3>1 DEF FenceRead
    <3> QED
      BY <1>1, <3>2 DEF FenceHears
  <2>3. CASE FenceTimeout \/ WorkerDies
    BY <1>1, <2>3 DEF FenceTimeout, WorkerDies, Close
  <2>4. CASE UNCHANGED vars
    BY <1>1, <2>4 DEF vars, FenceHears, HasAck
  <2> QED
    BY <2>1, <2>2, <2>3, <2>4 DEF Next
<1>2. CASE wst # "fence"
  <2>1. DenoiseEnd
    BY <1>2 DEF Next, Driver, Poll, Worker, Spawn, SendStart, SendCancel, PollProgress, PollFinal,
       PollDone, PollCancelled, PollFault, Upscale, Kill, WorkerIdle, WorkerTick, ShortTick, LastTick,
       EncodeEnd, FenceRead, DecodeEnd, FenceTimeout, WorkerDies, Close, vars, workerVars
  <2>2. toServer' = Append(toServer, [ev |-> "final", tag |-> wrun]) /\ toServer \in Seq(Events)
    BY <2>1, Typed DEF DenoiseEnd, Close, Emit, PInv
  <2>3. Len(toServer) + 1 \in DOMAIN toServer' /\ toServer'[Len(toServer) + 1].ev = "final"
    BY <2>2
  <2> QED
    BY <2>3 DEF FenceHears
<1> QED
  BY <1>1, <1>2

\* The fence reads with a LineReader of its own and drops what is no acknowledgement: it
\* never drops, nor leaves in another buffer, the one that would release it.
THEOREM NoFenceIsDeaf == Spec => []FenceHears
<1>1. Init => FenceHears
  BY DEF Init, FenceHears
<1> QED
  BY <1>1, FenceStep, PInvariance, PTL DEF Spec
====
