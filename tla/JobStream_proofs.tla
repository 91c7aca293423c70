------------------------- MODULE JobStream_proofs -------------------------
(***************************************************************************)
(* Proofs about JobStream for any number of events and readers and any     *)
(* capacity of the ring: what a client sees is in order, without gaps it   *)
(* was not told of, and ends with the terminal event, which is always to   *)
(* come for a socket that waits. The inductive invariant is StreamInv. The *)
(* job that is streamed implements JobLog, as those of JobServer do.       *)
(*                                                                         *)
(* At the end, the types of MCParts, the run that explores this component  *)
(* and three others side by side: they follow from the theorems of the     *)
(* four, which is why this module extends the other three's proofs.        *)
(***************************************************************************)
EXTENDS MCParts, SlabBuild_proofs, ScailConvert_proofs, TurboLoader_proofs, SequenceTheorems

\* The sender is dropped after the terminal event.
EvictInv == evicted => Terminal

\* A reader that waits or replays has sent a prefix of its snapshot; its receiver starts
\* right behind it.
ReplayInv == \A r \in Readers :
  /\ place[r] \in {"away", "refused"} => got[r] = <<>> /\ ~lagged[r]
  /\ place[r] = "replay" =>
       /\ snap[r] <= n /\ next[r] = snap[r] + 1
       /\ Len(got[r]) <= snap[r] /\ ~lagged[r]

\* A live reader has only older events behind it, and the terminal one before it.
LiveInv == \A r \in Readers :
  place[r] = "live" =>
    /\ next[r] <= total
    /\ \A i \in DOMAIN got[r] : got[r][i] < next[r]
    /\ ~lagged[r] => Len(got[r]) + 1 = next[r]

StreamInv == STypeOK /\ EvictInv /\ ReplayInv /\ LiveInv /\ FramesAreFaithful

\* The clause of FramesAreFaithful for one reader.
Faithful(seen, lag, pl) ==
  /\ \A i, k \in DOMAIN seen : i < k => seen[i] < seen[k]
  /\ ~lag => \A i \in DOMAIN seen : seen[i] = i
  /\ pl = "closed" => seen # <<>> /\ seen[Len(seen)] = total

LEMMA FaithfulEach ==
  FramesAreFaithful <=> \A r \in Readers : Faithful(got[r], lagged[r], place[r])
BY DEF FramesAreFaithful, Faithful

\* Sending one more event than all that were sent.
LEMMA Extend ==
  ASSUME NEW seen \in Seq(1 .. MaxEvents), NEW e \in 1 .. MaxEvents, NEW lag \in BOOLEAN,
         Faithful(seen, lag, "live"), \A i \in DOMAIN seen : seen[i] < e,
         ~lag => Len(seen) + 1 = e
  PROVE  /\ Append(seen, e) \in Seq(1 .. MaxEvents) /\ Append(seen, e) # <<>>
         /\ Len(Append(seen, e)) = Len(seen) + 1 /\ Append(seen, e)[Len(Append(seen, e))] = e
         /\ \A i \in DOMAIN Append(seen, e) : Append(seen, e)[i] < e + 1
         /\ Faithful(Append(seen, e), lag, "live")
<1> DEFINE more == Append(seen, e)
<1>1. /\ more \in Seq(1 .. MaxEvents) /\ Len(more) = Len(seen) + 1 /\ more[Len(more)] = e
      /\ \A i \in DOMAIN seen : more[i] = seen[i] /\ seen[i] \in 1 .. MaxEvents
      /\ DOMAIN more = 1 .. Len(seen) + 1 /\ DOMAIN seen = 1 .. Len(seen) /\ Len(seen) \in Nat
  <2>1. Len(seen) \in Nat /\ DOMAIN seen = 1 .. Len(seen) /\ \A i \in 1 .. Len(seen) : seen[i] \in 1 .. MaxEvents
    BY ElementOfSeq, LenProperties
  <2>2. more \in Seq(1 .. MaxEvents) /\ Len(more) = Len(seen) + 1
    OBVIOUS
  <2>3. more[Len(seen) + 1] = e /\ \A i \in 1 .. Len(seen) : more[i] = seen[i]
    OBVIOUS
  <2>4. DOMAIN more = 1 .. Len(seen) + 1
    BY <2>2
  <2> QED
    BY <2>1, <2>2, <2>3, <2>4
<1>2. more # <<>> /\ \A i \in DOMAIN more : i \in DOMAIN seen \/ i = Len(seen) + 1
  BY <1>1
<1>3. \A i \in DOMAIN more : more[i] < e + 1
  BY <1>1, <1>2, StreamAssumption
<1>4. \A i, k \in DOMAIN more : i < k => more[i] < more[k]
  <2> SUFFICES ASSUME NEW i \in DOMAIN more, NEW k \in DOMAIN more, i < k PROVE more[i] < more[k]
    OBVIOUS
  <2>1. i \in DOMAIN seen
    BY <1>1, <1>2
  <2>2. CASE k \in DOMAIN seen
    BY <2>1, <2>2, <1>1 DEF Faithful
  <2>3. CASE k = Len(seen) + 1
    BY <2>1, <2>3, <1>1
  <2> QED
    BY <1>2, <2>2, <2>3
<1>5. ~lag => \A i \in DOMAIN more : more[i] = i
  BY <1>1, <1>2 DEF Faithful
<1> QED
  BY <1>1, <1>2, <1>3, <1>4, <1>5 DEF Faithful

----------------------------------------------------------------------------
(* The inductive invariant.                                                *)

LEMMA StreamInit == SInit => StreamInv
<1> SUFFICES ASSUME SInit PROVE StreamInv
  OBVIOUS
<1>1. STypeOK
  <2>1. got \in [Readers -> Seq(1 .. MaxEvents)]
    BY DEF SInit
  <2>2. total \in 1 .. MaxEvents /\ n \in 0 .. total /\ next \in [Readers -> 1 .. MaxEvents + 1]
        /\ snap \in [Readers -> 0 .. MaxEvents]
    BY StreamAssumption DEF SInit
  <2> QED
    BY <2>1, <2>2 DEF SInit, STypeOK
<1>2. EvictInv /\ ReplayInv /\ LiveInv /\ FramesAreFaithful
  BY DEF SInit, EvictInv, ReplayInv, LiveInv, FramesAreFaithful
<1> QED
  BY <1>1, <1>2 DEF StreamInv

\* Steps of the channel: no reader moves.
LEMMA ChannelStep == StreamInv /\ (Publish \/ Evict \/ RemoveQueued) => StreamInv'
<1> SUFFICES ASSUME StreamInv, Publish \/ Evict \/ RemoveQueued PROVE StreamInv'
  OBVIOUS
<1> USE DEF Publish, Evict, RemoveQueued, readerVars, Terminal, StreamInv
<1>1. STypeOK'
  <2>1. total \in Nat /\ n \in Nat /\ n <= total
    BY StreamAssumption DEF STypeOK
  <2>2. n' \in 0 .. total
    <3>1. CASE Publish
      BY <2>1, <3>1
    <3>2. CASE Evict \/ RemoveQueued
      BY <2>1, <3>2
    <3> QED
      BY <3>1, <3>2
  <2> QED
    BY <2>2 DEF STypeOK
<1>2. EvictInv'
  BY DEF EvictInv, STypeOK
<1>3. ReplayInv'
  BY DEF ReplayInv, STypeOK
<1>4. LiveInv' /\ FramesAreFaithful'
  BY DEF LiveInv, FramesAreFaithful
<1> QED
  BY <1>1, <1>2, <1>3, <1>4

\* What a step of reader r has to show: the others do not move.
LEMMA OneReader ==
  ASSUME StreamInv, NEW r \in Readers, UNCHANGED <<total, n, evicted, removed>>,
         STypeOK',
         \A q \in Readers \ {r} :
           /\ place'[q] = place[q] /\ snap'[q] = snap[q] /\ next'[q] = next[q]
           /\ got'[q] = got[q] /\ lagged'[q] = lagged[q],
         Faithful(got'[r], lagged'[r], place'[r]),
         place'[r] \in {"away", "refused"} => got'[r] = <<>> /\ ~lagged'[r],
         place'[r] = "replay" => /\ snap'[r] <= n /\ next'[r] = snap'[r] + 1
                                 /\ Len(got'[r]) <= snap'[r] /\ ~lagged'[r],
         place'[r] = "live" => /\ next'[r] <= total
                               /\ \A i \in DOMAIN got'[r] : got'[r][i] < next'[r]
                               /\ ~lagged'[r] => Len(got'[r]) + 1 = next'[r]
  PROVE  StreamInv'
<1>1. EvictInv'
  BY DEF StreamInv, EvictInv, Terminal
<1>2. ReplayInv'
  BY DEF StreamInv, ReplayInv
<1>3. LiveInv'
  BY DEF StreamInv, LiveInv
<1>4. FramesAreFaithful'
  <2>1. \A q \in Readers : Faithful(got[q], lagged[q], place[q])
    BY FaithfulEach DEF StreamInv
  <2>2. \A q \in Readers : Faithful(got'[q], lagged'[q], place'[q])
    BY <2>1
  <2> QED
    BY <2>2 DEF FramesAreFaithful, Faithful
<1> QED
  BY <1>1, <1>2, <1>3, <1>4 DEF StreamInv

\* Steps of a reader that send nothing: it attaches, is refused, ends its snapshot, is moved
\* by a lag or hangs up.
LEMMA QuietStep ==
  ASSUME StreamInv, NEW r \in Readers,
         Attach(r) \/ Refuse(r) \/ EndReplay(r) \/ Lag(r) \/ HangUp(r)
  PROVE  StreamInv'
<1>inv. STypeOK /\ ReplayInv /\ LiveInv /\ Faithful(got[r], lagged[r], place[r])
  BY FaithfulEach DEF StreamInv
<1>nat. /\ total \in Nat /\ n \in Nat /\ n <= total /\ 1 <= total /\ total <= MaxEvents
        /\ snap[r] \in Nat /\ next[r] \in Nat /\ 1 <= next[r] /\ next[r] <= MaxEvents + 1
  BY <1>inv, StreamAssumption DEF STypeOK
<1>seq. got[r] \in Seq(1 .. MaxEvents) /\ Len(got[r]) \in Nat /\ DOMAIN got[r] = 1 .. Len(got[r])
        /\ \A i \in DOMAIN got[r] : got[r][i] \in Nat
  <2>1. got[r] \in Seq(1 .. MaxEvents)
    BY <1>inv DEF STypeOK
  <2>2. Len(got[r]) \in Nat /\ DOMAIN got[r] = 1 .. Len(got[r])
    BY <2>1, LenProperties
  <2>3. ASSUME NEW i \in 1 .. Len(got[r]) PROVE got[r][i] \in 1 .. MaxEvents
    BY <2>1, <2>3, ElementOfSeq
  <2> QED
    BY <2>1, <2>2, <2>3, StreamAssumption
<1>attach. CASE Attach(r)
  <2>1. STypeOK'
    <3>1. n \in 0 .. MaxEvents /\ n + 1 \in 1 .. MaxEvents + 1
      BY <1>nat, StreamAssumption
    <3> QED
      BY <1>attach, <1>inv, <3>1 DEF Attach, STypeOK
  <2>2. /\ place'[r] = "replay" /\ snap'[r] = n /\ next'[r] = n + 1
        /\ got'[r] = <<>> /\ ~lagged'[r] /\ got[r] = <<>>
    BY <1>attach, <1>inv DEF Attach, STypeOK, ReplayInv
  <2>3. Faithful(got'[r], lagged'[r], place'[r])
    BY <2>2 DEF Faithful
  <2>4. Len(got'[r]) <= snap'[r] /\ snap'[r] <= n /\ next'[r] = snap'[r] + 1
    BY <2>2, <1>nat
  <2>5. place'[r] \notin {"away", "refused", "live"}
    BY <2>2
  <2>6. \A q \in Readers \ {r} :
           /\ place'[q] = place[q] /\ snap'[q] = snap[q] /\ next'[q] = next[q]
           /\ got'[q] = got[q] /\ lagged'[q] = lagged[q]
    BY <1>attach, <1>inv DEF Attach, STypeOK
  <2>7. UNCHANGED <<total, n, evicted, removed>>
    BY <1>attach DEF Attach
  <2> QED
    BY <2>1, <2>2, <2>3, <2>4, <2>5, <2>6, <2>7, OneReader
<1>refuse. CASE Refuse(r)
  <2>1. STypeOK'
    BY <1>refuse, <1>inv DEF Refuse, STypeOK
  <2>2. place[r] = "away" /\ place'[r] = "refused" /\ got'[r] = got[r] /\ lagged'[r] = lagged[r]
    BY <1>refuse, <1>inv DEF Refuse, STypeOK
  <2>3. Faithful(got'[r], lagged'[r], place'[r])
    BY <2>2, <1>inv DEF Faithful
  <2> QED
    BY <1>refuse, <2>1, <2>2, <2>3, <1>inv, OneReader DEF Refuse, STypeOK, ReplayInv
<1>end. CASE EndReplay(r)
  <2>1. STypeOK'
    BY <1>end, <1>inv DEF EndReplay, STypeOK
  <2>2. /\ place[r] = "replay" /\ Len(got[r]) = snap[r]
        /\ place'[r] = IF snap[r] = total THEN "closed" ELSE "live"
        /\ UNCHANGED <<total, n, evicted, removed, snap, next, got, lagged>>
    BY <1>end, <1>inv DEF EndReplay, STypeOK
  <2>3. ~lagged[r] /\ snap[r] <= n /\ next[r] = snap[r] + 1
    BY <2>2, <1>inv DEF ReplayInv
  <2>4. \A i \in DOMAIN got[r] : got[r][i] = i
    BY <2>3, <1>inv DEF Faithful
  <2>5. Faithful(got'[r], lagged'[r], place'[r])
    <3>1. CASE snap[r] = total
      <4>1. got[r] # <<>> /\ got[r][Len(got[r])] = total
        BY <3>1, <2>2, <2>4, <1>seq, <1>nat
      <4> QED
        BY <4>1, <2>2, <1>inv DEF Faithful
    <3>2. CASE snap[r] # total
      BY <3>2, <2>2, <1>inv DEF Faithful
    <3> QED
      BY <3>1, <3>2
  <2>6. place'[r] = "live" => /\ next'[r] <= total
                              /\ \A i \in DOMAIN got'[r] : got'[r][i] < next'[r]
                              /\ Len(got'[r]) + 1 = next'[r]
    BY <2>2, <2>3, <2>4, <1>seq, <1>nat
  <2>7. place'[r] \notin {"away", "refused", "replay"}
    BY <2>2
  <2> QED
    BY <1>end, <2>1, <2>2, <2>5, <2>6, <2>7, <1>inv, OneReader DEF EndReplay, STypeOK
<1>lag. CASE Lag(r)
  <2>1. /\ place[r] = "live" /\ place'[r] = "live" /\ got'[r] = got[r] /\ lagged'[r]
        /\ next'[r] = (n + 1) - Cap /\ next[r] + Cap <= n
    BY <1>lag, <1>inv DEF Lag, STypeOK
  <2>2. next'[r] \in Nat /\ next[r] < next'[r] /\ next'[r] <= n
    BY <2>1, <1>nat, StreamAssumption
  <2>3. STypeOK'
    <3>1. next'[r] \in 1 .. MaxEvents + 1
      BY <2>2, <1>nat, StreamAssumption
    <3> QED
      BY <1>lag, <1>inv, <3>1, <2>1 DEF Lag, STypeOK
  <2>4. Faithful(got'[r], lagged'[r], place'[r])
    BY <2>1, <1>inv DEF Faithful
  <2>5. next'[r] <= total /\ \A i \in DOMAIN got'[r] : got'[r][i] < next'[r]
    BY <2>1, <2>2, <1>nat, <1>inv, <1>seq DEF LiveInv
  <2> QED
    BY <1>lag, <2>1, <2>3, <2>4, <2>5, <1>inv, OneReader DEF Lag, STypeOK
<1>hang. CASE HangUp(r)
  <2>1. STypeOK'
    BY <1>hang, <1>inv DEF HangUp, STypeOK
  <2>2. place'[r] = "gone" /\ got'[r] = got[r] /\ lagged'[r] = lagged[r]
    BY <1>hang, <1>inv DEF HangUp, STypeOK
  <2>3. Faithful(got'[r], lagged'[r], place'[r])
    BY <2>2, <1>inv DEF Faithful
  <2> QED
    BY <1>hang, <2>1, <2>2, <2>3, <1>inv, OneReader DEF HangUp, STypeOK
<1> QED
  BY <1>attach, <1>refuse, <1>end, <1>lag, <1>hang

\* The next frame of the snapshot is the one after the last that was sent.
LEMMA ReplayStep == ASSUME StreamInv, NEW r \in Readers, Replay(r) PROVE StreamInv'
<1>inv. STypeOK /\ ReplayInv /\ Faithful(got[r], lagged[r], "live")
  BY FaithfulEach DEF StreamInv, Faithful
<1>1. /\ place[r] = "replay" /\ Len(got[r]) < snap[r] /\ place'[r] = "replay"
      /\ got'[r] = Append(got[r], Len(got[r]) + 1)
      /\ UNCHANGED <<total, n, evicted, removed, place, snap, next, lagged>>
  BY <1>inv DEF Replay, STypeOK
<1>2. ~lagged[r] /\ snap[r] <= n /\ next[r] = snap[r] + 1
  BY <1>1, <1>inv DEF ReplayInv
<1>3. got[r] \in Seq(1 .. MaxEvents) /\ Len(got[r]) \in Nat /\ DOMAIN got[r] = 1 .. Len(got[r])
      /\ snap[r] \in 0 .. MaxEvents /\ lagged[r] \in BOOLEAN
  BY <1>inv, LenProperties DEF STypeOK
<1> DEFINE e == Len(got[r]) + 1
<1>4. e \in 1 .. MaxEvents /\ e <= snap[r]
  BY <1>1, <1>3, StreamAssumption
<1>5. \A i \in DOMAIN got[r] : got[r][i] < e
  BY <1>2, <1>3, <1>inv DEF Faithful
<1>ext. /\ Append(got[r], e) \in Seq(1 .. MaxEvents) /\ Len(Append(got[r], e)) = Len(got[r]) + 1
        /\ Faithful(Append(got[r], e), lagged[r], "live")
  <2> HIDE DEF e
  <2>1. ~lagged[r] => Len(got[r]) + 1 = e
    BY DEF e
  <2> QED
    BY <2>1, <1>3, <1>4, <1>5, <1>inv, Extend
<1>6. got'[r] \in Seq(1 .. MaxEvents) /\ Len(got'[r]) = Len(got[r]) + 1
      /\ Faithful(got'[r], lagged[r], "live")
  BY <1>1, <1>ext
<1>7. STypeOK'
  BY <1>1, <1>6, <1>inv DEF Replay, STypeOK
<1>8. Faithful(got'[r], lagged'[r], place'[r])
  BY <1>1, <1>6 DEF Faithful
<1>9. /\ Len(got'[r]) <= snap'[r] /\ snap'[r] <= n /\ next'[r] = snap'[r] + 1
      /\ ~lagged'[r] /\ place'[r] \notin {"away", "refused", "live"}
  BY <1>1, <1>2, <1>4, <1>6
<1>10. \A q \in Readers \ {r} :
         /\ place'[q] = place[q] /\ snap'[q] = snap[q] /\ next'[q] = next[q]
         /\ got'[q] = got[q] /\ lagged'[q] = lagged[q]
  BY <1>inv DEF Replay, STypeOK
<1> QED
  BY <1>1, <1>7, <1>8, <1>9, <1>10, OneReader

\* A live frame is newer than all that were sent; the sender is not dropped before the
\* terminal one was taken.
LEMMA DeliverStep == ASSUME StreamInv, NEW r \in Readers, Deliver(r) PROVE StreamInv'
<1>inv. STypeOK /\ LiveInv /\ EvictInv /\ Faithful(got[r], lagged[r], "live")
  BY FaithfulEach DEF StreamInv, Faithful
<1>1. place[r] = "live" /\ (next[r] <= n \/ evicted)
  BY DEF Deliver
<1>2. /\ next[r] <= total
      /\ \A i \in DOMAIN got[r] : got[r][i] < next[r]
      /\ ~lagged[r] => Len(got[r]) + 1 = next[r]
  BY <1>1, <1>inv DEF LiveInv
<1>3. total \in 1 .. MaxEvents /\ next[r] \in 1 .. MaxEvents + 1 /\ got[r] \in Seq(1 .. MaxEvents)
      /\ lagged[r] \in BOOLEAN
  BY <1>inv DEF STypeOK
<1>4. next[r] <= n
  BY <1>1, <1>2, <1>3, <1>inv DEF EvictInv, Terminal
<1>5. /\ got'[r] = Append(got[r], next[r]) /\ next'[r] = next[r] + 1
      /\ place'[r] = IF next[r] = total THEN "closed" ELSE "live"
      /\ UNCHANGED <<total, n, evicted, removed, snap, lagged>>
  BY <1>4, <1>inv DEF Deliver, STypeOK
<1>6. next[r] \in 1 .. MaxEvents
  BY <1>2, <1>3, StreamAssumption
<1>ext. /\ Append(got[r], next[r]) \in Seq(1 .. MaxEvents)
        /\ Append(got[r], next[r]) # <<>>
        /\ Len(Append(got[r], next[r])) = Len(got[r]) + 1
        /\ Append(got[r], next[r])[Len(Append(got[r], next[r]))] = next[r]
        /\ \A i \in DOMAIN Append(got[r], next[r]) : Append(got[r], next[r])[i] < next[r] + 1
        /\ Faithful(Append(got[r], next[r]), lagged[r], "live")
  BY <1>2, <1>3, <1>6, <1>inv, Extend
<1>7. /\ got'[r] \in Seq(1 .. MaxEvents) /\ Len(got'[r]) = Len(got[r]) + 1
      /\ \A i \in DOMAIN got'[r] : got'[r][i] < next'[r]
      /\ got'[r] # <<>> /\ got'[r][Len(got'[r])] = next[r]
      /\ Faithful(got'[r], lagged[r], "live")
  BY <1>5, <1>ext
<1>8. STypeOK'
  <2>1. next[r] + 1 \in 1 .. MaxEvents + 1
    BY <1>6, StreamAssumption
  <2>2. next' \in [Readers -> 1 .. MaxEvents + 1]
    BY <1>4, <2>1, <1>inv DEF Deliver, STypeOK
  <2>3. got' \in [Readers -> Seq(1 .. MaxEvents)]
    BY <1>4, <1>5, <1>7, <1>inv DEF Deliver, STypeOK
  <2>4. place' \in [Readers -> {"away", "replay", "live", "closed", "refused", "gone"}]
    BY <1>4, <1>inv DEF Deliver, STypeOK
  <2> QED
    BY <2>2, <2>3, <2>4, <1>5, <1>inv DEF STypeOK
<1>9. Faithful(got'[r], lagged'[r], place'[r])
  BY <1>5, <1>7 DEF Faithful
<1>10. place'[r] = "live" => next'[r] <= total /\ (~lagged'[r] => Len(got'[r]) + 1 = next'[r])
  BY <1>2, <1>3, <1>5, <1>7, StreamAssumption
<1>11. place'[r] \notin {"away", "refused", "replay"}
  BY <1>5
<1> QED
  BY <1>4, <1>5, <1>7, <1>8, <1>9, <1>10, <1>11, <1>inv, OneReader DEF Deliver, STypeOK

\* Whatever the publisher, the timer and the sockets do next.
LEMMA StreamStep == StreamInv /\ [SNext]_svars => StreamInv'
<1>1. StreamInv /\ SNext => StreamInv'
  BY ChannelStep, QuietStep, ReplayStep, DeliverStep DEF SNext, Reading
<1>2. StreamInv /\ UNCHANGED svars => StreamInv'
  <2> SUFFICES ASSUME StreamInv, UNCHANGED svars PROVE StreamInv'
    OBVIOUS
  <2>1. UNCHANGED <<total, n, evicted, removed, place, snap, next, got, lagged>>
    BY DEF svars, readerVars
  <2> QED
    BY <2>1 DEF StreamInv, STypeOK, EvictInv, ReplayInv, LiveInv, FramesAreFaithful, Terminal
<1> QED
  BY <1>1, <1>2

\* The invariant holds in every reachable state, also of a job nobody goes on with: no
\* fairness is used.
THEOREM StreamSafety == SInit /\ [][SNext]_svars => []StreamInv
BY StreamInit, StreamStep, PTL

THEOREM StreamInvariance == SSpec => []StreamInv
BY StreamSafety, PTL DEF SSpec

\* Every variable has its type.
THEOREM StreamTypes == SSpec => []STypeOK
BY StreamInvariance, PTL DEF StreamInv

\* What a client sees is the history in order, with gaps only after a lag, and a socket that
\* the server closed has sent the terminal event last: a lag never costs the end.
THEOREM StreamFaithful == SSpec => []FramesAreFaithful
BY StreamInvariance, PTL DEF StreamInv

\* The terminal event is still to come for every socket that waits for events: wherever it
\* attached and however often it lagged, its receiver never gets behind the end of the job
\* (the safety half of AttachedSocketsClose).
EndToCome == \A r \in Readers : place[r] = "live" => next[r] <= total

THEOREM NoSocketMissesTheEnd == SSpec => []EndToCome
<1>1. StreamInv => EndToCome
  BY DEF StreamInv, LiveInv, EndToCome
<1> QED
  BY <1>1, StreamInvariance, PTL

----------------------------------------------------------------------------
(* The log the sockets read.                                               *)

JobOf == {"job"}
Logged(k) == (IF k > 0 /\ total > 1 THEN <<"progress">> ELSE <<>>)
               \o (IF k = total THEN <<"done">> ELSE <<>>)

\* The four forms of the log.
LEMMA LogForms ==
  ASSUME total \in Nat \ {0}, NEW k \in Nat
  PROVE  /\ k = 0 => Logged(k) = <<>>
         /\ 0 < k /\ k < total => Logged(k) = Append(<<>>, "progress")
         /\ k = total /\ total = 1 => Logged(k) = Append(<<>>, "done")
         /\ k = total /\ total > 1 => Logged(k) = Append(Append(<<>>, "progress"), "done")
<1> DEFINE Evs == {"progress", "done"}
<1>1. <<>> \in Seq(Evs) /\ <<"progress">> \in Seq(Evs) /\ <<"done">> \in Seq(Evs)
  OBVIOUS
<1>2. /\ <<>> \o <<>> = <<>>
      /\ <<"progress">> \o <<>> = <<"progress">>
      /\ <<>> \o <<"progress">> = <<"progress">>
      /\ <<>> \o <<"done">> = Append(<<>>, "done")
      /\ Append(<<>>, "progress") = <<>> \o <<"progress">>
      /\ <<"progress">> \o <<"done">> = Append(<<"progress">>, "done")
  BY <1>1, AppendIsConcat, ConcatEmptySeq
<1>3. CASE k = 0
  BY <1>2, <1>3 DEF Logged
<1>4. CASE 0 < k /\ k < total
  <2>1. k > 0 /\ total > 1 /\ k # total
    BY <1>4
  <2> QED
    BY <1>1, <1>2, <2>1 DEF Logged
<1>5. CASE k = total
  <2>1. CASE total = 1
    BY <1>2, <1>5, <2>1 DEF Logged
  <2>2. CASE total > 1
    BY <1>2, <1>5, <2>2 DEF Logged
  <2> QED
    BY <1>5, <2>1, <2>2
<1> QED
  BY <1>3, <1>4, <1>5

\* The log is over exactly when the terminal event is in it.
LEMMA LogOver ==
  ASSUME STypeOK
  PROVE  /\ total \in Nat \ {0} /\ n \in Nat /\ n <= total
         /\ Channel!Over(Logged(n)) <=> n = total
         /\ Logged(n) = <<>> <=> n = 0
<1>1. total \in Nat \ {0} /\ n \in Nat /\ n <= total
  BY StreamAssumption DEF STypeOK
<1>2. /\ n = 0 => Logged(n) = <<>>
      /\ 0 < n /\ n < total => Logged(n) = Append(<<>>, "progress")
      /\ n = total => \/ Logged(n) = Append(<<>>, "done")
                      \/ Logged(n) = Append(Append(<<>>, "progress"), "done")
  BY <1>1, LogForms
<1>3. /\ ~Channel!Over(<<>>) /\ ~Channel!Over(Append(<<>>, "progress"))
      /\ Channel!Over(Append(<<>>, "done")) /\ Channel!Over(Append(Append(<<>>, "progress"), "done"))
      /\ Append(<<>>, "progress") # <<>> /\ Append(<<>>, "done") # <<>>
      /\ Append(Append(<<>>, "progress"), "done") # <<>>
  BY DEF Channel!Over, Channel!Ends
<1>4. /\ n = 0 \/ n = total \/ (0 < n /\ n < total)
      /\ ~(n = 0 /\ n = total)
  BY <1>1
<1> QED
  BY <1>1, <1>2, <1>3, <1>4

\* A step of the publisher logs the first progress, or the end, or nothing new; only the
\* timer drops the channel, and only after the end.
LEMMA LogStep ==
  ASSUME STypeOK, [SNext]_svars
  PROVE  [Channel!Next]_(Channel!vars)
<1> DEFINE log == [j \in JobOf |-> Logged(n)]
           withdrawn == IF removed THEN JobOf ELSE {}
           dropped == IF evicted THEN JobOf ELSE {}
<1>over. /\ total \in Nat \ {0} /\ n \in Nat /\ n <= total
         /\ Channel!Over(Logged(n)) <=> n = total
         /\ Logged(n) = <<>> <=> n = 0
  BY LogOver
<1>1. CASE Publish
  <2>1. total' = total /\ n' = n + 1 /\ n < total /\ ~removed /\ UNCHANGED <<removed, evicted>>
    BY <1>1, <1>over DEF Publish, Terminal
  <2>2. log' = [j \in JobOf |-> Logged(n + 1)] /\ withdrawn' = withdrawn /\ dropped' = dropped
    BY <2>1 DEF Logged
  <2>3. ASSUME NEW ev, Logged(n + 1) = Append(Logged(n), ev) PROVE Channel!Log("job", ev)
    <3>1. "job" \notin withdrawn /\ ~Channel!Over(log["job"])
      BY <2>1, <1>over DEF JobOf
    <3>2. log' = [log EXCEPT !["job"] = Append(@, ev)]
      BY <2>2, <2>3 DEF JobOf
    <3> QED
      BY <2>2, <3>1, <3>2 DEF Channel!Log, Logged, Terminal, JobOf
  <2>4. CASE n = 0 /\ n + 1 < total
    <3>1. Logged(n) = <<>> /\ Logged(n + 1) = Append(Logged(n), "progress")
      <4>1. n + 1 \in Nat /\ 0 < n + 1
        BY <1>over
      <4> QED
        BY <1>over, <2>4, <4>1, LogForms
    <3>2. Channel!Progress("job")
      BY <2>3, <3>1 DEF Channel!Progress, Logged, Terminal, JobOf
    <3> QED
      BY <3>2 DEF Channel!Next
  <2>5. CASE 0 < n /\ n + 1 < total
    <3>1. Logged(n + 1) = Logged(n)
      BY <1>over, <2>5, LogForms
    <3> QED
      BY <2>2, <3>1 DEF Channel!vars, Logged, Terminal, JobOf
  <2>6. CASE n + 1 = total
    <3>1. Logged(n + 1) = Append(Logged(n), "done")
      <4>1. CASE n = 0
        <5>1. total = 1 /\ n + 1 = total /\ n + 1 \in Nat
          BY <1>over, <2>6, <4>1
        <5> QED
          BY <1>over, <4>1, <5>1, LogForms
      <4>2. CASE n > 0
        <5>1. total > 1 /\ n + 1 = total /\ n + 1 \in Nat /\ n < total
          BY <1>over, <2>6, <4>2
        <5> QED
          BY <1>over, <4>2, <5>1, LogForms
      <4> QED
        BY <1>over, <4>1, <4>2
    <3>2. Channel!End("job")
      BY <2>3, <3>1 DEF Channel!End, Channel!Ends
    <3> QED
      BY <3>2 DEF Channel!Next
  <2>7. (n = 0 /\ n + 1 < total) \/ (0 < n /\ n + 1 < total) \/ n + 1 = total
    BY <1>over, <2>1
  <2> QED
    BY <2>4, <2>5, <2>6, <2>7
<1>2. CASE Evict
  <2>1. log' = log /\ withdrawn' = withdrawn /\ dropped' = dropped \cup {"job"} /\ n = total
    BY <1>2 DEF Evict, Terminal, Logged, JobOf
  <2>2. Channel!Drop("job")
    BY <1>over, <2>1 DEF Channel!Drop, Logged, Terminal, JobOf
  <2> QED
    BY <2>2 DEF Channel!Next
<1>3. CASE RemoveQueued
  <2>1. log' = log /\ withdrawn' = withdrawn \cup {"job"} /\ dropped' = dropped /\ n = 0
    BY <1>3 DEF RemoveQueued, Logged, JobOf
  <2>2. Channel!Withdraw("job")
    BY <1>over, <2>1 DEF Channel!Withdraw, Logged, Terminal, JobOf
  <2> QED
    BY <2>2 DEF Channel!Next
<1>4. ASSUME UNCHANGED <<total, n, evicted, removed>> PROVE UNCHANGED Channel!vars
  BY <1>4 DEF Channel!vars, Terminal
<1>5. ASSUME NEW r \in Readers, Attach(r) \/ Refuse(r) \/ Reading(r) \/ HangUp(r)
      PROVE  UNCHANGED <<total, n, evicted, removed>>
  BY <1>5 DEF Attach, Refuse, Reading, Replay, EndReplay, Deliver, Lag, HangUp
<1> QED
  BY <1>1, <1>2, <1>3, <1>4, <1>5 DEF SNext, svars

\* What the model of the stream assumes of its job is a behaviour JobServer promises
\* (JobServer_proofs!ChannelsAreLogs): the two modules fit together at JobLog.
THEOREM StreamIsLog == SSpec => SImplementsJobLog
<1>1. SInit => Channel!Init
  <2> SUFFICES ASSUME SInit PROVE Channel!Init
    OBVIOUS
  <2>1. total \in Nat \ {0} /\ n = 0 /\ ~removed /\ ~evicted
    BY StreamAssumption DEF SInit
  <2>2. Logged(n) = <<>>
    BY <2>1, LogForms
  <2> QED
    BY <2>1, <2>2 DEF Channel!Init, Logged, Terminal
<1>2. StreamInv /\ [SNext]_svars => [Channel!Next]_(Channel!vars)
  BY LogStep DEF StreamInv
<1>3. SSpec => Channel!Spec
  BY <1>1, <1>2, StreamInvariance, PTL DEF SSpec, Channel!Spec
<1> QED
  BY <1>3 DEF SImplementsJobLog

----------------------------------------------------------------------------
(* The parts side by side (MCParts).                                       *)

\* A behaviour of the composition is one of every part, so what is proved of the parts
\* holds in every run of MCParts.
LEMMA PartsComponents ==
  PartsSpec => Spec /\ CSpec /\ (SInit /\ [][SNext]_svars) /\ USpec
<1>1. PartsInit => Init /\ CInit /\ SInit /\ UInit
  BY DEF PartsInit
<1>2. [PartsNext]_<<part, vars, cvars, svars, uvars>>
        => [Next]_vars /\ [CNext]_cvars /\ [SNext]_svars /\ [UNext]_uvars
  BY DEF PartsNext
<1> QED
  BY <1>1, <1>2, PTL DEF PartsSpec, Spec, CSpec, USpec

\* Every variable of every part has its type in the composition.
THEOREM PartsTypes == PartsSpec => []PartsTypeOK
<1>1. TypeOK /\ CTypeOK /\ STypeOK /\ UTypeOK => PartsTypeOK
  BY DEF PartsTypeOK
<1>2. StreamInv => STypeOK
  BY DEF StreamInv
<1> QED
  BY <1>1, <1>2, PartsComponents, SlabTypes, ScailTypes, StreamSafety, TurboTypes, PTL
====
