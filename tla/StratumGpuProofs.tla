-------------------------- MODULE StratumGpuProofs ---------------------------
(***************************************************************************)
(* Proofs about pool mining on a GPU, for any fee period, any capacity of  *)
(* the channels and any number of jobs.                                    *)
(***************************************************************************)
EXTENDS StratumGpu, Integers, TLAPS

Busy == {"search", "hits", "send"}

\* The batch in hand is the project's exactly in the last turn of a period,
\* when the project has had a job in time.
TurnOK ==
  gpc \in Busy =>
    /\ cur = "dev" => index = FeePeriod - 1
    /\ devReady /\ index = FeePeriod - 1 => cur = "dev"

\* Once the project has a job it has one for good.
ReadyOK == devReady => job["dev"] # Empty

\* The count of batches: whole periods, each with its fee or without, and
\* the batches of the present one.
CountOK ==
  /\ fees * FeePeriod + index <= batches
  /\ devReady => fees * FeePeriod + index = batches
  /\ gpc \in Busy => batches < Horizon

\* A count begins with a period.
AlignedOK == \E k \in Nat : batches = k * FeePeriod + index

\* A job that has been replaced is taken from before the next batch of its
\* pool; between the two polls only the project's may be outdated.
StaleOK ==
  /\ \A p \in Pool : stale[p] <= 1
  /\ \A p \in Pool : stale[p] > 0 => seen[p] < job[p]
  /\ \A p \in Pool : seen[p] <= job[p]
  /\ gpc = "pollDev" => stale["main"] = 0
  /\ gpc = "search" => stale[cur] = 0

FeeInv == TurnOK /\ ReadyOK /\ CountOK /\ AlignedOK

\* The batch in hand is one of a job.
HeldOK ==
  /\ gpc = "pollDev" => seen["main"] # Empty
  /\ gpc \in Busy => seen[cur] # Empty

IInv == TypeOK /\ FeeInv /\ StaleOK /\ HeldOK /\ SharesReachTheirPool

\* The constants are what the assumptions of StratumGpu say.
LEMMA Constants ==
  /\ FeePeriod \in Nat /\ FeePeriod > 0
  /\ Capacity \in Nat
  /\ MaxJobs \in Nat
  /\ Horizon \in Nat /\ Horizon > 0
  /\ \E m \in Nat : Horizon = m * FeePeriod
BY FeePeriodAssumption, CapacityAssumption, BoundsAssumption

\* `batch_index` goes round.
LEMMA NextIndexIs ==
  ASSUME index \in 0..(FeePeriod - 1)
  PROVE  NextIndex = IF index = FeePeriod - 1 THEN 0 ELSE index + 1
BY Constants DEF NextIndex

\* A whole number of periods, counted from the start of one, ends one.
LEMMA Whole ==
  ASSUME NEW m \in Nat, NEW k \in Nat, NEW i \in 0..(FeePeriod - 1),
         m * FeePeriod = k * FeePeriod + i
  PROVE  i = 0
<1> USE Constants
<1>1. (m - k) * FeePeriod = i
  OBVIOUS
<1>2. CASE m > k
  BY <1>1, <1>2
<1>3. CASE m <= k
  BY <1>1, <1>3
<1> QED
  BY <1>2, <1>3

-----------------------------------------------------------------------------

\* `GpuStratumDevfundManager::new` establishes the invariant.
LEMMA InitIInv == Init => IInv
<1> SUFFICES ASSUME Init PROVE IInv
  OBVIOUS
<1> USE Constants DEF Init, Empty, Pool, Busy
<1>1. TypeOK
  <2>1. queue \in [Pool -> Seq(Share)] /\ \A p \in Pool : Len(queue[p]) <= Capacity
    BY DEF Init
  <2>2. /\ listener \in [Pool -> {"on", "eof", "error"}]
        /\ job \in [Pool -> 0..MaxJobs] /\ seen \in [Pool -> 0..MaxJobs]
        /\ stale \in [Pool -> Nat]
    OBVIOUS
  <2>3. /\ index \in 0..(FeePeriod - 1)
        /\ batches \in 0..Horizon /\ fees \in 0..batches
    OBVIOUS
  <2>4. cur \in Pool /\ devReady \in BOOLEAN
    BY DEF Init
  <2> QED
    BY <2>1, <2>2, <2>3, <2>4 DEF TypeOK
<1>2. AlignedOK
  BY DEF AlignedOK
<1>3. TurnOK /\ ReadyOK /\ CountOK
  BY DEF TurnOK, ReadyOK, CountOK
<1>4. StaleOK
  <2>1. \A p \in Pool : stale[p] = 0 /\ seen[p] = 0 /\ job[p] = 0
    OBVIOUS
  <2> QED
    BY <2>1 DEF StaleOK
<1>5. SharesReachTheirPool /\ HeldOK
  BY DEF SharesReachTheirPool, HeldOK
<1> QED
  BY <1>1, <1>2, <1>3, <1>4, <1>5 DEF IInv, FeeInv

\* `main` and the listeners touch neither the batches nor the count.
LEMMA ProgramIInv == IInv /\ ProgramStep => IInv'
<1> SUFFICES ASSUME IInv, ProgramStep PROVE IInv'
  OBVIOUS
<1> USE Constants DEF Empty, Pool, Busy, countVars, programVars
<1>1. CASE StartJoin \/ StartFails \/ Join \/ \E p \in Pool : ListenEnds(p)
  <2>1. /\ UNCHANGED <<job, seen, gpc, index, cur, queue, countVars>>
        /\ mainPc' \in {"starting", "joining", "retry", "ended"}
        /\ listener' \in [Pool -> {"on", "eof", "error"}]
    BY <1>1 DEF StartJoin, StartFails, Join, ListenEnds, IInv, TypeOK
  <2> QED
    BY <2>1 DEF IInv, TypeOK, FeeInv, TurnOK, ReadyOK, CountOK, AlignedOK, StaleOK,
                HeldOK, SharesReachTheirPool
<1>2. ASSUME NEW p \in Pool, ProcessJob(p) PROVE IInv'
  <2>1. /\ UNCHANGED <<programVars, seen, gpc, index, cur, queue, countVars>>
        /\ job' = [job EXCEPT ![p] = @ + 1] /\ job[p] < MaxJobs
    BY <1>2 DEF ProcessJob
  <2>2. TypeOK'
    BY <2>1 DEF IInv, TypeOK
  <2>3. StaleOK'
    BY <2>1 DEF IInv, TypeOK, StaleOK
  <2>4. ReadyOK'
    <3>1. job["dev"] \in Nat /\ job'["dev"] \in {job["dev"], job["dev"] + 1}
      BY <2>1 DEF IInv, TypeOK
    <3> QED
      BY <2>1, <3>1 DEF IInv, FeeInv, ReadyOK
  <2>5. (TurnOK /\ CountOK /\ AlignedOK)'
    BY <2>1 DEF IInv, FeeInv, TurnOK, CountOK, AlignedOK
  <2> QED
    BY <2>1, <2>2, <2>3, <2>4, <2>5 DEF IInv, FeeInv, HeldOK, SharesReachTheirPool
<1>3. ASSUME NEW p \in Pool, Drain(p) PROVE IInv'
  <2>1. /\ UNCHANGED <<programVars, job, seen, gpc, index, cur, countVars>>
        /\ queue[p] # <<>> /\ queue' = [queue EXCEPT ![p] = Tail(@)]
    BY <1>3 DEF Drain
  <2>2. /\ Tail(queue[p]) \in Seq(Share)
        /\ Len(Tail(queue[p])) = Len(queue[p]) - 1
        /\ \A i \in 1..(Len(queue[p]) - 1) : Tail(queue[p])[i] = queue[p][i + 1]
    BY <2>1 DEF IInv, TypeOK
  <2>3. TypeOK'
    BY <2>1, <2>2 DEF IInv, TypeOK
  <2>4. SharesReachTheirPool'
    <3>1. ASSUME NEW q \in Pool, NEW i \in 1..Len(queue'[q]) PROVE queue'[q][i].pool = q
      <4>1. CASE q = p
        <5>1. queue'[q] = Tail(queue[q]) /\ i + 1 \in 1..Len(queue[q])
          BY <2>1, <2>2, <4>1 DEF IInv, TypeOK
        <5> QED
          BY <2>2, <4>1, <5>1 DEF IInv, TypeOK, SharesReachTheirPool
      <4>2. CASE q # p
        BY <2>1, <4>2 DEF IInv, TypeOK, SharesReachTheirPool
      <4> QED
        BY <4>1, <4>2
    <3> QED
      BY <3>1 DEF SharesReachTheirPool
  <2> QED
    BY <2>1, <2>3, <2>4 DEF IInv, FeeInv, TurnOK, ReadyOK, CountOK, AlignedOK, StaleOK,
                               HeldOK
<1> QED
  BY <1>1, <1>2, <1>3 DEF ProgramStep

\* The steps of the GPU thread that leave the count alone
LEMMA BatchIInv ==
  ASSUME IInv,
         InitGpu \/ PollMain \/ Search \/ SearchError \/ Hit \/ SendError
  PROVE  IInv'
<1> USE Constants DEF Empty, Pool, Busy, countVars, programVars
<1>1. CASE InitGpu \/ SearchError \/ Hit \/ SendError
  <2>1. /\ UNCHANGED <<programVars, job, seen, index, cur, queue, countVars>>
        /\ \/ gpc' \in {"top", "gone"}
           \/ gpc' = "send" /\ gpc = "hits"
    BY <1>1 DEF InitGpu, SearchError, Hit, SendError
  <2> QED
    BY <2>1 DEF IInv, TypeOK, FeeInv, TurnOK, ReadyOK, CountOK, AlignedOK, StaleOK,
                HeldOK, SharesReachTheirPool
<1>2. CASE PollMain
  <2>1. TypeOK'
    BY <1>2 DEF PollMain, IInv, TypeOK
  <2>2. FeeInv' /\ SharesReachTheirPool'
    BY <1>2 DEF PollMain, IInv, FeeInv, TurnOK, ReadyOK, CountOK, AlignedOK,
                SharesReachTheirPool
  <2>3. stale'["main"] = 0
    BY <1>2 DEF PollMain, IInv, TypeOK, StaleOK
  <2>4. StaleOK'
    BY <1>2, <2>3 DEF PollMain, IInv, TypeOK, StaleOK
  <2>5. HeldOK'
    <3>1. seen'["main"] = job["main"] /\ job["main"] # Empty
      BY <1>2 DEF PollMain, IInv, TypeOK, StaleOK
    <3> QED
      BY <1>2, <3>1 DEF PollMain, HeldOK
  <2> QED
    BY <2>1, <2>2, <2>4, <2>5 DEF IInv
<1>3. CASE Search
  <2>1. TypeOK'
    BY <1>3 DEF Search, IInv, TypeOK
  <2>2. FeeInv' /\ SharesReachTheirPool'
    BY <1>3 DEF Search, IInv, FeeInv, TurnOK, ReadyOK, CountOK, AlignedOK,
                SharesReachTheirPool
  <2>3. stale'[cur] <= 1 /\ (stale'[cur] > 0 => seen[cur] # job[cur])
    BY <1>3 DEF Search, IInv, TypeOK, StaleOK
  <2>4. StaleOK'
    BY <1>3, <2>3 DEF Search, IInv, TypeOK, StaleOK
  <2>5. HeldOK'
    BY <1>3 DEF Search, IInv, HeldOK
  <2> QED
    BY <2>1, <2>2, <2>4, <2>5 DEF IInv
<1> QED
  BY <1>1, <1>2, <1>3

\* The choice of a pool: a new count begins with a new period, and the
\* project's turn is its own whenever it was ready when the count began.
LEMMA PickIInv == IInv /\ PollDevAndPick => IInv'
<1> SUFFICES ASSUME IInv, PollDevAndPick PROVE IInv'
  OBVIOUS
<1> USE Constants DEF Empty, Pool, Busy, programVars
<1> USE DEF PollDevAndPick, IInv, TypeOK
<1>1. /\ cur' = IF index = FeePeriod - 1 /\ job["dev"] # Empty THEN "dev" ELSE "main"
      /\ gpc' = "search" /\ index' = index /\ job' = job
  BY DEF Pick
<1>2. StaleOK'
  <2>1. stale'["dev"] = 0 /\ stale'["main"] = stale["main"] /\ stale["main"] = 0
    BY DEF StaleOK
  <2>2. seen'["dev"] = job["dev"] /\ seen'["main"] = seen["main"]
    OBVIOUS
  <2> QED
    BY <1>1, <2>1, <2>2 DEF StaleOK
<1>h. HeldOK'
  <2>1. gpc = "pollDev" /\ seen["main"] # Empty
    BY DEF HeldOK
  <2>2. seen'["dev"] = job["dev"] /\ seen'["main"] = seen["main"]
    OBVIOUS
  <2> QED
    BY <1>1, <2>1, <2>2 DEF HeldOK
<1>3. CASE batches \in {0, Horizon}
  <2>1. index = 0
    <3>1. PICK k \in Nat : batches = k * FeePeriod + index
      BY DEF FeeInv, AlignedOK
    <3>2. PICK m \in Nat : batches = m * FeePeriod
      <4>1. CASE batches = 0
        <5>1. 0 * FeePeriod = 0
          OBVIOUS
        <5> QED
          BY <4>1, <5>1
      <4>2. CASE batches = Horizon
        BY <4>2
      <4> QED
        BY <1>3, <4>1, <4>2
    <3> QED
      BY <3>1, <3>2, Whole
  <2>2. batches' = 0 /\ fees' = 0 /\ devReady' = (job["dev"] # Empty)
    BY <1>3
  <2>3. TypeOK'
    BY <1>1, <2>2
  <2>4. AlignedOK'
    BY <1>1, <2>1, <2>2 DEF AlignedOK
  <2>5. (TurnOK /\ ReadyOK)'
    BY <1>1, <2>1, <2>2 DEF TurnOK, ReadyOK
  <2>6. CountOK'
    <3>1. 0 * FeePeriod + 0 = 0
      OBVIOUS
    <3> QED
      BY <1>1, <2>1, <2>2, <3>1 DEF CountOK
  <2> QED
    BY <1>2, <1>h, <2>3, <2>4, <2>5, <2>6 DEF FeeInv, SharesReachTheirPool
<1>4. CASE batches \notin {0, Horizon}
  <2>1. UNCHANGED <<batches, fees, devReady>>
    BY <1>4
  <2>2. TypeOK'
    BY <1>1, <2>1
  <2>3. AlignedOK'
    BY <1>1, <2>1 DEF FeeInv, AlignedOK
  <2>4. (TurnOK /\ ReadyOK /\ CountOK)'
    BY <1>1, <1>4, <2>1 DEF FeeInv, TurnOK, ReadyOK, CountOK
  <2> QED
    BY <1>2, <1>h, <2>2, <2>3, <2>4 DEF FeeInv, SharesReachTheirPool
<1> QED
  BY <1>3, <1>4

\* A share joins the queue of the pool whose batch it was found in.
LEMMA SendIInv == IInv /\ Send => IInv'
<1> SUFFICES ASSUME IInv, Send PROVE IInv'
  OBVIOUS
<1> USE Constants DEF Pool, Busy, programVars, countVars
<1>1. /\ UNCHANGED <<programVars, job, seen, index, cur, countVars>>
      /\ queue' = [queue EXCEPT ![cur] = Append(@, Found)]
      /\ gpc = "send" /\ gpc' = "hits" /\ Len(queue[cur]) < Capacity
  BY DEF Send
<1>0. Found \in Share /\ Found.pool = cur
  <2>1. seen[cur] \in 1..MaxJobs
    BY <1>1 DEF IInv, HeldOK, TypeOK, Empty
  <2> QED
    BY <2>1 DEF Found, Share, IInv, TypeOK
<1>2. /\ Append(queue[cur], Found) \in Seq(Share)
      /\ Len(Append(queue[cur], Found)) = Len(queue[cur]) + 1
      /\ \A i \in 1..Len(queue[cur]) : Append(queue[cur], Found)[i] = queue[cur][i]
      /\ Append(queue[cur], Found)[Len(queue[cur]) + 1] = Found
  BY <1>0 DEF IInv, TypeOK
<1>3. TypeOK'
  BY <1>1, <1>2 DEF IInv, TypeOK
<1>4. ASSUME NEW p \in Pool, NEW i \in 1..Len(queue'[p]) PROVE queue'[p][i].pool = p
  <2>1. CASE p = cur
    <3>1. queue'[p] = Append(queue[p], Found) /\ Len(queue[p]) \in Nat
      BY <1>1, <2>1 DEF IInv, TypeOK
    <3>2. CASE i = Len(queue[p]) + 1
      BY <1>0, <1>2, <2>1, <3>1, <3>2
    <3>3. CASE i # Len(queue[p]) + 1
      <4>1. i \in 1..Len(queue[p])
        BY <1>2, <2>1, <3>1, <3>3
      <4> QED
        BY <1>2, <2>1, <3>1, <4>1 DEF IInv, SharesReachTheirPool
    <3> QED
      BY <3>2, <3>3
  <2>2. CASE p # cur
    BY <1>1, <2>2 DEF IInv, TypeOK, SharesReachTheirPool
  <2> QED
    BY <2>1, <2>2
<1>5. FeeInv' /\ StaleOK' /\ HeldOK'
  BY <1>1 DEF IInv, HeldOK, FeeInv, TurnOK, ReadyOK, CountOK, AlignedOK, StaleOK
<1> QED
  BY <1>3, <1>4, <1>5 DEF IInv, SharesReachTheirPool

\* The end of a batch: the index and the count move together.
LEMMA EndBatchIInv == IInv /\ EndBatch => IInv'
<1> SUFFICES ASSUME IInv, EndBatch PROVE IInv'
  OBVIOUS
<1> USE Constants DEF Pool, Busy, programVars
<1>1. /\ gpc = "hits" /\ gpc' \in {"gone", "top"}
      /\ batches' = batches + 1 /\ fees' = IF cur = "dev" THEN fees + 1 ELSE fees
      /\ UNCHANGED <<programVars, job, seen, cur, queue, devReady, stale>>
  BY DEF EndBatch
<1>2. index' = IF index = FeePeriod - 1 THEN 0 ELSE index + 1
  BY NextIndexIs DEF EndBatch, IInv, TypeOK
<1>3. /\ index \in Nat /\ index < FeePeriod /\ batches \in Nat /\ fees \in Nat
      /\ batches < Horizon /\ cur \in Pool
      /\ cur = "dev" => index = FeePeriod - 1
      /\ devReady /\ index = FeePeriod - 1 => cur = "dev"
      /\ fees * FeePeriod + index <= batches
      /\ devReady => fees * FeePeriod + index = batches
  BY <1>1 DEF IInv, TypeOK, FeeInv, TurnOK, CountOK
<1>4. /\ fees' * FeePeriod + index' <= batches'
      /\ devReady => fees' * FeePeriod + index' = batches'
  <2>1. (fees + 1) * FeePeriod = fees * FeePeriod + FeePeriod
    BY <1>3
  <2>2. fees * FeePeriod \in Nat
    BY <1>3
  <2> QED
    BY <1>1, <1>2, <1>3, <2>1, <2>2
<1>5. AlignedOK'
  <2>1. PICK k \in Nat : batches = k * FeePeriod + index
    BY DEF IInv, FeeInv, AlignedOK
  <2>2. (k + 1) * FeePeriod = k * FeePeriod + FeePeriod
    OBVIOUS
  <2>3. CASE index = FeePeriod - 1
    <3>1. batches' = (k + 1) * FeePeriod + index'
      BY <1>1, <1>2, <1>3, <2>1, <2>2, <2>3
    <3>2. k + 1 \in Nat
      OBVIOUS
    <3> QED
      BY <3>1, <3>2, Zenon DEF AlignedOK
  <2>4. CASE index # FeePeriod - 1
    <3>1. batches' = k * FeePeriod + index'
      BY <1>1, <1>2, <1>3, <2>1, <2>4
    <3> QED
      BY <3>1 DEF AlignedOK
  <2> QED
    BY <2>3, <2>4
<1>6. fees' <= batches'
  BY <1>1, <1>3 DEF IInv, TypeOK
<1>7. TypeOK'
  BY <1>1, <1>2, <1>3, <1>6 DEF IInv, TypeOK
<1>8. FeeInv'
  BY <1>1, <1>4, <1>5 DEF IInv, FeeInv, TurnOK, ReadyOK, CountOK
<1>9. StaleOK' /\ HeldOK' /\ SharesReachTheirPool'
  BY <1>1 DEF IInv, StaleOK, HeldOK, SharesReachTheirPool
<1> QED
  BY <1>7, <1>8, <1>9 DEF IInv

\* Every step preserves the invariant.
LEMMA NextIInv == IInv /\ [Next]_vars => IInv'
<1>1. CASE UNCHANGED vars
  BY <1>1 DEF IInv, TypeOK, FeeInv, TurnOK, ReadyOK, CountOK, AlignedOK, StaleOK,
              HeldOK, SharesReachTheirPool, vars, programVars, countVars
<1> QED
  BY <1>1, ProgramIInv, BatchIInv, PickIInv, SendIInv, EndBatchIInv DEF Next, GpuStep

\* The invariant holds in every state a session reaches.
THEOREM Invariance == SafetySpec => []IInv
BY InitIInv, NextIInv, PTL DEF SafetySpec

-----------------------------------------------------------------------------

\* No variable leaves its set.
THEOREM TypeCorrectness == SafetySpec => []TypeOK
<1>1. IInv => TypeOK
  BY DEF IInv
<1> QED
  BY <1>1, Invariance, PTL

\* A share is queued only for the pool whose job it solves.
THEOREM SharesAreRouted == SafetySpec => []SharesReachTheirPool
<1>1. IInv => SharesReachTheirPool
  BY DEF IInv
<1> QED
  BY <1>1, Invariance, PTL

\* One batch in FeePeriod is the project's: never more, and no fewer while it
\* has a job.
THEOREM FeeIsAsPromised == SafetySpec => []FeeSchedule
<1>1. IInv => FeeSchedule
  <2> SUFFICES ASSUME IInv PROVE FeeSchedule
    OBVIOUS
  <2>1. /\ fees \in Nat /\ batches \in Nat /\ index \in Nat /\ index < FeePeriod
        /\ fees * FeePeriod + index <= batches
        /\ devReady => fees * FeePeriod + index = batches
    BY Constants DEF IInv, TypeOK, FeeInv, CountOK
  <2>2. fees * FeePeriod \in Nat /\ (fees + 1) * FeePeriod = fees * FeePeriod + FeePeriod
    BY <2>1, Constants
  <2> QED
    BY <2>1, <2>2, Constants DEF FeeSchedule
<1> QED
  BY <1>1, Invariance, PTL

\* No two batches in a row finish on a job that its pool has replaced.
THEOREM StaleBatchesAreBounded == SafetySpec => []StaleBatchesBounded
<1>1. IInv => StaleBatchesBounded
  BY DEF IInv, StaleOK, StaleBatchesBounded
<1> QED
  BY <1>1, Invariance, PTL

-----------------------------------------------------------------------------
(* What each of the two pools sees of all this is PoolLink.                *)

\* The shares in the channel of a pool, as the pool sees them
Sent(p) == [i \in DOMAIN queue[p] |-> IF queue[p][i].pool = p THEN queue[p][i].job ELSE Empty]

\* `main` opens the channels when it joins the listeners and drops them when it leaves.
LEMMA MainLink ==
  ASSUME NEW p \in Pool, StartJoin \/ StartFails \/ Join
  PROVE  Link(p)!LinkNext
<1>1. UNCHANGED <<job, seen, queue>>
  BY DEF StartJoin, StartFails, Join
<1>2. \/ Phase = "new" /\ Phase' = "open"
      \/ Phase # "over" /\ Phase' = "over"
  BY DEF StartJoin, StartFails, Join, Phase
<1> QED
  BY <1>1, <1>2 DEF Link!LinkNext, Link!Open, Link!Close

\* A listener works for its own pool only.
LEMMA ListenerLink ==
  ASSUME IInv, NEW q \in Pool, ProcessJob(q) \/ Drain(q) \/ ListenEnds(q), NEW p \in Pool
  PROVE  [Link(p)!LinkNext]_(Link(p)!linkVars)
<1>1. UNCHANGED <<mainPc, seen>> /\ mainPc = "joining"
  BY DEF ProcessJob, Drain, ListenEnds, programVars
<1>2. UNCHANGED Phase /\ Phase = "open"
  BY <1>1 DEF Phase
<1>3. /\ job \in [Pool -> Nat] /\ queue \in [Pool -> Seq(Share)]
  BY Constants DEF IInv, TypeOK
<1>4. CASE ProcessJob(q) /\ p = q
  <2>1. job'[p] = job[p] + 1 /\ queue' = queue /\ job[p] \in Nat
    BY <1>3, <1>4 DEF ProcessJob
  <2>2. job'[p] \in Nat /\ job'[p] > job[p]
    BY <2>1
  <2> QED
    BY <1>1, <1>2, <2>1, <2>2 DEF Link!LinkNext, Link!Announce
<1>5. CASE Drain(q) /\ p = q
  <2>1. queue'[p] = Tail(queue[p]) /\ queue[p] # <<>> /\ job' = job
    BY <1>3, <1>5 DEF Drain
  <2>2. Sent(p) # <<>> /\ Sent(p)' = Tail(Sent(p))
    <3>1. /\ queue[p] \in Seq(Share) /\ Len(queue[p]) \in Nat \ {0}
          /\ DOMAIN queue[p] = 1..Len(queue[p])
      BY <1>3, <2>1
    <3>2. /\ DOMAIN queue'[p] = 1..(Len(queue[p]) - 1)
          /\ \A i \in DOMAIN queue'[p] : queue'[p][i] = queue[p][i + 1]
      BY <2>1, <3>1
    <3>3. Sent(p) \in Seq({Sent(p)[i] : i \in DOMAIN queue[p]}) /\ Len(Sent(p)) = Len(queue[p])
      BY <3>1 DEF Sent
    <3>4. Sent(p)' = [i \in DOMAIN queue'[p] |->
                        IF queue'[p][i].pool = p THEN queue'[p][i].job ELSE Empty]
      BY DEF Sent, Empty
    <3>5. /\ Tail(Sent(p)) = [i \in 1..(Len(queue[p]) - 1) |-> Sent(p)[i + 1]]
          /\ \A i \in 1..(Len(queue[p]) - 1) :
               Sent(p)[i + 1] = IF queue[p][i + 1].pool = p THEN queue[p][i + 1].job ELSE Empty
      BY <3>1, <3>3 DEF Sent
    <3>6. Sent(p) # <<>>
      BY <3>1, <3>3
    <3>7. \A i \in DOMAIN queue'[p] :
            Sent(p)[i + 1] = IF queue'[p][i].pool = p THEN queue'[p][i].job ELSE Empty
      BY <3>2, <3>5
    <3>8. Sent(p)' = Tail(Sent(p))
      BY <3>2, <3>4, <3>5, <3>7, Zenon
    <3> QED
      BY <3>6, <3>8
  <2> QED
    BY <1>1, <1>2, <2>1, <2>2 DEF Link!LinkNext, Link!Receive, Sent
<1>6. CASE ListenEnds(q) \/ p # q
  <2>1. job'[p] = job[p] /\ queue'[p] = queue[p]
    BY <1>3, <1>6 DEF ProcessJob, Drain, ListenEnds
  <2>2. UNCHANGED Sent(p)
    BY <2>1 DEF Sent, Empty
  <2> QED
    BY <1>1, <1>2, <2>1, <2>2 DEF Link!linkVars, Sent
<1> QED
  BY <1>4, <1>5, <1>6

\* The GPU thread takes the jobs of both pools in turn, and what it sends to the pool of
\* its batch is a share of the job it has of that pool.
LEMMA GpuLink ==
  ASSUME IInv, GpuStep, NEW p \in Pool
  PROVE  [Link(p)!LinkNext]_(Link(p)!linkVars)
<1>1. UNCHANGED <<mainPc, job>>
  BY DEF GpuStep, InitGpu, PollMain, PollDevAndPick, Search, SearchError, Hit, Send, SendError,
         EndBatch, programVars
<1>2. UNCHANGED Phase
  BY <1>1 DEF Phase
<1>3. ASSUME NEW q \in Pool, seen' = [seen EXCEPT ![q] = job[q]], queue' = queue
      PROVE  [Link(p)!LinkNext]_(Link(p)!linkVars)
  <2>1. seen'[p] = IF p = q THEN job[p] ELSE seen[p]
    BY <1>3 DEF IInv, TypeOK
  <2>2. UNCHANGED Sent(p)
    BY <1>3 DEF Sent, Empty
  <2>3. CASE p = q
    BY <1>1, <1>2, <2>1, <2>2, <2>3 DEF Link!LinkNext, Link!Take, Sent
  <2>4. CASE p # q
    BY <1>1, <1>2, <2>1, <2>2, <2>4 DEF Link!linkVars, Sent
  <2> QED
    BY <2>3, <2>4
<1>4. CASE Send
  <2>1. /\ gpc = "send" /\ mainPc = "joining" /\ seen' = seen
        /\ queue' = [queue EXCEPT ![cur] = Append(@, Found)]
    BY <1>4 DEF Send
  <2>2. queue \in [Pool -> Seq(Share)] /\ cur \in Pool
    BY DEF IInv, TypeOK
  <2>3. CASE p # cur
    <3>1. queue'[p] = queue[p]
      BY <2>1, <2>2, <2>3
    <3>2. UNCHANGED Sent(p)
      BY <3>1 DEF Sent, Empty
    <3> QED
      BY <1>1, <1>2, <2>1, <3>2 DEF Link!linkVars, Sent
  <2>4. CASE p = cur
    <3>1. seen[p] # Empty /\ Phase = "open"
      BY <2>1, <2>4 DEF IInv, HeldOK, Busy, Phase
    <3>2. Sent(p)' = Append(Sent(p), seen[p])
      <4>1. /\ queue[p] \in Seq(Share) /\ Len(queue[p]) \in Nat
            /\ DOMAIN queue[p] = 1..Len(queue[p])
        BY <2>2
      <4>2. Found \in Share /\ Found.pool = p /\ Found.job = seen[p]
        <5>1. seen[cur] \in 1..MaxJobs
          BY <2>4, <3>1, Constants DEF IInv, TypeOK, Empty
        <5> QED
          BY <2>2, <2>4, <5>1 DEF Found, Share
      <4>3. queue'[p] = Append(queue[p], Found)
        BY <2>1, <2>2, <2>4
      <4>4. /\ DOMAIN queue'[p] = 1..(Len(queue[p]) + 1)
            /\ \A i \in 1..Len(queue[p]) : queue'[p][i] = queue[p][i]
            /\ queue'[p][Len(queue[p]) + 1] = Found
        BY <4>1, <4>2, <4>3
      <4>5. Sent(p)' = [i \in DOMAIN queue'[p] |->
                          IF queue'[p][i].pool = p THEN queue'[p][i].job ELSE Empty]
        BY DEF Sent, Empty
      <4>6. /\ Sent(p) \in Seq({Sent(p)[i] : i \in DOMAIN queue[p]})
            /\ Len(Sent(p)) = Len(queue[p])
            /\ \A i \in 1..Len(queue[p]) :
                 Sent(p)[i] = IF queue[p][i].pool = p THEN queue[p][i].job ELSE Empty
        BY <4>1 DEF Sent
      <4>7. Append(Sent(p), seen[p]) =
              [i \in 1..(Len(queue[p]) + 1) |->
                 IF i = Len(queue[p]) + 1 THEN seen[p] ELSE Sent(p)[i]]
        BY <4>1, <4>6
      <4>8. \A i \in 1..(Len(queue[p]) + 1) :
              (IF queue'[p][i].pool = p THEN queue'[p][i].job ELSE Empty) =
                IF i = Len(queue[p]) + 1 THEN seen[p] ELSE Sent(p)[i]
        <5> SUFFICES ASSUME NEW i \in 1..(Len(queue[p]) + 1)
                     PROVE  (IF queue'[p][i].pool = p THEN queue'[p][i].job ELSE Empty) =
                              IF i = Len(queue[p]) + 1 THEN seen[p] ELSE Sent(p)[i]
          BY Zenon
        <5>1. CASE i = Len(queue[p]) + 1
          BY <4>2, <4>4, <5>1
        <5>2. CASE i # Len(queue[p]) + 1
          <6>1. i \in 1..Len(queue[p])
            BY <4>1, <5>2
          <6> QED
            BY <4>4, <4>6, <5>2, <6>1
        <5> QED
          BY <5>1, <5>2
      <4> QED
        BY <4>4, <4>5, <4>7, <4>8
    <3> QED
      BY <1>1, <1>2, <2>1, <3>1, <3>2 DEF Link!LinkNext, Link!Submit, Sent, Empty
  <2> QED
    BY <2>3, <2>4
<1>5. CASE UNCHANGED <<seen, queue>>
  <2>1. UNCHANGED Sent(p)
    BY <1>5 DEF Sent, Empty
  <2> QED
    BY <1>1, <1>2, <1>5, <2>1 DEF Link!linkVars, Sent
<1>6. "main" \in Pool /\ "dev" \in Pool
  BY DEF Pool
<1> QED
  BY <1>3, <1>4, <1>5, <1>6
  DEF GpuStep, InitGpu, PollMain, PollDevAndPick, Search, SearchError, Hit, SendError, EndBatch

\* One thread serves two pools, and each of them sees a connection of its own: shares of
\* its jobs, in the order of their finding, and nothing of the other pool.
THEOREM LinksImplement == SafetySpec => ImplementsLinks
<1>1. Init => \A p \in Pool : Link(p)!LinkInit
  <2> SUFFICES ASSUME Init, NEW p \in Pool PROVE Link(p)!LinkInit
    OBVIOUS
  <2>1. job[p] = 0 /\ seen[p] = 0 /\ queue[p] = <<>> /\ Phase = "new"
    BY DEF Init, Phase, Empty
  <2>2. Sent(p) = <<>>
    BY <2>1 DEF Sent
  <2> QED
    BY <2>1, <2>2 DEF Link!LinkInit, Sent
<1>2. IInv /\ [Next]_vars => \A p \in Pool : [Link(p)!LinkNext]_(Link(p)!linkVars)
  <2> SUFFICES ASSUME IInv, [Next]_vars, NEW p \in Pool
               PROVE  [Link(p)!LinkNext]_(Link(p)!linkVars)
    OBVIOUS
  <2>1. CASE UNCHANGED vars
    <3>1. UNCHANGED <<job, seen, queue, mainPc>>
      BY <2>1 DEF vars, programVars
    <3>2. UNCHANGED Phase /\ UNCHANGED Sent(p)
      BY <3>1 DEF Phase, Sent, Empty
    <3> QED
      BY <3>1, <3>2 DEF Link!linkVars, Sent
  <2> QED
    BY <2>1, MainLink, ListenerLink, GpuLink DEF Next, ProgramStep
<1> QED
  BY <1>1, <1>2, Invariance, PTL DEF SafetySpec, ImplementsLinks
==============================================================================
