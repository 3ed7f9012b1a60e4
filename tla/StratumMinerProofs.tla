------------------------- MODULE StratumMinerProofs --------------------------
(***************************************************************************)
(* Proofs about pool mining on the CPU, for any number of workers, any     *)
(* period, interval and capacity, and a clock that is set at will.         *)
(***************************************************************************)
EXTENDS StratumMiner, TLAPS

\* A worker past `state.is_none()` has a job, the one its handle has cached.
WorkAt(w) ==
  /\ wpc[w] \in {"clock", "load", "cas", "send", "next"} => work[w] # Empty
  /\ work[w] # Empty => work[w] = cached[w]

\* A worker about to move the stamp has compared the two times it read.
StampAt(w) == wpc[w] = "cas" => nowSeen[w] >= lastSeen[w] + Interval

\* Outdated nonces are those tested since the last poll, the one in hand
\* included; a job that has been replaced never becomes current again.
StaleAt(w) ==
  /\ staleHashes[w] <= Period
  /\ wpc[w] \in {"top", "wait"} => staleHashes[w] <= tick[w]
  /\ wpc[w] \in {"clock", "load", "cas", "send", "next"} => staleHashes[w] <= tick[w] + 1
  /\ staleHashes[w] > 0 => work[w] # cell

WorkOK == \A w \in Worker : WorkAt(w)
StampOK == \A w \in Worker : StampAt(w)
StaleOK == \A w \in Worker : StaleAt(w)

IInv == TypeOK /\ WorkOK /\ StampOK /\ StaleOK

\* The constants are what the assumptions of StratumMiner say.
LEMMA Constants ==
  /\ Period \in Nat /\ Period > 0
  /\ Interval \in Nat /\ Interval > 0
  /\ Capacity \in Nat
  /\ MaxJobs \in Nat
  /\ MaxTime \in Nat
BY PeriodAssumption, IntervalAssumption, CapacityAssumption, BoundsAssumption

\* `StratumMinerManager::new` establishes the invariant.
LEMMA InitIInv == Init => IInv
<1> SUFFICES ASSUME Init PROVE IInv
  OBVIOUS
<1> USE Constants DEF Init, Empty, Job, WorkerPC
<1>1. /\ published \in 0..MaxJobs
      /\ cell \in Empty..published
      /\ cached \in [Worker -> Empty..published]
      /\ waiting \subseteq Worker
  OBVIOUS
<1>2. /\ wpc \in [Worker -> WorkerPC]
      /\ work \in [Worker -> Job \union {Empty}]
      /\ tick \in [Worker -> 0..(Period - 1)]
      /\ staleHashes \in [Worker -> Nat]
  OBVIOUS
<1>3. /\ clock \in 0..MaxTime
      /\ last \in 0..MaxTime
      /\ nowSeen \in [Worker -> 0..MaxTime]
      /\ lastSeen \in [Worker -> 0..MaxTime]
  OBVIOUS
<1>4. queue \in Seq(Job) /\ Len(queue) <= Capacity
  BY DEF Init
<1>6. listening \in BOOLEAN /\ shutdown \in BOOLEAN
  BY DEF Init
<1>5. WorkOK /\ StampOK /\ StaleOK
  BY DEF WorkOK, WorkAt, StampOK, StampAt, StaleOK, StaleAt
<1> QED
  BY <1>1, <1>2, <1>3, <1>4, <1>5, <1>6 DEF IInv, TypeOK

-----------------------------------------------------------------------------

\* The pool, the clock and the end of the connection
LEMMA EnvironmentIInv ==
  IInv /\ (ProcessJob \/ SubmitShare \/ EndListen \/ ClockChanges) => IInv'
<1> SUFFICES ASSUME IInv, ProcessJob \/ SubmitShare \/ EndListen \/ ClockChanges
             PROVE IInv'
  OBVIOUS
<1> USE Constants DEF IInv, TypeOK, WorkerPC, Job, Empty, watchVars, limiterVars
<1>1. CASE ProcessJob
  <2>1. /\ published' = published + 1 /\ cell' = published + 1 /\ published' <= MaxJobs
        /\ UNCHANGED <<cached, limiterVars, wpc, work, tick, clock, queue, listening,
                       shutdown, staleHashes>>
        /\ waiting' \subseteq waiting
    BY <1>1 DEF ProcessJob, Watch!PublishSome
  <2>2. TypeOK' /\ WorkOK' /\ StampOK'
    BY <2>1 DEF WorkOK, WorkAt, StampOK, StampAt
  <2>3. \A w \in Worker : work[w] # Empty => work[w] <= published
    BY DEF WorkOK, WorkAt
  <2>4. ASSUME NEW w \in Worker PROVE work[w] # cell'
    <3>1. published \in Nat /\ work[w] \in Nat
      OBVIOUS
    <3>2. CASE work[w] = Empty
      BY <2>1, <3>1, <3>2
    <3>3. CASE work[w] # Empty
      BY <2>1, <2>3, <3>1, <3>3
    <3> QED
      BY <3>2, <3>3
  <2>5. StaleOK'
    BY <2>1, <2>4 DEF StaleOK, StaleAt
  <2> QED
    BY <2>2, <2>5
<1>2. CASE SubmitShare
  <2>1. queue' \in Seq(Job) /\ Len(queue') <= Capacity
    BY <1>2 DEF SubmitShare
  <2>2. UNCHANGED <<watchVars, limiterVars, wpc, work, tick, clock, listening, shutdown,
                    staleHashes>>
    BY <1>2 DEF SubmitShare
  <2> QED
    BY <2>1, <2>2 DEF WorkOK, WorkAt, StampOK, StampAt, StaleOK, StaleAt
<1>3. CASE EndListen
  BY <1>3 DEF EndListen, WorkOK, WorkAt, StampOK, StampAt, StaleOK, StaleAt
<1>4. CASE ClockChanges
  BY <1>4 DEF ClockChanges, WorkOK, WorkAt, StampOK, StampAt, StaleOK, StaleAt
<1> QED
  BY <1>1, <1>2, <1>3, <1>4

\* A worker, line by line of its loop
LEMMA WorkerIInv == ASSUME NEW w \in Worker, IInv, WorkerStep(w) PROVE IInv'
<1> USE Constants DEF IInv, TypeOK, WorkerPC, Job, Empty, watchVars, limiterVars,
                      Move, Adopt, Return
<1>1. CASE WaitForJob(w)
  BY <1>1 DEF WaitForJob, Watch!BeginWait, WorkOK, WorkAt, StampOK, StampAt, StaleOK,
              StaleAt
<1>2. CASE TakeJob(w)
  BY SMTT(30), <1>2 DEF TakeJob, Watch!EndWait, Watch!Stale, WorkOK, WorkAt, StampOK, StampAt,
              StaleOK, StaleAt
<1>3. CASE TestNonce(w)
  <2>1. PICK to \in {"clock", "next"} : wpc' = [wpc EXCEPT ![w] = to]
    BY <1>3 DEF TestNonce
  <2>2. TypeOK' /\ WorkOK' /\ StampOK'
    BY SMTT(30), <1>3, <2>1 DEF TestNonce, CountStale, WorkOK, WorkAt, StampOK, StampAt
  <2>3. StaleAt(w)'
    <3>1. CASE work[w] = cell
      BY <1>3, <2>1, <3>1 DEF TestNonce, CountStale, StaleAt
    <3>2. CASE work[w] # cell
      <4>1. staleHashes'[w] = staleHashes[w] + 1
        BY <1>3, <3>2 DEF TestNonce, CountStale
      <4>2. staleHashes[w] <= tick[w] /\ tick[w] + 1 <= Period
        BY <1>3 DEF TestNonce, StaleOK, StaleAt
      <4> QED
        BY <1>3, <2>1, <3>2, <4>1, <4>2 DEF TestNonce, StaleAt
    <3> QED
      BY <3>1, <3>2
  <2>4. \A v \in Worker \ {w} : StaleAt(v)'
    BY <1>3, <2>1 DEF TestNonce, CountStale, StaleOK, StaleAt
  <2> QED
    BY <2>2, <2>3, <2>4 DEF StaleOK
<1>4. CASE ReadClock(w)
  BY <1>4 DEF ReadClock, WorkOK, WorkAt, StampOK, StampAt, StaleOK, StaleAt
<1>5. CASE LoadStamp(w)
  BY <1>5 DEF LoadStamp, WorkOK, WorkAt, StampOK, StampAt, StaleOK, StaleAt
<1>6. CASE TooEarly(w)
  BY <1>6 DEF TooEarly, WorkOK, WorkAt, StampOK, StampAt, StaleOK, StaleAt
<1>7. CASE Stamp(w)
  BY SMTT(30), <1>7 DEF Stamp, WorkOK, WorkAt, StampOK, StampAt, StaleOK, StaleAt
<1>8. CASE LoseRace(w)
  BY SMTT(30), <1>8 DEF LoseRace, WorkOK, WorkAt, StampOK, StampAt, StaleOK, StaleAt
<1>9. CASE Send(w)
  <2>1. work[w] \in Job
    BY <1>9 DEF Send, WorkOK, WorkAt
  <2>2. queue' \in Seq(Job) /\ Len(queue') <= Capacity
    BY <1>9, <2>1 DEF Send
  <2>3. TypeOK' /\ WorkOK' /\ StampOK' /\ StaleOK'
    BY <1>9, <2>2 DEF Send, WorkOK, WorkAt, StampOK, StampAt, StaleOK, StaleAt
  <2> QED
    BY <2>3
<1>10. CASE SendError(w)
  BY <1>10 DEF SendError, WorkOK, WorkAt, StampOK, StampAt, StaleOK, StaleAt
<1>11. CASE NextNonce(w)
  BY SMTT(30), <1>11 DEF NextNonce, WorkOK, WorkAt, StampOK, StampAt, StaleOK, StaleAt
<1>12. CASE NextNonceAndPoll(w)
  <2>1. TypeOK'
    <3>1. tick' \in [Worker -> 0..(Period - 1)] /\ wpc' \in [Worker -> WorkerPC]
      <4>1. 0 \in 0..(Period - 1)
        OBVIOUS
      <4>2. wpc' = [wpc EXCEPT ![w] = "top"] \/ wpc' = [wpc EXCEPT ![w] = "gone"]
        BY <1>12 DEF NextNonceAndPoll
      <4>3. tick' = [tick EXCEPT ![w] = 0]
        BY <1>12 DEF NextNonceAndPoll
      <4> QED
        BY <4>1, <4>2, <4>3
    <3>2. /\ cached' \in [Worker -> Empty..published]
          /\ work' \in [Worker -> Job \union {Empty}]
          /\ staleHashes' \in [Worker -> Nat]
      <4>1. cell \in Job \union {Empty}
        OBVIOUS
      <4>2. CASE Watch!Poll(w) /\ Adopt(w, cell)
        BY <4>1, <4>2 DEF Watch!Poll
      <4>3. CASE UNCHANGED <<watchVars, work, staleHashes>>
        BY <4>3
      <4> QED
        BY <1>12, <4>2, <4>3 DEF NextNonceAndPoll
    <3>3. /\ UNCHANGED <<cell, published, waiting>>
          /\ UNCHANGED <<limiterVars, clock, queue, listening, shutdown>>
      BY <1>12 DEF NextNonceAndPoll, Watch!Poll
    <3> QED
      BY <3>1, <3>2, <3>3
  <2>2. \A v \in Worker \ {w} :
          /\ wpc'[v] = wpc[v] /\ work'[v] = work[v] /\ cached'[v] = cached[v]
          /\ tick'[v] = tick[v] /\ staleHashes'[v] = staleHashes[v]
    BY <1>12 DEF NextNonceAndPoll, Watch!Poll
  <2>3. cell' = cell /\ nowSeen' = nowSeen /\ lastSeen' = lastSeen
    BY <1>12 DEF NextNonceAndPoll, Watch!Poll
  <2>4. wpc'[w] \in {"top", "gone"} /\ tick'[w] = 0
    BY <1>12 DEF NextNonceAndPoll
  <2>5. WorkAt(w)'
    BY <1>12 DEF NextNonceAndPoll, Watch!Poll, WorkOK, WorkAt
  <2>6. StaleAt(w)'
    <3>1. CASE shutdown
      BY <1>12, <3>1 DEF NextNonceAndPoll, StaleOK, StaleAt
    <3>2. CASE Watch!Poll(w) /\ Adopt(w, cell)
      BY <2>3, <2>4, <3>2 DEF StaleAt
    <3>3. CASE ~Watch!Stale(w) /\ ~shutdown
      <4>1. staleHashes'[w] = staleHashes[w] /\ work'[w] = work[w]
        BY <1>12, <3>3 DEF NextNonceAndPoll, Watch!Poll
      <4>2. staleHashes[w] = 0
        BY <1>12, <3>3 DEF NextNonceAndPoll, Watch!Stale, WorkOK, WorkAt, StaleOK, StaleAt
      <4> QED
        BY <2>3, <2>4, <4>1, <4>2 DEF StaleAt
    <3> QED
      BY <1>12, <3>1, <3>2, <3>3 DEF NextNonceAndPoll
  <2>7. \A v \in Worker \ {w} : (WorkAt(v) /\ StaleAt(v))'
    BY <2>2, <2>3 DEF WorkOK, WorkAt, StaleOK, StaleAt
  <2>8. StampOK'
    BY <2>2, <2>3, <2>4 DEF StampOK, StampAt
  <2> QED
    BY <2>1, <2>5, <2>6, <2>7, <2>8 DEF WorkOK, StaleOK
<1> QED
  BY <1>1, <1>2, <1>3, <1>4, <1>5, <1>6, <1>7, <1>8, <1>9, <1>10, <1>11, <1>12
     DEF WorkerStep

\* Every step preserves the invariant.
LEMMA NextIInv == IInv /\ [Next]_vars => IInv'
<1>1. CASE UNCHANGED vars
  BY <1>1 DEF IInv, TypeOK, WorkOK, WorkAt, StampOK, StampAt, StaleOK, StaleAt, vars,
              watchVars, limiterVars
<1> QED
  BY <1>1, EnvironmentIInv, WorkerIInv DEF Next

\* The invariant holds in every state the manager and its workers reach.
THEOREM Invariance == SafetySpec => []IInv
BY InitIInv, NextIInv, PTL DEF SafetySpec

-----------------------------------------------------------------------------

\* No variable leaves its set.
THEOREM TypeCorrectness == SafetySpec => []TypeOK
<1>1. IInv => TypeOK
  BY DEF IInv
<1> QED
  BY <1>1, Invariance, PTL

\* A worker tests at most Period nonces of a job that has been replaced.
THEOREM StaleWorkIsBounded == SafetySpec => []StaleWorkBounded
<1>1. IInv => StaleWorkBounded
  BY DEF IInv, StaleOK, StaleAt, StaleWorkBounded
<1> QED
  BY <1>1, Invariance, PTL

\* Only the compare-and-exchange moves the stamp, and it does so by Interval
\* at least: the time it stores was compared with the stamp it replaces.
THEOREM SharesAreSpaced == SafetySpec => SharesSpaced
<1>1. IInv /\ [Next]_vars => [last' # last => last' >= last + Interval]_vars
  <2> SUFFICES ASSUME IInv, Next, last' # last PROVE last' >= last + Interval
    OBVIOUS
  <2>1. PICK w \in Worker : Stamp(w)
    BY DEF Next, WorkerStep, ProcessJob, SubmitShare, EndListen, ClockChanges,
           WaitForJob, TakeJob, TestNonce, ReadClock, LoadStamp, TooEarly, LoseRace,
           Send, SendError, NextNonce, NextNonceAndPoll, limiterVars
  <2> QED
    BY <2>1 DEF Stamp, IInv, StampOK, StampAt
<1> QED
  BY <1>1, Invariance, PTL DEF SafetySpec, SharesSpaced

-----------------------------------------------------------------------------
(* The watched cell, as the manager and the workers use it                 *)

\* The handles inside `wait_for_change` are those of the workers that stand there.
CallsOK == waiting = {w \in Worker : wpc[w] = "wait"}

\* Nothing else moves a worker to `wait_for_change`.
LEMMA CallsStep == IInv /\ CallsOK /\ [Next]_vars => CallsOK'
<1> SUFFICES ASSUME IInv, CallsOK, [Next]_vars PROVE CallsOK'
  OBVIOUS
<1> USE DEF IInv, TypeOK, CallsOK, WorkerPC, watchVars
<1>1. CASE ProcessJob \/ SubmitShare \/ EndListen \/ ClockChanges
  BY <1>1 DEF ProcessJob, SubmitShare, EndListen, ClockChanges, Watch!PublishSome
<1>2. ASSUME NEW w \in Worker, WorkerStep(w) PROVE CallsOK'
  <2> USE DEF Move, Return
  <2>1. CASE WaitForJob(w)
    BY <2>1 DEF WaitForJob, Watch!BeginWait
  <2>2. CASE TakeJob(w)
    BY <2>2 DEF TakeJob, Watch!EndWait
  <2>3. CASE ~WaitForJob(w) /\ ~TakeJob(w)
    <3>1. /\ waiting' = waiting
          /\ \E to \in WorkerPC \ {"wait"} : wpc' = [wpc EXCEPT ![w] = to]
          /\ wpc[w] # "wait"
      BY <1>2, <2>3 DEF WorkerStep, TestNonce, ReadClock, LoadStamp, TooEarly, Stamp, LoseRace,
                        Send, SendError, NextNonce, NextNonceAndPoll, Watch!Poll
    <3> QED
      BY <3>1
  <2> QED
    BY <2>1, <2>2, <2>3
<1>3. CASE UNCHANGED vars
  BY <1>3 DEF vars
<1> QED
  BY <1>1, <1>2, <1>3 DEF Next

\* No guard of WatchCell holds up a worker: a handle that is inside
\* `wait_for_change` is in no other call.
CallsAreLegal ==
  \A w \in Worker :
    /\ wpc[w] \in {"top", "next"} => w \notin waiting
    /\ wpc[w] = "wait" => w \in waiting

\* `launch_cpu_miner` uses its handle of the cell as it may be used.
THEOREM CellCallsAreLegal == SafetySpec => []CallsAreLegal
<1>1. Init => CallsOK
  BY DEF Init, CallsOK
<1>2. CallsOK => CallsAreLegal
  BY DEF CallsOK, CallsAreLegal
<1> QED
  BY <1>1, <1>2, CallsStep, Invariance, PTL DEF SafetySpec

\* Every step of pool mining is a step of WatchCell, or leaves the cell alone.
LEMMA StepUsesCell == IInv /\ [Next]_vars => [Watch!CellNext]_(Watch!cellVars)
<1> SUFFICES ASSUME IInv, [Next]_vars PROVE [Watch!CellNext]_(Watch!cellVars)
  OBVIOUS
<1> USE DEF watchVars, Watch!cellVars
<1>1. CASE ProcessJob
  <2>1. published + 1 \in Job
    BY <1>1, Constants DEF ProcessJob, Job, IInv, TypeOK
  <2> QED
    BY <1>1, <2>1 DEF ProcessJob, Watch!CellNext
<1>2. CASE SubmitShare \/ EndListen \/ ClockChanges
  BY <1>2 DEF SubmitShare, EndListen, ClockChanges
<1>3. ASSUME NEW w \in Worker, WorkerStep(w)
      PROVE  Watch!BeginWait(w) \/ Watch!EndWait(w) \/ Watch!Poll(w) \/ UNCHANGED watchVars
  BY <1>3 DEF WorkerStep, WaitForJob, TakeJob, TestNonce, ReadClock, LoadStamp, TooEarly, Stamp,
              LoseRace, Send, SendError, NextNonce, NextNonceAndPoll
<1>4. CASE UNCHANGED vars
  BY <1>4 DEF vars
<1> QED
  BY <1>1, <1>2, <1>3, <1>4 DEF Next, Watch!CellNext

\* Pool mining keeps to the interface of WatchCell, of which WatchSwap is an
\* implementation.
THEOREM UsesTheCell == SafetySpec => Watch!CellSafety
<1>1. Init => Watch!CellInit
  BY DEF Init, Watch!CellInit, Empty, Watch!Empty
<1> QED
  BY <1>1, StepUsesCell, Invariance, PTL DEF SafetySpec, Watch!CellSafety

-----------------------------------------------------------------------------
(* The connection of a pool                                                *)

\* The listener, the slot, the workers and their channel, as the pool sees them
Link == INSTANCE PoolLink WITH
  phase <- IF listening THEN "open" ELSE "over", job <- cell, channel <- queue

\* The guards of the workers' loop give PoolLink what it asks for: a worker submits only
\* with a job, and for the one it has.
LEMMA StepIsOfTheLink == IInv /\ [Next]_vars => [Link!LinkNext]_(Link!linkVars)
<1> SUFFICES ASSUME IInv, [Next]_vars PROVE [Link!LinkNext]_(Link!linkVars)
  OBVIOUS
<1> USE DEF watchVars, Link!linkVars
<1>1. CASE ProcessJob
  <2>1. cell' = published + 1 /\ listening /\ UNCHANGED <<listening, work, queue>>
    BY <1>1 DEF ProcessJob, Watch!PublishSome
  <2>2. cell' \in Nat /\ cell' > cell
    BY <2>1, Constants DEF IInv, TypeOK, Empty
  <2> QED
    BY <2>1, <2>2 DEF Link!LinkNext, Link!Announce
<1>2. CASE SubmitShare
  BY <1>2 DEF SubmitShare, Link!LinkNext, Link!Receive
<1>3. CASE EndListen
  BY <1>3 DEF EndListen, Link!LinkNext, Link!Close
<1>4. ASSUME NEW w \in Worker, WorkerStep(w)
      PROVE  Link!Take(w) \/ Link!Submit(w) \/ UNCHANGED Link!linkVars
  <2>1. UNCHANGED <<cell, listening>>
    BY <1>4 DEF WorkerStep, WaitForJob, TakeJob, TestNonce, ReadClock, LoadStamp, TooEarly, Stamp,
                LoseRace, Send, SendError, NextNonce, NextNonceAndPoll, Watch!BeginWait,
                Watch!EndWait, Watch!Poll
  <2>2. CASE Send(w)
    <3>1. listening /\ work[w] # Empty /\ queue' = Append(queue, work[w]) /\ work' = work
      BY <2>2 DEF Send, IInv, WorkOK, WorkAt
    <3> QED
      BY <2>1, <3>1 DEF Link!Submit, Empty
  <2>3. CASE ~Send(w)
    <3>1. queue' = queue /\ (work' = work \/ work' = [work EXCEPT ![w] = cell])
      BY <1>4, <2>3 DEF WorkerStep, WaitForJob, TakeJob, TestNonce, ReadClock, LoadStamp, TooEarly,
                        Stamp, LoseRace, SendError, NextNonce, NextNonceAndPoll, Adopt
    <3> QED
      BY <2>1, <3>1 DEF Link!Take
  <2> QED
    BY <2>2, <2>3
<1>5. CASE ClockChanges \/ UNCHANGED vars
  BY <1>5 DEF ClockChanges, vars
<1> QED
  BY <1>1, <1>2, <1>3, <1>4, <1>5 DEF Next, Link!LinkNext

\* CPU threads do for their pool what a connection promises, whatever the limiter, the
\* clock and the other threads do.
THEOREM ImplementsTheLink == SafetySpec => Link!LinkSafety
<1>1. Init => Link!LinkInit
  BY DEF Init, Link!LinkInit, Empty
<1> QED
  BY <1>1, StepIsOfTheLink, Invariance, PTL DEF SafetySpec, Link!LinkSafety
==============================================================================
