---------------------------- MODULE StratumMiner -----------------------------
(***************************************************************************)
(* Pool mining on the CPU: `StratumMinerManager` (miner.rs), the listener  *)
(* of its pool connection (`StratumHandler::listen`, stratum.rs) and the   *)
(* worker threads, which share one limiter of the rate of shares: a time   *)
(* stamp that a worker must move forward by Interval to submit a share     *)
(* (`should_submit_share`).  The wall clock it reads may step backwards.   *)
(*                                                                         *)
(* Jobs reach the workers through a WatchSwap (WatchCell); the n-th job is *)
(* the number n.  The GPU branch of `launch_cpu_miner` is left out: `main` *)
(* never gives this manager a GPU.                                         *)
(***************************************************************************)
EXTENDS Naturals, Sequences

CONSTANTS Worker,
          Period,    \* a worker looks for a new job every Period nonces
          Interval,  \* MIN_SHARE_SUBMIT_INTERVAL_MS
          Capacity,  \* of the channel of shares
          MaxJobs,   \* bound: jobs the pool sends
          MaxTime    \* bound: the latest time the clock shows

ASSUME WorkerAssumption == Worker # {}
ASSUME PeriodAssumption == Period \in Nat \ {0}
ASSUME IntervalAssumption == Interval \in Nat \ {0}
ASSUME CapacityAssumption == Capacity \in Nat \ {0}
ASSUME BoundsAssumption == MaxJobs \in Nat /\ MaxTime \in Nat

VARIABLES
  cell, published, cached, waiting, \* `job_channel`, see WatchCell
  wpc,         \* where each worker is in its loop
  work,        \* its `state`: a job, or Empty for `None`
  tick,        \* its `nonce`, modulo Period
  clock,       \* the wall clock, in milliseconds
  last,        \* `last_share_submit_ms`
  nowSeen,     \* each worker's `now_ms`
  lastSeen,    \* each worker's `previous`
  queue,       \* the channel of shares: the jobs they are for
  listening,   \* the listener runs; its channel is closed when it ends
  shutdown,    \* the shutdown flag
  staleHashes  \* history: nonces tested on `work` since it was replaced

watchVars == <<cell, published, cached, waiting>>
limiterVars == <<last, nowSeen, lastSeen>>
vars == <<watchVars, limiterVars, wpc, work, tick, clock, queue, listening,
          shutdown, staleHashes>>

Empty == 0
Job == 1..MaxJobs

Watch == INSTANCE WatchCell WITH Handle <- Worker, Value <- Job

WorkerPC == {"top", "wait", "clock", "load", "cas", "send", "next", "gone"}

\* Every variable stays in its set: the channel of shares never holds more than
\* Capacity, and every share in it is for a job that was sent.
TypeOK ==
  /\ published \in 0..MaxJobs
  /\ cell \in Empty..published
  /\ cached \in [Worker -> Empty..published]
  /\ waiting \subseteq Worker
  /\ wpc \in [Worker -> WorkerPC]
  /\ work \in [Worker -> Job \union {Empty}]
  /\ tick \in [Worker -> 0..(Period - 1)]
  /\ clock \in 0..MaxTime
  /\ last \in 0..MaxTime
  /\ nowSeen \in [Worker -> 0..MaxTime]
  /\ lastSeen \in [Worker -> 0..MaxTime]
  /\ queue \in Seq(Job) /\ Len(queue) <= Capacity
  /\ listening \in BOOLEAN
  /\ shutdown \in BOOLEAN
  /\ staleHashes \in [Worker -> Nat]

\* The clock shows any time; `last_share_submit_ms` starts at 0.
Init ==
  /\ cell = Empty
  /\ published = Empty
  /\ cached = [w \in Worker |-> Empty]
  /\ waiting = {}
  /\ wpc = [w \in Worker |-> "top"]
  /\ work = [w \in Worker |-> Empty]
  /\ tick \in [Worker -> 0..(Period - 1)]
  /\ clock \in Interval..MaxTime
  /\ last = 0
  /\ nowSeen = [w \in Worker |-> 0]
  /\ lastSeen = [w \in Worker |-> 0]
  /\ queue = <<>>
  /\ listening = TRUE
  /\ shutdown = FALSE
  /\ staleHashes = [w \in Worker |-> 0]

Move(w, to) == wpc' = [wpc EXCEPT ![w] = to]
Adopt(w, job) ==
  /\ work' = [work EXCEPT ![w] = job]
  /\ staleHashes' = [staleHashes EXCEPT ![w] = 0]
\* `should_submit_share` returns, and its variables go out of scope.
Return(w, to) ==
  /\ nowSeen' = [nowSeen EXCEPT ![w] = 0]
  /\ lastSeen' = [lastSeen EXCEPT ![w] = 0]
  /\ Move(w, to)
CountStale(w) ==
  staleHashes' = [staleHashes EXCEPT ![w] = IF work[w] = cell THEN 0 ELSE @ + 1]

-----------------------------------------------------------------------------
(* Mistakes that the properties at the end of the module must reject       *)

\* A channel whose bound is not respected
SendWithoutSlot(w) ==
  /\ wpc[w] = "send"
  /\ listening
  /\ queue' = Append(queue, work[w])
  /\ Move(w, "next")
  /\ UNCHANGED <<watchVars, limiterVars, work, tick, clock, listening, shutdown,
                 staleHashes>>

\* A store in place of the compare-and-exchange of the limiter
StampBlindly(w) ==
  /\ wpc[w] = "cas"
  /\ last' = nowSeen[w]
  /\ Return(w, "send")
  /\ UNCHANGED <<watchVars, work, tick, clock, queue, listening,
                 shutdown, staleHashes>>

\* A send that is tried again although the channel is closed
SendAgain(w) ==
  /\ wpc[w] = "send"
  /\ ~listening
  /\ UNCHANGED vars

\* A worker that looks for a new job only when it has none
SkipPoll(w) ==
  /\ wpc[w] = "next"
  /\ tick[w] + 1 = Period
  /\ tick' = [tick EXCEPT ![w] = 0]
  /\ Move(w, "top")
  /\ UNCHANGED <<watchVars, limiterVars, work, clock, queue, listening, shutdown,
                 staleHashes>>

-----------------------------------------------------------------------------
(* The environment: the pool, the clock, the end of the connection         *)

\* `process_job`, called for a `mining.notify`
ProcessJob ==
  /\ listening
  /\ published < MaxJobs
  /\ Watch!PublishSome(published + 1)
  /\ UNCHANGED <<limiterVars, wpc, work, tick, clock, queue, listening, shutdown,
                 staleHashes>>

\* `submit_rx.recv()` and `send_command`: a share leaves for the pool.
SubmitShare ==
  /\ listening
  /\ queue # <<>>
  /\ queue' = Tail(queue)
  /\ UNCHANGED <<watchVars, limiterVars, wpc, work, tick, clock, listening, shutdown,
                 staleHashes>>

\* `listen` returns, and the manager and the channel are dropped; when the
\* program ends with it, the shutdown flag is raised.
EndListen ==
  /\ listening
  /\ listening' = FALSE
  /\ shutdown' \in BOOLEAN
  /\ UNCHANGED <<watchVars, limiterVars, wpc, work, tick, clock, queue, staleHashes>>

\* Time passes, or the clock is set, forwards or backwards.
ClockChanges ==
  /\ clock' \in (0..MaxTime) \ {clock}
  /\ UNCHANGED <<watchVars, limiterVars, wpc, work, tick, queue, listening, shutdown,
                 staleHashes>>

-----------------------------------------------------------------------------
(* A worker: `launch_cpu_miner`                                            *)

WaitForJob(w) ==
  /\ wpc[w] = "top"
  /\ work[w] = Empty
  /\ Watch!BeginWait(w)
  /\ Move(w, "wait")
  /\ UNCHANGED <<limiterVars, work, tick, clock, queue, listening, shutdown, staleHashes>>

TakeJob(w) ==
  /\ wpc[w] = "wait"
  /\ Watch!EndWait(w)
  /\ Adopt(w, cell)
  /\ Move(w, "top")
  /\ UNCHANGED <<limiterVars, tick, clock, queue, listening, shutdown>>

\* `pow_match` on one nonce: a share, or nothing
TestNonce(w) ==
  /\ wpc[w] = "top"
  /\ work[w] # Empty
  /\ CountStale(w)
  /\ \E outcome \in {"clock", "next"} : Move(w, outcome)
  /\ UNCHANGED <<watchVars, limiterVars, work, tick, clock, queue, listening, shutdown>>

\* `should_submit_share`: the clock is read before the stamp ...
ReadClock(w) ==
  /\ wpc[w] = "clock"
  /\ nowSeen' = [nowSeen EXCEPT ![w] = clock]
  /\ Move(w, "load")
  /\ UNCHANGED <<watchVars, last, lastSeen, work, tick, clock, queue, listening,
                 shutdown, staleHashes>>

\* ... a share that comes too early, or a clock behind the stamp
\* (`saturating_sub`), drops the share ...
LoadStamp(w) ==
  /\ wpc[w] = "load"
  /\ nowSeen[w] >= last + Interval
  /\ lastSeen' = [lastSeen EXCEPT ![w] = last]
  /\ Move(w, "cas")
  /\ UNCHANGED <<watchVars, last, nowSeen, work, tick, clock, queue, listening,
                 shutdown, staleHashes>>

TooEarly(w) ==
  /\ wpc[w] = "load"
  /\ nowSeen[w] < last + Interval
  /\ Return(w, "next")
  /\ UNCHANGED <<watchVars, last, work, tick, clock, queue, listening, shutdown,
                 staleHashes>>

\* ... and the worker that moves the stamp first submits; others drop theirs.
Stamp(w) ==
  /\ wpc[w] = "cas"
  /\ last = lastSeen[w]
  /\ last' = nowSeen[w]
  /\ Return(w, "send")
  /\ UNCHANGED <<watchVars, work, tick, clock, queue, listening, shutdown, staleHashes>>

LoseRace(w) ==
  /\ wpc[w] = "cas"
  /\ last # lastSeen[w]
  /\ Return(w, "next")
  /\ UNCHANGED <<watchVars, last, work, tick, clock, queue, listening, shutdown,
                 staleHashes>>

\* `blocking_send`, once there is room; the worker keeps its job.
Send(w) ==
  /\ wpc[w] = "send"
  /\ listening
  /\ Len(queue) < Capacity
  /\ queue' = Append(queue, work[w])
  /\ Move(w, "next")
  /\ UNCHANGED <<watchVars, limiterVars, work, tick, clock, listening, shutdown,
                 staleHashes>>

SendError(w) ==
  /\ wpc[w] = "send"
  /\ ~listening
  /\ Move(w, "gone")
  /\ UNCHANGED <<watchVars, limiterVars, work, tick, clock, queue, listening, shutdown,
                 staleHashes>>

\* `nonce += 1`, and it is not a multiple of the period ...
NextNonce(w) ==
  /\ wpc[w] = "next"
  /\ tick[w] + 1 < Period
  /\ tick' = [tick EXCEPT ![w] = @ + 1]
  /\ Move(w, "top")
  /\ UNCHANGED <<watchVars, limiterVars, work, clock, queue, listening, shutdown,
                 staleHashes>>

\* ... or it is: look at the shutdown flag, then for a new job.
NextNonceAndPoll(w) ==
  /\ wpc[w] = "next"
  /\ tick[w] + 1 = Period
  /\ tick' = [tick EXCEPT ![w] = 0]
  /\ \/ shutdown /\ Move(w, "gone") /\ UNCHANGED <<watchVars, work, staleHashes>>
     \/ /\ ~shutdown
        /\ Move(w, "top")
        /\ \/ Watch!Poll(w) /\ Adopt(w, cell)
           \/ ~Watch!Stale(w) /\ UNCHANGED <<watchVars, work, staleHashes>>
  /\ UNCHANGED <<limiterVars, clock, queue, listening, shutdown>>

-----------------------------------------------------------------------------

WorkerStep(w) ==
  \/ WaitForJob(w) \/ TakeJob(w) \/ TestNonce(w)
  \/ ReadClock(w) \/ LoadStamp(w) \/ TooEarly(w) \/ Stamp(w) \/ LoseRace(w)
  \/ Send(w) \/ SendError(w) \/ NextNonce(w) \/ NextNonceAndPoll(w)

Next ==
  \/ ProcessJob \/ SubmitShare \/ EndListen \/ ClockChanges
  \/ \E w \in Worker : WorkerStep(w)

\* Threads are scheduled, the listener takes shares while it runs, and a
\* thread waiting for a slot gets one.  The pool need not send anything.
Fairness ==
  /\ WF_vars(SubmitShare)
  /\ \A w \in Worker :
       /\ SF_vars(Send(w))
       /\ WF_vars(WorkerStep(w) /\ wpc[w] # "send")
       /\ WF_vars(SendError(w))

SafetySpec == Init /\ [][Next]_vars

Spec == SafetySpec /\ Fairness

-----------------------------------------------------------------------------
(* Properties                                                              *)

\* However the workers race and wherever the clock is set, the stamp moves
\* only forwards, and by Interval at least: one share per 250 ms.
SharesSpaced == [][last' # last => last' >= last + Interval]_vars

\* A worker tests at most Period nonces of a job that has been replaced.
StaleWorkBounded == \A w \in Worker : staleHashes[w] <= Period

\* Whatever it is doing, a worker gets to see a new job.
EveryoneSeesNewJob ==
  \A w \in Worker : Watch!Stale(w) ~> (~Watch!Stale(w) \/ wpc[w] = "gone")
==============================================================================
