----------------------------- MODULE StratumGpu ------------------------------
(***************************************************************************)
(* Pool mining on a GPU: two pool connections at once, the user's ("main") *)
(* and the project's ("dev"), one GPU thread that divides its batches      *)
(* between them (`GpuStratumDevfundManager`, miner.rs), and the task of    *)
(* `main` that joins the two listeners and reconnects when both are done.  *)
(*                                                                         *)
(* Each pool has a slot for its current job, a WatchSwap whose one reader  *)
(* is the GPU thread: `job` is the slot, `seen` the handle's cached value, *)
(* which is also the thread's `main_state` and `dev_state`.  Jobs of a     *)
(* pool are numbered in order, Empty is none.  One session is modelled,    *)
(* from the start of the GPU thread to the point where `main` connects     *)
(* again or the program ends.                                              *)
(***************************************************************************)
EXTENDS Naturals, Sequences

CONSTANTS FeePeriod,  \* DEVFUND_BATCH_PERIOD
          Capacity,   \* of each channel of shares
          MaxJobs,    \* bound: jobs each pool sends
          Horizon     \* bound: the batches counted before counting anew

ASSUME FeePeriodAssumption == FeePeriod \in Nat \ {0}
ASSUME CapacityAssumption == Capacity \in Nat \ {0}
ASSUME BoundsAssumption ==
  /\ MaxJobs \in Nat
  /\ Horizon \in Nat \ {0}
  /\ \E periods \in 1..Horizon : Horizon = periods * FeePeriod

VARIABLES
  mainPc,    \* `main`: starting the GPU, joining, retrying, ended
  listener,  \* the two listeners: on, or how they ended
  job,       \* the pools' slots
  seen,      \* what the GPU thread has taken from them
  gpc,       \* where the GPU thread is in its loop
  index,     \* `batch_index`, modulo FeePeriod
  cur,       \* the pool of the batch in hand
  queue,     \* the channels of shares
  batches,   \* history: batches finished, counted up to Horizon
  fees,      \* history: those of them that were the project's
  devReady,  \* history: the project had a job when the count began
  stale      \* history: batches in a row finished on a replaced job

programVars == <<mainPc, listener>>
countVars == <<batches, fees, devReady, stale>>
vars == <<programVars, job, seen, gpc, index, cur, queue, countVars>>

Pool == {"main", "dev"}
Empty == 0

\* A share solves a job of a pool.
Share == [pool : Pool, job : 1..MaxJobs]
Found == [pool |-> cur, job |-> seen[cur]]

\* Every variable stays in its set: the channels of shares never hold more than
\* Capacity, and the fees are some of the batches.
TypeOK ==
  /\ mainPc \in {"starting", "joining", "retry", "ended"}
  /\ listener \in [Pool -> {"on", "eof", "error"}]
  /\ job \in [Pool -> 0..MaxJobs]
  /\ seen \in [Pool -> 0..MaxJobs]
  /\ gpc \in {"init", "top", "pollDev", "search", "hits", "send", "gone"}
  /\ index \in 0..(FeePeriod - 1)
  /\ cur \in Pool
  /\ queue \in [Pool -> Seq(Share)]
  /\ \A p \in Pool : Len(queue[p]) <= Capacity
  /\ batches \in 0..Horizon
  /\ fees \in 0..batches
  /\ devReady \in BOOLEAN
  /\ stale \in [Pool -> Nat]

Init ==
  /\ mainPc = "starting"
  /\ listener = [p \in Pool |-> "on"]
  /\ job = [p \in Pool |-> Empty]
  /\ seen = [p \in Pool |-> Empty]
  /\ gpc = "init"
  /\ index = 0
  /\ cur = "main"
  /\ queue = [p \in Pool |-> <<>>]
  /\ batches = 0
  /\ fees = 0
  /\ devReady = FALSE
  /\ stale = [p \in Pool |-> 0]

-----------------------------------------------------------------------------
(* Mistakes that the properties at the end of the module must reject       *)

\* A channel whose bound is not respected
SendWithoutSlot ==
  /\ gpc = "send"
  /\ mainPc = "joining"
  /\ queue' = [queue EXCEPT ![cur] = Append(@, Found)]
  /\ gpc' = "hits"
  /\ UNCHANGED <<programVars, job, seen, index, cur, countVars>>

\* The channel chosen by the index, not by the batch that was searched
SendByIndex ==
  LET to == IF index = FeePeriod - 1 THEN "dev" ELSE "main"
  IN  /\ gpc = "send"
      /\ mainPc = "joining"
      /\ Len(queue[to]) < Capacity
      /\ queue' = [queue EXCEPT ![to] = Append(@, Found)]
      /\ gpc' = "hits"
      /\ UNCHANGED <<programVars, job, seen, index, cur, countVars>>

\* A thread that takes a job of the user's pool only when it has none
PollMainOnce ==
  /\ gpc = "top"
  /\ \/ /\ seen["main"] = Empty /\ job["main"] # Empty
        /\ seen' = [seen EXCEPT !["main"] = job["main"]]
     \/ seen["main"] # Empty /\ UNCHANGED seen
  /\ gpc' = "pollDev"
  /\ UNCHANGED <<programVars, job, index, cur, queue, countVars>>

\* An index that only the user's batches advance
NextIndexOfMain == IF cur = "main" THEN (index + 1) % FeePeriod ELSE index

\* A thread that waits for a first job of the project's pool as well
PollDevWaiting ==
  /\ gpc = "pollDev"
  /\ seen["dev"] = Empty => job["dev"] # Empty
  /\ seen' = [seen EXCEPT !["dev"] = job["dev"]]
  /\ stale' = [stale EXCEPT !["dev"] = IF seen["dev"] = job["dev"] THEN @ ELSE 0]
  /\ cur' = IF index = FeePeriod - 1 THEN "dev" ELSE "main"
  /\ IF batches \in {0, Horizon}
       THEN batches' = 0 /\ fees' = 0 /\ devReady' = TRUE
       ELSE UNCHANGED <<batches, fees, devReady>>
  /\ gpc' = "search"
  /\ UNCHANGED <<programVars, job, index, queue>>

-----------------------------------------------------------------------------
(* `main` and the listeners                                                *)

\* `GpuStratumDevfundManager::new` returns once the GPU is up; if it is not,
\* or not within 120 seconds, the program ends.
StartJoin ==
  /\ mainPc = "starting"
  /\ gpc \notin {"init", "gone"}
  /\ mainPc' = "joining"
  /\ UNCHANGED <<listener, job, seen, gpc, index, cur, queue, countVars>>

StartFails ==
  /\ mainPc = "starting"
  /\ mainPc' = "ended"
  /\ UNCHANGED <<listener, job, seen, gpc, index, cur, queue, countVars>>

\* `mining.notify`: the pool replaces its job.
ProcessJob(p) ==
  /\ mainPc = "joining"
  /\ listener[p] = "on"
  /\ job[p] < MaxJobs
  /\ job' = [job EXCEPT ![p] = @ + 1]
  /\ UNCHANGED <<programVars, seen, gpc, index, cur, queue, countVars>>

\* `submit_rx.recv()`, and the share goes to the pool.
Drain(p) ==
  /\ mainPc = "joining"
  /\ listener[p] = "on"
  /\ queue[p] # <<>>
  /\ queue' = [queue EXCEPT ![p] = Tail(@)]
  /\ UNCHANGED <<programVars, job, seen, gpc, index, cur, countVars>>

\* The connection ends or fails; the channel stays open in `main`'s scope.
ListenEnds(p) ==
  /\ mainPc = "joining"
  /\ listener[p] = "on"
  /\ \E how \in {"eof", "error"} : listener' = [listener EXCEPT ![p] = how]
  /\ UNCHANGED <<mainPc, job, seen, gpc, index, cur, queue, countVars>>

\* `tokio::join!` waits for both listeners, whatever their results.
Join ==
  /\ mainPc = "joining"
  /\ \A p \in Pool : listener[p] # "on"
  /\ mainPc' = IF \A p \in Pool : listener[p] = "eof" THEN "retry" ELSE "ended"
  /\ UNCHANGED <<listener, job, seen, gpc, index, cur, queue, countVars>>

-----------------------------------------------------------------------------
(* The GPU thread                                                          *)

\* `GpuSearcher::new`
InitGpu ==
  /\ gpc = "init"
  /\ gpc' \in {"top", "gone"}
  /\ UNCHANGED <<programVars, job, seen, index, cur, queue, countVars>>

\* With no job of the user's pool wait for one; otherwise take a newer one.
PollMain ==
  /\ gpc = "top"
  /\ seen["main"] = Empty => job["main"] # Empty
  /\ seen' = [seen EXCEPT !["main"] = job["main"]]
  /\ stale' = [stale EXCEPT !["main"] = IF seen["main"] = job["main"] THEN @ ELSE 0]
  /\ gpc' = "pollDev"
  /\ UNCHANGED <<programVars, job, index, cur, queue, batches, fees, devReady>>

\* Take a newer job of the project; it gets the last batch of each period,
\* if it has a job.  (Here a new count of batches begins after Horizon.)
Pick(useDev) == IF useDev /\ job["dev"] # Empty THEN "dev" ELSE "main"

PollDevAndPick ==
  /\ gpc = "pollDev"
  /\ seen' = [seen EXCEPT !["dev"] = job["dev"]]
  /\ stale' = [stale EXCEPT !["dev"] = IF seen["dev"] = job["dev"] THEN @ ELSE 0]
  /\ cur' = Pick(index = FeePeriod - 1)
  /\ IF batches \in {0, Horizon}
       THEN batches' = 0 /\ fees' = 0 /\ devReady' = (job["dev"] # Empty)
       ELSE UNCHANGED <<batches, fees, devReady>>
  /\ gpc' = "search"
  /\ UNCHANGED <<programVars, job, index, queue>>

\* `gpu.search` returns.
Search ==
  /\ gpc = "search"
  /\ stale' = [stale EXCEPT ![cur] = IF seen[cur] = job[cur] THEN 0 ELSE @ + 1]
  /\ gpc' = "hits"
  /\ UNCHANGED <<programVars, job, seen, index, cur, queue, batches, fees, devReady>>

\* `gpu.search` fails, and the thread ends.
SearchError ==
  /\ gpc = "search"
  /\ gpc' = "gone"
  /\ UNCHANGED <<programVars, job, seen, index, cur, queue, countVars>>

\* `submit_hit`: a hit that the CPU confirms and the limiter lets through
Hit ==
  /\ gpc = "hits"
  /\ gpc' = "send"
  /\ UNCHANGED <<programVars, job, seen, index, cur, queue, countVars>>

\* `blocking_send` to the pool of the batch, once there is room ...
Send ==
  /\ gpc = "send"
  /\ mainPc = "joining"
  /\ Len(queue[cur]) < Capacity
  /\ queue' = [queue EXCEPT ![cur] = Append(@, Found)]
  /\ gpc' = "hits"
  /\ UNCHANGED <<programVars, job, seen, index, cur, countVars>>

\* ... or with an error, when `main` has dropped the receiver.
SendError ==
  /\ gpc = "send"
  /\ mainPc \in {"retry", "ended"}
  /\ gpc' = "gone"
  /\ UNCHANGED <<programVars, job, seen, index, cur, queue, countVars>>

\* No more hits: the batch counts, and the shutdown flag is looked at, which
\* is raised when the program ends.
NextIndex == (index + 1) % FeePeriod

EndBatch ==
  /\ gpc = "hits"
  /\ index' = NextIndex
  /\ batches' = batches + 1
  /\ fees' = IF cur = "dev" THEN fees + 1 ELSE fees
  /\ gpc' = IF mainPc = "ended" THEN "gone" ELSE "top"
  /\ UNCHANGED <<programVars, job, seen, cur, queue, devReady, stale>>

-----------------------------------------------------------------------------

ProgramStep ==
  \/ StartJoin \/ StartFails \/ Join
  \/ \E p \in Pool : ProcessJob(p) \/ Drain(p) \/ ListenEnds(p)

GpuStep ==
  \/ InitGpu \/ PollMain \/ PollDevAndPick \/ Search \/ SearchError
  \/ Hit \/ Send \/ SendError \/ EndBatch

Next == ProgramStep \/ GpuStep

\* The thread and the tasks are scheduled, a search ends, and a batch has
\* finitely many hits.  Pools need not send jobs, nor connections end.
Fairness ==
  /\ WF_vars(StartJoin)
  /\ WF_vars(Join)
  /\ \A p \in Pool : WF_vars(Drain(p))
  /\ WF_vars(InitGpu)
  /\ WF_vars(PollMain)
  /\ WF_vars(PollDevAndPick)
  /\ WF_vars(Search)
  /\ WF_vars(Send)
  /\ WF_vars(SendError)
  /\ SF_vars(EndBatch)

SafetySpec == Init /\ [][Next]_vars

Spec == SafetySpec /\ Fairness

-----------------------------------------------------------------------------
(* Properties                                                              *)

\* A share is queued only for the pool whose job it solves.
SharesReachTheirPool ==
  \A p \in Pool : \A i \in 1..Len(queue[p]) : queue[p][i].pool = p

\* Each of the two connections implements PoolLink, with one thread behind both: what
\* comes to a pool are shares of the job that the thread has of that pool, in order.
\* Its channel is there as long as `main` joins the listeners; a share of the other
\* pool would have no number in it.
Phase ==
  CASE mainPc = "starting" -> "new"
    [] mainPc = "joining" -> "open"
    [] OTHER -> "over"

Link(p) == INSTANCE PoolLink WITH
  Worker  <- {"gpu"},
  phase   <- Phase,
  job     <- job[p],
  work    <- [w \in {"gpu"} |-> seen[p]],
  channel <- [i \in DOMAIN queue[p] |-> IF queue[p][i].pool = p THEN queue[p][i].job ELSE Empty]

ImplementsLinks ==
  /\ \A p \in Pool : Link(p)!LinkInit
  /\ [][\A p \in Pool : [Link(p)!LinkNext]_(Link(p)!linkVars)]_vars

\* "99 batches for the selected pool worker and one batch for the project
\* worker" (README): never more, and no fewer while the project has a job.
FeeSchedule ==
  /\ fees * FeePeriod <= batches
  /\ devReady => batches < (fees + 1) * FeePeriod

\* At most one batch in a row finishes on a job that its pool has replaced:
\* "the GPU may continue processing an old job" (README) for one dispatch.
StaleBatchesBounded == \A p \in Pool : stale[p] <= 1

\* The thread waits for room in the channel of a pool that has ended, which
\* `main` keeps open while it waits for the other pool's listener.
HeldUp ==
  /\ gpc = "send"
  /\ Len(queue[cur]) = Capacity
  /\ listener[cur] # "on"
  /\ \E p \in Pool : listener[p] = "on"

\* Either pool's job, or a later one, is taken by the thread once the user's
\* pool has sent a first job, whatever the other pool does: whether it has no
\* job, its channel is full or its connection ends.  The thread may end, and
\* one thing holds it up for good: HeldUp, with the other pool connected ever after.
NewJobsAreTaken ==
  \A p \in Pool : \A n \in 1..MaxJobs :
    [](job["main"] # Empty /\ job[p] >= n
         => <>(seen[p] >= n \/ gpc = "gone") \/ <>[]HeldUp)

\* "Disconnected from stratum, retrying" (main.rs): when the user's pool
\* closes the connection, the miner connects again, or ends.
DisconnectIsRetried == listener["main"] # "on" ~> mainPc \in {"retry", "ended"}
==============================================================================
