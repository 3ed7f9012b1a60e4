------------------------------ MODULE SoloMiner ------------------------------
(***************************************************************************)
(* Solo mining: `MinerManager` (miner.rs) between the listener task, which *)
(* hands it block templates (`process_block`), and the worker threads,     *)
(* which mine them (`launch_cpu_miner`) and submit what they find through  *)
(* a bounded channel.                                                      *)
(*                                                                         *)
(* Templates reach the workers through a WatchSwap, of which only the      *)
(* abstraction WatchCell is used here.  A template is identified with the  *)
(* pointer it is published under: the n-th template is n, which is its     *)
(* `_id` plus one.  `solved_state_id` is the id of the template for which  *)
(* a block has been claimed, or NoId (`usize::MAX`).                       *)
(***************************************************************************)
EXTENDS Naturals, FiniteSets

CONSTANTS Worker,       \* worker threads, of which a miner launches either
          GpuWorker,    \* the one that drives a GPU, or all the others
          Period,       \* a CPU worker looks for new work every Period nonces
          Capacity,     \* of the channel to the node
          NoId,         \* `usize::MAX`
          MaxTemplates, \* bound: templates the node sends
          Devfund       \* the templates that pay the project address

ASSUME WorkerAssumption == IsFiniteSet(Worker) /\ Worker # {}
ASSUME GpuWorkerAssumption == GpuWorker \subseteq Worker
ASSUME PeriodAssumption == Period \in Nat \ {0}
ASSUME CapacityAssumption == Capacity \in Nat \ {0}
ASSUME MaxTemplatesAssumption == MaxTemplates \in Nat
ASSUME NoIdAssumption == NoId \notin Nat

VARIABLES
  cell, published, cached, waiting, \* `block_channel`, see WatchCell
  isSynced,    \* `is_synced`
  solved,      \* `solved_state_id`
  lpc,         \* where the listener task is
  pending,     \* the template `process_block` is about to publish
  wpc,         \* where each worker is in its loop
  work,        \* its `state`: a template, or Empty for `None`
  tick,        \* its `nonce`, modulo Period
  queued,      \* occupied slots of the channel to the node
  shutdown,    \* the shutdown flag
  claims,      \* history: blocks claimed since `solved` was last reset
  submitted,   \* history: the templates for which a block has been queued
  staleHashes  \* history: nonces tested on `work` since it was replaced

watchVars == <<cell, published, cached, waiting>>
listenerVars == <<isSynced, lpc, pending>>
vars == <<watchVars, listenerVars, solved, wpc, work, tick, queued, shutdown,
          claims, submitted, staleHashes>>

Empty == 0
Template == 1..MaxTemplates

\* Every worker's handle is cloned before the first template arrives.
Watch == INSTANCE WatchCell WITH Handle <- Worker, Value <- Template

WorkerPC == {"start", "top", "wait", "test", "claim", "send", "gone"}

\* Every variable stays in its set: `send_channel` never holds more than Capacity
\* messages, and no worker has a template that has not been published.
TypeOK ==
  /\ published \in 0..MaxTemplates
  /\ cell \in Empty..published
  /\ cached \in [Worker -> Empty..published]
  /\ waiting \subseteq Worker
  /\ isSynced \in BOOLEAN
  /\ solved \in Template \union {NoId}
  /\ lpc \in {"ready", "request", "swap", "down"}
  /\ pending \in Template \union {Empty}
  /\ wpc \in [Worker -> WorkerPC]
  /\ work \in [Worker -> Template \union {Empty}]
  /\ tick \in [Worker -> 0..(Period - 1)]
  /\ queued \in 0..Capacity
  /\ shutdown \in BOOLEAN
  /\ claims \in Nat
  /\ submitted \subseteq Template
  /\ staleHashes \in [Worker -> Nat]

\* `MinerManager::new` and `launch_cpu_threads`, with a `GpuConfig` or without;
\* the nonces of the workers start at random numbers.
Init ==
  /\ cell = Empty
  /\ published = Empty
  /\ cached = [w \in Worker |-> Empty]
  /\ waiting = {}
  /\ isSynced = TRUE
  /\ solved = NoId
  /\ lpc = "ready"
  /\ pending = Empty
  /\ \E launched \in {GpuWorker, Worker \ GpuWorker} :
       wpc = [w \in Worker |-> IF w \in launched THEN "start" ELSE "gone"]
  /\ work = [w \in Worker |-> Empty]
  /\ tick \in [Worker -> 0..(Period - 1)]
  /\ \A w \in GpuWorker : tick[w] = 0 \* it never looks at it
  /\ queued = 0
  /\ shutdown = FALSE
  /\ claims = 0
  /\ submitted = {}
  /\ staleHashes = [w \in Worker |-> 0]

Move(w, to) == wpc' = [wpc EXCEPT ![w] = to]
Adopt(w, template) ==
  /\ work' = [work EXCEPT ![w] = template]
  /\ staleHashes' = [staleHashes EXCEPT ![w] = 0]

-----------------------------------------------------------------------------
(* Mistakes that the properties at the end of the module must reject       *)

\* A request that does not wait for a slot of the channel
RequestWithoutSlot ==
  /\ lpc = "request"
  /\ queued' = queued + 1
  /\ lpc' = "ready"
  /\ UNCHANGED <<watchVars, isSynced, pending, solved, wpc, work, tick,
                 shutdown, claims, submitted, staleHashes>>

\* A store in place of the compare-and-exchange of `found_block`
ClaimBlindly(w) ==
  /\ wpc[w] = "claim"
  /\ solved' = work[w]
  /\ claims' = claims + 1
  /\ Move(w, "send")
  /\ UNCHANGED <<watchVars, listenerVars, work, tick, queued, shutdown, submitted,
                 staleHashes>>

\* `process_block` that leaves `solved_state_id` alone
ForgetToReset ==
  /\ lpc = "ready"
  /\ published < MaxTemplates
  /\ isSynced' = TRUE
  /\ pending' = published + 1
  /\ claims' = 0
  /\ lpc' = "swap"
  /\ UNCHANGED <<watchVars, solved, wpc, work, tick, queued, shutdown, submitted,
                 staleHashes>>

\* A poll that takes `None` for "nothing new" and goes on with the old work
PollIgnoringNone(w) ==
  /\ w \notin GpuWorker
  /\ wpc[w] = "test"
  /\ tick[w] + 1 = Period
  /\ tick' = [tick EXCEPT ![w] = 0]
  /\ cached' = [cached EXCEPT ![w] = cell]
  /\ IF Watch!Stale(w) /\ cell # Empty THEN Adopt(w, cell)
     ELSE /\ staleHashes' = [staleHashes EXCEPT ![w] = IF work[w] = cell THEN 0 ELSE @ + 1]
          /\ UNCHANGED work
  /\ Move(w, "top")
  /\ UNCHANGED <<cell, published, waiting, listenerVars, solved, queued, shutdown,
                 claims, submitted>>

\* A worker whose template is solved spins in place of waiting for a change.
SpinWhenSolved(w) ==
  /\ wpc[w] = "top"
  /\ work[w] = Empty
  /\ Watch!BeginWait(w)
  /\ Move(w, "wait")
  /\ UNCHANGED <<listenerVars, solved, work, tick, queued, shutdown, claims,
                 submitted, staleHashes>>

-----------------------------------------------------------------------------
(* The listener task: client.rs, `process_block`                           *)

\* `process_block(Some(b))`: the template is prepared and the claim on the old
\* one is cleared (the store), before the new one is visible (the swap).
ResetForTemplate ==
  /\ lpc = "ready"
  /\ published < MaxTemplates
  /\ isSynced' = TRUE
  /\ pending' = published + 1
  /\ solved' = NoId
  /\ claims' = 0
  /\ lpc' = "swap"
  /\ UNCHANGED <<watchVars, wpc, work, tick, queued, shutdown, submitted, staleHashes>>

\* `process_block(None)`: only the first of several withdraws the work.
ResetForUnsynced ==
  /\ lpc = "ready"
  /\ isSynced
  /\ isSynced' = FALSE
  /\ pending' = Empty
  /\ solved' = NoId
  /\ claims' = 0
  /\ lpc' = "swap"
  /\ UNCHANGED <<watchVars, wpc, work, tick, queued, shutdown, submitted, staleHashes>>

\* `block_channel.swap(state)`
SwapTemplate ==
  /\ lpc = "swap"
  /\ IF pending = Empty THEN Watch!PublishNone ELSE Watch!PublishSome(pending)
  /\ lpc' = "ready"
  /\ UNCHANGED <<isSynced, pending, solved, wpc, work, tick, queued, shutdown,
                 claims, submitted, staleHashes>>

\* A notification makes the listener ask for a template, for which it needs a
\* slot of the channel that the workers use as well.
TemplateNotification ==
  /\ lpc = "ready"
  /\ lpc' = "request"
  /\ UNCHANGED <<watchVars, isSynced, pending, solved, wpc, work, tick, queued,
                 shutdown, claims, submitted, staleHashes>>

RequestTemplate ==
  /\ lpc = "request"
  /\ queued < Capacity
  /\ queued' = queued + 1
  /\ lpc' = "ready"
  /\ UNCHANGED <<watchVars, isSynced, pending, solved, wpc, work, tick,
                 shutdown, claims, submitted, staleHashes>>

\* The stream to the node ends.  An error (a template that `State::new`
\* refuses is one) ends the program; otherwise `main` connects anew with a
\* manager, channel and workers of its own.  The old workers live on.
Disconnect ==
  /\ lpc \in {"ready", "request"}
  /\ lpc' = "down"
  /\ shutdown' \in BOOLEAN
  /\ UNCHANGED <<watchVars, isSynced, pending, solved, wpc, work, tick, queued,
                 claims, submitted, staleHashes>>

\* The node connection takes a message out of the channel.
Drain ==
  /\ lpc # "down"
  /\ queued > 0
  /\ queued' = queued - 1
  /\ UNCHANGED <<watchVars, listenerVars, solved, wpc, work, tick, shutdown,
                 claims, submitted, staleHashes>>

-----------------------------------------------------------------------------
(* A worker: `launch_cpu_miner`                                            *)

\* `GpuSearcher::new` may fail, and with it the only worker of a GPU miner.
Start(w) ==
  /\ wpc[w] = "start"
  /\ \/ Move(w, "top")
     \/ w \in GpuWorker /\ Move(w, "gone")
  /\ UNCHANGED <<watchVars, listenerVars, solved, work, tick, queued, shutdown,
                 claims, submitted, staleHashes>>

\* No work, or work for which a block has been claimed: wait for other work.
WaitForWork(w) ==
  /\ wpc[w] = "top"
  /\ work[w] \in {Empty, solved}
  /\ Watch!BeginWait(w)
  /\ Move(w, "wait")
  /\ UNCHANGED <<listenerVars, solved, work, tick, queued, shutdown, claims,
                 submitted, staleHashes>>

\* `wait_for_change` returns; what it returns may be `None`.
TakeWork(w) ==
  /\ wpc[w] = "wait"
  /\ Watch!EndWait(w)
  /\ Adopt(w, cell)
  /\ Move(w, "top")
  /\ UNCHANGED <<listenerVars, solved, tick, queued, shutdown, claims, submitted>>

\* `already_solved` has been read and differs: test a nonce, or a batch.
BeginTest(w) ==
  /\ wpc[w] = "top"
  /\ work[w] \notin {Empty, solved}
  /\ Move(w, "test")
  /\ UNCHANGED <<watchVars, listenerVars, solved, work, tick, queued, shutdown,
                 claims, submitted, staleHashes>>

\* A nonce tested on a template that is no longer the current one
CountStale(w) ==
  staleHashes' = [staleHashes EXCEPT ![w] = IF work[w] = cell THEN 0 ELSE @ + 1]

\* `generate_block_if_pow` finds a block (on the GPU: for the first hit).
Find(w) ==
  /\ wpc[w] = "test"
  /\ CountStale(w)
  /\ Move(w, "claim")
  /\ UNCHANGED <<watchVars, listenerVars, solved, work, tick, queued, shutdown,
                 claims, submitted>>

\* It does not, and the next nonce is not a multiple of the period.
Miss(w) ==
  /\ w \notin GpuWorker
  /\ wpc[w] = "test"
  /\ tick[w] + 1 < Period
  /\ tick' = [tick EXCEPT ![w] = @ + 1]
  /\ CountStale(w)
  /\ Move(w, "top")
  /\ UNCHANGED <<watchVars, listenerVars, solved, work, queued, shutdown, claims,
                 submitted>>

\* It is: look at the shutdown flag, then for new work.
MissAndPoll(w) ==
  /\ w \notin GpuWorker
  /\ wpc[w] = "test"
  /\ tick[w] + 1 = Period
  /\ tick' = [tick EXCEPT ![w] = 0]
  /\ \/ /\ shutdown
        /\ Move(w, "gone")
        /\ CountStale(w)
        /\ UNCHANGED <<watchVars, work>>
     \/ /\ ~shutdown
        /\ Watch!Stale(w)
        /\ Watch!Poll(w)
        /\ Adopt(w, cell)
        /\ Move(w, "top")
     \/ /\ ~shutdown
        /\ ~Watch!Stale(w)
        /\ CountStale(w)
        /\ Move(w, "top")
        /\ UNCHANGED <<watchVars, work>>
  /\ UNCHANGED <<listenerVars, solved, queued, shutdown, claims, submitted>>

\* A GPU batch without a valid block: the loop does not look for new work.
BatchMiss(w) ==
  /\ w \in GpuWorker
  /\ wpc[w] = "test"
  /\ Move(w, "top")
  /\ UNCHANGED <<watchVars, listenerVars, solved, work, tick, queued, shutdown,
                 claims, submitted, staleHashes>>

\* `gpu.search` fails: the worker ends.
BatchError(w) ==
  /\ w \in GpuWorker
  /\ wpc[w] = "test"
  /\ Move(w, "gone")
  /\ UNCHANGED <<watchVars, listenerVars, solved, work, tick, queued, shutdown,
                 claims, submitted, staleHashes>>

\* `found_block`: the compare-and-exchange from NoId to this template ...
Claim(w) ==
  /\ wpc[w] = "claim"
  /\ solved = NoId
  /\ solved' = work[w]
  /\ claims' = claims + 1
  /\ Move(w, "send")
  /\ UNCHANGED <<watchVars, listenerVars, work, tick, queued, shutdown, submitted,
                 staleHashes>>

\* ... which fails when some block has been claimed: this one is dropped.
DropBlock(w) ==
  /\ wpc[w] = "claim"
  /\ solved # NoId
  /\ Adopt(w, Empty)
  /\ Move(w, "top")
  /\ UNCHANGED <<watchVars, listenerVars, solved, tick, queued, shutdown, claims,
                 submitted>>

\* `blocking_send` of the claimed block, once there is room
Send(w) ==
  /\ wpc[w] = "send"
  /\ lpc # "down"
  /\ queued < Capacity
  /\ queued' = queued + 1
  /\ submitted' = submitted \union {work[w]}
  /\ Adopt(w, Empty)
  /\ Move(w, "top")
  /\ UNCHANGED <<watchVars, listenerVars, solved, tick, shutdown, claims>>

\* The receiver is gone: `blocking_send` fails and the worker ends.
SendError(w) ==
  /\ wpc[w] = "send"
  /\ lpc = "down"
  /\ Move(w, "gone")
  /\ UNCHANGED <<watchVars, listenerVars, solved, work, tick, queued, shutdown,
                 claims, submitted, staleHashes>>

-----------------------------------------------------------------------------

ListenerStep ==
  \/ ResetForTemplate \/ ResetForUnsynced \/ SwapTemplate
  \/ TemplateNotification \/ RequestTemplate \/ Disconnect

Test(w) == Find(w) \/ Miss(w) \/ MissAndPoll(w) \/ BatchMiss(w) \/ BatchError(w)

WorkerStep(w) ==
  \/ Start(w) \/ WaitForWork(w) \/ TakeWork(w) \/ BeginTest(w) \/ Test(w)
  \/ Claim(w) \/ DropBlock(w) \/ Send(w) \/ SendError(w)

Next == ListenerStep \/ Drain \/ \E w \in Worker : WorkerStep(w)

\* Threads are scheduled, the connection keeps taking messages, and a thread
\* that waits for a slot of the channel gets one (its semaphore is a queue).
\* The listener finishes what it has begun; nothing makes the node speak, and
\* nothing makes a nonce a good one.
Fairness ==
  /\ WF_vars(SwapTemplate)
  /\ SF_vars(RequestTemplate)
  /\ WF_vars(Drain)
  /\ \A w \in Worker :
       /\ WF_vars(Start(w))
       /\ WF_vars(WaitForWork(w))
       /\ WF_vars(TakeWork(w))
       /\ WF_vars(BeginTest(w))
       /\ WF_vars(Test(w))
       /\ WF_vars(Claim(w) \/ DropBlock(w))
       /\ SF_vars(Send(w))
       /\ WF_vars(SendError(w))

SafetySpec == Init /\ [][Next]_vars

Spec == SafetySpec /\ Fairness

-----------------------------------------------------------------------------
(* Properties                                                              *)

\* Between two resets of `solved_state_id` at most one block is claimed, so
\* at most one is sent, however many workers find one at the same time.
OneClaimPerReset == claims <= 1

\* The worker sleeps on the template that is the current one.
IdleOnCurrentWork(w) == wpc[w] = "wait" /\ cached[w] = cell /\ cell # Empty

\* A block has been claimed since the last reset, and it has been queued for
\* the node, is about to be, or was lost with the connection.
BlockOnItsWay ==
  /\ claims > 0
  /\ \/ solved \in submitted
     \/ \E w \in Worker : wpc[w] = "send" /\ work[w] = solved
     \/ lpc = "down"

\* No worker idles on the current template for nothing: it does so only when
\* a block has been claimed under it, or while it is being replaced.
IdleOnlyAfterABlock ==
  \A w \in Worker : IdleOnCurrentWork(w) => lpc = "swap" \/ BlockOnItsWay

\* A CPU worker tests at most Period nonces on a template that has been
\* replaced or withdrawn (the test `is_multiple_of(128)`).
StaleWorkBounded == \A w \in Worker \ GpuWorker : staleHashes[w] <= Period

\* Whatever it is doing, a CPU worker gets to see a change of the work.
EveryoneSeesNewWork ==
  \A w \in Worker \ GpuWorker : Watch!Stale(w) ~> (~Watch!Stale(w) \/ wpc[w] = "gone")

\* A worker on a template that pays the project address leaves it once there
\* is one that does not, as long as that one stands.  "Solo mining routes
\* approximately 1% of work to the project address" (README) needs this of
\* GPU workers too.
DevfundWorkEnds ==
  \A w \in Worker :
    (work[w] \in Devfund /\ cell \in Template \ Devfund)
      ~> \/ work[w] \notin Devfund \/ wpc[w] = "gone"
         \/ cell \notin Template \ Devfund \/ lpc = "down"
==============================================================================
