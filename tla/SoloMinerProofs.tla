--------------------------- MODULE SoloMinerProofs ---------------------------
(***************************************************************************)
(* Proofs about solo mining, for any number of workers, any period, any    *)
(* capacity of the channel and any number of templates.                    *)
(***************************************************************************)
EXTENDS SoloMiner, TLAPS

\* The count of claims follows the slot: one exactly when it is taken.
ClaimsOK == claims = IF solved = NoId THEN 0 ELSE 1

\* A worker that tests, claims or sends has work; `state` is the value its
\* handle has cached, unless it has been taken (`state = None`).
WorkOK ==
  \A w \in Worker :
    /\ wpc[w] \in {"test", "claim", "send"} => work[w] # Empty
    /\ work[w] # Empty => work[w] = cached[w]

\* The template in the slot has a block queued, or about to be queued.
ClaimedOK ==
  solved # NoId =>
    \/ solved \in submitted
    \/ \E w \in Worker : wpc[w] = "send" /\ work[w] = solved
    \/ lpc = "down"

\* Workers that will not look at the current template again before it changes
Settled(w) ==
  wpc[w] \in {"wait", "send"} \/ (wpc[w] \in {"start", "top"} /\ work[w] = Empty)

\* They settle on a current template only once it is claimed; the claim is
\* cleared only on the way to another template.
SettledOK ==
  \A w \in Worker :
    Settled(w) /\ cached[w] = cell /\ cell # Empty => lpc = "swap" \/ solved # NoId

\* Outdated nonces are those tested since the last poll, at most.
StaleOK ==
  \A w \in Worker \ GpuWorker :
    /\ staleHashes[w] <= Period
    /\ wpc[w] \in {"start", "top", "wait", "test"} => staleHashes[w] <= tick[w]

IInv == TypeOK /\ ClaimsOK /\ WorkOK /\ ClaimedOK /\ SettledOK /\ StaleOK

\* The constants are what the assumptions of SoloMiner say.
LEMMA Constants ==
  /\ Period \in Nat /\ Period > 0
  /\ Capacity \in Nat
  /\ MaxTemplates \in Nat
  /\ GpuWorker \subseteq Worker
  /\ NoId \notin Nat
BY PeriodAssumption, CapacityAssumption, MaxTemplatesAssumption, GpuWorkerAssumption,
   NoIdAssumption

\* `MinerManager::new` establishes the invariant.
LEMMA InitIInv == Init => IInv
<1> SUFFICES ASSUME Init PROVE IInv
  OBVIOUS
<1>1. TypeOK
  <2> USE Constants DEF Init, Empty, Template, WorkerPC
  <2>1. /\ published \in 0..MaxTemplates
        /\ cell \in Empty..published
        /\ cached \in [Worker -> Empty..published]
        /\ waiting \subseteq Worker
    OBVIOUS
  <2>2. /\ isSynced \in BOOLEAN
        /\ shutdown \in BOOLEAN
        /\ solved \in Template \union {NoId}
        /\ lpc \in {"ready", "request", "swap", "down"}
        /\ pending \in Template \union {Empty}
    OBVIOUS
  <2>3. /\ wpc \in [Worker -> WorkerPC]
        /\ work \in [Worker -> Template \union {Empty}]
        /\ tick \in [Worker -> 0..(Period - 1)]
        /\ staleHashes \in [Worker -> Nat]
    OBVIOUS
  <2>4. /\ queued \in 0..Capacity
        /\ claims \in Nat
        /\ submitted \subseteq Template
    OBVIOUS
  <2> QED
    BY <2>1, <2>2, <2>3, <2>4 DEF TypeOK
<1>2. ClaimsOK /\ WorkOK /\ ClaimedOK /\ SettledOK
  BY DEF Init, ClaimsOK, WorkOK, ClaimedOK, SettledOK, Settled
<1>3. StaleOK
  BY Constants DEF Init, StaleOK
<1> QED
  BY <1>1, <1>2, <1>3 DEF IInv

-----------------------------------------------------------------------------

\* The listener: a reset opens the slot, and only then can a template that
\* nobody has settled on become the current one.
LEMMA ListenerIInv == IInv /\ (ListenerStep \/ Drain) => IInv'
<1> SUFFICES ASSUME IInv, ListenerStep \/ Drain PROVE IInv'
  OBVIOUS
<1> USE Constants DEF IInv, TypeOK, WorkerPC, Template, Empty,
                      watchVars, listenerVars
<1>1. CASE ResetForTemplate
  BY <1>1 DEF ResetForTemplate, ClaimsOK, WorkOK, ClaimedOK, SettledOK, Settled, StaleOK
<1>2. CASE ResetForUnsynced
  BY <1>2 DEF ResetForUnsynced, ClaimsOK, WorkOK, ClaimedOK, SettledOK, Settled, StaleOK
<1>3. CASE SwapTemplate
  <2>1. CASE pending = Empty
    BY <1>3, <2>1 DEF SwapTemplate, Watch!PublishNone, Watch!Empty, ClaimsOK, WorkOK, ClaimedOK,
                      SettledOK, Settled, StaleOK
  <2>2. CASE pending # Empty
    BY <1>3, <2>2 DEF SwapTemplate, Watch!PublishSome, ClaimsOK, WorkOK, ClaimedOK,
                      SettledOK, Settled, StaleOK
  <2> QED
    BY <2>1, <2>2
<1>4. CASE TemplateNotification
  BY <1>4 DEF TemplateNotification, ClaimsOK, WorkOK, ClaimedOK, SettledOK, Settled, StaleOK
<1>5. CASE RequestTemplate
  BY <1>5 DEF RequestTemplate, ClaimsOK, WorkOK, ClaimedOK, SettledOK, Settled, StaleOK
<1>6. CASE Disconnect
  BY <1>6 DEF Disconnect, ClaimsOK, WorkOK, ClaimedOK, SettledOK, Settled, StaleOK
<1>7. CASE Drain
  BY <1>7 DEF Drain, ClaimsOK, WorkOK, ClaimedOK, SettledOK, Settled, StaleOK
<1> QED
  BY <1>1, <1>2, <1>3, <1>4, <1>5, <1>6, <1>7 DEF ListenerStep

\* A worker, line by line of its loop
LEMMA WorkerIInv == ASSUME NEW w \in Worker, IInv, WorkerStep(w) PROVE IInv'
<1> USE Constants DEF IInv, TypeOK, WorkerPC, Template, Empty, watchVars,
                      listenerVars, Move, Adopt
<1>1. CASE Start(w)
  BY <1>1 DEF Start, ClaimsOK, WorkOK, ClaimedOK, SettledOK, Settled, StaleOK
<1>2. CASE WaitForWork(w)
  BY <1>2 DEF WaitForWork, Watch!BeginWait, ClaimsOK, WorkOK, ClaimedOK, SettledOK,
              Settled, StaleOK
<1>3. CASE TakeWork(w)
  BY <1>3 DEF TakeWork, Watch!EndWait, Watch!Stale, ClaimsOK, WorkOK, ClaimedOK,
              SettledOK, Settled, StaleOK
<1>4. CASE BeginTest(w)
  BY <1>4 DEF BeginTest, ClaimsOK, WorkOK, ClaimedOK, SettledOK, Settled, StaleOK
<1>5. CASE Find(w)
  BY <1>5 DEF Find, CountStale, ClaimsOK, WorkOK, ClaimedOK, SettledOK, Settled, StaleOK
<1>6. CASE Miss(w)
  BY <1>6 DEF Miss, CountStale, ClaimsOK, WorkOK, ClaimedOK, SettledOK, Settled, StaleOK
<1>7. CASE MissAndPoll(w)
  BY <1>7 DEF MissAndPoll, CountStale, Watch!Poll, Watch!Stale, ClaimsOK, WorkOK,
              ClaimedOK, SettledOK, Settled, StaleOK
<1>8. CASE BatchMiss(w) \/ BatchError(w)
  BY <1>8 DEF BatchMiss, BatchError, ClaimsOK, WorkOK, ClaimedOK, SettledOK, Settled, StaleOK
<1>9. CASE Claim(w)
  BY <1>9 DEF Claim, ClaimsOK, WorkOK, ClaimedOK, SettledOK, Settled, StaleOK
<1>10. CASE DropBlock(w)
  BY <1>10 DEF DropBlock, ClaimsOK, WorkOK, ClaimedOK, SettledOK, Settled, StaleOK
<1>11. CASE Send(w)
  <2>1. work[w] \in Template
    BY <1>11 DEF Send, WorkOK
  <2>2. TypeOK'
    <3>1. (queued \in 0..Capacity)'
      BY <1>11 DEF Send
    <3>2. (submitted \subseteq Template)'
      BY <1>11, <2>1 DEF Send
    <3>3. (/\ wpc \in [Worker -> WorkerPC]
           /\ work \in [Worker -> Template \union {Empty}]
           /\ staleHashes \in [Worker -> Nat])'
      BY <1>11 DEF Send
    <3> QED
      BY <1>11, <3>1, <3>2, <3>3 DEF Send
  <2>3. ClaimedOK'
    BY <1>11 DEF Send, ClaimedOK
  <2>4. (ClaimsOK /\ WorkOK /\ SettledOK)'
    BY <1>11 DEF Send, ClaimsOK, WorkOK, SettledOK, Settled
  <2>5. StaleOK'
    BY <1>11 DEF Send, StaleOK
  <2> QED
    BY <2>2, <2>3, <2>4, <2>5
<1>12. CASE SendError(w)
  BY <1>12 DEF SendError, ClaimsOK, WorkOK, ClaimedOK, SettledOK, Settled, StaleOK
<1> QED
  BY <1>1, <1>2, <1>3, <1>4, <1>5, <1>6, <1>7, <1>8, <1>9, <1>10, <1>11, <1>12
     DEF WorkerStep, Test

\* Every step preserves the invariant.
LEMMA NextIInv == IInv /\ [Next]_vars => IInv'
<1>1. CASE UNCHANGED vars
  BY <1>1 DEF IInv, TypeOK, ClaimsOK, WorkOK, ClaimedOK, SettledOK, Settled, StaleOK,
              vars, watchVars, listenerVars
<1> QED
  BY <1>1, ListenerIInv, WorkerIInv DEF Next

\* The invariant holds in every state the manager and its workers reach.
THEOREM Invariance == SafetySpec => []IInv
BY InitIInv, NextIInv, PTL DEF SafetySpec

-----------------------------------------------------------------------------

\* No variable leaves its set; in particular the channel keeps its bound.
THEOREM TypeCorrectness == SafetySpec => []TypeOK
<1>1. IInv => TypeOK
  BY DEF IInv
<1> QED
  BY <1>1, Invariance, PTL

\* At most one block is claimed between two resets of `solved_state_id`.
THEOREM ClaimsAreExclusive == SafetySpec => []OneClaimPerReset
<1>1. IInv => OneClaimPerReset
  BY DEF IInv, ClaimsOK, OneClaimPerReset
<1> QED
  BY <1>1, Invariance, PTL

\* No worker sleeps on the current template unless a block is on its way.
THEOREM NoIdlingForNothing == SafetySpec => []IdleOnlyAfterABlock
<1>1. IInv => IdleOnlyAfterABlock
  <2> SUFFICES ASSUME IInv, NEW w \in Worker, IdleOnCurrentWork(w), lpc # "swap"
               PROVE BlockOnItsWay
    BY DEF IdleOnlyAfterABlock
  <2>1. solved # NoId
    BY DEF IInv, SettledOK, Settled, IdleOnCurrentWork
  <2> QED
    BY <2>1 DEF IInv, ClaimsOK, ClaimedOK, BlockOnItsWay
<1> QED
  BY <1>1, Invariance, PTL

\* A CPU worker tests at most Period nonces on outdated work.
THEOREM StaleWorkIsBounded == SafetySpec => []StaleWorkBounded
<1>1. IInv => StaleWorkBounded
  BY DEF IInv, StaleOK, StaleWorkBounded
<1> QED
  BY <1>1, Invariance, PTL

-----------------------------------------------------------------------------
(* The watched cell, as the manager and the workers use it                 *)

\* The handles inside `wait_for_change` are those of the workers that stand
\* there, and what `process_block` is about to publish is the next address.
CallsOK ==
  /\ waiting = {w \in Worker : wpc[w] = "wait"}
  /\ lpc = "swap" => pending \in {Empty, published + 1}

\* Nothing else moves a worker to `wait_for_change` or changes `pending`.
LEMMA CallsStep == IInv /\ CallsOK /\ [Next]_vars => CallsOK'
<1> SUFFICES ASSUME IInv, CallsOK, [Next]_vars PROVE CallsOK'
  OBVIOUS
<1> USE Constants DEF IInv, TypeOK, CallsOK, WorkerPC, Empty, watchVars, listenerVars
<1>1. CASE ListenerStep \/ Drain
  BY <1>1 DEF ListenerStep, ResetForTemplate, ResetForUnsynced, SwapTemplate,
              Watch!PublishNone, Watch!PublishSome, TemplateNotification, RequestTemplate,
              Disconnect, Drain
<1>2. ASSUME NEW w \in Worker, WorkerStep(w) PROVE CallsOK'
  <2> USE DEF Move
  <2>1. UNCHANGED <<lpc, pending, published>>
    BY <1>2 DEF WorkerStep, Test, Start, WaitForWork, TakeWork, BeginTest, Find, Miss,
                MissAndPoll, BatchMiss, BatchError, Claim, DropBlock, Send, SendError,
                Watch!BeginWait, Watch!EndWait, Watch!Poll
  <2>2. CASE WaitForWork(w)
    BY <2>1, <2>2 DEF WaitForWork, Watch!BeginWait
  <2>3. CASE TakeWork(w)
    BY <2>1, <2>3 DEF TakeWork, Watch!EndWait
  <2>4. CASE ~WaitForWork(w) /\ ~TakeWork(w)
    <3>1. /\ waiting' = waiting
          /\ \E to \in WorkerPC \ {"wait"} : wpc' = [wpc EXCEPT ![w] = to]
          /\ wpc[w] # "wait"
      BY <1>2, <2>4 DEF WorkerStep, Test, Start, BeginTest, Find, Miss, MissAndPoll, BatchMiss,
                        BatchError, Claim, DropBlock, Send, SendError, Watch!Poll
    <3> QED
      BY <2>1, <3>1
  <2> QED
    BY <2>2, <2>3, <2>4
<1>3. CASE UNCHANGED vars
  BY <1>3 DEF vars
<1> QED
  BY <1>1, <1>2, <1>3 DEF Next

\* No call of the cell meets a handle that is inside another one, and no
\* template is published under an address that was used before: none of the
\* guards of WatchCell holds up the listener or a worker.
CallsAreLegal ==
  /\ lpc = "swap" => pending = Empty \/ pending > published
  /\ \A w \in Worker :
       /\ wpc[w] \in {"top", "test"} => w \notin waiting
       /\ wpc[w] = "wait" => w \in waiting

\* `launch_cpu_miner` and `process_block` use the cell as it may be used.
THEOREM CellCallsAreLegal == SafetySpec => []CallsAreLegal
<1>1. Init => CallsOK
  BY DEF Init, CallsOK
<1>2. IInv /\ CallsOK => CallsAreLegal
  BY DEF IInv, TypeOK, CallsOK, CallsAreLegal, Empty
<1> QED
  BY <1>1, <1>2, CallsStep, Invariance, PTL DEF SafetySpec

\* What the workers do to the cell is what the handles of a WatchSwap can do:
\* every step of solo mining is a step of WatchCell, or leaves the cell alone.
LEMMA StepUsesCell == IInv /\ [Next]_vars => [Watch!CellNext]_(Watch!cellVars)
<1> SUFFICES ASSUME IInv, [Next]_vars PROVE [Watch!CellNext]_(Watch!cellVars)
  OBVIOUS
<1> USE DEF watchVars, Watch!cellVars, IInv, TypeOK
<1>1. CASE SwapTemplate
  <2>1. Watch!PublishNone \/ (pending \in Template /\ Watch!PublishSome(pending))
    BY <1>1 DEF SwapTemplate
  <2> QED
    BY <2>1 DEF Watch!CellNext
<1>2. CASE (ListenerStep /\ ~SwapTemplate) \/ Drain
  BY <1>2 DEF ListenerStep, ResetForTemplate, ResetForUnsynced, TemplateNotification,
              RequestTemplate, Disconnect, Drain
<1>3. ASSUME NEW w \in Worker, WorkerStep(w)
      PROVE  Watch!BeginWait(w) \/ Watch!EndWait(w) \/ Watch!Poll(w) \/ UNCHANGED watchVars
  BY <1>3 DEF WorkerStep, Test, Start, WaitForWork, TakeWork, BeginTest, Find, Miss, MissAndPoll,
              BatchMiss, BatchError, Claim, DropBlock, Send, SendError
<1>4. CASE UNCHANGED vars
  BY <1>4 DEF vars
<1> QED
  BY <1>1, <1>2, <1>3, <1>4 DEF Next, Watch!CellNext

\* Solo mining keeps to the interface of WatchCell, of which WatchSwap is an
\* implementation: what is proved of either holds for the code that joins them.
THEOREM UsesTheCell == SafetySpec => Watch!CellSafety
<1>1. Init => Watch!CellInit
  BY DEF Init, Watch!CellInit, Empty, Watch!Empty
<1> QED
  BY <1>1, StepUsesCell, Invariance, PTL DEF SafetySpec, Watch!CellSafety
==============================================================================
