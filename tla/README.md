# A TLA+ verification of velkar-GPU

velkar-GPU is a miner for the Velkar network. It mines *solo*, as a gRPC client of a
`velkard` node, or in a *pool*, over a Stratum connection; on CPU threads or on one
GPU (OpenCL or CUDA); and it gives about one percent of its work to the project (the
"devfund"). This directory holds TLA+ models of its concurrent core, the TLC
configurations that check them on small instances, and proofs, checked by TLAPS, that
their main properties hold for every number of workers, jobs and slots.

Source references are to the repository, `src/` for short being its `src/` directory:
`miner.rs:200` is line 200 of `src/miner.rs`. `PROJECT.json` gives the lines that each
definition models.

## The system

| Part | State it keeps | Operations | Model |
|---|---|---|---|
| **WatchSwap** (`swap_rust.rs`): one shared cell, and a handle per thread that remembers what it saw last | atomic pointer, mutex, condition variable, cached `Arc` | `swap`, `get_changed`, `wait_for_change`, `clone` | `WatchCell`, `WatchSwap` |
| **Solo manager and workers** (`MinerManager`, `miner.rs:98-279`) | `is_synced`, `solved_state_id`, channel to the node, shutdown flag; each worker's `state` and `nonce` | `process_block`, the worker loop, `found_block` | `SoloMiner` |
| **Node client** (`client.rs`, RPC branch of `main.rs`) | request channel of 3, `block_template_ctr` | `connect`, `client_get_block_template`, `listen`, `handle_message` | `RpcClient` |
| **CPU pool manager and workers** (`StratumMinerManager`, `miner.rs:312-544`) | job slot, `last_share_submit_ms`, channel of shares | `process_job`, the worker loop, `should_submit_share`, `found_share` | `StratumMiner` |
| **GPU pool scheduler** (`GpuStratumDevfundManager`, `miner.rs:546-770`, and the GPU branch of `main.rs`) | two job slots, two channels of shares, `batch_index`, two listeners | `process_job`, the batch loop, `submit_hit`, the join of the listeners | `StratumGpu` |
| **Pool connection** (`StratumHandler`, `stratum.rs`) | difficulty, nonce mask and fixed bits, writer channel, share channel | `connect`, `listen`, `handle_line`, `send_command`, the writer task | `PoolLink`, `StratumSession` |
| **Nonces** (`set_extranonce`, `apply_extranonce`, kernels) | mask and fixed bits of a job, the worker's counter | assign, apply, count, batch | `NonceSpace` |
| **Program loop** (`main.rs:122-262`) | the connections, the shutdown flag | connect, start the GPU, listen, retry | `Supervisor`; one round in detail in `RpcClient` and `StratumGpu` |
| **Targets** (`target.rs`, `pow_match`) | none | compact bits and difficulties to 256-bit targets, comparison with a hash | `Targets` |
| **GPU backends** (`gpu.rs`, `cuda.rs`) | batch and group size, device buffers, the queue, what has been validated | `new`, `search` with its steps, `submit_hit` | `HitSearch`, `GpuSearch` |
| Kernels (`argon2_kernel.cl`, `cuda_kernel.cu`) | none of their own | what each reads and writes | in `GpuSearch`, without the hash |
| Proof of work (`pow.rs`, `pow/`), assembly | none | targets, recheck of GPU results, the hash | in `Targets` and `GpuSearch`; whether a nonce matches is a choice |
| Command line (`cli.rs`) | none | option parsing | the modes it yields are the initial states of `Supervisor` |
| Messages (`velkard_messages.rs`, `proto/`), build script | none | conversions | not modelled |

How they interact:

- A listener task (`client.rs` or `stratum.rs`) reads what the node or the pool sends and
  calls `process_block` or `process_job`, which publishes work in a `WatchSwap`.
- Worker threads clone the handle once. They wait on it when they have no work and poll it
  between nonces or batches when they have.
- What they find goes into a bounded channel, with a blocking send. A solo block goes to
  the stream of the node, a share to the listener, which hands it to the writer task
  through a second bounded channel.
- When a listener ends, its receiver is dropped: sends fail, which is how most workers end.
  The shutdown flag is looked at by CPU workers every 128 nonces and by the pool's GPU
  thread after each batch, but never by a solo GPU worker.

What is hard here: a condition variable beside an atomic pointer; several workers that find
a block at once while the template changes under them; a rate limiter of three lock-free
steps under a wall clock; difficulty and extranonce that change while shares of earlier jobs
are on their way; a batch that belongs to one of two pools while both replace their jobs;
a device that runs queued kernels in its own time over buffers that the last batch has left,
and may compute wrongly; workers that outlive the connection they were started for;
bounded channels whose reader may be behind, or gone. `PROJECT.json` lists each hazard at its
line with the properties that cover it.

## The modules and the code

**WatchCell** is what `WatchSwap<T>` promises: `Poll` and `EndWait` adopt the current value
and only when it differs, `PublishSome` and `PublishNone` replace it. A value is the address
of its allocation, so values are numbers used once, and `None` is `Empty`. The managers are
composed with this module (`Watch == INSTANCE WatchCell`).

**WatchSwap** is the code: `swap` stores the pointer (`SwapSome`, `SwapNone`), then takes
the mutex, notifies and releases it (`LockToNotify`, `NotifyAll`, `UnlockAfterNotify`);
`wait_for_change` takes the mutex, compares, and returns or sleeps (`CallWait`,
`LockToCheck`, `ReturnChanged` or `FindUnchanged`, `Sleep`), with spurious wakeups. Its own
wrappers of mutex and condition variable add nothing to the standard ones. Memory order is
not modelled: pointer and cell are one variable that is read and written in one step.

**SoloMiner** has one listener (`lpc`: ready, about to request, about to publish, down) and
workers (`wpc`). `process_block` is two steps, the reset of `solved_state_id` (and of
`is_synced`) and the `swap`, because workers run between them. `found_block` is two steps as
well, the compare-and-exchange (`Claim`, `DropBlock`) and the blocking send (`Send`,
`SendError`). `Init` launches the CPU workers or the one of `GpuWorker`, whose loop is the
GPU branch: batches (`BatchMiss`, `BatchError`), and no look at the cell or the flag. A CPU worker's `nonce` matters only modulo 128 (`tick`,
`Period`); whether it is a good one is a choice.

**PoolLink** is what one connection promises whoever is at its other end: jobs in order
(`Announce`), workers that take the latest (`Take`) and return shares of the one they have and
of no other (`Submit`), a channel that is read in order (`Receive`), and an end without return
(`Close`). It has no lines, difficulties, limiters or rounds. Four modules implement it, each
with its own part of the code in detail: `StratumSession` the handler, `StratumMiner` the CPU
threads, `StratumGpu` the thread that serves two pools, `Supervisor` all connections of a run.

**HitSearch** is what a GPU promises its callers: a batch of nonces that no earlier batch had
is searched in one step (`Begin`, `Answer`), and the hits are handed on one by one (`HandOn`).
It has no kernels, buffers, queues or backends; that the device may spoil slots remains
(`Spoil`), for it shows in the answer.

**RpcClient** has the task of `main` as a program counter over `connect` (a message, the
first request, the opening of the stream) and the two requests that follow, then `listen`.
Channel and node are queues. A request names a payee (`RequestNext`): the comparison
`ctr <= percent` of `client.rs:87`, of a 16-bit counter taken modulo 10000. `ProcessBlock` and
`WithdrawWork` are `process_block` without the workers.

**StratumMiner** is `SoloMiner`'s counterpart in a pool: shares do not end the work on a job,
and each must pass `should_submit_share`: read the clock, load the stamp, compare,
compare-and-exchange (`ReadClock`, `LoadStamp`, `TooEarly`, `Stamp`, `LoseRace`). The clock
is set to any value at any time.

**StratumGpu** is one session of the two pools: `main`'s two listeners under `tokio::join!`,
the two job slots, the GPU thread (`PollMain`, `PollDevAndPick`, `Search`, `Hit`, `Send`,
`EndBatch`) and the two channels. A share carries the pool and the job that it solves, so that
`PoolLink` can be stated of each pool (`Link(p)`) and routing be checked. The limiter is a choice of `Hit`, which submits or drops.

**StratumSession** is one connection: the pool sends lines of any content, the listener
(`lpc`) handles a line or takes a share (`select!`), and the writer task writes. A line is
what it means to `handle_line`: a difficulty with or without a target (`Garbled`), an
extranonce, a job with or without a share target of its own, something to ignore,
or something that ends the connection with an error. History variables hold what the pool
meant by each job and the difficulty in force, which decides whether the job is used at all. The worker is a stub that takes jobs and finds shares.

**GpuSearch** is `OpenClSearcher` and `CudaSearcher`. `NewOpenCl` and `NewCuda` choose the
sizes from any options on any device. The host then goes through `search` (`BeginBatch`,
`OpenClPrepare`, `CheckInitialBlocks`, `OpenClArgon`, `OpenClExport`, `OpenClRead`;
`CudaLaunch`, `CudaRead`) and queues kernels, which the device runs in order, whenever it
likes (`RunKernel`). A kernel works on one slot per item: a slot holds the job and nonce that
its content was computed from, or `Junk`, so a kernel that reads what is outdated, missing or
spoiled passes that on. `SubmitHit` and `SubmitBlock` are what the two callers do with the
hits; the share limiter of `submit_hit` is left to `StratumMiner`.

**Supervisor** is the loop of `main`, in each of its five modes: a node or pools, a GPU or
CPU threads, with or without the pool of the project. A connection is a round and a pool, and
has a receiver (`open`), a slot and a channel of its own. `Connect` starts workers and
listener, but with a GPU both pools connect first and `StartGpu` waits for the GPU
(`GpuIsReady`, `GpuIsNotReady`). `EndListen` drops the receiver of a CPU pool or of the node,
`LeaveRound` those of a GPU's pools. Workers are those of all rounds so far. Inside a round it is
coarse: a slot counts jobs, a worker finds shares when it likes, and the claim of a block, the
limiter, withdrawn work and the poll between nonces are left to the other modules. `Link(c)` is
`PoolLink` for connection c.

**NonceSpace** is `set_extranonce` with its checks, mask, shift and truncations, the
composition `(nonce & mask) | fixed` that CPU and kernels share, and the wrapping counter,
over words of `Width` bits. It runs the code's `&` and `|` (community module Bitwise).

**Targets** is `Uint256` as the code has it, limbs with the lowest first, with its shift and
its order; the two conversions, from compact bits (`NewTemplate`) and from a pool's
difficulty (`NewJob`); and `pow_match` (`Test`). A difficulty is its integral part and its
decimals, trailing zeros included; what cannot be parsed is `Garbled` in `StratumSession`.
The properties restate the targets in exact arithmetic, without limbs.

Not modelled on purpose: logging, the hash rate counter, the throttle, and the GPU branch of
`StratumMinerManager`, which `main` never takes.

Each module defines, before its actions, a few *mistakes*: variants of an action with a
plausible bug, for which `PROJECT.json` names the property that rejects each.

## What the runs check

| Run | Question | Result |
|---|---|---|
| `watch_swap` | Two writers, three handles, two published values and any number of `None`s: is a wakeup ever lost, and does the code implement `WatchCell`, including that waits return? | holds |
| `solo_miner` | Two CPU workers or one GPU worker, which may fail, period 2, channel of 1, two templates, synced and unsynced: one claim per reset, no idling without a block on its way, a bound on outdated nonces, and everyone sees new work. | holds |
| `solo_gpu_devfund` | Does a GPU worker leave a template of the project once it is replaced? | **violated** |
| `rpc_client` | Two connections, a window of 4 with a share of 1 (at most 9 requests): the channel never blocks the task, unsynced work is withdrawn, the devfee per connection. | holds |
| `stratum_miner` | Two workers, period 2, interval 1, two jobs, a clock of three values: outdated nonces, spacing of shares, everyone sees a new job. | holds |
| `stratum_gpu` | Fee period 3 over two periods, channels of 2, two jobs per pool: the fee schedule, outdated batches, are new jobs of both pools taken whatever the other pool does, and does each pool see a `PoolLink`, whatever the other one does? | holds |
| `stratum_gpu_retry` | Does the miner connect again when the user's pool disconnects? | **violated** |
| `stratum_session` | Four lines of two difficulties, an extranonce, own and common targets, two shares: shares as announced, jobs arrive, sends end. | holds |
| `nonce_space` | Every extranonce of up to 4 digits and every size up to 9, every start of a 6-bit counter, batches of 1 and 3: the nonces are the pool's, each searched once. | holds |
| `gpu_search` | All options and capacities up to 15 items: can the sizes be launched? Then two batches of up to 3 items, two spoiled slots, both backends and both callers: exact batches, CUDA stops on a mismatch, and does the pipeline implement `HitSearch`, results checked included? | holds |
| `supervisor` | Two rounds in all five modes, channels of 1, one job per connection: does every connection of every round implement `PoolLink`, are listeners served, do rounds end cleanly? | holds |
| `targets` | Compact bits of eight mantissas and every exponent up to 12, difficulties with up to two decimals, hashes at and around the targets: does the limb arithmetic agree with exact arithmetic? | holds |

### The two disagreements

- `solo_gpu_devfund`: the GPU branch (`miner.rs:237-252`) never calls `get_changed`. A GPU
  worker that has a template stays on it until it finds a block, so it also stays on one that
  pays the project, whatever the node sends. `README.md:251` promises "approximately 1% of
  work to the" project address.
- `stratum_gpu_retry`: `tokio::join!` (`main.rs:193`) waits for both listeners. When the
  user's pool closes its connection and the project's does not, the miner neither connects
  again nor ends, although `main.rs:196` says "Disconnected from stratum, retrying".

### Why the bounds are enough

- Two workers are what every race here needs (claim and claim, load and exchange, poll and
  wait); three handles in `watch_swap` let one clone and one wait while a third is woken.
- Two templates or jobs make work outdated and replaced; a withdrawn one (`None`) comes on
  top. `solo_gpu_devfund` has four so that the project's template is neither first nor last.
- A channel of one slot is full after one message, so every send meets a full channel. The
  request channel has its true size, 3.
- `Period`, `FeePeriod`, `Window` are 2, 3 and 4 in place of 128, 100 and 10000: each is large
  enough to have a first, a last and (but for 2) an inner element, and each run covers two
  periods. The proofs drop these bounds.
- `Interval` 1 with three clock values gives clocks that step forwards, backwards and stand
  still between any two of the limiter's steps, and two accepted shares.
- In `nonce_space` bytes have 2 bits and digits 1, the ratio of the code; a word has 3 bytes,
  `u32` 3 bits, so that sizes wrap, overflow, exceed the word and fill it exactly.
- In `targets` bytes have 2 bits, a limb three bytes and a number three limbs: mantissas of
  three bytes lie in one limb, across two, and partly or wholly beyond the last. Hashes are
  made of the limbs 0, 1, 31 and 63, beside the targets and the number after the share target.

- In `gpu_search` limits are 6 items per batch, 4 per work group and 4 threads per helper
  block in place of 4096, 32 and 256: batches below, at and above the block size, prime or not.
  Two batches leave old contents in every buffer; two faults hit two items, or an item twice.
- In `supervisor` the second round meets the workers of the first in each of their states,
  with shares in hand and in channels that are full, empty or closed.

Deadlock is not checked: connections end, programs stop, and bounded environments run out of
messages. That nobody waits forever is stated as liveness instead.

### Fairness

- *Threads and tasks are scheduled*: weak fairness on each step that only its thread can
  disable.
- *A mutex or a slot that is freed again and again is eventually got*: strong fairness on
  `LockToNotify`, `LockToCheck` and on sends into channels. The channels are tokio's, whose
  semaphore serves waiters in order. For the standard mutex it is an assumption about the
  system, which only the liveness part of `ImplementsCell` uses.
- *`select!` picks among ready branches at random*: strong fairness on `HandleLine` and
  `TakeShare`.
- *The loop of `main` goes on* (`BeginRound`, `LeaveRound`). That a connection comes about, or
  that a GPU starts, is not assumed.
- *A batch has finitely many hits*: strong fairness on `EndBatch`.
- *Node and pool read what is sent to them* (`NodeTakes`, `Drain`, `Write`). The code has no
  timeout on a write; without this assumption the sends may block for ever.
- Nothing is assumed of what node, pool, clock or luck do: no fairness on notifications,
  jobs, answers, ends of connections, or good nonces.

## What is proved

All theorems are about `SafetySpec`, that is, without fairness.

| Module | Theorem | Assumptions | Argument |
|---|---|---|---|
| `WatchSwapProofs` | `TypeCorrectness`, `NoWakeupIsLost` | the root handle exists, threads are distinct | `IInv` adds to the type: who holds the mutex (`MutexOK`), that only existing handles wait (`LiveOK`), and `ParkOK`: a reader that compared, and whose value has changed since, is still inside the mutex, so the writer has yet to lock it. Without `ParkOK` nothing excludes a sleep after the notification. |
| | `ImplementsCellSafely` | | The mapping is the identity but for `waiting`, the readers inside `wait_for_change`. Each step is a step of the cell or a stutter, given `IInv`. |
| `SoloMinerProofs` | `ClaimsAreExclusive`, `NoIdlingForNothing`, `StaleWorkIsBounded`, `TypeCorrectness` | any finite set of workers, any `Period`, `Capacity` and number of templates, CPU or GPU | `ClaimsOK` ties the count of claims to the slot. `SettledOK` and `ClaimedOK` carry the idling property through the whole loop: a worker *settles* on the current template only under a claim, and each claim has its block queued or in a worker's hand. `StaleOK` bounds outdated nonces by the position in the period, which makes the bound inductive. |
| | `CellCallsAreLegal`, `UsesTheCell` | | `CallsOK`: who waits in the cell is who stands in `wait_for_change`, and what is about to be published is new. So no guard of `WatchCell` holds up the code, and each step is one of the cell or leaves it alone. |
| `StratumMinerProofs` | `SharesAreSpaced`, `StaleWorkIsBounded`, `TypeCorrectness` | any workers, any `Interval`, `Period`, `Capacity`, any clock | `StampAt`: a worker before its exchange has times at least `Interval` apart. As the exchange compares with the time it loaded, the step moves the stamp by that much, an action property. |
| | `CellCallsAreLegal`, `UsesTheCell`, `ImplementsTheLink` | | As above; and a worker at its send has a job, the one its share is of. |
| `StratumGpuProofs` | `FeeIsAsPromised`, `SharesAreRouted`, `StaleBatchesAreBounded`, `TypeCorrectness` | any `FeePeriod` and `Capacity`, any number of jobs, a count over whole periods | `CountOK`: `fees * FeePeriod + index` is the number of batches once the project has a job, and at most that before. `TurnOK` says that the batch in hand is counted in the turn it was picked in, `AlignedOK` that counts begin with a period. |
| | `LinksImplement` | | `HeldOK`: the batch in hand is one of a job that the thread has, which it gets at the two polls. The channel of a pool, read as numbers of its jobs, then changes only as `PoolLink` allows; a share of the other pool would have no number. |
| `RpcClientProofs` | `FeeIsBounded`, `WorkIsWithdrawn`, `TypeCorrectness` | any `Window` that a 16-bit counter can count, any `Share` below it, any `Capacity` and number of connections and requests | `FeeOK` gives the fees exactly, as `PaidAfter(k, r)` for k whole windows and r requests of the next; the bound alone is not inductive, for it does not say where in a window the paid requests lie. `WithdrawnOK`: the work goes in the step that clears `is_synced`. |
| | `ConnectNeverWaits` | `Capacity` is 2 or more | `UnreadOK` counts what waits in the channel before the stream has a reader. The code's channel of 3 has a slot to spare. |
| `StratumSessionProofs` | `JobsAreAsAnnounced`, `HandlerCatchesUp`, `TypeCorrectness` | any extranonces, difficulties and targets, any bounds of the channels, any number of lines and shares | `UnreadOK`: the unread lines, replayed from the extranonce and difficulty that the handler holds, lead to those the pool has set, and give every unread job what the pool meant by it (`Replays`). A line that is sent extends the replay, one that is handled shortens it. `KnownOK` follows the jobs from the slot to the writer. |
| | `SharesLeaveInOrder`, `JobsNeverGoBack`, `ImplementsTheLink` | | `OrderOK`: the unread jobs are newer than the one in the slot, and job numbers do not fall along the writer's channel, the share in hand, the channel of shares and the worker. It is stronger than the order in either channel: what moves from one to the other must not be older than what is there. |
| `SupervisorProofs` | `SharesStay`, `ListenersServed`, `TypeCorrectness` | any number of rounds and jobs, any `Capacity`, all five modes | `OwnOK`: a job is its connection's in the slot, with the worker, in the hand and in the channel. `PartsOK`, `OpenOK` and `WorkerOK` say which pools of a mode take part and what has to be there before one is listened to. |
| | `LeftoversGoNowhere` | | An action property: no step opens a connection of an earlier round again, sends to it or takes from it. From `OpenOK`. |
| | `LinksImplement` | | `LinksOK`: who is about to send still has the job of its share, which needs that the one GPU thread is the only worker of both its pools (`OneWorkerEach`). The phase of a connection only goes from new to open to over (`LoopPhase`), though the pools of a GPU are opened and left together. |
| `GpuSearchProofs` | `BatchesAreExact`, `SizesCanBeLaunched`, `NothingIsBelieved`, `FirstItemIsRight`, `TypeCorrectness` | any limits of at least one item, any options and capacities, batches of any size, any number of batches and of spoiled slots, any jobs | `QueueOK`: what is queued are the last kernels of this batch, in order, so that how many have run is the length of the queue subtracted from the number launched. `PipelineOK`: an item is *sound* if every slot a later kernel will read holds this batch's sample at this stage, and no more items are unsound than slots were spoiled in this batch. Where the host reads back, all four kernels have run, and sound means right. `HitsOK`, `LostOK` and `SoloOK` carry that through the hits one by one; lost nonces are counted by an injection into the spoiled items. |
| | `SearchesImplement` | | Every step but the last of a batch is invisible. What that one reads is an answer (`FoundAnswers`): hits that stand for no nonce come from spoiled items of their own, so they are no more than those. `FreshOK`: solo mining has submitted nothing before it looks at a batch. |

The refinements fit together. `WatchSwap` implements `WatchCell`, and the solo workers and the
CPU workers of a pool use nothing of the cell but its steps, in calls that its guards never hold up;
what is proved of the workers with the cell therefore holds with the code of the cell in its place.
`Supervisor` has whole rounds in a few coarse steps; that each of its connections is a
`PoolLink`, which the detailed modules of a round implement as well, is what makes it a fair
view of them. What `SharesStay`, `SharesAreRouted` and `NothingIsBelieved` say in a line is part of
the refinements, which the runs check in their place; it is proved on its own because it is what a
reader asks first.

Lemmas that these rest on and that hold for every argument: `DivisorIs` (the loops that count
down find a divisor), `HelpersReachAll` (the blocks of a CUDA helper kernel make up the batch),
`PushedIs` (a loop that pushes gives what is wanted, in order and once) and `WindowStep` (how
quotient and remainder of a counter move on). Where a lemma needs induction, it argues from the
least counterexample (`Smallest`), which the library's theorem on well-founded relations gives.

A proof also corrected the model: `TypeCorrectness` of `GpuSearch` fails if `MaxSize` is 0, since a
CUDA device always counts as one warp; `BoundsAssumption` asks for 1 or more.

`PoolLink` is stated of `StratumMiner` and `StratumSession` in their proof modules only; of
`StratumGpu` and `Supervisor` it is checked as well.

Only model-checked: all liveness (`ImplementsCell` beyond its safety part,
`EveryoneSeesNewWork`, `EveryoneSeesNewJob`, `NewJobsAreTaken`, `SendsComplete`,
`JobsReachTheSlot`, `RoundsEndCleanly`), since the prover has no fairness and no ENABLED; `NonceSpace`, whose `&` and
`|` are those of Bitwise, recursive operators that the prover cannot use; and `Targets`, whose
properties speak of powers and of sums over limbs, that is, of what recursive definitions compute.

## What the code does that no text settles

Found while modelling. No text of the repository promises otherwise, so no property forbids it.

- `solved_state_id` is reset before the new template is published. A worker that finds a
  block of the *old* template in between claims the slot anew; the id differs from the new
  template's, but the slot is no longer `usize::MAX`, so blocks of the new one are dropped at `miner.rs:200`
  until the next template. `OneClaimPerReset` and `IdleOnlyAfterABlock` ask for a claim since the
  last reset, whichever template it was for.
- `mine_when_not_synced` is turned on whenever a GPU is enabled (`main.rs:92`); the help text
  of the option (`cli.rs:52-53`) does not mention it. `UnsyncedMeansNoWork` is about the
  other case.
- A difficulty below about 1/256 has a target of more than 256 bits, whose low 256 bits are
  kept (`target.rs:55-59`): the easiest difficulties get arbitrary targets.
  `SharesMeetTheDifficulty` leaves them out.
- A difficulty sent as a JSON string keeps its quotes, and a small float is written with an
  exponent (`stratum.rs:154`); neither converts, and the jobs that follow are dropped.
- A template request that the node answers with an error is not repeated until the next
  notification (`client.rs:112-127`).
- A connection of a pool without `set_difficulty` drops every job, even one with a share
  target of its own (`stratum.rs:177`), and so does one whose last difficulty has no target.
  `JobsReachTheSlot` says that no other job is dropped.
- While the listener waits for room in the writer's channel it reads no lines
  (`stratum.rs:119-129`).
- Dropping a manager stops no worker; one that has nothing to send lives on after a
  reconnect, beside the new ones. `Supervisor` shows that it disturbs no connection.
- The devfee counter of a node connection starts at 0 (`client.rs:71`) and the first requests
  of a window pay the project (`client.rs:87`), so a miner that reconnects often pays more
  than one percent. `FeePerConnection` is an upper bound for each connection by itself.
- `--devfund` and `--devfund-percent` are parsed (`cli.rs:34-40`) and never read: `main` uses
  its own constants.
- Under `tokio::join!` an error of one pool is noticed only when the other one has ended too
  (`main.rs:193`, `main.rs:258`). `RoundsEndCleanly` excuses the time in between.
- The channel of a pool that has ended stays open under the same join and nobody empties it. Once
  it is full, the GPU thread stops at its next share for it (`miner.rs:697`), and with it the work
  for the other pool, until that one ends too. `NewJobsAreTaken` has this state, `HeldUp`, as its
  one exception.
- A GPU of solo mining that fails to start, or whose search fails, leaves the client
  connected without a worker; nobody looks at the result of the thread (`miner.rs:212`).
  `ListenersAreServed` goes no further than the start of the GPU of the pools.
- A mismatch at the start stops the worker on CUDA (`cuda.rs:202`) but is only logged on
  OpenCL (`gpu.rs:468`). Hits are hashed anew in either case.
- Solo mining looks at the first hit of a batch only (`miner.rs:247`).
- `finalize_candidates` (`gpu.rs:347`) is never called.
- The CUDA stream is created `NON_BLOCKING`, so the copies of the default stream wait for the
  kernels only because of the call of `synchronize` (`cuda.rs:180`).
- The help text counts logical processors, the code takes physical ones (`cli.rs:50`,
  `miner.rs:90-94`).
- With one CPU thread a pool miner has no thread for the project (`main.rs:202`).
- `parse_devfund_percent` reads `1.5` as 1.05 (`cli.rs:95-117`).
- An extranonce2 of 8 bytes shifts by 64, which a debug build turns into a panic
  (`stratum.rs:284`).

## Plan

Modules are written so that one extends another only where it needs to: parameters are
constants with named assumptions, invariants are conjunctions of named parts, and no module
with proofs reaches a recursive operator.

1. Done: the watched cell and its implementation; the three worker loops; the node client;
   the pool connection; the nonce space; the targets; the GPU backends from sizing to
   submission; the program loop over several rounds, with leftover workers; proofs for the
   watched cell and the three worker loops.
2. Done: proofs for `RpcClient`, `StratumSession`, `Supervisor` and `GpuSearch`, which leaves no
   safety property of a component with more than one actor to the model checker alone.
3. Done: the abstract connection `PoolLink` and the abstract search `HitSearch`, with proofs that
   the modules of the code implement them, and that the workers keep to the interface of
   `WatchCell`.
4. Left: that `AtMost` of `Targets` is a total order of the limbs, so that `pow_match` never calls a
   hash a share that it would call a block under the same target, can be proved without computing
   powers; a node connection as abstract as `PoolLink`, with withdrawn work and one block per
   template, that `SoloMiner` and `RpcClient` both implement.

## Not modelled

- The hash functions: `pow/`, the assembly, and the arithmetic of the kernels. They are
  functions of their inputs without state, of which the rest of the program only
  uses that CPU and device agree, and whether the result meets a target.
- `cli.rs` beyond the choice of a mode, the messages and conversions of `proto/` and
  `velkard_messages.rs`, and the build script: no state, no order of steps.
- The GPU branch of `StratumMinerManager` and `finalize_candidates`, which nothing reaches.
- Memory orderings weaker than sequential consistency; logging, throttle and hash rate.
- Timeouts of the network: the code has none but the 120 seconds for the start of the GPU,
  which is a choice of `Supervisor`.
