------------------------------ MODULE GpuSearch ------------------------------
(***************************************************************************)
(* The batches of a GPU: `OpenClSearcher` (gpu.rs) and `CudaSearcher`      *)
(* (cuda.rs), the device that runs their kernels, and the use that solo    *)
(* mining and the scheduler of the pools (miner.rs) make of the hits.      *)
(*                                                                         *)
(* The host queues kernels, which the device runs in order and in its own  *)
(* time; each works on one slot of the buffers per item of the batch.  A   *)
(* slot holds a sample, <<job, nonce>>, standing for all that is derived   *)
(* from the two, or Junk.  Whether a nonce is good for its job is a choice *)
(* of the batch.  A device may be faulty and leave Junk in a slot.         *)
(***************************************************************************)
EXTENDS Naturals, Sequences, FiniteSets

CONSTANTS Job,         \* what the searcher is given: templates or jobs
          MaxItems,    \* of a batch: 4096
          MaxGroup,    \* items of an OpenCL work group: 32
          MaxBlock,    \* threads of a CUDA helper block: 256
          MaxSize,     \* bound: options and capacities, in items
          SearchItems, \* bound: items of the batches that are searched
          Batches,     \* bound: batches per searcher
          Faults       \* bound: slots that the device spoils

ASSUME JobAssumption == Job # {}
ASSUME LimitsAssumption == {MaxItems, MaxGroup, MaxBlock} \subseteq Nat \ {0}
ASSUME BoundsAssumption == MaxSize \in Nat \ {0} /\ {SearchItems, Batches, Faults} \subseteq Nat

VARIABLES
  backend,   \* `GpuBackend`
  solo,      \* the caller: solo mining, or the scheduler of the pools
  device,    \* history: what `new` found; forgotten when the search begins
  batch,     \* `batch_size`
  group,     \* `jobs_per_block`
  pc,        \* where the host is
  job,       \* `state`: what this batch is for
  nonce,     \* `nonce`: the first of this batch, or of the next
  good,      \* the nonces of this batch that meet the target
  constants, \* the job in `constants_buffer`
  queue,     \* the kernels that the device has yet to run
  inputs,    \* `job_inputs_buffer`
  memory,    \* `memory`
  out,       \* `stage4_buffer` and `nonce_out_buffer`
  validated, \* `initial_validation_done`, `full_validation_done`: those done
  hits,      \* the hits that the caller has not looked at
  handed,    \* history: the hits of this batch that it has submitted
  faults     \* history: slots spoiled, in this batch and in all

sizeVars == <<backend, solo, batch, group>>
deviceVars == <<constants, inputs, memory, out>>
vars == <<sizeVars, device, pc, job, nonce, good, queue, deviceVars, validated, hits,
          handed, faults>>

Junk == <<>>
NoDevice == [items |-> 0, warps |-> 0]
Kernel == {"prepare", "init", "argon", "export"}
Items == 1..batch
Nonces == 1..(Batches * SearchItems)
Slot == (Job \X Nonces) \union {Junk}
Hit == [nonce : {0} \union Nonces, meets : BOOLEAN] \* nonce 0: made of Junk

\* Every variable stays in its set; no batch is empty or beyond the limit.
TypeOK ==
  /\ backend \in {"OpenCl", "Cuda"} /\ solo \in BOOLEAN
  /\ device \in [items : 0..MaxSize, warps : 0..MaxSize]
  /\ pc \in {"new", "ready", "launch", "check", "argon", "export", "read", "gone"}
  /\ pc \notin {"new", "gone"} => batch \in 1..MaxItems /\ group \in 1..batch
  /\ job \in Job /\ nonce \in Nat /\ good \subseteq Nonces
  /\ constants \in Job \union {Junk}
  /\ queue \in Seq([kernel : Kernel, job : Job, first : Nonces]) /\ Len(queue) <= 4
  /\ inputs \in [Items -> Slot] /\ out \in [Items -> Slot]
  /\ memory \in [Items -> [of : Slot, filled : BOOLEAN]]
  /\ validated \subseteq {"initial", "full"}
  /\ hits \in Seq(Hit) /\ handed \in Seq(Hit)
  /\ faults \in [batch : 0..Faults, all : 0..Faults]

Init ==
  /\ backend \in {"OpenCl", "Cuda"} /\ solo \in BOOLEAN
  /\ device = NoDevice /\ batch = 0 /\ group = 0
  /\ pc = "new"
  /\ job = CHOOSE j \in Job : TRUE
  /\ nonce = 1 /\ good = {}
  /\ constants = Junk /\ inputs = <<>> /\ memory = <<>> /\ out = <<>>
  /\ queue = <<>> /\ validated = {} /\ hits = <<>> /\ handed = <<>>
  /\ faults = [batch |-> 0, all |-> 0]

Smaller(a, b) == IF a <= b THEN a ELSE b
Clamp(n, low, high) == IF n < low THEN low ELSE Smaller(n, high)
Blank == [of |-> Junk, filled |-> FALSE]

\* Item i came back as what it was sent out for; the stages agree with the CPU's.
Right(i) == out[i] = inputs[i] /\ out[i] = <<job, nonce + i - 1>>
Valid(i) == out[i] # Junk /\ out[i] = inputs[i] /\ out[i][1] = job

\* The loop over the n items that pushes what those that are wanted give
Pushed(n, wanted, gives) ==
  LET upTo[k \in 0..n] == IF k = 0 THEN <<>>
                          ELSE IF k \in wanted THEN Append(upTo[k - 1], gives[k]) ELSE upTo[k - 1]
  IN  upTo[n]

\* The items whose hash meets the target, in order; that of Junk is arbitrary.
HitsOf(luck) ==
  Pushed(batch,
         {i \in Items : IF Right(i) THEN nonce + i - 1 \in good ELSE luck[i] # "none"},
         [i \in Items |-> IF Right(i) THEN [nonce |-> nonce + i - 1, meets |-> TRUE]
                          ELSE [nonce |-> 0, meets |-> luck[i] = "good"]])

\* The loops at the end of `search`; the next batch begins at `next`.
ReadHits(next) ==
  /\ \E luck \in [{i \in Items : ~Right(i)} -> {"none", "bad", "good"}] : hits' = HitsOf(luck)
  /\ nonce' = next
  /\ validated' = validated \union {"full"}
  /\ pc' = "ready"
  /\ UNCHANGED <<sizeVars, device, job, good, queue, deviceVars, handed, faults>>

Search == ReadHits(nonce + batch)

-----------------------------------------------------------------------------
(* Mistakes that the properties at the end of the module must reject       *)

\* A batch that takes all the memory there is
UnlimitedSize(requested, capacity) ==
  LET asked == IF requested < 1 THEN 1 ELSE requested
  IN  Smaller(asked, IF capacity < 1 THEN 1 ELSE capacity)

\* No search for a divisor
AnySize(n, upTo) == upTo

\* Reading back without `synchronize`: the stream does not hold up the copies.
ReadWithoutSynchronize ==
  /\ pc = "read" /\ backend = "Cuda"
  /\ Search

\* A CUDA mismatch that is only logged, as on OpenCL
WarnOnMismatch ==
  /\ pc = "read" /\ backend = "Cuda" /\ queue = <<>>
  /\ Search

\* A counter that stands still: the next batch finds the same shares again.
SearchAgain ==
  /\ pc = "read" /\ backend = "OpenCl" /\ queue = <<>>
  /\ ReadHits(nonce)

-----------------------------------------------------------------------------
(* `new`: the sizes                                                        *)

\* As many items as were asked for, that fit in memory and within the limit
BatchSize(requested, capacity) ==
  LET asked == IF requested < 1 THEN 1 ELSE requested
  IN  Smaller(asked, Clamp(capacity, 1, MaxItems))

\* The loops that count down to a divisor
LargestDivisor(n, upTo) ==
  CHOOSE d \in 1..upTo : n % d = 0 /\ \A e \in (d + 1)..upTo : n % e # 0

\* The buffers are created; what is in them does not matter.
Create(items, perGroup, found) ==
  /\ batch' = items
  /\ group' = perGroup
  /\ device' = found
  /\ inputs' = [i \in 1..items |-> Junk]
  /\ out' = [i \in 1..items |-> Junk]
  /\ memory' = [i \in 1..items |-> Blank]
  /\ pc' = "ready"
  /\ UNCHANGED <<backend, solo, job, nonce, good, queue, constants, validated, hits, handed,
                 faults>>

\* Memory is what one allocation may hold, and half of all; warps is the largest
\* work group over 32 threads.  No option for the group counts as 1.
NewOpenCl ==
  /\ pc = "new" /\ backend = "OpenCl"
  /\ \E requested, allocation, all, warps, perGroup \in 0..MaxSize :
       LET capacity == Smaller(allocation, all \div 2)
           items == BatchSize(requested, capacity)
           largest == Smaller(Clamp(warps, 1, MaxGroup), items)
       IN  Create(items, LargestDivisor(items, Clamp(perGroup, 1, largest)),
                  [items |-> capacity, warps |-> warps])

\* CUDA has one item per block of threads.
NewCuda ==
  /\ pc = "new" /\ backend = "Cuda"
  /\ \E requested, all \in 0..MaxSize :
       Create(BatchSize(requested, all \div 2), 1, [items |-> all \div 2, warps |-> 1])

-----------------------------------------------------------------------------
(* The device                                                              *)

\* The helper kernels of CUDA have a grid of blocks; they are not told the size
\* of the batch.
HelperBlock == LargestDivisor(batch, Smaller(batch, MaxBlock))
HelperThreads == (batch \div HelperBlock) * HelperBlock

\* The items that a launch of the kernel reaches
Reached(kernel) ==
  IF backend = "Cuda" /\ kernel # "argon" THEN 1..HelperThreads ELSE Items

\* `velkar_prepare_jobs`: constants are read when it runs, arguments when queued
Prepared(command, i) ==
  IF constants = command.job THEN <<command.job, command.first + i - 1>> ELSE Junk

\* `velkar_init_first_blocks`
FirstBlocks(i) == [of |-> inputs[i], filled |-> FALSE]

\* `argon2_kernel_oneshot_precompute` continues from the first two blocks.
FilledMemory(i) ==
  IF memory[i].filled THEN [of |-> Junk, filled |-> TRUE]
  ELSE [of |-> memory[i].of, filled |-> TRUE]

\* `velkar_export_stage4`: of the last block, with the nonce of the input
Exported(i) ==
  IF memory[i] = [of |-> inputs[i], filled |-> TRUE] THEN inputs[i] ELSE Junk

\* The buffer after a kernel has worked on the items it reaches, and spoiled some
Worked(buffer, kernel, result, spoiled, spoil) ==
  [i \in Items |-> IF i \in spoiled THEN spoil
                   ELSE IF i \in Reached(kernel) THEN result[i] ELSE buffer[i]]

\* The device runs the next kernel.
RunKernel ==
  LET command == Head(queue)
      prepared == [i \in Items |-> Prepared(command, i)]
  IN  /\ queue # <<>> /\ pc # "gone"
      /\ queue' = Tail(queue)
      /\ \E spoiled \in {{}} \union {{i} : i \in Items} :
           /\ faults.all + Cardinality(spoiled) <= Faults
           /\ faults' = [batch |-> faults.batch + Cardinality(spoiled),
                         all |-> faults.all + Cardinality(spoiled)]
           /\ \/ /\ command.kernel = "prepare"
                 /\ inputs' = Worked(inputs, "prepare", prepared, spoiled, Junk)
                 /\ UNCHANGED <<memory, out>>
              \/ /\ command.kernel = "init"
                 /\ memory' = Worked(memory, "init", [i \in Items |-> FirstBlocks(i)], spoiled, Blank)
                 /\ UNCHANGED <<inputs, out>>
              \/ /\ command.kernel = "argon"
                 /\ memory' = Worked(memory, "argon", [i \in Items |-> FilledMemory(i)], spoiled, Blank)
                 /\ UNCHANGED <<inputs, out>>
              \/ /\ command.kernel = "export"
                 /\ out' = Worked(out, "export", [i \in Items |-> Exported(i)], spoiled, Junk)
                 /\ UNCHANGED <<inputs, memory>>
      /\ UNCHANGED <<sizeVars, device, pc, job, nonce, good, constants, validated, hits, handed>>

-----------------------------------------------------------------------------
(* `search`                                                                *)

Queue(kernels) ==
  queue' = queue \o [k \in DOMAIN kernels |->
                       [kernel |-> kernels[k], job |-> job, first |-> nonce]]

\* The caller has dealt with all hits and begins a batch: constants are uploaded,
\* with a blocking write or copy.
BeginBatch ==
  /\ pc = "ready" /\ hits = <<>>
  /\ batch <= SearchItems /\ nonce <= (Batches - 1) * batch + 1
  /\ job' \in Job
  /\ good' \in SUBSET (nonce..(nonce + batch - 1))
  /\ constants' = job'
  /\ handed' = <<>>
  /\ faults' = [faults EXCEPT !.batch = 0]
  /\ device' = NoDevice
  /\ pc' = "launch"
  /\ UNCHANGED <<sizeVars, nonce, queue, inputs, memory, out, validated, hits>>

Launch(next, kernels) ==
  /\ Queue(kernels)
  /\ pc' = next
  /\ UNCHANGED <<sizeVars, device, job, nonce, good, deviceVars, validated, hits, handed, faults>>

\* `prepare_jobs`, `run_init_kernel`: the host does not wait for them.
OpenClPrepare == pc = "launch" /\ backend = "OpenCl" /\ Launch("check", <<"prepare", "init">>)

\* `validate_initial_blocks_once` reads two buffers back, the first time, and
\* logs what it finds.
CheckInitialBlocks ==
  /\ pc = "check"
  /\ "initial" \in validated \/ queue = <<>>
  /\ validated' = validated \union {"initial"}
  /\ pc' = "argon"
  /\ UNCHANGED <<sizeVars, device, job, nonce, good, queue, deviceVars, hits, handed, faults>>

OpenClArgon == pc = "argon" /\ Launch("export", <<"argon">>)

\* After `finish`
OpenClExport == pc = "export" /\ queue = <<>> /\ Launch("read", <<"export">>)

CudaLaunch ==
  pc = "launch" /\ backend = "Cuda" /\ Launch("read", <<"prepare", "init", "argon", "export">>)

\* `finish`, blocking reads, the first time a comparison of the first item with
\* the CPU, which is only logged, and the final stage of each item on the host.
OpenClRead ==
  /\ pc = "read" /\ backend = "OpenCl" /\ queue = <<>>
  /\ Search

\* The same after `synchronize`, but a first item that is wrong is an error.
CudaRead ==
  /\ pc = "read" /\ backend = "Cuda" /\ queue = <<>>
  /\ "full" \in validated \/ Valid(1)
  /\ Search

\* Any call of the driver may fail, so may the startup validation, and in the
\* caller the send of a share: the worker ends.
Fail ==
  /\ pc \notin {"ready", "gone"} \/ (pc = "ready" /\ hits # <<>>)
  /\ pc' = "gone"
  /\ UNCHANGED <<sizeVars, device, job, nonce, good, queue, deviceVars, validated, hits, handed,
                 faults>>

-----------------------------------------------------------------------------
(* The caller                                                              *)

\* `submit_hit`: the CPU computes the hash anew; what remains meets the limiter
\* (module StratumMiner) and is sent.
SubmitHit ==
  /\ pc = "ready" /\ ~solo /\ hits # <<>>
  /\ handed' = IF Head(hits).meets THEN Append(handed, Head(hits)) ELSE handed
  /\ hits' = Tail(hits)
  /\ UNCHANGED <<sizeVars, device, pc, job, nonce, good, queue, deviceVars, validated, faults>>

\* `launch_cpu_miner` looks at the first hit only, with `generate_block_if_pow`.
SubmitBlock ==
  /\ pc = "ready" /\ solo /\ hits # <<>>
  /\ handed' = IF Head(hits).meets THEN <<Head(hits)>> ELSE handed
  /\ hits' = <<>>
  /\ UNCHANGED <<sizeVars, device, pc, job, nonce, good, queue, deviceVars, validated, faults>>

-----------------------------------------------------------------------------

Next ==
  \/ NewOpenCl \/ NewCuda \/ RunKernel \/ BeginBatch
  \/ OpenClPrepare \/ CheckInitialBlocks \/ OpenClArgon \/ OpenClExport \/ CudaLaunch
  \/ OpenClRead \/ CudaRead \/ Fail \/ SubmitHit \/ SubmitBlock

SafetySpec == Init /\ [][Next]_vars

-----------------------------------------------------------------------------
(* Properties                                                              *)

HandedNonces == {handed[k].nonce : k \in DOMAIN handed} \ {0}
BatchDone == pc = "ready" /\ hits = <<>>

\* A batch finds what there is to find: each spoiled slot costs the pool one
\* share at most, none is found twice, and a healthy device finds all; what an
\* earlier batch, or its faults, left in the buffers does not matter.  Solo
\* mining is sure of the first block of a batch on a healthy device only.
BatchIsExact ==
  BatchDone =>
    /\ HandedNonces \subseteq good
    /\ \A k, l \in DOMAIN handed : handed[k].nonce = handed[l].nonce /\ k # l => handed[k].nonce = 0
    /\ ~solo => Cardinality(good \ HandedNonces) <= faults.batch
    /\ solo /\ faults.batch = 0 /\ good # {} =>
         handed # <<>> /\ \A n \in good : handed[1].nonce <= n

\* "GPU results are checked against the CPU consensus implementation before a
\* share is submitted" (MINING-GUIDE.md): whatever the device does, what is
\* submitted meets the target.
ResultsAreChecked == \A k \in DOMAIN handed : handed[k].meets

\* "Mining stops if that validation does not match" (CUDA-README.md): a CUDA
\* searcher that has come through its first batch has got its first item right.
CudaStopsOnMismatch ==
  backend = "Cuda" /\ pc = "ready" /\ nonce = 1 + batch => out[1] = <<job, 1>> /\ inputs[1] = out[1]

\* The sizes that `new` finds can be launched: work groups divide the batch and
\* fit the device, the helper blocks make up the batch exactly ("never launches
\* an out-of-bounds helper thread", cuda.rs), and more than one item is taken
\* only when all fit in the memory found.
LaunchesAreLegal ==
  pc = "ready" /\ nonce = 1 =>
    /\ batch % group = 0 /\ (group = 1 \/ group <= device.warps) /\ group <= MaxGroup
    /\ HelperThreads = batch /\ HelperBlock <= MaxBlock
    /\ batch = 1 \/ batch <= device.items

\* The pipeline of kernels and both its callers implement HitSearch: however the
\* device and the host interleave and whatever is left in the buffers, a batch is as
\* good as searched in one step, and no nonce is searched in two batches.
Phase ==
  CASE pc \in {"new", "ready"} -> "idle" [] pc = "gone" -> "gone" [] OTHER -> "busy"

Searcher == INSTANCE HitSearch WITH phase <- Phase, spoiled <- faults.batch

ImplementsSearch == Searcher!SearchSafety
=============================================================================
