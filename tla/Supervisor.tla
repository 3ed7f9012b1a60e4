----------------------------- MODULE Supervisor -----------------------------
(***************************************************************************)
(* The program loop of `main` (main.rs): it connects, mines until the      *)
(* connections have ended, and connects anew, with one connection to a     *)
(* node, one or two pools of CPU threads under `tokio::join!`, or two pools *)
(* that one GPU thread serves.  Dropping a manager stops none of its        *)
(* threads, so those of earlier rounds live on beside the new ones.        *)
(*                                                                         *)
(* A connection is <<round, pool>>; the node counts as a pool.  One worker *)
(* stands for the threads of a connection.  What happens inside a round is *)
(* coarse here: SoloMiner, StratumMiner, StratumGpu and StratumSession     *)
(* have it in detail.                                                      *)
(***************************************************************************)
EXTENDS Naturals, Sequences

CONSTANTS Capacity,  \* of a connection's channel of shares or blocks
          MaxRounds, \* bound: times that the program connects
          MaxJobs    \* bound: jobs of a connection

ASSUME CapacityAssumption == Capacity \in Nat \ {0}
ASSUME BoundsAssumption == MaxRounds \in Nat /\ MaxJobs \in Nat

VARIABLES
  network, \* `connection_mode`: a node or pools
  gpu,     \* there is a `GpuConfig`
  fee,     \* the project's pool is connected as well
  program, \* where the loop is: its top, in a round, or ended
  round,   \* how many rounds have begun
  at,      \* per pool, where its part of the round is
  open,    \* the connections whose receiver has not been dropped
  slot,    \* per connection, the job that has been published last
  channel, \* per connection, the shares that its listener has not taken
  wpc,     \* where each worker is; a GPU thread is the worker of "main"
  seen,    \* per connection, the job that its worker has
  hand     \* per worker, the share that it submits and where

optionVars == <<network, gpu, fee>>
loopVars == <<program, round, at, open>>
workerVars == <<wpc, seen, hand>>
vars == <<optionVars, loopVars, slot, channel, workerVars>>

Pool == {"main", "fee"}
Used == IF fee THEN Pool ELSE {"main"}
Conn == (1..MaxRounds) \X Pool
NoJob == <<>>
Job == Conn \X (1..MaxJobs)

\* One GPU thread serves both pools.
Shared == network = "pool" /\ gpu
Serves(w) == IF Shared THEN {<<w[1], p>> : p \in Pool} ELSE {w}
Over == {"ok", "error"}
Nothing(w) == [to |-> w, job |-> NoJob]

\* Every variable stays in its set; channels keep their bound over all rounds.
TypeOK ==
  /\ network \in {"node", "pool"} /\ gpu \in BOOLEAN /\ fee \in BOOLEAN
  /\ program \in {"top", "run", "startup", "ended"}
  /\ round \in 0..MaxRounds
  /\ at \in [Pool -> {"off", "connecting", "connected", "listening"} \union Over]
  /\ open \subseteq Conn
  /\ slot \in [Conn -> Job \union {NoJob}]
  /\ channel \in [Conn -> Seq(Job)] /\ \A c \in Conn : Len(channel[c]) <= Capacity
  /\ wpc \in [Conn -> {"none", "start", "wait", "mine", "send", "gone"}]
  /\ seen \in [Conn -> Job \union {NoJob}]
  /\ hand \in [Conn -> [to : Conn, job : Job \union {NoJob}]]

\* `Opt::process` has chosen the mode.  The node takes blocks of both payees; with
\* a single thread the pool of the project is left out.
Init ==
  /\ network \in {"node", "pool"} /\ gpu \in BOOLEAN
  /\ fee \in (IF network = "node" THEN {FALSE} ELSE IF gpu THEN {TRUE} ELSE BOOLEAN)
  /\ program = "top" /\ round = 0 /\ open = {}
  /\ at = [p \in Pool |-> "off"]
  /\ slot = [c \in Conn |-> NoJob]
  /\ channel = [c \in Conn |-> <<>>]
  /\ wpc = [c \in Conn |-> "none"]
  /\ seen = [c \in Conn |-> NoJob]
  /\ hand = [c \in Conn |-> Nothing(c)]

-----------------------------------------------------------------------------
(* Mistakes that the properties at the end of the module must reject       *)

\* A slot that outlives its connection
ConnectKeepingSlot(p) ==
  /\ program = "run" /\ at[p] = "connecting"
  /\ Shared /\ p = "fee" => at["main"] = "connected"
  /\ at' = [at EXCEPT ![p] = IF Shared THEN "connected" ELSE "listening"]
  /\ open' = open \union {<<round, p>>}
  /\ slot' = [slot EXCEPT ![<<round, p>>] = IF round > 1 THEN slot[<<round - 1, p>>] ELSE NoJob]
  /\ wpc' = IF Shared THEN wpc ELSE [wpc EXCEPT ![<<round, p>>] = IF gpu THEN "start" ELSE "wait"]
  /\ UNCHANGED <<optionVars, program, round, channel, seen, hand>>

\* `select!` in place of `join!`
LeaveWhenOneIsOver ==
  /\ program = "run" /\ \E p \in Used : at[p] \in Over
  /\ program' = IF \E p \in Used : at[p] = "error" THEN "ended" ELSE "top"
  /\ open' = IF Shared THEN {} ELSE open
  /\ UNCHANGED <<optionVars, round, at, slot, channel, workerVars>>

\* A receiver that is kept when its listener has ended
EndListenKeepingReceiver(p, how) ==
  /\ program = "run" /\ at[p] = "listening"
  /\ at' = [at EXCEPT ![p] = how]
  /\ UNCHANGED <<optionVars, program, round, open, slot, channel, workerVars>>

\* A channel without a bound
SendAnyway(w) ==
  /\ program # "ended" /\ wpc[w] = "send"
  /\ hand[w].to \in open
  /\ channel' = [channel EXCEPT ![hand[w].to] = Append(@, hand[w].job)]
  /\ hand' = [hand EXCEPT ![w] = Nothing(w)]
  /\ wpc' = [wpc EXCEPT ![w] = IF network = "node" THEN "wait" ELSE "mine"]
  /\ UNCHANGED <<optionVars, loopVars, slot, seen>>

-----------------------------------------------------------------------------
(* The loop of `main`                                                      *)

BeginRound ==
  /\ program = "top" /\ round < MaxRounds
  /\ round' = round + 1
  /\ at' = [p \in Pool |-> IF p \in Used THEN "connecting" ELSE "off"]
  /\ program' = "run"
  /\ UNCHANGED <<optionVars, open, slot, channel, workerVars>>

\* A connection brings a channel and a slot of its own, and at once its workers and
\* its listener; but two pools of a GPU are connected one after the other.
Connect(p) ==
  /\ program = "run" /\ at[p] = "connecting"
  /\ Shared /\ p = "fee" => at["main"] = "connected"
  /\ at' = [at EXCEPT ![p] = IF Shared THEN "connected" ELSE "listening"]
  /\ open' = open \union {<<round, p>>}
  /\ wpc' = IF Shared THEN wpc ELSE [wpc EXCEPT ![<<round, p>>] = IF gpu THEN "start" ELSE "wait"]
  /\ UNCHANGED <<optionVars, program, round, slot, channel, seen, hand>>

\* Under `join!` an error waits for the other pool; elsewhere it ends the program.
ConnectFails(p) ==
  /\ program = "run" /\ at[p] = "connecting"
  /\ Shared /\ p = "fee" => at["main"] = "connected"
  /\ at' = [at EXCEPT ![p] = "error"]
  /\ program' = IF fee /\ ~Shared THEN "run" ELSE "ended"
  /\ UNCHANGED <<optionVars, round, open, slot, channel, workerVars>>

\* `GpuStratumDevfundManager::new` starts the thread and waits for its message ...
StartGpu ==
  /\ program = "run" /\ \A p \in Pool : at[p] = "connected"
  /\ wpc' = [wpc EXCEPT ![<<round, "main">>] = "start"]
  /\ program' = "startup"
  /\ UNCHANGED <<optionVars, round, at, open, slot, channel, seen, hand>>

\* ... which is good; then both listeners begin.
GpuIsReady ==
  /\ program = "startup" /\ wpc[<<round, "main">>] = "wait"
  /\ program' = "run"
  /\ at' = [p \in Pool |-> "listening"]
  /\ UNCHANGED <<optionVars, round, open, slot, channel, workerVars>>

\* It is an error, or does not come within 120 seconds.
GpuIsNotReady ==
  /\ program = "startup" /\ wpc[<<round, "main">>] \in {"start", "gone"}
  /\ program' = "ended"
  /\ UNCHANGED <<optionVars, round, at, open, slot, channel, workerVars>>

\* A listener ends.  Its receiver goes with it, but those of a GPU's pools belong
\* to the round.
EndListen(p, how) ==
  /\ program = "run" /\ at[p] = "listening"
  /\ at' = [at EXCEPT ![p] = how]
  /\ open' = IF Shared THEN open ELSE open \ {<<round, p>>}
  /\ UNCHANGED <<optionVars, program, round, slot, channel, workerVars>>

\* The round is over: retry, or end with the error.
LeaveRound ==
  /\ program = "run" /\ \A p \in Used : at[p] \in Over
  /\ program' = IF \E p \in Used : at[p] = "error" THEN "ended" ELSE "top"
  /\ open' = IF Shared THEN {} ELSE open
  /\ UNCHANGED <<optionVars, round, at, slot, channel, workerVars>>

-----------------------------------------------------------------------------
(* A listener                                                              *)

JobNumber(c) == IF slot[c] = NoJob THEN 0 ELSE slot[c][2]

\* `process_job`, `process_block`
ProcessJob(p) ==
  LET c == <<round, p>>
  IN  /\ program = "run" /\ at[p] = "listening"
      /\ JobNumber(c) < MaxJobs
      /\ slot' = [slot EXCEPT ![c] = <<c, JobNumber(c) + 1>>]
      /\ UNCHANGED <<optionVars, loopVars, channel, workerVars>>

\* A share, or a block, goes to the pool or node.
TakeShare(p) ==
  LET c == <<round, p>>
  IN  /\ program = "run" /\ at[p] = "listening"
      /\ channel[c] # <<>>
      /\ channel' = [channel EXCEPT ![c] = Tail(@)]
      /\ UNCHANGED <<optionVars, loopVars, slot, workerVars>>

-----------------------------------------------------------------------------
(* A worker, of this round or an earlier one; they stop with the program   *)

Move(w, to) == program # "ended" /\ wpc' = [wpc EXCEPT ![w] = to]

\* `GpuSearcher::new`; nobody waits for that of a solo miner.
GpuStarts(w, to) ==
  /\ wpc[w] = "start"
  /\ Move(w, to)
  /\ UNCHANGED <<optionVars, loopVars, slot, channel, seen, hand>>

\* `wait_for_change`, `get_changed`; a solo GPU worker does not poll, and a GPU
\* thread looks at the project's jobs only while it has one of the user's.
TakeJob(w, c) ==
  /\ wpc[w] = "mine" \/ (wpc[w] = "wait" /\ c = w)
  /\ c \in Serves(w)
  /\ network = "node" /\ gpu => wpc[w] = "wait"
  /\ slot[c] # seen[c]
  /\ seen' = [seen EXCEPT ![c] = slot[c]]
  /\ Move(w, "mine")
  /\ UNCHANGED <<optionVars, loopVars, slot, channel, hand>>

Find(w, c) ==
  /\ wpc[w] = "mine" /\ c \in Serves(w) /\ seen[c] # NoJob
  /\ hand' = [hand EXCEPT ![w] = [to |-> c, job |-> seen[c]]]
  /\ Move(w, "send")
  /\ UNCHANGED <<optionVars, loopVars, slot, channel, seen>>

\* A search fails.
SearchFails(w) ==
  /\ gpu /\ wpc[w] = "mine"
  /\ Move(w, "gone")
  /\ UNCHANGED <<optionVars, loopVars, slot, channel, seen, hand>>

\* `blocking_send`; a block ends the work on its template.
Send(w) ==
  /\ wpc[w] = "send"
  /\ hand[w].to \in open /\ Len(channel[hand[w].to]) < Capacity
  /\ channel' = [channel EXCEPT ![hand[w].to] = Append(@, hand[w].job)]
  /\ hand' = [hand EXCEPT ![w] = Nothing(w)]
  /\ Move(w, IF network = "node" THEN "wait" ELSE "mine")
  /\ UNCHANGED <<optionVars, loopVars, slot, seen>>

SendError(w) ==
  /\ wpc[w] = "send" /\ hand[w].to \notin open
  /\ hand' = [hand EXCEPT ![w] = Nothing(w)]
  /\ Move(w, "gone")
  /\ UNCHANGED <<optionVars, loopVars, slot, channel, seen>>

-----------------------------------------------------------------------------

LoopStep ==
  \/ BeginRound \/ StartGpu \/ GpuIsReady \/ GpuIsNotReady \/ LeaveRound
  \/ \E p \in Pool : Connect(p) \/ ConnectFails(p) \/ \E how \in Over : EndListen(p, how)

ListenerStep(p) == ProcessJob(p) \/ TakeShare(p)

WorkerStep(w) ==
  \/ \E to \in (IF gpu THEN {"wait", "gone"} ELSE {}) : GpuStarts(w, to)
  \/ \E c \in Conn : TakeJob(w, c) \/ Find(w, c)
  \/ SearchFails(w) \/ Send(w) \/ SendError(w)

Next == LoopStep \/ (\E p \in Pool : ListenerStep(p)) \/ (\E w \in Conn : WorkerStep(w))

\* The loop goes on, listeners take what is sent, threads run.  Nothing is assumed
\* of connections: they need neither come about, nor bring jobs, nor end.
Fairness ==
  /\ WF_vars(BeginRound) /\ WF_vars(LeaveRound)
  /\ \A p \in Pool : WF_vars(TakeShare(p))
  /\ \A w \in Conn : SF_vars(Send(w)) /\ WF_vars(SendError(w))

SafetySpec == Init /\ [][Next]_vars

Spec == SafetySpec /\ Fairness

-----------------------------------------------------------------------------
(* Properties                                                              *)

\* Whatever workers earlier rounds have left behind, a connection is only sent
\* shares of jobs that came over this very connection.
SharesStayOnTheirConnection ==
  \A c \in Conn : \A k \in DOMAIN channel[c] : channel[c][k][1] = c

\* How a connection sees it: its jobs and shares are numbers, those of others 0.
Phase(c) ==
  CASE c \in open -> "open"
    [] c \notin open /\ (c[1] < round \/ (c[1] = round /\ at[c[2]] \in Over)) -> "over"
    [] OTHER -> "new"

Number(job, c) == IF job # NoJob /\ job[1] = c THEN job[2] ELSE 0

Link(c) == INSTANCE PoolLink WITH
  Worker <- {"worker"}, phase <- Phase(c), job <- Number(slot[c], c),
  work <- [w \in {"worker"} |-> Number(seen[c], c)],
  channel <- [k \in DOMAIN channel[c] |-> Number(channel[c][k], c)]

\* Each connection of each round implements PoolLink, whatever the program and the
\* workers of earlier rounds do meanwhile: none is opened twice, brings a job or
\* takes a share when it is over, or gets a share of a job that is not its own.
ImplementsLinks ==
  /\ \A c \in Conn : Link(c)!LinkInit
  /\ [][\A c \in Conn : [Link(c)!LinkNext]_(Link(c)!linkVars)]_vars

\* Receivers are open in the present round only, so a pool has one connection at
\* a time and shares of leftover workers go nowhere; and who listens has a
\* worker, which for the pools of a GPU means that the GPU has started.
ListenersAreServed ==
  /\ \A c \in open : c[1] = round /\ program # "top"
  /\ \A p \in Pool : program = "run" /\ at[p] = "listening" =>
       /\ <<round, p>> \in open
       /\ wpc[<<round, IF Shared THEN "main" ELSE p>>] \notin
            (IF Shared THEN {"none", "start"} ELSE {"none"})

\* The listener of a GPU's pool has ended and the other one has not, so that
\* nobody empties this channel.
Unread(c) == Shared /\ c[1] = round /\ at[c[2]] \in Over

\* Nobody hangs when connections end: every send ends, also those of workers left
\* behind, which are told so; and when all connections of a round are over, the
\* program connects again ("Disconnected from stratum, retrying") or, after an
\* error, ends.
RoundsEndCleanly ==
  /\ \A w \in Conn : wpc[w] = "send" ~> (wpc[w] # "send" \/ program = "ended" \/ Unread(hand[w].to))
  /\ \A r \in 1..(MaxRounds - 1) :
       (round = r /\ program = "run" /\ \A p \in Used : at[p] = "ok") ~> round = r + 1
  /\ (program = "run" /\ (\A p \in Used : at[p] \in Over) /\ \E p \in Used : at[p] = "error")
       ~> program = "ended"
=============================================================================
