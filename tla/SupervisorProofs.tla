--------------------------- MODULE SupervisorProofs ---------------------------
(***************************************************************************)
(* Proofs about the program loop, for any capacity of the channels, any    *)
(* number of rounds with whatever workers they leave behind, and any       *)
(* number of jobs, in every mode the command line can choose.              *)
(***************************************************************************)
EXTENDS Supervisor, Integers, TLAPS

\* A round that is under way has a number, and who sends has something to send.
BaseOK ==
  /\ TypeOK
  /\ program \in {"run", "startup"} => round \in 1..MaxRounds
  /\ \A w \in Conn : wpc[w] = "send" => hand[w].job \in Job

\* A job stays with the connection that brought it: in its slot, with its worker,
\* in the hand of whoever submits, in its channel.
Own(job, c) == job \in Job => job[1] = c

OwnOK ==
  /\ \A c \in Conn : Own(slot[c], c) /\ Own(seen[c], c) /\ Own(hand[c].job, hand[c].to)
  /\ SharesStayOnTheirConnection

\* Only the pools in use take part in a round, and only those of one GPU thread
\* are connected before they listen.
PartsOK ==
  /\ \A p \in Pool : p \notin Used => at[p] = "off"
  /\ \A p \in Pool : at[p] = "connected" => Shared
  /\ program = "startup" => \A p \in Pool : at[p] = "connected"

\* Receivers belong to the round, and those of a listener to that listener.
OpenOK ==
  /\ \A c \in open : c[1] = round /\ program # "top"
  /\ \A c \in open : program = "run" /\ ~Shared => at[c[2]] = "listening"
  /\ \A p \in Pool : program \in {"run", "startup"} /\ at[p] \in {"connected", "listening"} =>
       <<round, p>> \in open

\* Who listens has a worker.
WorkerOK ==
  \A p \in Pool : program = "run" /\ at[p] = "listening" =>
    wpc[<<round, IF Shared THEN "main" ELSE p>>] \notin
      (IF Shared THEN {"none", "start"} ELSE {"none"})

IInv == BaseOK /\ OwnOK /\ PartsOK /\ OpenOK /\ WorkerOK

-----------------------------------------------------------------------------
(* Lemmas                                                                  *)

\* The options are chosen once, by `Opt::process`.
LEMMA OptionsStay == [Next]_vars => UNCHANGED optionVars
<1> SUFFICES ASSUME [Next]_vars PROVE UNCHANGED optionVars
  OBVIOUS
<1>1. CASE LoopStep
  BY <1>1 DEF LoopStep, BeginRound, StartGpu, GpuIsReady, GpuIsNotReady, LeaveRound, Connect,
              ConnectFails, EndListen
<1>2. CASE \E p \in Pool : ListenerStep(p)
  BY <1>2 DEF ListenerStep, ProcessJob, TakeShare
<1>3. CASE \E w \in Conn : WorkerStep(w)
  BY <1>3 DEF WorkerStep, GpuStarts, TakeJob, Find, SearchFails, Send, SendError
<1>4. CASE UNCHANGED vars
  BY <1>4 DEF vars
<1> QED
  BY <1>1, <1>2, <1>3, <1>4 DEF Next

\* A connection is a round and a pool.
LEMMA Connections ==
  /\ \A r \in 1..MaxRounds, p \in Pool : <<r, p>> \in Conn
  /\ \A c \in Conn : c[1] \in 1..MaxRounds /\ c[2] \in Pool /\ c = <<c[1], c[2]>>
BY DEF Conn

\* A job is a connection and a number.
LEMMA Jobs ==
  /\ \A c \in Conn, n \in 1..MaxJobs : <<c, n>> \in Job /\ <<c, n>>[1] = c
  /\ \A job \in Job : job[1] \in Conn /\ job[2] \in 1..MaxJobs
BY DEF Job

\* What a step of a worker does to where the workers are: it moves one of them,
\* never back to its start, and to the sending of something only by `Find`.
LEMMA WorkerMoves ==
  ASSUME BaseOK, NEW w \in Conn, WorkerStep(w)
  PROVE  \E to \in {"wait", "mine", "send", "gone"} :
           /\ wpc' = [wpc EXCEPT ![w] = to] /\ program # "ended"
           /\ to = "send" => \E c \in Conn : Find(w, c)
           /\ UNCHANGED <<loopVars, slot>>
BY DEF WorkerStep, GpuStarts, TakeJob, Find, SearchFails, Send, SendError, Move

-----------------------------------------------------------------------------
(* Types                                                                   *)

\* The program starts with no round, no connection and no worker.
LEMMA InitIInv == Init => IInv
<1> SUFFICES ASSUME Init PROVE IInv
  OBVIOUS
<1>1. network \in {"node", "pool"} /\ gpu \in BOOLEAN /\ fee \in BOOLEAN
  BY DEF Init
<1>2. /\ program = "top" /\ round = 0 /\ open = {}
      /\ at = [p \in Pool |-> "off"]
      /\ slot = [c \in Conn |-> NoJob]
      /\ channel = [c \in Conn |-> <<>>]
      /\ wpc = [c \in Conn |-> "none"]
      /\ seen = [c \in Conn |-> NoJob]
      /\ hand = [c \in Conn |-> Nothing(c)]
  BY DEF Init
<1>3. TypeOK
  <2>1. round \in 0..MaxRounds /\ open \subseteq Conn /\ program \in {"top", "run", "startup", "ended"}
    BY <1>2, BoundsAssumption
  <2>2. <<>> \in Seq(Job) /\ Len(<<>>) <= Capacity
    BY CapacityAssumption
  <2>3. channel \in [Conn -> Seq(Job)] /\ \A c \in Conn : Len(channel[c]) <= Capacity
    BY <1>2, <2>2
  <2>4. hand \in [Conn -> [to : Conn, job : Job \union {NoJob}]]
    BY <1>2 DEF Nothing
  <2>5. /\ at \in [Pool -> {"off", "connecting", "connected", "listening"} \union Over]
        /\ slot \in [Conn -> Job \union {NoJob}] /\ seen \in [Conn -> Job \union {NoJob}]
        /\ wpc \in [Conn -> {"none", "start", "wait", "mine", "send", "gone"}]
    BY <1>2
  <2> QED
    BY <1>1, <2>1, <2>3, <2>4, <2>5, Zenon DEF TypeOK
<1>4. NoJob \notin Job
  BY DEF NoJob, Job
<1>5. BaseOK
  BY <1>2, <1>3 DEF BaseOK
<1>6. OwnOK
  <2>1. \A c \in Conn : DOMAIN channel[c] = {}
    BY <1>2
  <2> QED
    BY <1>2, <1>4, <2>1 DEF OwnOK, Own, SharesStayOnTheirConnection, Nothing
<1>7. PartsOK /\ OpenOK /\ WorkerOK
  BY <1>2 DEF PartsOK, OpenOK, WorkerOK
<1> QED
  BY <1>5, <1>6, <1>7 DEF IInv

\* The program loop keeps the types; workers do not begin to send by it.
LEMMA LoopBase ==
  ASSUME BaseOK, LoopStep, UNCHANGED optionVars
  PROVE  BaseOK'
<1> USE Connections DEF Over
<1>1. UNCHANGED <<slot, channel, seen, hand>>
  BY DEF LoopStep, BeginRound, StartGpu, GpuIsReady, GpuIsNotReady, LeaveRound, Connect,
         ConnectFails, EndListen, workerVars
<1>2. /\ program' \in {"top", "run", "startup", "ended"} /\ round' \in 0..MaxRounds
      /\ program' \in {"run", "startup"} => round' \in 1..MaxRounds
  <2>1. CASE BeginRound
    BY <2>1, BoundsAssumption DEF BeginRound, BaseOK, TypeOK
  <2>2. CASE StartGpu \/ GpuIsReady \/ GpuIsNotReady \/ LeaveRound
    BY <2>2 DEF StartGpu, GpuIsReady, GpuIsNotReady, LeaveRound, BaseOK, TypeOK
  <2>3. CASE \E p \in Pool : Connect(p) \/ ConnectFails(p) \/ \E how \in Over : EndListen(p, how)
    BY <2>3 DEF Connect, ConnectFails, EndListen, BaseOK, TypeOK
  <2> QED
    BY <2>1, <2>2, <2>3 DEF LoopStep
<1>3. at' \in [Pool -> {"off", "connecting", "connected", "listening"} \union Over]
  <2>1. CASE BeginRound
    BY <2>1 DEF BeginRound, BaseOK, TypeOK
  <2>2. CASE StartGpu \/ GpuIsReady \/ GpuIsNotReady \/ LeaveRound
    BY <2>2 DEF StartGpu, GpuIsReady, GpuIsNotReady, LeaveRound, BaseOK, TypeOK
  <2>3. CASE \E p \in Pool : Connect(p) \/ ConnectFails(p) \/ \E how \in Over : EndListen(p, how)
    <3>1. PICK p \in Pool, to \in {"connected", "listening"} \union Over : at' = [at EXCEPT ![p] = to]
      BY <2>3, Zenon DEF Connect, ConnectFails, EndListen
    <3> QED
      BY <3>1 DEF BaseOK, TypeOK
  <2> QED
    BY <2>1, <2>2, <2>3 DEF LoopStep
<1>4. open' \subseteq Conn
  <2>1. CASE BeginRound \/ StartGpu \/ GpuIsReady \/ GpuIsNotReady \/ LeaveRound
    BY <2>1 DEF BeginRound, StartGpu, GpuIsReady, GpuIsNotReady, LeaveRound, BaseOK, TypeOK
  <2>2. ASSUME NEW p \in Pool, Connect(p) PROVE open' \subseteq Conn
    BY <2>2 DEF Connect, BaseOK, TypeOK
  <2>3. CASE \E p \in Pool : ConnectFails(p) \/ \E how \in Over : EndListen(p, how)
    BY <2>3 DEF ConnectFails, EndListen, BaseOK, TypeOK
  <2> QED
    BY <2>1, <2>2, <2>3 DEF LoopStep
<1>5. /\ wpc' \in [Conn -> {"none", "start", "wait", "mine", "send", "gone"}]
      /\ \A w \in Conn : wpc'[w] = "send" => wpc[w] = "send"
  <2>1. CASE UNCHANGED wpc
    BY <2>1 DEF BaseOK, TypeOK
  <2>2. ASSUME NEW c \in Conn, NEW to \in {"start", "wait"}, wpc' = [wpc EXCEPT ![c] = to]
        PROVE  /\ wpc' \in [Conn -> {"none", "start", "wait", "mine", "send", "gone"}]
               /\ \A w \in Conn : wpc'[w] = "send" => wpc[w] = "send"
    BY <2>2 DEF BaseOK, TypeOK
  <2>3. CASE StartGpu
    BY <2>2, <2>3 DEF StartGpu, BaseOK, Pool
  <2>4. ASSUME NEW p \in Pool, Connect(p)
        PROVE  UNCHANGED wpc \/ \E c \in Conn, to \in {"start", "wait"} : wpc' = [wpc EXCEPT ![c] = to]
    BY <2>4 DEF Connect, BaseOK
  <2> QED
    BY <2>1, <2>2, <2>3, <2>4 DEF LoopStep, BeginRound, GpuIsReady, GpuIsNotReady, LeaveRound,
       ConnectFails, EndListen, workerVars
<1>6. TypeOK'
  BY <1>1, <1>2, <1>3, <1>4, <1>5 DEF BaseOK, TypeOK, optionVars
<1> QED
  BY <1>1, <1>2, <1>5, <1>6 DEF BaseOK

\* A listener publishes a job or takes a share.
LEMMA ListenerBase ==
  ASSUME BaseOK, NEW p \in Pool, ListenerStep(p)
  PROVE  BaseOK'
<1> DEFINE c == <<round, p>>
<1>1. UNCHANGED <<optionVars, loopVars, workerVars>> /\ program = "run"
  BY DEF ListenerStep, ProcessJob, TakeShare
<1>2. c \in Conn
  BY <1>1, Connections DEF BaseOK
<1> HIDE DEF c
<1>3. slot' \in [Conn -> Job \union {NoJob}]
  <2>1. CASE UNCHANGED slot
    BY <2>1 DEF BaseOK, TypeOK
  <2>2. CASE ProcessJob(p)
    <3>1. JobNumber(c) < MaxJobs /\ slot' = [slot EXCEPT ![c] = <<c, JobNumber(c) + 1>>]
      BY <2>2 DEF ProcessJob, c
    <3>2. JobNumber(c) \in Nat
      BY <1>2, Jobs DEF JobNumber, BaseOK, TypeOK
    <3>3. <<c, JobNumber(c) + 1>> \in Job
      BY <1>2, <3>1, <3>2, BoundsAssumption DEF Job
    <3> QED
      BY <3>1, <3>3 DEF BaseOK, TypeOK
  <2> QED
    BY <2>1, <2>2 DEF ListenerStep, TakeShare
<1>4. channel' \in [Conn -> Seq(Job)] /\ \A d \in Conn : Len(channel'[d]) <= Capacity
  <2>1. CASE UNCHANGED channel
    BY <2>1 DEF BaseOK, TypeOK
  <2>2. CASE TakeShare(p)
    <3>1. channel[c] # <<>> /\ channel' = [channel EXCEPT ![c] = Tail(@)]
      BY <2>2 DEF TakeShare, c
    <3>2. channel[c] \in Seq(Job) /\ Len(channel[c]) <= Capacity
      BY <1>2 DEF BaseOK, TypeOK
    <3>3. Tail(channel[c]) \in Seq(Job) /\ Len(Tail(channel[c])) <= Capacity
      BY <3>1, <3>2, CapacityAssumption
    <3> QED
      BY <3>1, <3>3 DEF BaseOK, TypeOK
  <2> QED
    BY <2>1, <2>2 DEF ListenerStep, ProcessJob
<1> QED
  BY <1>1, <1>3, <1>4 DEF BaseOK, TypeOK, optionVars, loopVars, workerVars

\* A worker sends, within the bound of the channel, what it has found.
LEMMA WorkerBase ==
  ASSUME BaseOK, NEW w \in Conn, WorkerStep(w), UNCHANGED optionVars
  PROVE  BaseOK'
<1>1. PICK to \in {"wait", "mine", "send", "gone"} :
        /\ wpc' = [wpc EXCEPT ![w] = to] /\ program # "ended"
        /\ to = "send" => \E c \in Conn : Find(w, c)
        /\ UNCHANGED <<loopVars, slot>>
  BY WorkerMoves
<1>2. seen' \in [Conn -> Job \union {NoJob}]
  BY DEF WorkerStep, GpuStarts, TakeJob, Find, SearchFails, Send, SendError, BaseOK, TypeOK,
         workerVars
<1>3. /\ hand' \in [Conn -> [to : Conn, job : Job \union {NoJob}]]
      /\ \A v \in Conn : v # w => hand'[v] = hand[v]
      /\ (\E c \in Conn : Find(w, c)) => hand'[w].job \in Job
  <2>1. CASE UNCHANGED hand /\ ~(\E c \in Conn : Find(w, c))
    BY <2>1 DEF BaseOK, TypeOK
  <2>2. CASE \E c \in Conn : Find(w, c)
    BY <2>2 DEF Find, BaseOK, TypeOK
  <2>3. CASE Send(w) \/ SendError(w)
    <3>1. hand' = [hand EXCEPT ![w] = Nothing(w)]
      BY <2>3 DEF Send, SendError
    <3>2. Nothing(w) \in [to : Conn, job : Job \union {NoJob}]
      BY DEF Nothing
    <3>3. ~(\E c \in Conn : Find(w, c))
      BY <2>3 DEF Send, SendError, Find
    <3> QED
      BY <3>1, <3>2, <3>3 DEF BaseOK, TypeOK
  <2> QED
    BY <2>1, <2>2, <2>3 DEF WorkerStep, GpuStarts, TakeJob, SearchFails, workerVars
<1>4. channel' \in [Conn -> Seq(Job)] /\ \A d \in Conn : Len(channel'[d]) <= Capacity
  <2>1. CASE UNCHANGED channel
    BY <2>1 DEF BaseOK, TypeOK
  <2>2. CASE Send(w)
    <3> DEFINE c == hand[w].to
    <3>1. /\ wpc[w] = "send" /\ Len(channel[c]) < Capacity
          /\ channel' = [channel EXCEPT ![c] = Append(@, hand[w].job)]
      BY <2>2 DEF Send
    <3>2. c \in Conn /\ hand[w].job \in Job
      BY <3>1 DEF BaseOK, TypeOK
    <3>3. channel[c] \in Seq(Job)
      BY <3>2 DEF BaseOK, TypeOK
    <3>4. Append(channel[c], hand[w].job) \in Seq(Job) /\ Len(Append(channel[c], hand[w].job)) <= Capacity
      BY <3>1, <3>2, <3>3, CapacityAssumption
    <3> HIDE DEF c
    <3> QED
      BY <3>1, <3>4 DEF BaseOK, TypeOK
  <2> QED
    BY <2>1, <2>2 DEF WorkerStep, GpuStarts, TakeJob, Find, SearchFails, SendError
<1>5. /\ wpc' \in [Conn -> {"none", "start", "wait", "mine", "send", "gone"}]
      /\ \A v \in Conn : wpc'[v] = "send" => hand'[v].job \in Job
  BY <1>1, <1>3 DEF BaseOK, TypeOK
<1>6. TypeOK'
  BY <1>1, <1>2, <1>3, <1>4, <1>5 DEF BaseOK, TypeOK, optionVars, loopVars
<1> QED
  BY <1>1, <1>5, <1>6 DEF BaseOK, loopVars

-----------------------------------------------------------------------------
(* Jobs stay with their connection                                         *)

\* The loop of `main` moves no job from one connection to another.
LEMMA LoopOwn ==
  ASSUME OwnOK, LoopStep
  PROVE  OwnOK'
<1>1. UNCHANGED <<slot, channel, seen, hand>>
  BY DEF LoopStep, BeginRound, StartGpu, GpuIsReady, GpuIsNotReady, LeaveRound, Connect,
         ConnectFails, EndListen, workerVars
<1> QED
  BY <1>1 DEF OwnOK, Own, SharesStayOnTheirConnection

\* `process_job` publishes in the slot of its own connection.
LEMMA ListenerOwn ==
  ASSUME BaseOK, OwnOK, NEW p \in Pool, ListenerStep(p)
  PROVE  OwnOK'
<1> DEFINE c == <<round, p>>
<1>1. UNCHANGED workerVars /\ program = "run"
  BY DEF ListenerStep, ProcessJob, TakeShare
<1>2. c \in Conn
  BY <1>1, Connections DEF BaseOK
<1> HIDE DEF c
<1>3. \A d \in Conn : Own(slot'[d], d)
  <2>1. CASE UNCHANGED slot
    BY <2>1 DEF OwnOK
  <2>2. CASE ProcessJob(p)
    <3>1. slot' = [slot EXCEPT ![c] = <<c, JobNumber(c) + 1>>]
      BY <2>2 DEF ProcessJob, c
    <3> QED
      BY <3>1 DEF OwnOK, Own, BaseOK, TypeOK
  <2> QED
    BY <2>1, <2>2 DEF ListenerStep, TakeShare
<1>4. \A d \in Conn : \A k \in DOMAIN channel'[d] : channel'[d][k][1] = d
  <2>1. CASE UNCHANGED channel
    BY <2>1 DEF OwnOK, SharesStayOnTheirConnection
  <2>2. CASE TakeShare(p)
    <3>1. channel[c] # <<>> /\ channel' = [channel EXCEPT ![c] = Tail(@)]
      BY <2>2 DEF TakeShare, c
    <3>2. channel[c] \in Seq(Job)
      BY <1>2 DEF BaseOK, TypeOK
    <3>3. \A k \in DOMAIN Tail(channel[c]) :
             k + 1 \in DOMAIN channel[c] /\ Tail(channel[c])[k] = channel[c][k + 1]
      BY <3>1, <3>2
    <3>4. \A k \in DOMAIN Tail(channel[c]) : Tail(channel[c])[k][1] = c
      BY <1>2, <3>3 DEF OwnOK, SharesStayOnTheirConnection
    <3>5. channel'[c] = Tail(channel[c]) /\ \A d \in Conn : d # c => channel'[d] = channel[d]
      BY <1>2, <3>1 DEF BaseOK, TypeOK
    <3> QED
      BY <3>4, <3>5 DEF OwnOK, SharesStayOnTheirConnection
  <2> QED
    BY <2>1, <2>2 DEF ListenerStep, ProcessJob
<1> QED
  BY <1>1, <1>3, <1>4 DEF OwnOK, workerVars, SharesStayOnTheirConnection

\* A worker takes a job from the slot of a connection, submits it to that
\* connection, and sends it there, also when the round is long over.
LEMMA WorkerOwn ==
  ASSUME BaseOK, OwnOK, NEW w \in Conn, WorkerStep(w)
  PROVE  OwnOK'
<1>1. UNCHANGED slot
  BY WorkerMoves
<1>2. \A d \in Conn : Own(seen'[d], d)
  <2>1. CASE UNCHANGED seen
    BY <2>1 DEF OwnOK
  <2>2. ASSUME NEW c \in Conn, TakeJob(w, c) PROVE \A d \in Conn : Own(seen'[d], d)
    <3>1. seen' = [seen EXCEPT ![c] = slot[c]]
      BY <2>2 DEF TakeJob
    <3> QED
      BY <3>1 DEF OwnOK, BaseOK, TypeOK
  <2> QED
    BY <2>1, <2>2 DEF WorkerStep, GpuStarts, Find, SearchFails, Send, SendError, workerVars
<1>3. \A v \in Conn : Own(hand'[v].job, hand'[v].to)
  <2>1. CASE UNCHANGED hand
    BY <2>1 DEF OwnOK
  <2>2. ASSUME NEW c \in Conn, Find(w, c) PROVE \A v \in Conn : Own(hand'[v].job, hand'[v].to)
    <3>1. hand' = [hand EXCEPT ![w] = [to |-> c, job |-> seen[c]]]
      BY <2>2 DEF Find
    <3> QED
      BY <3>1 DEF OwnOK, BaseOK, TypeOK
  <2>3. CASE Send(w) \/ SendError(w)
    <3>1. hand' = [hand EXCEPT ![w] = Nothing(w)]
      BY <2>3 DEF Send, SendError
    <3>2. Own(Nothing(w).job, Nothing(w).to)
      BY DEF Own, Nothing, NoJob, Job
    <3> QED
      BY <3>1, <3>2 DEF OwnOK, BaseOK, TypeOK
  <2> QED
    BY <2>1, <2>2, <2>3 DEF WorkerStep, GpuStarts, TakeJob, SearchFails, workerVars
<1>4. \A d \in Conn : \A k \in DOMAIN channel'[d] : channel'[d][k][1] = d
  <2>1. CASE UNCHANGED channel
    BY <2>1 DEF OwnOK, SharesStayOnTheirConnection
  <2>2. CASE Send(w)
    <3> DEFINE c == hand[w].to
               job == hand[w].job
    <3>1. wpc[w] = "send" /\ channel' = [channel EXCEPT ![c] = Append(@, job)]
      BY <2>2 DEF Send
    <3>2. c \in Conn /\ job \in Job /\ job[1] = c
      BY <3>1 DEF BaseOK, TypeOK, OwnOK, Own
    <3>3. channel[c] \in Seq(Job)
      BY <3>2 DEF BaseOK, TypeOK
    <3> HIDE DEF c, job
    <3>4. \A k \in DOMAIN Append(channel[c], job) :
            \/ Append(channel[c], job)[k] = job
            \/ k \in DOMAIN channel[c] /\ Append(channel[c], job)[k] = channel[c][k]
      BY <3>2, <3>3
    <3>5. \A k \in DOMAIN Append(channel[c], job) : Append(channel[c], job)[k][1] = c
      BY <3>2, <3>4 DEF OwnOK, SharesStayOnTheirConnection
    <3>6. channel'[c] = Append(channel[c], job) /\ \A d \in Conn : d # c => channel'[d] = channel[d]
      BY <3>1, <3>2 DEF BaseOK, TypeOK
    <3> QED
      BY <3>5, <3>6 DEF OwnOK, SharesStayOnTheirConnection
  <2> QED
    BY <2>1, <2>2 DEF WorkerStep, GpuStarts, TakeJob, Find, SearchFails, SendError
<1> QED
  BY <1>1, <1>2, <1>3, <1>4 DEF OwnOK, SharesStayOnTheirConnection

-----------------------------------------------------------------------------
(* Receivers and listeners of a round                                      *)

\* Listeners and workers do not touch the parts of a round, and no worker goes back
\* to before its start.
LEMMA OthersServed ==
  ASSUME BaseOK, PartsOK, OpenOK, WorkerOK, UNCHANGED optionVars, UNCHANGED loopVars,
         \A v \in Conn : wpc'[v] = wpc[v] \/ wpc'[v] \notin {"none", "start"}
  PROVE  (PartsOK /\ OpenOK /\ WorkerOK)'
<1>1. Shared' = Shared /\ Used' = Used
  BY DEF Shared, Used, optionVars
<1>2. (PartsOK /\ OpenOK)'
  BY <1>1 DEF PartsOK, OpenOK, loopVars
<1>3. WorkerOK'
  <2> SUFFICES ASSUME NEW p \in Pool, program = "run", at[p] = "listening"
               PROVE  wpc'[<<round, IF Shared THEN "main" ELSE p>>] \notin
                        (IF Shared THEN {"none", "start"} ELSE {"none"})
    BY <1>1 DEF WorkerOK, loopVars
  <2> DEFINE v == <<round, IF Shared THEN "main" ELSE p>>
  <2>1. v \in Conn
    BY Connections DEF BaseOK, Pool
  <2>2. wpc[v] \notin (IF Shared THEN {"none", "start"} ELSE {"none"})
    BY DEF WorkerOK
  <2> QED
    BY <2>1, <2>2
<1> QED
  BY <1>2, <1>3

\* The loop of `main` starts no listener without its receivers and its worker.
LEMMA LoopServed ==
  ASSUME BaseOK, PartsOK, OpenOK, WorkerOK, LoopStep, UNCHANGED optionVars
  PROVE  (PartsOK /\ OpenOK /\ WorkerOK)'
<1>0. Shared' = Shared /\ Used' = Used
  BY DEF Shared, Used, optionVars
<1>9. Used \subseteq Pool /\ at \in [Pool -> {"off", "connecting", "connected", "listening"} \union Over]
  BY DEF Used, Pool, BaseOK, TypeOK
<1> USE <1>0, <1>9
<1>1. CASE BeginRound
  BY <1>1 DEF BeginRound, PartsOK, OpenOK, WorkerOK
<1>2. ASSUME NEW p \in Pool, Connect(p)
      PROVE  (PartsOK /\ OpenOK /\ WorkerOK)'
  <2>1. /\ program = "run" /\ at[p] = "connecting" /\ program' = program /\ round' = round
        /\ at' = [at EXCEPT ![p] = IF Shared THEN "connected" ELSE "listening"]
        /\ open' = open \union {<<round, p>>}
        /\ wpc' = IF Shared THEN wpc
                  ELSE [wpc EXCEPT ![<<round, p>>] = IF gpu THEN "start" ELSE "wait"]
    BY <1>2 DEF Connect
  <2>2. /\ at'[p] = IF Shared THEN "connected" ELSE "listening"
        /\ \A q \in Pool : q # p => at'[q] = at[q]
    BY <2>1
  <2>3. PartsOK'
    BY <2>1, <2>2 DEF PartsOK
  <2>4. OpenOK'
    BY <2>1, <2>2 DEF OpenOK
  <2>5. WorkerOK'
    <3> SUFFICES ASSUME NEW q \in Pool, at'[q] = "listening"
                 PROVE  wpc'[<<round, IF Shared THEN "main" ELSE q>>] \notin
                          (IF Shared THEN {"none", "start"} ELSE {"none"})
      BY <2>1 DEF WorkerOK
    <3>1. CASE Shared
      BY <2>1, <2>2, <3>1 DEF WorkerOK
    <3>2. CASE ~Shared
      <4>1. <<round, q>> \in Conn /\ wpc \in [Conn -> {"none", "start", "wait", "mine", "send", "gone"}]
        BY <2>1, Connections DEF BaseOK, TypeOK
      <4>2. CASE q = p
        BY <2>1, <3>2, <4>1, <4>2
      <4>3. CASE q # p
        BY <2>1, <2>2, <3>2, <4>1, <4>3 DEF WorkerOK
      <4> QED
        BY <4>2, <4>3
    <3> QED
      BY <3>1, <3>2
  <2> QED
    BY <2>3, <2>4, <2>5
<1>3. ASSUME NEW p \in Pool, ConnectFails(p)
      PROVE  (PartsOK /\ OpenOK /\ WorkerOK)'
  <2>1. /\ program = "run" /\ at[p] = "connecting" /\ program' \in {"run", "ended"}
        /\ at' = [at EXCEPT ![p] = "error"]
        /\ round' = round /\ open' = open /\ wpc' = wpc
    BY <1>3 DEF ConnectFails, workerVars
  <2>2. at'[p] = "error" /\ \A q \in Pool : q # p => at'[q] = at[q]
    BY <2>1
  <2>3. PartsOK'
    BY <2>1, <2>2 DEF PartsOK
  <2>4. OpenOK'
    BY <2>1, <2>2, Connections DEF OpenOK, BaseOK, TypeOK
  <2>5. WorkerOK'
    BY <2>1, <2>2 DEF WorkerOK
  <2> QED
    BY <2>3, <2>4, <2>5
<1>4. CASE StartGpu
  <2>1. /\ program = "run" /\ (\A p \in Pool : at[p] = "connected") /\ program' = "startup"
        /\ UNCHANGED <<round, at, open>>
    BY <1>4 DEF StartGpu
  <2> QED
    BY <2>1 DEF PartsOK, OpenOK, WorkerOK
<1>5. CASE GpuIsReady
  <2>1. /\ program = "startup" /\ wpc[<<round, "main">>] = "wait" /\ program' = "run"
        /\ at' = [p \in Pool |-> "listening"] /\ UNCHANGED <<round, open, wpc>>
    BY <1>5 DEF GpuIsReady, workerVars
  <2>2. Shared /\ \A p \in Pool : at[p] = "connected"
    BY <2>1 DEF PartsOK, Pool
  <2>3. PartsOK'
    BY <2>1, <2>2 DEF PartsOK
  <2>4. OpenOK'
    BY <2>1, <2>2 DEF OpenOK
  <2>5. WorkerOK'
    BY <2>1, <2>2 DEF WorkerOK
  <2> QED
    BY <2>3, <2>4, <2>5
<1>6. CASE GpuIsNotReady
  <2>1. program = "startup" /\ program' = "ended" /\ UNCHANGED <<round, at, open>>
    BY <1>6 DEF GpuIsNotReady
  <2> QED
    BY <2>1 DEF PartsOK, OpenOK, WorkerOK
<1>7. ASSUME NEW p \in Pool, NEW how \in Over, EndListen(p, how)
      PROVE  (PartsOK /\ OpenOK /\ WorkerOK)'
  <2>1. /\ program = "run" /\ at[p] = "listening" /\ program' = program /\ round' = round
        /\ at' = [at EXCEPT ![p] = how] /\ wpc' = wpc
        /\ open' = IF Shared THEN open ELSE open \ {<<round, p>>}
    BY <1>7 DEF EndListen, workerVars
  <2>2. at'[p] = how /\ how \in {"ok", "error"} /\ \A q \in Pool : q # p => at'[q] = at[q]
    BY <2>1 DEF Over
  <2>3. PartsOK'
    BY <2>1, <2>2 DEF PartsOK
  <2>4. OpenOK'
    BY <2>1, <2>2, Connections DEF OpenOK, BaseOK, TypeOK
  <2>5. WorkerOK'
    BY <2>1, <2>2 DEF WorkerOK
  <2> QED
    BY <2>3, <2>4, <2>5
<1>8. CASE LeaveRound
  <2>1. /\ program = "run" /\ (\A p \in Used : at[p] \in Over) /\ program' \in {"top", "ended"}
        /\ open' = (IF Shared THEN {} ELSE open) /\ UNCHANGED <<round, at>>
    BY <1>8 DEF LeaveRound
  <2>2. open' = {}
    <3> SUFFICES ASSUME ~Shared, NEW c \in open PROVE FALSE
      BY <2>1
    <3>1. c[2] \in Pool /\ at[c[2]] = "listening"
      BY <2>1, Connections DEF OpenOK, BaseOK, TypeOK
    <3>2. c[2] \in Used
      BY <3>1 DEF PartsOK
    <3> QED
      BY <2>1, <3>1, <3>2 DEF Over
  <2> QED
    BY <2>1, <2>2 DEF PartsOK, OpenOK, WorkerOK
<1> QED
  BY <1>1, <1>2, <1>3, <1>4, <1>5, <1>6, <1>7, <1>8 DEF LoopStep

-----------------------------------------------------------------------------

\* Every step of the loop, of a listener and of a worker, of whatever round
LEMMA NextIInv == IInv /\ [Next]_vars => IInv'
<1> SUFFICES ASSUME IInv, [Next]_vars PROVE IInv'
  OBVIOUS
<1>0. UNCHANGED optionVars
  BY OptionsStay
<1>1. CASE LoopStep
  BY <1>0, <1>1, LoopBase, LoopOwn, LoopServed DEF IInv
<1>2. ASSUME NEW p \in Pool, ListenerStep(p) PROVE IInv'
  <2>1. UNCHANGED loopVars /\ UNCHANGED wpc
    BY <1>2 DEF ListenerStep, ProcessJob, TakeShare, workerVars
  <2> QED
    BY <1>0, <1>2, <2>1, ListenerBase, ListenerOwn, OthersServed DEF IInv
<1>3. ASSUME NEW w \in Conn, WorkerStep(w) PROVE IInv'
  <2>1. /\ UNCHANGED loopVars
        /\ \A v \in Conn : wpc'[v] = wpc[v] \/ wpc'[v] \notin {"none", "start"}
    BY <1>3, WorkerMoves DEF IInv, BaseOK, TypeOK
  <2> QED
    BY <1>0, <1>3, <2>1, WorkerBase, WorkerOwn, OthersServed DEF IInv
<1>4. CASE UNCHANGED vars
  <2>1. UNCHANGED loopVars /\ UNCHANGED <<slot, channel, wpc, seen, hand>>
    BY <1>4 DEF vars, workerVars
  <2>2. BaseOK'
    BY <1>0, <2>1 DEF IInv, BaseOK, TypeOK, optionVars, loopVars
  <2>3. OwnOK'
    BY <2>1 DEF IInv, OwnOK, Own, SharesStayOnTheirConnection
  <2> QED
    BY <1>0, <2>1, <2>2, <2>3, OthersServed DEF IInv
<1> QED
  BY <1>1, <1>2, <1>3, <1>4 DEF Next

\* The program keeps its invariant over all rounds.
THEOREM Invariance == SafetySpec => []IInv
BY InitIInv, NextIInv, PTL DEF SafetySpec

\* `main` never leaves its modes, and no channel goes beyond its bound, however
\* many workers of earlier rounds are left.
THEOREM TypeCorrectness == SafetySpec => []TypeOK
<1>1. IInv => TypeOK
  BY DEF IInv, BaseOK
<1> QED
  BY <1>1, Invariance, PTL

\* A worker that outlives its manager never sends a share of an old job to a new
\* connection.
THEOREM SharesStay == SafetySpec => []SharesStayOnTheirConnection
<1>1. IInv => SharesStayOnTheirConnection
  BY DEF IInv, OwnOK
<1> QED
  BY <1>1, Invariance, PTL

\* `main` has receivers of the present round only, and every listener has
\* its worker.
THEOREM ListenersServed == SafetySpec => []ListenersAreServed
<1>1. IInv => ListenersAreServed
  BY DEF IInv, OpenOK, WorkerOK, ListenersAreServed
<1> QED
  BY <1>1, Invariance, PTL

-----------------------------------------------------------------------------
(* Workers that are left behind                                            *)

\* A connection of an earlier round is over: it is not opened again, brings no job,
\* and nothing is sent to it or taken from it, though its workers still run.
EarlierRoundsAreOver ==
  \A c \in Conn : c[1] < round =>
    c \notin open' /\ channel'[c] = channel[c] /\ slot'[c] = slot[c]

\* No step of the loop or of the workers of an earlier round touches its connections.
LEMMA NextEarlier == IInv /\ [Next]_vars => EarlierRoundsAreOver
<1> SUFFICES ASSUME IInv, [Next]_vars, NEW c \in Conn, c[1] < round
             PROVE  c \notin open' /\ channel'[c] = channel[c] /\ slot'[c] = slot[c]
  BY DEF EarlierRoundsAreOver
<1>1. c[1] \in Int /\ round \in Int /\ c \notin open /\ \A p \in Pool : c # <<round, p>>
  BY Connections DEF IInv, BaseOK, TypeOK, OpenOK
<1>2. CASE LoopStep
  <2>1. round' \in {round, round + 1}
    BY <1>2 DEF LoopStep, BeginRound, StartGpu, GpuIsReady, GpuIsNotReady, LeaveRound, Connect,
                ConnectFails, EndListen, loopVars
  <2>2. c \notin open'
    BY <1>1, <2>1, NextIInv DEF IInv, OpenOK
  <2>3. UNCHANGED <<slot, channel>>
    BY <1>2 DEF LoopStep, BeginRound, StartGpu, GpuIsReady, GpuIsNotReady, LeaveRound, Connect,
                ConnectFails, EndListen
  <2> QED
    BY <2>2, <2>3
<1>3. ASSUME NEW p \in Pool, ListenerStep(p)
      PROVE  c \notin open' /\ channel'[c] = channel[c] /\ slot'[c] = slot[c]
  BY <1>1, <1>3 DEF ListenerStep, ProcessJob, TakeShare, loopVars, IInv, BaseOK, TypeOK
<1>4. ASSUME NEW w \in Conn, WorkerStep(w)
      PROVE  c \notin open' /\ channel'[c] = channel[c] /\ slot'[c] = slot[c]
  <2>1. UNCHANGED <<loopVars, slot>>
    BY <1>4, WorkerMoves DEF IInv
  <2>2. channel'[c] = channel[c]
    <3>1. CASE Send(w)
      BY <1>1, <3>1 DEF Send, IInv, BaseOK, TypeOK
    <3>2. CASE UNCHANGED channel
      BY <3>2
    <3> QED
      BY <1>4, <3>1, <3>2 DEF WorkerStep, GpuStarts, TakeJob, Find, SearchFails, SendError
  <2> QED
    BY <1>1, <2>1, <2>2 DEF loopVars
<1>5. CASE UNCHANGED vars
  BY <1>1, <1>5 DEF vars, loopVars
<1> QED
  BY <1>2, <1>3, <1>4, <1>5 DEF Next

\* Dropping a manager stops none of its threads, but what they go on to find reaches
\* neither the pool they worked for nor the next connection to it.
THEOREM LeftoversGoNowhere == SafetySpec => [][EarlierRoundsAreOver]_vars
<1>1. IInv /\ [Next]_vars => [EarlierRoundsAreOver]_vars
  BY NextEarlier
<1> QED
  BY <1>1, Invariance, PTL DEF SafetySpec

-----------------------------------------------------------------------------
(* Connections one by one                                                  *)

\* One GPU thread is the worker of both its pools; who submits still has the job of
\* the share, so it is one of a connection that it serves; and where a receiver is
\* open, its pool takes part in the round.
LinksOK ==
  /\ Shared => \A c \in Conn : c[2] = "fee" => wpc[c] = "none"
  /\ \A w \in Conn : wpc[w] = "send" =>
       hand[w].to \in Serves(w) /\ seen[hand[w].to] = hand[w].job
  /\ \A c \in open : at[c[2]] \notin {"off", "connecting"}

\* Two workers serve no connection in common, unless one of them never starts.
LEMMA OneWorkerEach ==
  ASSUME LinksOK, NEW v \in Conn, NEW w \in Conn, v # w, wpc[v] # "none", wpc[w] # "none"
  PROVE  Serves(v) \cap Serves(w) = {}
<1>1. CASE ~Shared
  BY <1>1 DEF Serves
<1>2. CASE Shared
  <2>1. v[2] = "main" /\ w[2] = "main"
    BY <1>2, Connections DEF LinksOK, Pool
  <2>2. v[1] # w[1]
    BY <2>1, Connections
  <2> QED
    BY <1>2, <2>2 DEF Serves
<1> QED
  BY <1>1, <1>2

\* The loop opens a receiver only for a pool that has connected, and starts no
\* worker for the project's pool of a GPU.
LEMMA LoopLinks == IInv /\ LinksOK /\ LoopStep => LinksOK'
<1> SUFFICES ASSUME IInv, LinksOK, LoopStep PROVE LinksOK'
  OBVIOUS
<1>1. UNCHANGED <<hand, seen>> /\ UNCHANGED optionVars /\ Shared' = Shared
  <2>1. UNCHANGED <<hand, seen>>
    BY DEF LoopStep, BeginRound, StartGpu, GpuIsReady, GpuIsNotReady, LeaveRound, Connect,
           ConnectFails, EndListen, workerVars
  <2>2. UNCHANGED optionVars
    BY OptionsStay DEF Next
  <2> QED
    BY <2>1, <2>2 DEF optionVars, Shared
<1>2. \A w \in Conn : Serves(w)' = Serves(w)
  BY <1>1 DEF Serves
<1> DEFINE AtOpen == \A c \in open' : at'[c[2]] \notin {"off", "connecting"}
<1>3. /\ at \in [Pool -> {"off", "connecting", "connected", "listening"} \union Over]
      /\ wpc \in [Conn -> {"none", "start", "wait", "mine", "send", "gone"}]
      /\ open \subseteq Conn /\ \A c \in open : c[2] \in Pool
      /\ \A c \in open : at[c[2]] \notin {"off", "connecting"}
  BY Connections DEF LinksOK, IInv, BaseOK, TypeOK
<1>4. CASE BeginRound
  <2>1. open' = {} /\ wpc' = wpc
    BY <1>4 DEF BeginRound, IInv, OpenOK, workerVars
  <2> QED
    BY <1>1, <1>2, <2>1 DEF LinksOK
<1>5. ASSUME NEW p \in Pool, Connect(p) PROVE LinksOK'
  <2>1. /\ at' = [at EXCEPT ![p] = IF Shared THEN "connected" ELSE "listening"]
        /\ open' = open \union {<<round, p>>}
        /\ wpc' = IF Shared THEN wpc ELSE [wpc EXCEPT ![<<round, p>>] = IF gpu THEN "start" ELSE "wait"]
    BY <1>5 DEF Connect
  <2>2. AtOpen
    BY <1>3, <2>1
  <2>3. /\ Shared => wpc' = wpc
        /\ \A w \in Conn : wpc'[w] = wpc[w] \/ wpc'[w] \in {"start", "wait"}
    BY <1>3, <2>1
  <2> QED
    BY <1>1, <1>2, <2>2, <2>3 DEF LinksOK
<1>6. ASSUME NEW p \in Pool, ConnectFails(p) \/ \E how \in Over : EndListen(p, how)
      PROVE  LinksOK'
  <2>1. wpc' = wpc /\ open' \subseteq open /\ \E how \in Over : at' = [at EXCEPT ![p] = how]
    BY <1>6 DEF ConnectFails, EndListen, workerVars, Over
  <2>2. AtOpen
    BY <1>3, <2>1 DEF Over
  <2> QED
    BY <1>1, <1>2, <2>1, <2>2 DEF LinksOK
<1>7. CASE StartGpu
  <2>1. wpc' = [wpc EXCEPT ![<<round, "main">>] = "start"] /\ UNCHANGED <<at, open>>
    BY <1>7 DEF StartGpu
  <2>2. /\ \A w \in Conn : wpc'[w] = wpc[w] \/ wpc'[w] = "start"
        /\ \A c \in Conn : c[2] = "fee" => wpc'[c] = wpc[c]
    BY <1>3, <2>1
  <2> QED
    BY <1>1, <1>2, <2>1, <2>2 DEF LinksOK
<1>8. CASE GpuIsReady \/ GpuIsNotReady \/ LeaveRound
  <2>1. wpc' = wpc /\ open' \subseteq open /\ (at' = at \/ at' = [p \in Pool |-> "listening"])
    BY <1>8 DEF GpuIsReady, GpuIsNotReady, LeaveRound, workerVars
  <2>2. AtOpen
    BY <1>3, <2>1
  <2> QED
    BY <1>1, <1>2, <2>1, <2>2 DEF LinksOK
<1> QED
  BY <1>4, <1>5, <1>6, <1>7, <1>8 DEF LoopStep

\* A worker looks for jobs only when it has nothing to submit.
LEMMA WorkerLinks ==
  ASSUME IInv, LinksOK, NEW w \in Conn, WorkerStep(w)
  PROVE  LinksOK'
<1>1. UNCHANGED loopVars /\ UNCHANGED optionVars
  BY WorkerMoves, OptionsStay DEF IInv, Next
<1>2. Shared' = Shared /\ \A v \in Conn : Serves(v)' = Serves(v)
  BY <1>1 DEF Serves, Shared, optionVars
<1>3. PICK to \in {"wait", "mine", "send", "gone"} :
        /\ wpc' = [wpc EXCEPT ![w] = to]
        /\ to = "send" => \E c \in Conn : Find(w, c)
  BY WorkerMoves DEF IInv
<1>4. wpc[w] # "none"
  BY DEF WorkerStep, GpuStarts, TakeJob, Find, SearchFails, Send, SendError
<1>5. wpc \in [Conn -> {"none", "start", "wait", "mine", "send", "gone"}] /\ seen \in [Conn -> Job \union {NoJob}]
      /\ hand \in [Conn -> [to : Conn, job : Job \union {NoJob}]]
  BY DEF IInv, BaseOK, TypeOK
<1>6. Shared => \A c \in Conn : c[2] = "fee" => wpc'[c] = "none"
  BY <1>3, <1>4, <1>5 DEF LinksOK
<1>7. ASSUME NEW v \in Conn, wpc'[v] = "send"
      PROVE  hand'[v].to \in Serves(v) /\ seen'[hand'[v].to] = hand'[v].job
  <2>1. CASE v = w
    <3>1. PICK c \in Conn : Find(w, c)
      BY <1>3, <1>5, <1>7, <2>1
    <3>2. hand'[w] = [to |-> c, job |-> seen[c]] /\ c \in Serves(w) /\ seen' = seen
      BY <1>5, <3>1 DEF Find
    <3> QED
      BY <2>1, <3>2
  <2>2. CASE v # w
    <3>1. wpc[v] = "send" /\ hand'[v] = hand[v]
      BY <1>3, <1>5, <1>7, <2>2
         DEF WorkerStep, GpuStarts, TakeJob, Find, SearchFails, Send, SendError
    <3>2. hand[v].to \in Serves(v) /\ seen[hand[v].to] = hand[v].job
      BY <3>1 DEF LinksOK
    <3>3. seen'[hand[v].to] = seen[hand[v].to]
      <4>1. CASE UNCHANGED seen
        BY <4>1
      <4>2. ASSUME NEW c \in Conn, TakeJob(w, c) PROVE seen'[hand[v].to] = seen[hand[v].to]
        <5>1. c \in Serves(w) /\ seen' = [seen EXCEPT ![c] = slot[c]]
          BY <4>2 DEF TakeJob
        <5>2. hand[v].to # c
          BY <1>4, <2>2, <3>1, <3>2, <5>1, OneWorkerEach
        <5>3. hand[v].to \in Conn
          BY <1>5
        <5> QED
          BY <1>5, <5>1, <5>2, <5>3
      <4> QED
        BY <4>1, <4>2 DEF WorkerStep, GpuStarts, Find, SearchFails, Send, SendError
    <3> QED
      BY <3>1, <3>2, <3>3
  <2> QED
    BY <2>1, <2>2
<1> QED
  BY <1>1, <1>2, <1>6, <1>7 DEF LinksOK, loopVars

\* Listeners change neither workers nor receivers.
LEMMA NextLinks == IInv /\ LinksOK /\ [Next]_vars => LinksOK'
<1> SUFFICES ASSUME IInv, LinksOK, [Next]_vars PROVE LinksOK'
  OBVIOUS
<1>1. CASE LoopStep
  BY <1>1, LoopLinks
<1>2. CASE (\E p \in Pool : ListenerStep(p)) \/ UNCHANGED vars
  <2>1. UNCHANGED <<optionVars, loopVars, workerVars>>
    BY <1>2 DEF ListenerStep, ProcessJob, TakeShare, vars
  <2> QED
    BY <2>1 DEF LinksOK, Serves, Shared, optionVars, loopVars, workerVars
<1>3. CASE \E w \in Conn : WorkerStep(w)
  BY <1>3, WorkerLinks
<1> QED
  BY <1>1, <1>2, <1>3 DEF Next

\* The loop opens a connection that is new and closes one that is not over yet: what
\* becomes of a pool's part of a round is final.
LEMMA LoopPhase ==
  ASSUME IInv, LinksOK, LoopStep, NEW c \in Conn
  PROVE  \/ Phase(c)' = Phase(c)
         \/ Phase(c) = "new" /\ Phase(c)' = "open"
         \/ Phase(c) # "over" /\ Phase(c)' = "over"
<1> DEFINE Final == c[1] < round \/ (c[1] = round /\ at[c[2]] \in Over)
<1>1. /\ at \in [Pool -> {"off", "connecting", "connected", "listening"} \union Over]
      /\ c[1] \in Int /\ c[2] \in Pool /\ c = <<c[1], c[2]>>
      /\ round \in Int /\ MaxRounds \in Int
  BY Connections, BoundsAssumption DEF IInv, BaseOK, TypeOK
<1>2. Final /\ c \notin open => Final' /\ c \notin open'
  <2> SUFFICES ASSUME Final, c \notin open PROVE Final' /\ c \notin open'
    OBVIOUS
  <2>1. CASE BeginRound
    BY <1>1, <2>1 DEF BeginRound
  <2>2. ASSUME NEW p \in Pool, Connect(p) \/ ConnectFails(p) \/ \E how \in Over : EndListen(p, how)
        PROVE  Final' /\ c \notin open'
    <3>1. at[p] \in {"connecting", "listening"} /\ round' = round
          /\ open' \subseteq open \union {<<round, p>>}
          /\ \A q \in Pool : q # p => at'[q] = at[q]
      BY <1>1, <2>2 DEF Connect, ConnectFails, EndListen
    <3>2. c # <<round, p>>
      BY <1>1, <3>1 DEF Over
    <3> QED
      BY <1>1, <3>1, <3>2
  <2>3. CASE StartGpu \/ LeaveRound
    BY <2>3 DEF StartGpu, LeaveRound
  <2>4. CASE GpuIsReady \/ GpuIsNotReady
    <3>1. program = "startup" /\ round' = round /\ open' = open
      BY <2>4 DEF GpuIsReady, GpuIsNotReady
    <3>2. c[1] < round
      BY <1>1, <3>1 DEF IInv, PartsOK, Over
    <3> QED
      BY <3>1, <3>2
  <2> QED
    BY <2>1, <2>2, <2>3, <2>4 DEF LoopStep
<1>3. c \in open => c \in open' \/ Final'
  <2> SUFFICES ASSUME c \in open, c \notin open' PROVE Final'
    OBVIOUS
  <2>1. c[1] = round /\ program # "top" /\ at[c[2]] \notin {"off", "connecting"}
    BY DEF IInv, OpenOK, LinksOK
  <2>2. ASSUME NEW p \in Pool, NEW how \in Over, EndListen(p, how) PROVE Final'
    <3>1. c = <<round, p>> /\ at' = [at EXCEPT ![p] = how] /\ round' = round
      BY <2>2 DEF EndListen
    <3> QED
      BY <1>1, <2>1, <3>1
  <2>3. CASE LeaveRound
    <3>1. c[2] \in Used
      BY <1>1, <2>1 DEF IInv, PartsOK
    <3> QED
      BY <2>1, <2>3, <3>1 DEF LeaveRound
  <2> QED
    BY <2>1, <2>2, <2>3 DEF LoopStep, BeginRound, Connect, ConnectFails, StartGpu, GpuIsReady,
                            GpuIsNotReady
<1>4. Phase(c) = IF c \in open THEN "open" ELSE IF Final THEN "over" ELSE "new"
  BY DEF Phase
<1>5. Phase(c)' = IF c \in open' THEN "open" ELSE IF Final' THEN "over" ELSE "new"
  BY DEF Phase
<1> HIDE DEF Final
<1> QED
  BY <1>2, <1>3, <1>4, <1>5

\* The number of a job that came over the connection is its own, that of no job 0.
LEMMA Numbers ==
  ASSUME NEW c \in Conn, NEW job \in Job \union {NoJob}, Own(job, c)
  PROVE  /\ Number(job, c) \in Nat
         /\ job # NoJob => Number(job, c) = job[2] /\ Number(job, c) # 0
         /\ job = NoJob => Number(job, c) = 0
<1>1. CASE job \in Job
  BY <1>1, Jobs, BoundsAssumption DEF Number, Own, NoJob, Job
<1>2. CASE job = NoJob
  BY <1>2 DEF Number
<1> QED
  BY <1>1, <1>2

\* The jobs and the shares of a connection, as it sees them.
LEMMA View ==
  ASSUME IInv, NEW c \in Conn
  PROVE  /\ Own(slot[c], c) /\ slot[c] \in Job \union {NoJob}
         /\ Own(seen[c], c) /\ seen[c] \in Job \union {NoJob}
         /\ channel[c] \in Seq(Job)
BY DEF IInv, BaseOK, TypeOK, OwnOK

\* What the loop does to a connection is opening and closing it.
LEMMA LoopLink ==
  ASSUME IInv, LinksOK, LoopStep, NEW c \in Conn
  PROVE  [Link(c)!LinkNext]_(Link(c)!linkVars)
<1>1. UNCHANGED <<slot, channel, seen>>
  BY DEF LoopStep, BeginRound, StartGpu, GpuIsReady, GpuIsNotReady, LeaveRound, Connect,
         ConnectFails, EndListen, workerVars
<1>2. /\ UNCHANGED Number(slot[c], c) /\ UNCHANGED Number(seen[c], c)
      /\ UNCHANGED [k \in DOMAIN channel[c] |-> Number(channel[c][k], c)]
  BY <1>1 DEF Number
<1> QED
  BY <1>2, LoopPhase DEF Link!LinkNext, Link!linkVars, Link!Open, Link!Close

\* A listener is one of an open connection, and what it does is a step of that
\* connection only.
LEMMA ListenerLink ==
  ASSUME IInv, NEW p \in Pool, ListenerStep(p), NEW c \in Conn
  PROVE  [Link(c)!LinkNext]_(Link(c)!linkVars)
<1>1. UNCHANGED <<loopVars, workerVars>> /\ program = "run" /\ at[p] = "listening"
  BY DEF ListenerStep, ProcessJob, TakeShare
<1>2. UNCHANGED Phase(c) /\ UNCHANGED Number(seen[c], c)
  BY <1>1 DEF Phase, Number, loopVars, workerVars
<1>3. CASE c # <<round, p>>
  <2>1. slot'[c] = slot[c] /\ channel'[c] = channel[c]
    BY <1>3 DEF ListenerStep, ProcessJob, TakeShare, IInv, BaseOK, TypeOK
  <2>2. /\ UNCHANGED Number(slot[c], c)
        /\ UNCHANGED [k \in DOMAIN channel[c] |-> Number(channel[c][k], c)]
    BY <2>1 DEF Number
  <2> QED
    BY <1>2, <2>2 DEF Link!linkVars
<1>4. CASE c = <<round, p>>
  <2>1. Phase(c) = "open"
    BY <1>1, <1>4 DEF Phase, IInv, OpenOK
  <2>2. CASE ProcessJob(p)
    <3>1. /\ slot'[c] = <<c, JobNumber(c) + 1>> /\ JobNumber(c) < MaxJobs /\ channel' = channel
      BY <1>4, <2>2, View DEF ProcessJob, IInv, BaseOK, TypeOK
    <3>2. JobNumber(c) = Number(slot[c], c) /\ JobNumber(c) \in Nat
      BY View, Numbers DEF JobNumber
    <3>3. Number(slot[c], c)' = JobNumber(c) + 1
      BY <3>1 DEF Number, NoJob
    <3>4. UNCHANGED [k \in DOMAIN channel[c] |-> Number(channel[c][k], c)]
      BY <3>1 DEF Number
    <3>5. Number(slot[c], c)' \in Nat /\ Number(slot[c], c)' > Number(slot[c], c)
      BY <3>2, <3>3
    <3> QED
      BY <1>2, <2>1, <3>4, <3>5 DEF Link!LinkNext, Link!Announce
  <2>3. CASE TakeShare(p)
    <3> DEFINE shares == [k \in DOMAIN channel[c] |-> Number(channel[c][k], c)]
    <3>1. channel'[c] = Tail(channel[c]) /\ channel[c] # <<>> /\ slot' = slot
      BY <1>4, <2>3 DEF TakeShare, IInv, BaseOK, TypeOK
    <3>2. UNCHANGED Number(slot[c], c)
      BY <3>1 DEF Number
    <3>3. shares # <<>> /\ shares' = Tail(shares)
      <4>1. /\ channel[c] \in Seq(Job) /\ Len(channel[c]) \in Nat \ {0}
            /\ DOMAIN channel[c] = 1..Len(channel[c])
        BY <3>1, View
      <4>2. shares \in Seq({Number(channel[c][k], c) : k \in DOMAIN channel[c]})
            /\ Len(shares) = Len(channel[c])
        BY <4>1
      <4>3. shares' = [k \in DOMAIN channel'[c] |-> Number(channel'[c][k], c)]
        BY DEF Number
      <4>4. DOMAIN channel'[c] = 1..(Len(channel[c]) - 1)
            /\ \A k \in DOMAIN channel'[c] : channel'[c][k] = channel[c][k + 1]
        BY <3>1, <4>1
      <4>5. /\ Tail(shares) = [k \in 1..(Len(channel[c]) - 1) |-> shares[k + 1]]
            /\ \A k \in 1..(Len(channel[c]) - 1) :
                 k + 1 \in DOMAIN channel[c] /\ shares[k + 1] = Number(channel[c][k + 1], c)
        BY <4>1, <4>2
      <4> QED
        BY <4>1, <4>2, <4>3, <4>4, <4>5
    <3> QED
      BY <1>2, <2>1, <3>2, <3>3 DEF Link!LinkNext, Link!Receive
  <2> QED
    BY <2>2, <2>3 DEF ListenerStep
<1> QED
  BY <1>3, <1>4

\* A worker takes jobs and sends shares of the connection it serves.
LEMMA WorkerLink ==
  ASSUME IInv, LinksOK, NEW w \in Conn, WorkerStep(w), NEW c \in Conn
  PROVE  [Link(c)!LinkNext]_(Link(c)!linkVars)
<1> DEFINE shares == [k \in DOMAIN channel[c] |-> Number(channel[c][k], c)]
<1>1. UNCHANGED <<loopVars, slot>>
  BY WorkerMoves DEF IInv
<1>2. UNCHANGED Phase(c) /\ UNCHANGED Number(slot[c], c)
  BY <1>1 DEF Phase, Number, loopVars
<1>3. ASSUME NEW d \in Conn, TakeJob(w, d) PROVE [Link(c)!LinkNext]_(Link(c)!linkVars)
  <2>1. channel' = channel /\ seen' = [seen EXCEPT ![d] = slot[d]]
    BY <1>3 DEF TakeJob
  <2>2. UNCHANGED shares
    BY <2>1 DEF Number
  <2>3. seen'[c] = IF c = d THEN slot[c] ELSE seen[c]
    BY <2>1 DEF IInv, BaseOK, TypeOK
  <2>4. Number(seen[c], c)' = IF c = d THEN Number(slot[c], c) ELSE Number(seen[c], c)
    BY <2>3 DEF Number
  <2> HIDE DEF shares
  <2>5. CASE c = d
    BY <1>2, <2>2, <2>4, <2>5 DEF Link!LinkNext, Link!Take, shares
  <2>6. CASE c # d
    BY <1>2, <2>2, <2>4, <2>6 DEF Link!linkVars, shares
  <2> QED
    BY <2>5, <2>6
<1>4. CASE Send(w)
  <2>1. UNCHANGED Number(seen[c], c)
    BY <1>4 DEF Send, Number
  <2>2. CASE hand[w].to # c
    <3>1. channel'[c] = channel[c]
      BY <1>4, <2>2 DEF Send, IInv, BaseOK, TypeOK
    <3>2. UNCHANGED shares
      BY <3>1 DEF Number
    <3> QED
      BY <1>2, <2>1, <3>2 DEF Link!linkVars
  <2>3. CASE hand[w].to = c
    <3>1. /\ c \in open /\ channel'[c] = Append(channel[c], hand[w].job)
          /\ hand[w].job \in Job /\ hand[w].job = seen[c]
      BY <1>4, <2>3 DEF Send, IInv, BaseOK, TypeOK, LinksOK
    <3>2. Phase(c) = "open"
      BY <3>1 DEF Phase
    <3>3. NoJob \notin Job
      BY DEF NoJob, Job
    <3>4. Number(seen[c], c) \in Nat \ {0}
      BY <3>1, <3>3, View, Numbers
    <3>5. shares' = Append(shares, Number(seen[c], c))
      <4>1. /\ channel[c] \in Seq(Job) /\ Len(channel[c]) \in Nat
            /\ DOMAIN channel[c] = 1..Len(channel[c])
        BY View
      <4>2. shares' = [k \in DOMAIN channel'[c] |-> Number(channel'[c][k], c)]
        BY DEF Number
      <4>3. /\ DOMAIN channel'[c] = 1..(Len(channel[c]) + 1)
            /\ \A k \in 1..Len(channel[c]) : channel'[c][k] = channel[c][k]
            /\ channel'[c][Len(channel[c]) + 1] = seen[c]
        BY <3>1, <4>1
      <4>4. shares \in Seq({Number(channel[c][k], c) : k \in DOMAIN channel[c]})
            /\ Len(shares) = Len(channel[c])
        BY <4>1
      <4>5. Append(shares, Number(seen[c], c)) =
              [k \in 1..(Len(channel[c]) + 1) |->
                 IF k = Len(channel[c]) + 1 THEN Number(seen[c], c) ELSE shares[k]]
        BY <4>1, <4>4
      <4>6. \A k \in 1..(Len(channel[c]) + 1) :
              Number(channel'[c][k], c) =
                IF k = Len(channel[c]) + 1 THEN Number(seen[c], c) ELSE shares[k]
        BY <4>1, <4>3
      <4> HIDE DEF shares
      <4> QED
        BY <4>2, <4>3, <4>5, <4>6
    <3> HIDE DEF shares
    <3> QED
      BY <1>2, <2>1, <3>2, <3>4, <3>5 DEF Link!LinkNext, Link!Submit, shares
  <2> QED
    BY <2>2, <2>3
<1>5. CASE UNCHANGED <<seen, channel>>
  <2>1. UNCHANGED Number(seen[c], c) /\ UNCHANGED shares
    BY <1>5 DEF Number
  <2> QED
    BY <1>2, <2>1 DEF Link!linkVars
<1> QED
  BY <1>3, <1>4, <1>5 DEF WorkerStep, GpuStarts, Find, SearchFails, SendError

\* `main` with all its rounds is as many connections, side by side, each of which does
\* what it promises, with workers of any age around it.
THEOREM LinksImplement == SafetySpec => ImplementsLinks
<1>1. Init => LinksOK /\ \A c \in Conn : Link(c)!LinkInit
  <2> SUFFICES ASSUME Init PROVE LinksOK /\ \A c \in Conn : Link(c)!LinkInit
    OBVIOUS
  <2>1. LinksOK
    BY DEF Init, LinksOK
  <2>2. ASSUME NEW c \in Conn PROVE Link(c)!LinkInit
    <3>1. c[1] > round /\ round = 0 /\ c \notin open
      BY Connections DEF Init
    <3>2. Phase(c) = "new"
      BY <3>1, Connections DEF Phase
    <3>3. slot[c] = NoJob /\ seen[c] = NoJob /\ channel[c] = <<>>
      BY DEF Init
    <3>4. Number(slot[c], c) = 0 /\ Number(seen[c], c) = 0
      BY <3>3 DEF Number
    <3>5. [k \in DOMAIN channel[c] |-> Number(channel[c][k], c)] = <<>>
      BY <3>3
    <3> QED
      BY <3>2, <3>4, <3>5 DEF Link!LinkInit
  <2> QED
    BY <2>1, <2>2
<1>2. IInv /\ LinksOK /\ [Next]_vars => \A c \in Conn : [Link(c)!LinkNext]_(Link(c)!linkVars)
  <2> SUFFICES ASSUME IInv, LinksOK, [Next]_vars, NEW c \in Conn
               PROVE  [Link(c)!LinkNext]_(Link(c)!linkVars)
    OBVIOUS
  <2>1. CASE UNCHANGED vars
    <3>1. UNCHANGED <<round, at, open, slot, seen, channel>>
      BY <2>1 DEF vars, loopVars, workerVars
    <3>2. /\ UNCHANGED Phase(c) /\ UNCHANGED Number(slot[c], c) /\ UNCHANGED Number(seen[c], c)
          /\ UNCHANGED [k \in DOMAIN channel[c] |-> Number(channel[c][k], c)]
      BY <3>1 DEF Phase, Number
    <3> QED
      BY <3>2 DEF Link!linkVars
  <2> QED
    BY <2>1, LoopLink, ListenerLink, WorkerLink DEF Next
<1> QED
  BY <1>1, <1>2, NextLinks, Invariance, PTL DEF SafetySpec, ImplementsLinks
=============================================================================
