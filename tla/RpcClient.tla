------------------------------ MODULE RpcClient ------------------------------
(***************************************************************************)
(* The solo side of the network: `VelkardHandler` (client.rs) and the loop *)
(* of `main` that connects it, as a client of one Velkar node.             *)
(*                                                                         *)
(* Requests leave through a bounded channel that nobody empties until the  *)
(* stream to the node is open.  Every block template request names a       *)
(* payee: the miner, or the project (the devfee).  The node is external:   *)
(* it takes requests in order, answers template requests in order with any *)
(* answer it likes, and announces new templates once asked to.             *)
(***************************************************************************)
EXTENDS Naturals, Sequences

CONSTANTS Capacity,             \* of the channel: `mpsc::channel(3)`
          Window, Share,        \* devfee: 10_000 and `devfund_percent`
          MineWhenNotSynced,    \* the command line option
          Gpu,                  \* a GPU backend is enabled
          MaxRequests,          \* bound: template requests, all connections
          MaxConnections        \* bound: connections

ASSUME CapacityAssumption == Capacity \in Nat \ {0}
ASSUME FeeAssumption == Window \in 1..2^16 /\ Share \in 0..(Window - 1)
ASSUME OptionsAssumption == MineWhenNotSynced \in BOOLEAN /\ Gpu \in BOOLEAN
ASSUME BoundsAssumption == MaxRequests \in Nat /\ MaxConnections \in Nat

VARIABLES
  phase,        \* where `main`'s task is
  connections,  \* how many times it has connected
  channel,      \* `send_channel`, a queue of requests
  registered,   \* the node has been asked for notifications
  owed,         \* payees of the template requests the node has to answer
  ctr,          \* `block_template_ctr`
  isSynced,     \* `MinerManager::is_synced`
  mining,       \* the template the workers have: its payee, or NoWork
  answer,       \* history: what the node said last about being synced
  counted,      \* history: template requests chosen by `ctr`, all connections
  fees          \* history: those of this connection that pay the project

netVars == <<channel, registered, owed>>
minerVars == <<isSynced, mining, answer>>
feeVars == <<ctr, counted, fees>>
vars == <<phase, connections, netVars, minerVars, feeVars>>

Payee == {"miner", "project"}
NoWork == "none"
Info == "info"
Notify == "notify"
Request == Payee \union {Info, Notify}

Phase == {"down", "info", "first", "open", "notify", "second", "listen", "request", "ended"}

\* Every variable stays in its set: `send_channel` never holds more than Capacity
\* requests, and every request it holds is one the node understands.
TypeOK ==
  /\ phase \in Phase
  /\ connections \in 0..MaxConnections
  /\ channel \in Seq(Request) /\ Len(channel) <= Capacity
  /\ registered \in BOOLEAN
  /\ owed \in Seq(Payee)
  /\ ctr \in 0..MaxRequests
  /\ isSynced \in BOOLEAN
  /\ mining \in Payee \union {NoWork}
  /\ answer \in {"none", "synced", "unsynced"}
  /\ counted \in 0..MaxRequests
  /\ fees \in 0..MaxRequests

Init ==
  /\ phase = "down"
  /\ connections = 0
  /\ channel = <<>>
  /\ registered = FALSE
  /\ owed = <<>>
  /\ ctr = 0
  /\ isSynced = TRUE
  /\ mining = NoWork
  /\ answer = "none"
  /\ counted = 0
  /\ fees = 0

\* `main`: either GPU option turns the option on.
MineUnsynced == MineWhenNotSynced \/ Gpu

-----------------------------------------------------------------------------
(* Mistakes that the properties at the end of the module must reject       *)

\* A channel whose bound is not respected
PutWithoutSlot(request) == channel' = Append(channel, request)

\* `send_channel.send(..).await` waits for a slot.
Put(request) ==
  /\ Len(channel) < Capacity
  /\ channel' = Append(channel, request)

\* `connect` that sends the requests of `main` too, before opening the stream
SendAllThenOpen ==
  /\ phase = "open"
  /\ Len(channel) < Capacity - 1
  /\ phase' = "notify"
  /\ UNCHANGED <<connections, netVars, minerVars, feeVars>>

\* `process_block` that does not note that the node is synced again
ProcessBlockForgetting(payee) ==
  /\ mining' = payee
  /\ UNCHANGED isSynced

\* A counter that is not advanced
RequestNextForgetting(from, to) ==
  LET payee == IF ctr % Window <= Share THEN "project" ELSE "miner"
  IN  /\ phase = from
      /\ counted < MaxRequests
      /\ Put(payee)
      /\ counted' = counted + 1
      /\ fees' = IF payee = "project" THEN fees + 1 ELSE fees
      /\ phase' = to
      /\ UNCHANGED <<connections, registered, owed, minerVars, ctr>>

-----------------------------------------------------------------------------
(* `connect`, and what `main` does before it listens                       *)

\* A new connection has a channel, a counter and a `MinerManager` of its own.
Connect ==
  /\ phase = "down"
  /\ connections < MaxConnections
  /\ counted < MaxRequests
  /\ connections' = connections + 1
  /\ channel' = <<>>
  /\ owed' = <<>>
  /\ registered' = FALSE
  /\ ctr' = 0
  /\ fees' = 0
  /\ isSynced' = TRUE
  /\ mining' = NoWork
  /\ answer' = "none"
  /\ phase' = "info"
  /\ UNCHANGED counted

SendInfo ==
  /\ phase = "info"
  /\ Put(Info)
  /\ phase' = "first"
  /\ UNCHANGED <<connections, registered, owed, minerVars, feeVars>>

\* The first template request pays the miner and is not counted.
SendFirstRequest ==
  /\ phase = "first"
  /\ Put("miner")
  /\ phase' = "open"
  /\ UNCHANGED <<connections, registered, owed, minerVars, feeVars>>

\* `message_stream`: from here on the node takes requests out of the channel.
OpenStream ==
  /\ phase = "open"
  /\ phase' = "notify"
  /\ UNCHANGED <<connections, netVars, minerVars, feeVars>>

SendNotify ==
  /\ phase = "notify"
  /\ Put(Notify)
  /\ phase' = "second"
  /\ UNCHANGED <<connections, registered, owed, minerVars, feeVars>>

\* `client_get_block_template`, with the devfee comparison as it is written
RequestNext(from, to) ==
  LET payee == IF ctr % Window <= Share THEN "project" ELSE "miner"
  IN  /\ phase = from
      /\ counted < MaxRequests
      /\ Put(payee)
      /\ ctr' = ctr + 1
      /\ counted' = counted + 1
      /\ fees' = IF payee = "project" THEN fees + 1 ELSE fees
      /\ phase' = to
      /\ UNCHANGED <<connections, registered, owed, minerVars>>

-----------------------------------------------------------------------------
(* The node                                                                *)

Streaming == phase \in {"notify", "second", "listen", "request"}

\* The node takes the next request.
NodeTakes ==
  /\ Streaming
  /\ channel # <<>>
  /\ channel' = Tail(channel)
  /\ registered' = (registered \/ Head(channel) = Notify)
  /\ owed' = IF Head(channel) \in Payee THEN Append(owed, Head(channel)) ELSE owed
  /\ UNCHANGED <<phase, connections, minerVars, feeVars>>

-----------------------------------------------------------------------------
(* `listen` and `handle_message`                                           *)

\* `NewBlockTemplateNotification`: the listener goes to ask for the template.
Notification ==
  /\ phase = "listen"
  /\ registered
  /\ counted < MaxRequests
  /\ phase' = "request"
  /\ UNCHANGED <<connections, netVars, minerVars, feeVars>>

\* `process_block(Some(b))`
ProcessBlock(payee) ==
  /\ isSynced' = TRUE
  /\ mining' = payee

\* `process_block(None)`: nothing to withdraw twice
WithdrawWork ==
  /\ isSynced' = FALSE
  /\ mining' = IF isSynced THEN NoWork ELSE mining

\* `GetBlockTemplateResponse`, by (block, is_synced, error)
TemplateAnswer ==
  /\ phase = "listen"
  /\ owed # <<>>
  /\ owed' = Tail(owed)
  /\ \/ answer' = "synced" /\ ProcessBlock(Head(owed))
     \/ answer' = "unsynced" /\ MineUnsynced /\ ProcessBlock(Head(owed))
     \/ answer' = "unsynced" /\ WithdrawWork  \* with no block, or no option
     \/ UNCHANGED minerVars                   \* an error, or no block
  /\ UNCHANGED <<phase, connections, channel, registered, feeVars>>

\* The stream ends, and `main` tries again; or an `Err` (of the connection, of
\* a send, of a template that `State::new` refuses) ends the program.
Disconnect ==
  /\ phase \notin {"down", "ended"}
  /\ phase' = IF phase = "listen" THEN "down" ELSE "ended"
  /\ UNCHANGED <<connections, netVars, minerVars, feeVars>>

Fail ==
  /\ phase = "listen"
  /\ phase' = "ended"
  /\ UNCHANGED <<connections, netVars, minerVars, feeVars>>

-----------------------------------------------------------------------------

Next ==
  \/ Connect \/ SendInfo \/ SendFirstRequest \/ OpenStream \/ SendNotify
  \/ RequestNext("second", "listen") \/ RequestNext("request", "listen")
  \/ NodeTakes \/ Notification \/ TemplateAnswer \/ Disconnect \/ Fail

\* The task runs and the node reads its requests.  The node need not answer.
Fairness ==
  /\ WF_vars(SendInfo)
  /\ WF_vars(SendFirstRequest)
  /\ WF_vars(OpenStream)
  /\ WF_vars(SendNotify)
  /\ WF_vars(RequestNext("second", "listen"))
  /\ WF_vars(RequestNext("request", "listen"))
  /\ WF_vars(NodeTakes)

SafetySpec == Init /\ [][Next]_vars

Spec == SafetySpec /\ Fairness

-----------------------------------------------------------------------------
(* Properties                                                              *)

\* `connect` sends two requests before anybody reads the channel, and `main`
\* two more: the task is never stuck on the bound of the channel.
SendsComplete ==
  phase \in {"info", "request"} ~> phase \in {"listen", "down", "ended"}

\* Work given out by a node that is synced is withdrawn once the node says it
\* no longer is, however often it says so, unless the option, or a GPU, which
\* turns it on, asks otherwise. "Mine even when velkard says it is not synced"
\* (cli.rs) is the option's documentation.
UnsyncedMeansNoWork ==
  answer = "unsynced" /\ ~MineUnsynced => mining = NoWork

\* On one connection, at most Share + 1 of each Window counted requests pay
\* the project.
FeePerConnection == fees <= (Share + 1) * (ctr \div Window + 1)
==============================================================================
