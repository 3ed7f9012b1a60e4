--------------------------- MODULE StratumSession ----------------------------
(***************************************************************************)
(* One pool connection: `StratumHandler` (stratum.rs) with its listener,   *)
(* its writer task and the two bounded channels between them, the job slot *)
(* that it feeds and one worker that takes jobs from it and finds shares.  *)
(*                                                                         *)
(* The pool is external: it sends lines in any order and with any content. *)
(* A line is what its text means to `handle_line`.  Two difficulties that  *)
(* differ have different targets, so a difficulty stands for its target;   *)
(* an extranonce stands for the mask and the fixed bits computed from it   *)
(* (NonceSpace), and Whole for those of a new handler.                     *)
(***************************************************************************)
EXTENDS Naturals, Sequences

CONSTANTS Extranonce,   \* what the pool assigns
          Difficulty,   \* difficulties that have a target
          OwnTarget,    \* share targets that a job may carry itself
          Whole, Garbled, Absent,
          SubmitSlots, WriterSlots,  \* of the two channels
          MaxLines,     \* bound: lines the pool sends
          MaxShares     \* bound: shares the worker finds

ASSUME MarkersAssumption ==
  /\ Whole \notin Extranonce
  /\ Garbled \notin Difficulty \union OwnTarget
  /\ Absent \notin Difficulty \union OwnTarget \union {Garbled}
ASSUME SlotsAssumption == SubmitSlots \in Nat \ {0} /\ WriterSlots \in Nat \ {0, 1}
ASSUME BoundsAssumption == MaxLines \in Nat /\ MaxShares \in Nat

VARIABLES
  lines,             \* what the pool has sent and the listener has not read
  announced,         \* history: what the pool meant by each of its jobs
  poolExtranonce,    \* history: the extranonce it sent last, ...
  poolDifficulty,    \* ... and the difficulty
  sent,              \* lines the pool has sent so far
  nonceSpace,        \* `nonce_mask` and `nonce_fixed`
  currentDifficulty, \* `current_difficulty`
  slot,              \* the job in the manager's slot
  work,              \* the worker's clone of it
  found,             \* shares it has found
  submit,            \* `submit_tx`/`submit_rx`, a queue of shares
  writer,            \* `writer_tx`/`writer_rx`, a queue of requests
  writing,           \* the writer task runs
  lpc,               \* the listener: at its `select!`, sending, or how it ended
  inHand             \* the share it is sending

poolVars == <<announced, poolExtranonce, poolDifficulty, sent>>
handlerVars == <<nonceSpace, currentDifficulty>>
workVars == <<work, found>>
channelVars == <<submit, writer, writing>>
listenVars == <<lpc, inHand>>
vars == <<lines, poolVars, handlerVars, slot, workVars, channelVars, listenVars>>

NoJob == [id |-> 0, space |-> Whole, target |-> Absent]
NoShare == NoJob  \* `mining.subscribe` or `mining.authorize`

ShareTarget == Difficulty \union OwnTarget
NonceSpaces == Extranonce \union {Whole}
Job == [id : 1..MaxLines, space : NonceSpaces, target : ShareTarget]
\* What the pool meant by a job, and the difficulty that is in force when the
\* handler, which reads the lines in order, comes to it
Announcement ==
  [space : NonceSpaces,
   target : ShareTarget \union {Garbled, Absent},
   difficulty : Difficulty \union {Garbled, Absent}]
Line ==
  [kind : {"difficulty"}, value : Difficulty \union {Garbled}]
    \union [kind : {"extranonce"}, value : Extranonce]
    \union [kind : {"notify"}, value : OwnTarget \union {Absent}, id : 1..MaxLines]
    \union [kind : {"other", "malformed"}]

\* Every variable stays in its set: `submit_tx` and `writer_tx` never hold more
\* than their bounds, and what is in them is a share or a request.
TypeOK ==
  /\ lines \in Seq(Line)
  /\ announced \in Seq(Announcement)
  /\ poolExtranonce \in NonceSpaces
  /\ poolDifficulty \in Difficulty \union {Garbled, Absent}
  /\ sent \in 0..MaxLines
  /\ nonceSpace \in NonceSpaces
  /\ currentDifficulty \in Difficulty \union {Garbled, Absent}
  /\ slot \in Job \union {NoJob}
  /\ work \in Job \union {NoJob}
  /\ found \in 0..MaxShares
  /\ submit \in Seq(Job) /\ Len(submit) <= SubmitSlots
  /\ writer \in Seq(Job \union {NoShare}) /\ Len(writer) <= WriterSlots
  /\ writing \in BOOLEAN
  /\ lpc \in {"select", "sending", "eof", "error"}
  /\ inHand \in Job \union {NoJob}

\* `connect` has put its two requests in the writer's channel.
Init ==
  /\ lines = <<>>
  /\ announced = <<>>
  /\ poolExtranonce = Whole
  /\ poolDifficulty = Absent
  /\ sent = 0
  /\ nonceSpace = Whole
  /\ currentDifficulty = Absent
  /\ slot = NoJob
  /\ work = NoJob
  /\ found = 0
  /\ submit = <<>>
  /\ writer = <<NoShare, NoShare>>
  /\ writing = TRUE
  /\ lpc = "select"
  /\ inHand = NoJob

Listening == lpc \in {"select", "sending"}

-----------------------------------------------------------------------------
(* Mistakes that the properties at the end of the module must reject       *)

\* A send that is tried again although the writer is gone
SendAgain ==
  /\ lpc = "sending"
  /\ ~writing
  /\ UNCHANGED vars

\* A difficulty that is set once
KeepFirstDifficulty(difficulty) ==
  /\ currentDifficulty' = IF currentDifficulty = Absent THEN difficulty ELSE currentDifficulty
  /\ UNCHANGED <<nonceSpace, slot>>

\* Shares that jump the bound of their channel
SubmitAnyway ==
  /\ work # NoJob
  /\ found < MaxShares
  /\ found' = found + 1
  /\ submit' = Append(submit, work)
  /\ UNCHANGED <<lines, poolVars, handlerVars, slot, work, writer, writing, listenVars>>

\* A new extranonce that also goes into the job that the workers have
ApplyToRunningJob(space) ==
  /\ nonceSpace' = space
  /\ slot' = IF slot = NoJob THEN NoJob ELSE [slot EXCEPT !.space = space]
  /\ UNCHANGED currentDifficulty

-----------------------------------------------------------------------------
(* The pool                                                                *)

PoolSends(line) ==
  /\ sent < MaxLines
  /\ Listening
  /\ sent' = sent + 1
  /\ lines' = Append(lines, line)
  /\ UNCHANGED <<handlerVars, slot, workVars, channelVars, listenVars>>

\* `mining.set_difficulty`
PoolSetsDifficulty ==
  \E d \in Difficulty \union {Garbled} :
    /\ PoolSends([kind |-> "difficulty", value |-> d])
    /\ poolDifficulty' = d
    /\ UNCHANGED <<announced, poolExtranonce>>

\* `mining.set_extranonce`, or the answer to `mining.subscribe`
PoolSetsExtranonce ==
  \E x \in Extranonce :
    /\ PoolSends([kind |-> "extranonce", value |-> x])
    /\ poolExtranonce' = x
    /\ UNCHANGED <<announced, poolDifficulty>>

\* `mining.notify`, with or without a share target of the job's own
PoolNotifies ==
  \E own \in OwnTarget \union {Absent} :
    /\ PoolSends([kind |-> "notify", value |-> own, id |-> Len(announced) + 1])
    /\ announced' = Append(announced,
         [space |-> poolExtranonce,
          target |-> IF own = Absent THEN poolDifficulty ELSE own,
          difficulty |-> poolDifficulty])
    /\ UNCHANGED <<poolExtranonce, poolDifficulty>>

\* An answer to a share, or a line that is no JSON or lacks a parameter
PoolSendsElse ==
  \E kind \in {"other", "malformed"} :
    /\ PoolSends([kind |-> kind])
    /\ UNCHANGED <<announced, poolExtranonce, poolDifficulty>>

-----------------------------------------------------------------------------
(* `listen` and `handle_line`                                              *)

\* `set_extranonce` keeps what it computes for the jobs to come.
SetExtranonce(space) ==
  /\ nonceSpace' = space
  /\ UNCHANGED <<currentDifficulty, slot>>

\* `set_difficulty` keeps the text, whether it has a target or not.
SetDifficulty(difficulty) ==
  /\ currentDifficulty' = difficulty
  /\ UNCHANGED <<nonceSpace, slot>>

\* A job needs a difficulty that has a target, even if it has its own.
ChooseTarget(own) == IF own = Absent THEN currentDifficulty ELSE own

Notify(id, own) ==
  /\ slot' = IF currentDifficulty \in Difficulty
               THEN [id |-> id, space |-> nonceSpace, target |-> ChooseTarget(own)]
               ELSE slot
  /\ UNCHANGED handlerVars

HandleLine ==
  LET line == Head(lines)
  IN  /\ lpc = "select"
      /\ lines # <<>>
      /\ lines' = Tail(lines)
      /\ \/ line.kind = "extranonce" /\ SetExtranonce(line.value) /\ UNCHANGED lpc
         \/ line.kind = "difficulty" /\ SetDifficulty(line.value) /\ UNCHANGED lpc
         \/ line.kind = "notify" /\ Notify(line.id, line.value) /\ UNCHANGED lpc
         \/ line.kind = "other" /\ UNCHANGED <<handlerVars, slot, lpc>>
         \/ line.kind = "malformed" /\ lpc' = "error" /\ UNCHANGED <<handlerVars, slot>>
      /\ UNCHANGED <<poolVars, workVars, channelVars, inHand>>

\* A share from the worker; it is sent before anything else is read.
TakeShare ==
  /\ lpc = "select"
  /\ submit # <<>>
  /\ submit' = Tail(submit)
  /\ inHand' = Head(submit)
  /\ lpc' = "sending"
  /\ UNCHANGED <<lines, poolVars, handlerVars, slot, workVars, writer, writing>>

\* `send_command`, once the writer's channel has room ...
SendCommand ==
  /\ lpc = "sending"
  /\ writing
  /\ Len(writer) < WriterSlots
  /\ writer' = Append(writer, inHand)
  /\ inHand' = NoJob
  /\ lpc' = "select"
  /\ UNCHANGED <<lines, poolVars, handlerVars, slot, workVars, submit, writing>>

\* ... and with an error once the writer is gone.
SendCommandFails ==
  /\ lpc = "sending"
  /\ ~writing
  /\ lpc' = "error"
  /\ UNCHANGED <<lines, poolVars, handlerVars, slot, workVars, channelVars, inHand>>

\* The pool closes the connection, reading fails, or the program shuts down.
EndListen ==
  /\ lpc = "select"
  /\ lpc' \in {"eof", "error"}
  /\ UNCHANGED <<lines, poolVars, handlerVars, slot, workVars, channelVars, inHand>>

-----------------------------------------------------------------------------
(* The writer task of `connect`                                            *)

\* `write_all`, which waits until the pool has room
Write ==
  /\ writing
  /\ writer # <<>>
  /\ writer' = Tail(writer)
  /\ UNCHANGED <<lines, poolVars, handlerVars, slot, workVars, submit, writing, listenVars>>

\* A write fails: the task ends and what is in its channel is lost.
WriteFails ==
  /\ writing
  /\ writer # <<>>
  /\ writing' = FALSE
  /\ writer' = <<>>
  /\ UNCHANGED <<lines, poolVars, handlerVars, slot, workVars, submit, listenVars>>

-----------------------------------------------------------------------------
(* The worker: external here, see StratumMiner and StratumGpu              *)

TakeJob ==
  /\ slot # work
  /\ work' = slot
  /\ UNCHANGED <<lines, poolVars, handlerVars, slot, found, channelVars, listenVars>>

\* A nonce of the job's space that meets its target, and room for the share
SubmitShare ==
  /\ work # NoJob
  /\ found < MaxShares
  /\ Len(submit) < SubmitSlots
  /\ found' = found + 1
  /\ submit' = Append(submit, work)
  /\ UNCHANGED <<lines, poolVars, handlerVars, slot, work, writer, writing, listenVars>>

-----------------------------------------------------------------------------

Next ==
  \/ PoolSetsDifficulty \/ PoolSetsExtranonce \/ PoolNotifies \/ PoolSendsElse
  \/ HandleLine \/ TakeShare \/ SendCommand \/ SendCommandFails \/ EndListen
  \/ Write \/ WriteFails
  \/ TakeJob \/ SubmitShare

\* The tasks run, and the pool reads what is written to it.  `select!` picks
\* among the branches that are ready at random, so none is passed over for good.
Fairness ==
  /\ SF_vars(HandleLine)
  /\ SF_vars(TakeShare)
  /\ WF_vars(SendCommand)
  /\ WF_vars(SendCommandFails)
  /\ WF_vars(Write)

SafetySpec == Init /\ [][Next]_vars

Spec == SafetySpec /\ Fairness

-----------------------------------------------------------------------------
(* Properties                                                              *)

AsAnnounced(job) ==
  job # NoJob =>
    /\ announced[job.id].space = job.space
    /\ announced[job.id].target = job.target

\* Whatever the pool changes in the meantime, a job is worked on, and its
\* shares leave, with the extranonce and the target that the pool meant when
\* it announced the job: never a later extranonce, an earlier difficulty, or
\* the difficulty's target for a job that has its own.
SharesAsAnnounced ==
  /\ AsAnnounced(slot)
  /\ AsAnnounced(work)
  /\ AsAnnounced(inHand)
  /\ \A i \in 1..Len(submit) : AsAnnounced(submit[i])
  /\ \A i \in 1..Len(writer) : AsAnnounced(writer[i])

\* A job that the pool announced while the difficulty it had sent last has a
\* target, with a share target of its own or without, reaches the slot, or a
\* later one does, or the connection ends.  A difficulty without a target stops
\* the jobs, and the next one that has a target lets them through again.
Usable(n) == n <= Len(announced) /\ announced[n].difficulty \in Difficulty

JobsReachTheSlot ==
  \A n \in 1..MaxLines :
    Usable(n) ~> ((slot # NoJob /\ slot.id >= n) \/ ~Listening)

\* The listener does not stay in the sending of a share.
SendsComplete == lpc = "sending" ~> lpc # "sending"
==============================================================================
