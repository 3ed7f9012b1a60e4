------------------------------- MODULE PoolLink -------------------------------
(***************************************************************************)
(* What one connection promises the pool at its other end, and the node of *)
(* solo mining as well: its jobs reach the workers, who return shares of   *)
(* them, of no others, over this connection alone, and in the order in     *)
(* which they were found; and once it is over it does not come back.       *)
(*                                                                         *)
(* StratumSession is the handler of a connection, StratumMiner the CPU     *)
(* threads behind one, StratumGpu the GPU thread behind two, and           *)
(* Supervisor has all connections of a run of the program.  Each of them   *)
(* implements this module.                                                 *)
(***************************************************************************)
EXTENDS Naturals, Sequences

CONSTANT Worker  \* the threads that mine for this connection

VARIABLES phase,  \* "new", "open" or "over": whether its channel of shares is there
          job,    \* the number of the job it brought last, 0 if none
          work,   \* that of the job each worker has
          channel \* those of the shares that have not been received

linkVars == <<phase, job, work, channel>>

LinkInit ==
  /\ phase \in {"new", "open"}
  /\ job = 0
  /\ work = [w \in Worker |-> 0]
  /\ channel = <<>>

-----------------------------------------------------------------------------

Open ==
  /\ phase = "new"
  /\ phase' = "open"
  /\ UNCHANGED <<job, work, channel>>

\* It ends, or never comes about.
Close ==
  /\ phase # "over"
  /\ phase' = "over"
  /\ UNCHANGED <<job, work, channel>>

\* A job replaces those before it.
Announce ==
  /\ phase = "open"
  /\ job' \in Nat /\ job' > job
  /\ UNCHANGED <<phase, work, channel>>

\* A worker takes the job, even of a connection that is over by now ...
Take(w) ==
  /\ work' = [work EXCEPT ![w] = job]
  /\ UNCHANGED <<phase, job, channel>>

\* ... and returns shares of it, however many.
Submit(w) ==
  /\ phase = "open"
  /\ work[w] # 0
  /\ channel' = Append(channel, work[w])
  /\ UNCHANGED <<phase, job, work>>

\* The listener receives a share.
Receive ==
  /\ phase = "open"
  /\ channel # <<>>
  /\ channel' = Tail(channel)
  /\ UNCHANGED <<phase, job, work>>

LinkNext ==
  \/ Open \/ Close \/ Announce \/ Receive
  \/ \E w \in Worker : Take(w) \/ Submit(w)

LinkSafety == LinkInit /\ [][LinkNext]_linkVars
==============================================================================
