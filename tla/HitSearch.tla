------------------------------- MODULE HitSearch -------------------------------
(***************************************************************************)
(* What a GPU promises the rest of the miner: a batch of new nonces is     *)
(* searched in one step, and what the caller then hands on, hit by hit, is *)
(* found in that batch and checked.  There are no kernels, buffers, queues *)
(* or backends here; GpuSearch.tla is the code that implements it.         *)
(*                                                                         *)
(* The device may spoil slots while it searches.  Each may cost one nonce, *)
(* and may bring one hit that stands for no nonce (its nonce is 0).        *)
(***************************************************************************)
EXTENDS Naturals, Sequences, FiniteSets

CONSTANTS Job,    \* templates or jobs
          Nonces  \* those that may be searched, positive numbers

VARIABLES
  solo,    \* the caller: solo mining, or the scheduler of the pools
  phase,   \* "idle", "busy" with a batch, or "gone"
  job,     \* what the batch is for
  nonce,   \* the first that is in no batch so far
  good,    \* those of this batch that meet the target
  spoiled, \* slots spoiled in this batch
  hits,    \* what the caller has not looked at
  handed   \* what it has submitted of this batch

searchVars == <<solo, phase, job, nonce, good, spoiled, hits, handed>>

Hit == [nonce : {0} \union Nonces, meets : BOOLEAN]

SearchInit ==
  /\ solo \in BOOLEAN
  /\ phase = "idle"
  /\ job \in Job /\ nonce = 1 /\ good = {} /\ spoiled = 0
  /\ hits = <<>> /\ handed = <<>>

-----------------------------------------------------------------------------

\* The nonces that hits stand for, and the hits that stand for none
NoncesOf(s) == {s[k].nonce : k \in DOMAIN s} \ {0}
Strangers(s) == {k \in DOMAIN s : s[k].nonce = 0}

\* An answer has good nonces of the batch, in order and each once, and only
\* spoiled slots can make a difference to it.
Answers(s) ==
  /\ NoncesOf(s) \subseteq good
  /\ \A k, l \in DOMAIN s \ Strangers(s) : k < l => s[k].nonce < s[l].nonce
  /\ \A k \in DOMAIN s \ Strangers(s) : s[k].meets
  /\ Cardinality(good \ NoncesOf(s)) <= spoiled
  /\ Cardinality(Strangers(s)) <= spoiled

\* A batch of nonces that no earlier batch had, once all hits have been looked at
Begin ==
  /\ phase = "idle" /\ hits = <<>>
  /\ job' \in Job
  /\ good' \in SUBSET {n \in Nonces : n >= nonce}
  /\ spoiled' = 0 /\ handed' = <<>>
  /\ phase' = "busy"
  /\ UNCHANGED <<solo, nonce, hits>>

Spoil ==
  /\ phase = "busy"
  /\ spoiled' = spoiled + 1
  /\ UNCHANGED <<solo, phase, job, nonce, good, hits, handed>>

\* `search` returns.
Answer ==
  /\ phase = "busy"
  /\ hits' \in Seq(Hit) /\ Answers(hits')
  /\ nonce' > nonce /\ \A n \in good : n < nonce'
  /\ phase' = "idle"
  /\ UNCHANGED <<solo, job, good, spoiled, handed>>

\* The caller looks at the next hit, in solo mining at the first only, and
\* submits it if it meets the target on the CPU.
HandOn ==
  /\ phase = "idle" /\ hits # <<>>
  /\ hits' = IF solo THEN <<>> ELSE Tail(hits)
  /\ handed' = IF Head(hits).meets THEN Append(handed, Head(hits)) ELSE handed
  /\ UNCHANGED <<solo, phase, job, nonce, good, spoiled>>

\* The worker ends, at any time.
Stop ==
  /\ phase # "gone"
  /\ phase' = "gone"
  /\ UNCHANGED <<solo, job, nonce, good, spoiled, hits, handed>>

SearchNext == Begin \/ Spoil \/ Answer \/ HandOn \/ Stop

SearchSafety == SearchInit /\ [][SearchNext]_searchVars
==============================================================================
