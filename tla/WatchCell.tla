------------------------------ MODULE WatchCell ------------------------------
(***************************************************************************)
(* What `WatchSwap<T>` (swap_rust.rs) promises to its users: one shared    *)
(* cell, and handles that each remember the value they saw last.           *)
(*                                                                         *)
(* A value is the address of its `Arc`, so it is a number that is never    *)
(* used twice; Empty stands for `None`.  Two `None`s cannot be told apart, *)
(* and the code does not tell them apart either (pointer comparison).      *)
(*                                                                         *)
(* The managers and the workers of the miner are composed with this        *)
(* module; WatchSwap.tla is the mutex and condition variable code that     *)
(* implements it.                                                          *)
(***************************************************************************)
EXTENDS Naturals

CONSTANTS Handle,   \* the clones of one WatchSwap, one per thread
          Value     \* the values that may be published, positive numbers

Empty == 0          \* `None`, the null pointer

VARIABLES cell,      \* `shared.inner`
          published, \* the largest pointer ever stored: the next one is fresh
          cached,    \* `cached` of every handle
          waiting    \* handles inside `wait_for_change`

cellVars == <<cell, published, cached, waiting>>

CellTypeOK ==
  /\ cell \in Empty..published
  /\ published \in Nat
  /\ cached \in [Handle -> Empty..published]
  /\ waiting \subseteq Handle

CellInit ==
  /\ cell = Empty
  /\ published = Empty
  /\ cached = [h \in Handle |-> Empty]
  /\ waiting = {}

-----------------------------------------------------------------------------

\* A pointer comparison: does the handle's value differ from the cell's?
Stale(h) == cached[h] # cell

\* `swap(Some(..))`: a freshly allocated value becomes the current one.
PublishSome(v) ==
  /\ v > published
  /\ cell' = v
  /\ published' = v
  /\ UNCHANGED <<cached, waiting>>

\* `swap(None)`
PublishNone ==
  /\ cell' = Empty
  /\ UNCHANGED <<published, cached, waiting>>

\* `get_changed()` that finds a change; one that finds none changes nothing.
Poll(h) ==
  /\ h \notin waiting
  /\ Stale(h)
  /\ cached' = [cached EXCEPT ![h] = cell]
  /\ UNCHANGED <<cell, published, waiting>>

\* `clone()`: the handle h starts with what the handle `from` has seen.
Clone(h, from) ==
  /\ {h, from} \cap waiting = {}
  /\ cached' = [cached EXCEPT ![h] = cached[from]]
  /\ UNCHANGED <<cell, published, waiting>>

\* `wait_for_change()` is called ...
BeginWait(h) ==
  /\ h \notin waiting
  /\ waiting' = waiting \union {h}
  /\ UNCHANGED <<cell, published, cached>>

\* ... and returns, only ever with a value other than the one last seen.
EndWait(h) ==
  /\ h \in waiting
  /\ Stale(h)
  /\ cached' = [cached EXCEPT ![h] = cell]
  /\ waiting' = waiting \ {h}
  /\ UNCHANGED <<cell, published>>

CellNext ==
  \/ \E v \in Value : PublishSome(v)
  \/ PublishNone
  \/ \E h \in Handle : Poll(h) \/ BeginWait(h) \/ EndWait(h)
  \/ \E h, from \in Handle : Clone(h, from)

CellSafety == CellInit /\ [][CellNext]_cellVars

\* A wait that has something to return, and keeps having it, returns.
CellFairness == \A h \in Handle : WF_cellVars(EndWait(h))

CellSpec == CellSafety /\ CellFairness
==============================================================================
