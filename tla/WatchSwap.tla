------------------------------ MODULE WatchSwap ------------------------------
(***************************************************************************)
(* The synchronisation inside `WatchSwap<T>` (swap_rust.rs): an atomic     *)
(* pointer, a mutex that guards no data, and a condition variable.  `swap` *)
(* stores the pointer first and takes the mutex afterwards, only to notify *)
(* (`wake_up_threads`); `wait_for_change` compares and goes to sleep under *)
(* the mutex.  Wakeups may be spurious.                                    *)
(***************************************************************************)
EXTENDS Naturals

CONSTANTS Writer,   \* threads that call `swap`
          Reader,   \* handles on which the other operations are called
          Root,     \* the first handle
          Free,     \* the mutex has no owner
          MaxSwaps  \* bound: how many `swap(Some(..))` calls

ASSUME ReaderAssumption == Root \in Reader
ASSUME ThreadsAssumption == Writer \cap Reader = {} /\ Free \notin Writer \union Reader
ASSUME MaxSwapsAssumption == MaxSwaps \in Nat

VARIABLES cell, published, cached, live,
          mutex,    \* owner of `wait_mutex`
          wpc,      \* where each writer is in `swap`
          rpc       \* where each reader is in `wait_for_change`

vars == <<cell, published, cached, live, mutex, wpc, rpc>>

Empty == 0

WriterPC == {"idle", "swapped", "holding", "notified"}
ReaderPC == {"idle", "lock", "check", "park", "asleep"}

\* Every variable stays in its set: the mutex has one owner at most, and no
\* handle has seen a pointer that has not been stored yet.
TypeOK ==
  /\ published \in 0..MaxSwaps
  /\ cell \in Empty..published
  /\ cached \in [Reader -> Empty..published]
  /\ live \in SUBSET Reader
  /\ mutex \in Writer \union Reader \union {Free}
  /\ wpc \in [Writer -> WriterPC]
  /\ rpc \in [Reader -> ReaderPC]

\* `empty()`
Init ==
  /\ cell = Empty
  /\ published = Empty
  /\ cached = [r \in Reader |-> Empty]
  /\ live = {Root}
  /\ mutex = Free
  /\ wpc = [w \in Writer |-> "idle"]
  /\ rpc = [r \in Reader |-> "idle"]

-----------------------------------------------------------------------------
(* Mistakes that the properties at the end of the module must reject       *)

\* The new value has the address of an old one.
SwapSomeReusingAddress(w) ==
  /\ wpc[w] = "idle"
  /\ published < MaxSwaps
  /\ cell' = published + 1
  /\ wpc' = [wpc EXCEPT ![w] = "swapped"]
  /\ UNCHANGED <<published, cached, live, mutex, rpc>>

\* `wake_up_threads` without its lock
NotifyWithoutLock(w) ==
  /\ wpc[w] = "swapped"
  /\ wpc' = [wpc EXCEPT ![w] = "holding"]
  /\ UNCHANGED <<cell, published, cached, live, mutex, rpc>>

\* `notify_one` for `notify_all`
NotifyOne(w) ==
  /\ wpc[w] = "holding"
  /\ wpc' = [wpc EXCEPT ![w] = "notified"]
  /\ IF \E r \in Reader : rpc[r] = "asleep"
       THEN \E r \in Reader : rpc[r] = "asleep" /\ rpc' = [rpc EXCEPT ![r] = "lock"]
       ELSE rpc' = rpc
  /\ UNCHANGED <<cell, published, cached, live, mutex>>

-----------------------------------------------------------------------------
(* swap                                                                    *)

\* `shared.inner.swap(..)` with a new allocation, before any lock is taken
SwapSome(w) ==
  /\ wpc[w] = "idle"
  /\ published < MaxSwaps
  /\ published' = published + 1
  /\ cell' = published + 1
  /\ wpc' = [wpc EXCEPT ![w] = "swapped"]
  /\ UNCHANGED <<cached, live, mutex, rpc>>

SwapNone(w) ==
  /\ wpc[w] = "idle"
  /\ cell' = Empty
  /\ wpc' = [wpc EXCEPT ![w] = "swapped"]
  /\ UNCHANGED <<published, cached, live, mutex, rpc>>

\* `wake_up_threads`: `wait_mutex.lock()` ...
LockToNotify(w) ==
  /\ wpc[w] = "swapped"
  /\ mutex = Free
  /\ mutex' = w
  /\ wpc' = [wpc EXCEPT ![w] = "holding"]
  /\ UNCHANGED <<cell, published, cached, live, rpc>>

\* ... `wait_cv.notify_all()`: every sleeper goes to re-acquire the mutex ...
NotifyAll(w) ==
  /\ wpc[w] = "holding"
  /\ rpc' = [r \in Reader |-> IF rpc[r] = "asleep" THEN "lock" ELSE rpc[r]]
  /\ wpc' = [wpc EXCEPT ![w] = "notified"]
  /\ UNCHANGED <<cell, published, cached, live, mutex>>

\* ... and `_lock` is dropped at the end of the function.
UnlockAfterNotify(w) ==
  /\ wpc[w] = "notified"
  /\ mutex' = Free
  /\ wpc' = [wpc EXCEPT ![w] = "idle"]
  /\ UNCHANGED <<cell, published, cached, live, rpc>>

-----------------------------------------------------------------------------
(* get_changed, clone, wait_for_change                                     *)

\* The pointer comparison of `get_changed_inner`
Stale(r) == cached[r] # cell

\* `get_changed` takes no lock.
GetChanged(r) ==
  /\ r \in live
  /\ rpc[r] = "idle"
  /\ Stale(r)
  /\ cached' = [cached EXCEPT ![r] = cell]
  /\ UNCHANGED <<cell, published, live, mutex, wpc, rpc>>

CloneHandle(r, from) ==
  /\ from \in live
  /\ rpc[from] = "idle"
  /\ r \notin live
  /\ live' = live \union {r}
  /\ cached' = [cached EXCEPT ![r] = cached[from]]
  /\ UNCHANGED <<cell, published, mutex, wpc, rpc>>

\* The call of `wait_for_change`: from now on it wants the mutex.
CallWait(r) ==
  /\ r \in live
  /\ rpc[r] = "idle"
  /\ rpc' = [rpc EXCEPT ![r] = "lock"]
  /\ UNCHANGED <<cell, published, cached, live, mutex, wpc>>

\* First acquisition, and the one on the way out of `wait_cv.wait`
LockToCheck(r) ==
  /\ rpc[r] = "lock"
  /\ mutex = Free
  /\ mutex' = r
  /\ rpc' = [rpc EXCEPT ![r] = "check"]
  /\ UNCHANGED <<cell, published, cached, live, wpc>>

\* `get_changed_inner` under the mutex finds a change: return, guard dropped.
ReturnChanged(r) ==
  /\ rpc[r] = "check"
  /\ Stale(r)
  /\ cached' = [cached EXCEPT ![r] = cell]
  /\ mutex' = Free
  /\ rpc' = [rpc EXCEPT ![r] = "idle"]
  /\ UNCHANGED <<cell, published, live, wpc>>

\* It finds none: the thread is about to wait, but not in the wait set yet.
FindUnchanged(r) ==
  /\ rpc[r] = "check"
  /\ ~Stale(r)
  /\ rpc' = [rpc EXCEPT ![r] = "park"]
  /\ UNCHANGED <<cell, published, cached, live, mutex, wpc>>

\* `wait_cv.wait(guard)` releases the mutex and sleeps in one step.
Sleep(r) ==
  /\ rpc[r] = "park"
  /\ mutex' = Free
  /\ rpc' = [rpc EXCEPT ![r] = "asleep"]
  /\ UNCHANGED <<cell, published, cached, live, wpc>>

\* `wait` may return without a notification; the loop checks again.
SpuriousWakeup(r) ==
  /\ rpc[r] = "asleep"
  /\ rpc' = [rpc EXCEPT ![r] = "lock"]
  /\ UNCHANGED <<cell, published, cached, live, mutex, wpc>>

-----------------------------------------------------------------------------

WriterStep(w) ==
  \/ SwapSome(w) \/ SwapNone(w)
  \/ LockToNotify(w) \/ NotifyAll(w) \/ UnlockAfterNotify(w)

ReaderStep(r) ==
  \/ GetChanged(r) \/ CallWait(r)
  \/ LockToCheck(r) \/ ReturnChanged(r) \/ FindUnchanged(r)
  \/ Sleep(r) \/ SpuriousWakeup(r)

Next ==
  \/ \E w \in Writer : WriterStep(w)
  \/ \E r \in Reader : ReaderStep(r)
  \/ \E r, from \in Reader : CloneHandle(r, from)

\* Nothing makes a thread call an operation or wakes it spuriously, but a
\* thread inside one is scheduled, and a mutex that is released again and
\* again is eventually acquired.
Fairness ==
  /\ \A w \in Writer : /\ SF_vars(LockToNotify(w))
                       /\ WF_vars(NotifyAll(w))
                       /\ WF_vars(UnlockAfterNotify(w))
  /\ \A r \in Reader : /\ SF_vars(LockToCheck(r))
                       /\ WF_vars(ReturnChanged(r))
                       /\ WF_vars(FindUnchanged(r))
                       /\ WF_vars(Sleep(r))

SafetySpec == Init /\ [][Next]_vars

Spec == SafetySpec /\ Fairness

-----------------------------------------------------------------------------
(* Properties                                                              *)

\* A thread asleep in `wait_for_change` although the cell has changed has not
\* missed its wakeup: some `swap` that has stored its value has yet to call
\* `notify_all`.  This is what the lock in `wake_up_threads` ("Make sure no
\* receiver is almost waiting") is for.
NoLostWakeup ==
  \A r \in Reader :
    rpc[r] = "asleep" /\ Stale(r) =>
      \E w \in Writer : wpc[w] \in {"swapped", "holding"}

\* The mutex is held by exactly the thread that is in a critical section.
MutexOK ==
  /\ \A w \in Writer : wpc[w] \in {"holding", "notified"} <=> mutex = w
  /\ \A r \in Reader : rpc[r] \in {"check", "park"} <=> mutex = r

\* Only handles that exist are waited on.
LiveOK == \A r \in Reader : rpc[r] # "idle" => r \in live

\* A thread that is about to sleep on a value that has changed since it
\* compared holds the mutex, so the writer is still before its own lock.
ParkOK ==
  \A r \in Reader :
    rpc[r] = "park" /\ Stale(r) => \E w \in Writer : wpc[w] = "swapped"

\* The inductive invariant behind NoLostWakeup
IInv == TypeOK /\ MutexOK /\ LiveOK /\ ParkOK /\ NoLostWakeup

\* The threads inside `wait_for_change`, wherever they are in it
Waiting == {r \in Reader : rpc[r] # "idle"}

Cell == INSTANCE WatchCell WITH Handle <- Reader, Value <- 1..MaxSwaps, waiting <- Waiting

\* The mutex and condition variable code implements the abstract cell: no
\* operation sees or returns anything the cell would not, `wait_for_change`
\* returns only a change, and it does return when there is one to return.
ImplementsCell == Cell!CellSpec

\* The safety part of ImplementsCell
ImplementsCellSafety == Cell!CellSafety
==============================================================================
