--------------------------- MODULE WatchSwapProofs ---------------------------
(***************************************************************************)
(* Proofs about the synchronisation of `WatchSwap<T>`, for any number of   *)
(* threads and any bound: no wakeup is lost, and every step is a step of   *)
(* the abstract cell or changes nothing of it.                             *)
(***************************************************************************)
EXTENDS WatchSwap, TLAPS

\* `empty()` establishes the invariant.
LEMMA InitIInv == Init => IInv
BY ReaderAssumption, ThreadsAssumption, MaxSwapsAssumption
   DEF Init, IInv, TypeOK, MutexOK, LiveOK, ParkOK, NoLostWakeup,
       Empty, Stale, WriterPC, ReaderPC

\* Every line of `swap`, `wake_up_threads`, `get_changed`, `clone` and
\* `wait_for_change` preserves it.
LEMMA NextIInv == IInv /\ [Next]_vars => IInv'
<1> SUFFICES ASSUME IInv, [Next]_vars PROVE IInv'
  OBVIOUS
<1> USE ThreadsAssumption, MaxSwapsAssumption DEF IInv, TypeOK, WriterPC, ReaderPC, Empty
<1>1. ASSUME NEW w \in Writer, SwapSome(w) PROVE IInv'
  BY <1>1 DEF SwapSome, MutexOK, LiveOK, ParkOK, NoLostWakeup, Stale
<1>2. ASSUME NEW w \in Writer, SwapNone(w) PROVE IInv'
  BY <1>2 DEF SwapNone, MutexOK, LiveOK, ParkOK, NoLostWakeup, Stale
<1>3. ASSUME NEW w \in Writer, LockToNotify(w) PROVE IInv'
  BY <1>3 DEF LockToNotify, MutexOK, LiveOK, ParkOK, NoLostWakeup, Stale
<1>4. ASSUME NEW w \in Writer, NotifyAll(w) PROVE IInv'
  BY <1>4 DEF NotifyAll, MutexOK, LiveOK, ParkOK, NoLostWakeup, Stale
<1>5. ASSUME NEW w \in Writer, UnlockAfterNotify(w) PROVE IInv'
  BY <1>5 DEF UnlockAfterNotify, MutexOK, LiveOK, ParkOK, NoLostWakeup, Stale
<1>6. ASSUME NEW r \in Reader, GetChanged(r) PROVE IInv'
  BY <1>6 DEF GetChanged, MutexOK, LiveOK, ParkOK, NoLostWakeup, Stale
<1>7. ASSUME NEW r \in Reader, CallWait(r) PROVE IInv'
  BY <1>7 DEF CallWait, MutexOK, LiveOK, ParkOK, NoLostWakeup, Stale
<1>8. ASSUME NEW r \in Reader, LockToCheck(r) PROVE IInv'
  BY <1>8 DEF LockToCheck, MutexOK, LiveOK, ParkOK, NoLostWakeup, Stale
<1>9. ASSUME NEW r \in Reader, ReturnChanged(r) PROVE IInv'
  BY <1>9 DEF ReturnChanged, MutexOK, LiveOK, ParkOK, NoLostWakeup, Stale
<1>10. ASSUME NEW r \in Reader, FindUnchanged(r) PROVE IInv'
  BY <1>10 DEF FindUnchanged, MutexOK, LiveOK, ParkOK, NoLostWakeup, Stale
<1>11. ASSUME NEW r \in Reader, Sleep(r) PROVE IInv'
  BY <1>11 DEF Sleep, MutexOK, LiveOK, ParkOK, NoLostWakeup, Stale
<1>12. ASSUME NEW r \in Reader, SpuriousWakeup(r) PROVE IInv'
  BY <1>12 DEF SpuriousWakeup, MutexOK, LiveOK, ParkOK, NoLostWakeup, Stale
<1>13. ASSUME NEW r \in Reader, NEW from \in Reader, CloneHandle(r, from) PROVE IInv'
  BY <1>13 DEF CloneHandle, MutexOK, LiveOK, ParkOK, NoLostWakeup, Stale
<1>14. CASE UNCHANGED vars
  BY <1>14 DEF vars, MutexOK, LiveOK, ParkOK, NoLostWakeup, Stale
<1> QED
  BY <1>1, <1>2, <1>3, <1>4, <1>5, <1>6, <1>7, <1>8, <1>9, <1>10, <1>11,
     <1>12, <1>13, <1>14 DEF Next, WriterStep, ReaderStep

\* The invariant holds in every state the threads reach.
THEOREM Invariance == SafetySpec => []IInv
BY InitIInv, NextIInv, PTL DEF SafetySpec

\* No variable leaves its set.
THEOREM TypeCorrectness == SafetySpec => []TypeOK
<1>1. IInv => TypeOK
  BY DEF IInv
<1> QED
  BY <1>1, Invariance, PTL

\* A thread asleep on a value that has changed is owed a `notify_all`.
THEOREM NoWakeupIsLost == SafetySpec => []NoLostWakeup
<1>1. IInv => NoLostWakeup
  BY DEF IInv
<1> QED
  BY <1>1, Invariance, PTL

-----------------------------------------------------------------------------

\* A fresh `WatchSwap` is an empty cell.
LEMMA InitImplements == Init => Cell!CellInit
BY ReaderAssumption DEF Init, Empty, Waiting, Cell!CellInit, Cell!Empty

\* The two stores of `swap` and the two ways of adopting a value are the only
\* visible steps; taking, releasing and waiting for the mutex is not visible.
LEMMA StepImplements ==
  IInv /\ [Next]_vars => [Cell!CellNext]_(Cell!cellVars)
<1> SUFFICES ASSUME IInv, [Next]_vars PROVE [Cell!CellNext]_(Cell!cellVars)
  OBVIOUS
<1> USE DEF IInv, TypeOK, LiveOK, Waiting, Empty, Stale, ReaderPC, WriterPC,
            Cell!cellVars, Cell!Stale, Cell!Empty
<1> DEFINE Visible == Cell!CellNext
<1> HIDE DEF Visible
<1>1. ASSUME NEW w \in Writer, SwapSome(w) PROVE Visible
  <2>1. published + 1 \in 1..MaxSwaps
    BY <1>1, MaxSwapsAssumption DEF SwapSome
  <2>2. Cell!PublishSome(published + 1)
    BY <1>1, <2>1 DEF SwapSome, Cell!PublishSome
  <2> QED
    BY <2>1, <2>2 DEF Visible, Cell!CellNext
<1>2. ASSUME NEW w \in Writer, SwapNone(w) PROVE Visible
  BY <1>2 DEF SwapNone, Visible, Cell!CellNext, Cell!PublishNone
<1>3. ASSUME NEW w \in Writer, LockToNotify(w) PROVE UNCHANGED Cell!cellVars
  BY <1>3 DEF LockToNotify
<1>4. ASSUME NEW w \in Writer, NotifyAll(w) PROVE UNCHANGED Cell!cellVars
  BY <1>4 DEF NotifyAll
<1>5. ASSUME NEW w \in Writer, UnlockAfterNotify(w) PROVE UNCHANGED Cell!cellVars
  BY <1>5 DEF UnlockAfterNotify
<1>6. ASSUME NEW r \in Reader, GetChanged(r) PROVE Visible
  <2>1. Cell!Poll(r)
    BY <1>6 DEF GetChanged, Cell!Poll
  <2> QED
    BY <2>1 DEF Visible, Cell!CellNext
<1>7. ASSUME NEW r \in Reader, CallWait(r) PROVE Visible
  <2>1. Cell!BeginWait(r)
    BY <1>7 DEF CallWait, Cell!BeginWait
  <2> QED
    BY <2>1 DEF Visible, Cell!CellNext
<1>8. ASSUME NEW r \in Reader, LockToCheck(r) PROVE UNCHANGED Cell!cellVars
  BY <1>8 DEF LockToCheck
<1>9. ASSUME NEW r \in Reader, ReturnChanged(r) PROVE Visible
  <2>1. Cell!EndWait(r)
    BY <1>9 DEF ReturnChanged, Cell!EndWait
  <2> QED
    BY <2>1 DEF Visible, Cell!CellNext
<1>10. ASSUME NEW r \in Reader, FindUnchanged(r) PROVE UNCHANGED Cell!cellVars
  BY <1>10 DEF FindUnchanged
<1>11. ASSUME NEW r \in Reader, Sleep(r) PROVE UNCHANGED Cell!cellVars
  BY <1>11 DEF Sleep
<1>12. ASSUME NEW r \in Reader, SpuriousWakeup(r) PROVE UNCHANGED Cell!cellVars
  BY <1>12 DEF SpuriousWakeup
<1>13. ASSUME NEW r \in Reader, NEW from \in Reader, CloneHandle(r, from) PROVE Visible
  <2>1. Cell!Clone(r, from)
    BY <1>13 DEF CloneHandle, Cell!Clone
  <2> QED
    BY <2>1 DEF Visible, Cell!CellNext
<1>14. CASE UNCHANGED vars
  BY <1>14 DEF vars
<1> QED
  BY <1>1, <1>2, <1>3, <1>4, <1>5, <1>6, <1>7, <1>8, <1>9, <1>10, <1>11,
     <1>12, <1>13, <1>14 DEF Next, WriterStep, ReaderStep, Visible

\* The mutex and condition variable code implements the abstract cell.
THEOREM ImplementsCellSafely == SafetySpec => ImplementsCellSafety
<1>1. SafetySpec => []IInv
  BY Invariance
<1> QED
  BY <1>1, InitImplements, StepImplements, PTL
     DEF SafetySpec, ImplementsCellSafety, Cell!CellSafety
==============================================================================
