---------------------------- MODULE GpuSearchProofs ----------------------------
(***************************************************************************)
(* Proofs about the batches of a GPU, for any limits of the backends and   *)
(* of the device, batches of any size and any number of them, any set of   *)
(* jobs, and a device that spoils any number of slots.                     *)
(***************************************************************************)
EXTENDS GpuSearch, Integers, FiniteSetTheorems, WellFoundedInduction, TLAPS

Preparing == pc \in {"launch", "check", "argon", "export", "read"}
Launched == pc \in {"check", "argon", "export", "read"}

\* The kernels of a batch, in order, and how many of them have been queued
Order == <<"prepare", "init", "argon", "export">>
Queued ==
  CASE pc \in {"check", "argon"} -> 2 [] pc = "export" -> 3 [] pc = "read" -> 4 [] OTHER -> 0

\* How many the device has run
Done == Queued - Len(queue)

\* The sizes that `new` has found divide each other and leave no item out.
SizesOK ==
  pc \notin {"new", "gone"} =>
    batch \in 1..MaxItems /\ group \in 1..batch /\ batch % group = 0

\* A batch under way is for nonces within the bound; constants are those of its job.
BatchOK ==
  /\ nonce \in Nat \ {0}
  /\ Preparing =>
       /\ nonce + batch - 1 <= Batches * SearchItems
       /\ constants = job
       /\ good \subseteq nonce..(nonce + batch - 1)
       /\ hits = <<>> /\ handed = <<>>
  /\ pc = "new" => nonce = 1 /\ good = {} /\ hits = <<>> /\ handed = <<>>

\* What is queued are the last kernels of this batch, in order.
QueueOK ==
  /\ pc \in {"new", "ready", "launch"} => queue = <<>>
  /\ Launched =>
       /\ Len(queue) <= Queued
       /\ \A k \in 1..Len(queue) :
            queue[k] = [kernel |-> Order[Done + k], job |-> job, first |-> nonce]

\* The counts of faults go together.
FaultsOK == faults.batch <= faults.all

\* Where item i of the batch under way is, if nothing has spoiled it
Sample(i) == <<job, nonce + i - 1>>
Sound(i) ==
  /\ Done >= 1 => inputs[i] = Sample(i)
  /\ Done = 2 => memory[i] = [of |-> Sample(i), filled |-> FALSE]
  /\ Done = 3 => memory[i] = [of |-> Sample(i), filled |-> TRUE]
  /\ Done = 4 => out[i] = Sample(i)
Spoiled == {i \in Items : ~Sound(i)}

\* A slot of inputs is of this batch or it is Junk, and no more items are spoiled
\* than the device has spoiled slots.
PipelineOK ==
  Launched =>
    /\ Done >= 1 => \A i \in Items : inputs[i] \in {Junk, Sample(i)}
    /\ Cardinality(Spoiled) <= faults.batch

\* A first batch is validated before it counts.
FirstBatchOK ==
  /\ nonce = 1 => "full" \notin validated
  /\ CudaStopsOnMismatch

\* Hits are of nonces that are good, if they are of any; none is there twice.
Nonces0(s) == {s[k].nonce : k \in DOMAIN s} \ {0}
Distinct(s) ==
  \A k, l \in DOMAIN s : s[k].nonce = s[l].nonce /\ k # l => s[k].nonce = 0
HitsOK ==
  pc = "ready" =>
    /\ Nonces0(hits) \subseteq good /\ Nonces0(handed) \subseteq good
    /\ Nonces0(hits) \intersect Nonces0(handed) = {}
    /\ Distinct(hits) /\ Distinct(handed)
    /\ \A k \in DOMAIN hits : hits[k].nonce # 0 => hits[k].meets

\* What is good and neither submitted nor about to be has been spoiled.
LostOK ==
  pc = "ready" /\ ~solo =>
    Cardinality(good \ (Nonces0(handed) \union Nonces0(hits))) <= faults.batch

\* On a healthy device, solo mining has, or has submitted, the first good nonce.
SoloOK ==
  pc = "ready" /\ solo /\ faults.batch = 0 /\ good # {} =>
    \/ /\ hits # <<>> /\ handed = <<>> /\ Head(hits).meets
       /\ \A n \in good : Head(hits).nonce <= n
    \/ hits = <<>> /\ handed # <<>> /\ \A n \in good : handed[1].nonce <= n

IInv ==
  /\ TypeOK /\ SizesOK /\ BatchOK /\ QueueOK /\ FaultsOK /\ PipelineOK /\ FirstBatchOK
  /\ LaunchesAreLegal /\ ResultsAreChecked /\ HitsOK /\ LostOK /\ SoloOK

-----------------------------------------------------------------------------
(* Lemmas about the operators of GpuSearch                                 *)

\* The constants are what the assumptions of GpuSearch say.
LEMMA Constants ==
  /\ Job # {}
  /\ MaxItems \in Nat \ {0} /\ MaxGroup \in Nat \ {0} /\ MaxBlock \in Nat \ {0}
  /\ MaxSize \in Nat \ {0} /\ SearchItems \in Nat /\ Batches \in Nat /\ Faults \in Nat
BY JobAssumption, LimitsAssumption, BoundsAssumption

\* Every set of numbers has a smallest one.
LEMMA Smallest ==
  ASSUME NEW T \in SUBSET Nat, T # {}
  PROVE  \E x \in T : \A y \in T : x <= y
<1>1. IsWellFoundedOn(OpToRel(<, Nat), Nat)
  BY NatLessThanWellFounded
<1>2. PICK x \in T : \A y \in T : ~(<<y, x>> \in OpToRel(<, Nat))
  BY <1>1, WFMin
<1>3. \A y \in T : ~(y < x)
  BY <1>2 DEF OpToRel
<1> QED
  BY <1>3

\* The loops that count down find a divisor, at the latest 1.
LEMMA DivisorIs ==
  ASSUME NEW n \in Nat \ {0}, NEW upTo \in Nat \ {0}
  PROVE  LargestDivisor(n, upTo) \in 1..upTo /\ n % LargestDivisor(n, upTo) = 0
<1> DEFINE T == {x \in Nat : x < upTo /\ n % (upTo - x) = 0}
<1>1. upTo - 1 \in T
  <2>1. n = 1 * n + 0
    OBVIOUS
  <2>2. n % 1 = 0
    BY <2>1
  <2>3. upTo - 1 \in Nat /\ upTo - 1 < upTo /\ upTo - (upTo - 1) = 1
    OBVIOUS
  <2> QED
    BY <2>2, <2>3
<1>2. PICK x \in T : \A y \in T : x <= y
  BY <1>1, Smallest
<1> DEFINE d == upTo - x
<1>3. d \in 1..upTo /\ n % d = 0
  BY <1>2
<1>4. ASSUME NEW e \in (d + 1)..upTo, n % e = 0 PROVE FALSE
  <2>1. upTo - e \in Nat /\ upTo - e < upTo /\ upTo - (upTo - e) = e
    BY <1>2, <1>4
  <2>2. upTo - e \in T
    BY <1>4, <2>1
  <2>3. upTo - e < x
    BY <1>2, <1>4
  <2> QED
    BY <1>2, <2>1, <2>2, <2>3
<1> HIDE DEF d
<1>5. \E f \in 1..upTo : n % f = 0 /\ \A e \in (f + 1)..upTo : n % e # 0
  BY <1>3, <1>4
<1> QED
  BY <1>5 DEF LargestDivisor

\* The helper blocks of CUDA make up the batch.
LEMMA HelpersReachAll ==
  ASSUME batch \in Nat \ {0}
  PROVE  /\ HelperBlock \in 1..MaxBlock /\ HelperThreads = batch
         /\ \A kernel : Reached(kernel) = Items
<1>1. Smaller(batch, MaxBlock) \in Nat \ {0} /\ Smaller(batch, MaxBlock) <= MaxBlock
  BY Constants DEF Smaller
<1>2. HelperBlock \in 1..Smaller(batch, MaxBlock) /\ batch % HelperBlock = 0
  BY <1>1, DivisorIs DEF HelperBlock
<1>3. HelperBlock \in Nat \ {0} /\ HelperBlock <= MaxBlock
  BY <1>1, <1>2, Constants
<1>4. HelperThreads = batch
  <2>1. batch = HelperBlock * (batch \div HelperBlock) + (batch % HelperBlock)
    BY <1>3
  <2>2. batch \div HelperBlock \in Nat
    BY <1>3
  <2> QED
    BY <1>2, <1>3, <2>1, <2>2 DEF HelperThreads
<1> QED
  BY <1>1, <1>3, <1>4, Constants DEF Reached, Items

\* What the loop over the items has pushed after k of them: what those that are
\* wanted give, each once, in the order of the items.
Pushes(s, k, wanted, gives) ==
  \E from \in [1..Len(s) -> wanted \intersect (1..k)] :
    /\ \A i \in 1..Len(s) : s[i] = gives[from[i]]
    /\ \A i, j \in 1..Len(s) : i < j => from[i] < from[j]
    /\ \A w \in wanted \intersect (1..k) : \E i \in 1..Len(s) : from[i] = w

IsLoop(f, n, wanted, gives) ==
  f = [k \in 0..n |-> IF k = 0 THEN <<>>
                      ELSE IF k \in wanted THEN Append(f[k - 1], gives[k]) ELSE f[k - 1]]

\* The loop can be run, whatever the number of items.
LEMMA LoopExists ==
  ASSUME NEW n \in Nat, NEW wanted, NEW gives
  PROVE  \E f : IsLoop(f, n, wanted, gives)
<1> DEFINE T == {m \in Nat : ~ \E f : IsLoop(f, m, wanted, gives)}
<1>1. SUFFICES ASSUME T # {} PROVE FALSE
  OBVIOUS
<1>2. PICK m \in T : \A y \in T : m <= y
  BY <1>1, Smallest
<1>3. CASE m = 0
  <2> DEFINE f == [k \in 0..0 |-> <<>>]
  <2>1. IsLoop(f, 0, wanted, gives)
    BY DEF IsLoop
  <2> QED
    BY <1>2, <1>3, <2>1
<1>4. CASE m # 0
  <2>1. m - 1 \in Nat /\ m - 1 \notin T
    BY <1>2, <1>4
  <2>2. PICK f : IsLoop(f, m - 1, wanted, gives)
    BY <2>1
  <2> DEFINE last == IF m \in wanted THEN Append(f[m - 1], gives[m]) ELSE f[m - 1]
             g == [k \in 0..m |-> IF k < m THEN f[k] ELSE last]
  <2>3. \A k \in 0..(m - 1) :
          f[k] = IF k = 0 THEN <<>>
                 ELSE IF k \in wanted THEN Append(f[k - 1], gives[k]) ELSE f[k - 1]
    BY <2>2 DEF IsLoop
  <2>4. \A k \in 0..(m - 1) : g[k] = f[k]
    BY <1>2, <2>1
  <2>5. g[m] = last
    BY <1>2
  <2>6. \A k \in 0..m :
          g[k] = IF k = 0 THEN <<>>
                 ELSE IF k \in wanted THEN Append(g[k - 1], gives[k]) ELSE g[k - 1]
    <3> SUFFICES ASSUME NEW k \in 0..m
                 PROVE  g[k] = IF k = 0 THEN <<>>
                        ELSE IF k \in wanted THEN Append(g[k - 1], gives[k]) ELSE g[k - 1]
      OBVIOUS
    <3>1. k # 0 => k - 1 \in 0..(m - 1)
      BY <1>2
    <3> HIDE DEF g
    <3>2. CASE k = m
      BY <1>4, <2>4, <2>5, <3>1, <3>2
    <3>3. CASE k < m
      <4>1. k \in 0..(m - 1)
        BY <1>2, <3>3
      <4> QED
        BY <2>3, <2>4, <3>1, <4>1
    <3> QED
      BY <1>2, <3>2, <3>3
  <2>7. IsLoop(g, m, wanted, gives)
    <3>1. g = [k \in 0..m |-> g[k]]
      OBVIOUS
    <3> HIDE DEF g
    <3> QED
      BY <2>6, <3>1 DEF IsLoop
  <2> QED
    BY <1>2, <2>7
<1> QED
  BY <1>3, <1>4

\* What the loop has pushed in the end
LEMMA PushedIs ==
  ASSUME NEW n \in Nat, NEW wanted \in SUBSET (1..n), NEW V, NEW gives \in [1..n -> V]
  PROVE  /\ Pushed(n, wanted, gives) \in Seq(V)
         /\ Pushes(Pushed(n, wanted, gives), n, wanted, gives)
<1> DEFINE f == CHOOSE g : IsLoop(g, n, wanted, gives)
<1>1. IsLoop(f, n, wanted, gives)
  BY LoopExists
<1>2. Pushed(n, wanted, gives) = f[n]
  BY Zenon DEF Pushed, IsLoop
<1> HIDE DEF f
<1>3. \A k \in 0..n :
        f[k] = IF k = 0 THEN <<>>
               ELSE IF k \in wanted THEN Append(f[k - 1], gives[k]) ELSE f[k - 1]
  BY <1>1 DEF IsLoop
<1> DEFINE T == {k \in 0..n : ~(f[k] \in Seq(V) /\ Pushes(f[k], k, wanted, gives))}
<1>4. T = {}
  <2>1. SUFFICES ASSUME T # {} PROVE FALSE
    OBVIOUS
  <2>2. PICK k \in T : \A y \in T : k <= y
    <3>1. T \in SUBSET Nat
      OBVIOUS
    <3> HIDE DEF T
    <3> QED
      BY <2>1, <3>1, Smallest
  <2>3. CASE k = 0
    <3>1. f[k] = <<>>
      BY <1>3, <2>3
    <3>2. <<>> \in Seq(V) /\ Len(<<>>) = 0 /\ wanted \intersect (1..0) = {}
      OBVIOUS
    <3>3. Pushes(<<>>, 0, wanted, gives)
      <4> DEFINE from == [i \in {} |-> 0]
      <4>1. from \in [1..Len(<<>>) -> wanted \intersect (1..0)] /\ 1..Len(<<>>) = {}
        BY <3>2
      <4> QED
        BY <3>2, <4>1 DEF Pushes
    <3> QED
      BY <2>2, <2>3, <3>1, <3>2, <3>3
  <2>4. CASE k # 0
    <3> DEFINE m == k - 1
               s == f[m]
    <3>1. m \in 0..n /\ m \notin T /\ k = m + 1 /\ k \in 1..n
      BY <2>2, <2>4
    <3>2. s \in Seq(V) /\ Pushes(s, m, wanted, gives)
      BY <3>1
    <3>3. f[k] = IF k \in wanted THEN Append(s, gives[k]) ELSE s
      BY <1>3, <3>1
    <3> HIDE DEF m, s
    <3>4. PICK from \in [1..Len(s) -> wanted \intersect (1..m)] :
            /\ \A i \in 1..Len(s) : s[i] = gives[from[i]]
            /\ \A i, j \in 1..Len(s) : i < j => from[i] < from[j]
            /\ \A w \in wanted \intersect (1..m) : \E i \in 1..Len(s) : from[i] = w
      BY <3>2 DEF Pushes
    <3>5. f[k] \in Seq(V) /\ Pushes(f[k], k, wanted, gives)
      <4>1. CASE k \notin wanted
        <5>1. wanted \intersect (1..k) = wanted \intersect (1..m)
          BY <3>1, <4>1
        <5>2. \E at \in [1..Len(s) -> wanted \intersect (1..k)] :
                /\ \A i \in 1..Len(s) : s[i] = gives[at[i]]
                /\ \A i, j \in 1..Len(s) : i < j => at[i] < at[j]
                /\ \A w \in wanted \intersect (1..k) : \E i \in 1..Len(s) : at[i] = w
          BY <3>4, <5>1
        <5>3. Pushes(s, k, wanted, gives)
          BY <5>2, Zenon DEF Pushes
        <5> QED
          BY <3>2, <3>3, <4>1, <5>3
      <4>2. CASE k \in wanted
        <5> DEFINE t == Append(s, gives[k])
                   N == Len(s)
                   to == [i \in 1..(N + 1) |-> IF i <= N THEN from[i] ELSE k]
        <5>1. /\ t \in Seq(V) /\ N \in Nat /\ Len(t) = N + 1 /\ t[N + 1] = gives[k]
              /\ \A i \in 1..N : t[i] = s[i]
          BY <3>1, <3>2
        <5> HIDE DEF t, N
        <5>2. \A i \in 1..N : from[i] \in wanted \intersect (1..m) /\ from[i] < k
          BY <3>1, <3>4 DEF N
        <5>3. to \in [1..(N + 1) -> wanted \intersect (1..k)]
          BY <3>1, <4>2, <5>1, <5>2
        <5>4. to[N + 1] = k /\ \A i \in 1..N : to[i] = from[i]
          BY <5>1
        <5> HIDE DEF to
        <5>5. \A i \in 1..(N + 1) : t[i] = gives[to[i]]
          BY <3>4, <5>1, <5>4 DEF N
        <5>6. \A i, j \in 1..(N + 1) : i < j => to[i] < to[j]
          <6> SUFFICES ASSUME NEW i \in 1..(N + 1), NEW j \in 1..(N + 1), i < j
                       PROVE  to[i] < to[j]
            OBVIOUS
          <6>1. i \in 1..N
            BY <5>1
          <6>2. CASE j = N + 1
            BY <5>2, <5>4, <6>1, <6>2
          <6>3. CASE j \in 1..N
            BY <3>4, <5>4, <6>1, <6>3 DEF N
          <6> QED
            BY <5>1, <6>2, <6>3
        <5>7. \A w \in wanted \intersect (1..k) : \E i \in 1..(N + 1) : to[i] = w
          <6> SUFFICES ASSUME NEW w \in wanted \intersect (1..k)
                       PROVE  \E i \in 1..(N + 1) : to[i] = w
            OBVIOUS
          <6>1. CASE w = k
            BY <5>1, <5>4, <6>1
          <6>2. CASE w # k
            <7>1. w \in wanted \intersect (1..m)
              BY <3>1, <6>2
            <7>2. PICK i \in 1..N : from[i] = w
              BY <3>4, <7>1 DEF N
            <7>3. to[i] = w
              BY <5>4, <7>2
            <7>4. i \in 1..(N + 1)
              BY <5>1
            <7> QED
              BY <7>3, <7>4
          <6> QED
            BY <6>1, <6>2
        <5>8. Pushes(t, k, wanted, gives)
          <6>1. Len(t) = N + 1
            BY <5>1
          <6>2. to \in [1..Len(t) -> wanted \intersect (1..k)]
            BY <5>3, <6>1
          <6>3. \A i \in 1..Len(t) : t[i] = gives[to[i]]
            BY <5>5, <6>1
          <6>4. \A i, j \in 1..Len(t) : i < j => to[i] < to[j]
            BY <5>6, <6>1
          <6>5. \A w \in wanted \intersect (1..k) : \E i \in 1..Len(t) : to[i] = w
            BY <5>7, <6>1
          <6> QED
            BY <6>2, <6>3, <6>4, <6>5, Zenon DEF Pushes
        <5> QED
          BY <3>3, <4>2, <5>1, <5>8 DEF t
      <4> QED
        BY <4>1, <4>2
    <3> QED
      BY <2>2, <3>5
  <2> QED
    BY <2>3, <2>4
<1> QED
  BY <1>2, <1>4

-----------------------------------------------------------------------------
(* The sizes                                                               *)

\* How many kernels have been queued where
LEMMA QueuedIs ==
  /\ pc \in {"new", "ready", "launch", "gone"} => Queued = 0
  /\ pc \in {"check", "argon"} => Queued = 2
  /\ pc = "export" => Queued = 3
  /\ pc = "read" => Queued = 4
BY DEF Queued

\* A sequence of no hits
LEMMA NoHits ==
  Nonces0(<<>>) = {} /\ Distinct(<<>>) /\ DOMAIN <<>> = {} /\ Len(<<>>) = 0 /\ <<>> \in Seq(Hit)
BY DEF Nonces0, Distinct

\* A searcher that has not been made has no batch under way and no hit.
LEMMA InitIInv == Init => IInv
<1> SUFFICES ASSUME Init PROVE IInv
  OBVIOUS
<1>1. /\ backend \in {"OpenCl", "Cuda"} /\ device = NoDevice /\ batch = 0 /\ group = 0
      /\ pc = "new" /\ job = CHOOSE j \in Job : TRUE
      /\ nonce = 1 /\ good = {}
      /\ constants = Junk /\ inputs = <<>> /\ memory = <<>> /\ out = <<>>
      /\ queue = <<>> /\ validated = {} /\ hits = <<>> /\ handed = <<>>
      /\ faults = [batch |-> 0, all |-> 0]
  BY DEF Init
<1>2. solo \in BOOLEAN
  BY DEF Init
<1>3. TypeOK
  <2>1. job \in Job
    BY <1>1, Constants
  <2>2. Items = {} /\ \A S : <<>> \in [Items -> S]
    BY <1>1 DEF Items
  <2>3. /\ queue \in Seq([kernel : Kernel, job : Job, first : Nonces]) /\ Len(queue) <= 4
        /\ hits \in Seq(Hit) /\ handed \in Seq(Hit)
    BY <1>1
  <2>4. device \in [items : 0..MaxSize, warps : 0..MaxSize] /\ faults \in [batch : 0..Faults, all : 0..Faults]
    BY <1>1, Constants DEF NoDevice
  <2>5. inputs \in [Items -> Slot] /\ out \in [Items -> Slot]
          /\ memory \in [Items -> [of : Slot, filled : BOOLEAN]]
    BY <1>1, <2>2
  <2>6. good \subseteq Nonces /\ constants \in Job \union {Junk} /\ validated \subseteq {"initial", "full"}
    BY <1>1
  <2> QED
    BY <1>1, <1>2, <2>1, <2>3, <2>4, <2>5, <2>6 DEF TypeOK
<1>4. SizesOK /\ BatchOK /\ QueueOK /\ FaultsOK /\ PipelineOK
  BY <1>1 DEF SizesOK, BatchOK, Preparing, QueueOK, Launched, FaultsOK, PipelineOK
<1>5. FirstBatchOK /\ LaunchesAreLegal /\ HitsOK /\ LostOK /\ SoloOK
  BY <1>1 DEF FirstBatchOK, CudaStopsOnMismatch, LaunchesAreLegal, HitsOK, LostOK, SoloOK
<1>6. ResultsAreChecked
  BY <1>1 DEF ResultsAreChecked
<1> QED
  BY <1>3, <1>4, <1>5, <1>6 DEF IInv

\* A batch has at least one item, no more than asked for or than the limit, and more
\* than one only if memory holds them.
LEMMA BatchSizeIs ==
  ASSUME NEW requested \in Nat, NEW capacity \in Nat
  PROVE  /\ BatchSize(requested, capacity) \in 1..MaxItems
         /\ BatchSize(requested, capacity) = 1 \/ BatchSize(requested, capacity) <= capacity
BY Constants DEF BatchSize, Smaller, Clamp

\* What `new` sets up
LEMMA CreateStep ==
  ASSUME IInv, pc = "new", NEW items \in 1..MaxItems, NEW perGroup \in 1..items,
         items % perGroup = 0, perGroup <= MaxGroup,
         NEW found \in [items : 0..MaxSize, warps : 0..MaxSize],
         perGroup = 1 \/ perGroup <= found.warps, items = 1 \/ items <= found.items,
         Create(items, perGroup, found)
  PROVE  IInv'
<1>1. /\ batch' = items /\ group' = perGroup /\ device' = found /\ pc' = "ready"
      /\ inputs' = [i \in 1..items |-> Junk] /\ out' = [i \in 1..items |-> Junk]
      /\ memory' = [i \in 1..items |-> Blank]
      /\ UNCHANGED <<backend, solo, job, nonce, good, queue, constants, validated, hits, handed,
                     faults>>
  BY DEF Create
<1>2. nonce = 1 /\ good = {} /\ queue = <<>> /\ hits = <<>> /\ handed = <<>>
  BY DEF IInv, BatchOK, QueueOK
<1>3. items \in Nat \ {0}
  BY Constants
<1>4. TypeOK'
  <2>1. Items' = 1..items
    BY <1>1 DEF Items
  <2>2. inputs' \in [Items' -> Slot] /\ out' \in [Items' -> Slot]
    BY <1>1, <2>1 DEF Slot
  <2>3. Blank \in [of : Slot, filled : BOOLEAN]
    BY DEF Blank, Slot
  <2>4. memory' \in [Items' -> [of : Slot, filled : BOOLEAN]]
    BY <1>1, <2>1, <2>3
  <2>5. pc' \notin {"new", "gone"} => batch' \in 1..MaxItems /\ group' \in 1..batch'
    BY <1>1
  <2> QED
    BY <1>1, <2>2, <2>4, <2>5 DEF IInv, TypeOK
<1>5. SizesOK' /\ BatchOK' /\ QueueOK' /\ FaultsOK' /\ PipelineOK'
  BY <1>1, <1>2 DEF IInv, SizesOK, BatchOK, Preparing, QueueOK, Launched, FaultsOK, PipelineOK
<1>6. FirstBatchOK'
  BY <1>1, <1>2, <1>3 DEF IInv, FirstBatchOK, CudaStopsOnMismatch
<1>7. LaunchesAreLegal'
  <2>1. (HelperBlock \in 1..MaxBlock /\ HelperThreads = batch)'
    <3>1. (batch \in Nat \ {0})'
      BY <1>1, <1>3
    <3> QED
      BY <3>1, HelpersReachAll, PTL
  <2> QED
    BY <1>1, <2>1, Constants DEF LaunchesAreLegal
<1>8. ResultsAreChecked'
  BY <1>1, <1>2 DEF ResultsAreChecked
<1>9. HitsOK' /\ SoloOK'
  BY <1>1, <1>2, NoHits DEF HitsOK, SoloOK
<1>10. LostOK'
  <2>1. good' \ (Nonces0(handed') \union Nonces0(hits')) = {}
    BY <1>1, <1>2
  <2>2. Cardinality({}) = 0
    BY FS_EmptySet
  <2>3. faults'.batch \in Nat
    BY <1>1 DEF IInv, TypeOK
  <2>4. Cardinality(good' \ (Nonces0(handed') \union Nonces0(hits'))) = 0
    BY <2>1, <2>2
  <2> QED
    BY <2>3, <2>4 DEF LostOK
<1> QED
  BY <1>4, <1>5, <1>6, <1>7, <1>8, <1>9, <1>10 DEF IInv

\* `new` of both backends finds sizes that can be launched.
LEMMA NewStep ==
  ASSUME IInv, NewOpenCl \/ NewCuda
  PROVE  IInv'
<1>1. CASE NewOpenCl
  <2>1. PICK requested \in 0..MaxSize, allocation \in 0..MaxSize, all \in 0..MaxSize,
             warps \in 0..MaxSize, perGroup \in 0..MaxSize :
          LET capacity == Smaller(allocation, all \div 2)
              items == BatchSize(requested, capacity)
              largest == Smaller(Clamp(warps, 1, MaxGroup), items)
          IN  Create(items, LargestDivisor(items, Clamp(perGroup, 1, largest)),
                     [items |-> capacity, warps |-> warps])
    BY <1>1 DEF NewOpenCl
  <2> DEFINE capacity == Smaller(allocation, all \div 2)
             items == BatchSize(requested, capacity)
             largest == Smaller(Clamp(warps, 1, MaxGroup), items)
             upTo == Clamp(perGroup, 1, largest)
             size == LargestDivisor(items, upTo)
             found == [items |-> capacity, warps |-> warps]
  <2>2. capacity \in 0..MaxSize
    <3>1. all \div 2 \in Nat
      OBVIOUS
    <3> QED
      BY <3>1, Constants DEF Smaller
  <2>3. Create(items, size, found)
    BY <2>1
  <2> HIDE DEF capacity
  <2>4. items \in 1..MaxItems /\ (items = 1 \/ items <= capacity)
    BY <2>2, BatchSizeIs, Constants
  <2> HIDE DEF items
  <2>5. /\ largest \in 1..items /\ largest <= MaxGroup /\ (largest = 1 \/ largest <= warps)
    BY <2>4, Constants DEF Smaller, Clamp
  <2> HIDE DEF largest
  <2>6. upTo \in 1..largest
    BY <2>5 DEF Smaller, Clamp
  <2> HIDE DEF upTo
  <2>7. size \in 1..upTo /\ items % size = 0
    BY <2>4, <2>5, <2>6, DivisorIs
  <2> HIDE DEF size
  <2>8. size \in 1..items /\ size <= MaxGroup /\ (size = 1 \/ size <= warps)
    BY <2>4, <2>5, <2>6, <2>7, Constants
  <2>9. found \in [items : 0..MaxSize, warps : 0..MaxSize] /\ found.items = capacity
          /\ found.warps = warps
    BY <2>2
  <2> HIDE DEF found
  <2> QED
    BY <1>1, <2>3, <2>4, <2>7, <2>8, <2>9, CreateStep DEF NewOpenCl
<1>2. CASE NewCuda
  <2>1. PICK requested \in 0..MaxSize, all \in 0..MaxSize :
          Create(BatchSize(requested, all \div 2), 1, [items |-> all \div 2, warps |-> 1])
    BY <1>2 DEF NewCuda
  <2> DEFINE capacity == all \div 2
             items == BatchSize(requested, capacity)
             found == [items |-> capacity, warps |-> 1]
  <2>2. capacity \in 0..MaxSize /\ 1 \in 0..MaxSize
    <3>1. all = 2 * (all \div 2) + (all % 2) /\ all \div 2 \in Nat /\ all % 2 \in 0..1
      OBVIOUS
    <3> QED
      BY <3>1, Constants
  <2>3. Create(items, 1, found)
    BY <2>1
  <2> HIDE DEF capacity
  <2>4. items \in 1..MaxItems /\ (items = 1 \/ items <= capacity)
    BY <2>2, BatchSizeIs, Constants
  <2> HIDE DEF items
  <2>5. 1 \in 1..items /\ 1 <= MaxGroup /\ items % 1 = 0
    <3>1. items = 1 * items + 0
      BY <2>4
    <3> QED
      BY <2>4, <3>1, Constants
  <2>6. found \in [items : 0..MaxSize, warps : 0..MaxSize] /\ found.items = capacity
    BY <2>2
  <2> HIDE DEF found
  <2> QED
    BY <1>2, <2>3, <2>4, <2>5, <2>6, CreateStep DEF NewCuda
<1> QED
  BY <1>1, <1>2

-----------------------------------------------------------------------------
(* A batch under way                                                       *)

\* Where a batch is under way there are no hits to speak of.
LEMMA NotReady ==
  ASSUME pc' # "ready", UNCHANGED handed, IInv
  PROVE  (LaunchesAreLegal /\ ResultsAreChecked /\ HitsOK /\ LostOK /\ SoloOK
            /\ CudaStopsOnMismatch)'
BY DEF IInv, LaunchesAreLegal, ResultsAreChecked, HitsOK, LostOK, SoloOK, CudaStopsOnMismatch

\* The nonces of a batch that is under way are within the bound.
LEMMA SampleIs ==
  ASSUME IInv, Preparing
  PROVE  /\ batch \in Nat \ {0} /\ nonce \in Nonces
         /\ \A i \in Items : nonce + i - 1 \in Nonces /\ Sample(i) \in Slot
<1>1. batch \in 1..MaxItems /\ nonce \in Nat \ {0} /\ nonce + batch - 1 <= Batches * SearchItems
  BY DEF IInv, Preparing, SizesOK, BatchOK
<1>2. Batches * SearchItems \in Nat
  BY Constants
<1>3. \A i \in Items : nonce + i - 1 \in Nonces
  BY <1>1, <1>2, Constants DEF Items, Nonces
<1> QED
  BY <1>1, <1>2, <1>3, Constants DEF Nonces, Slot, Sample, IInv, TypeOK

\* `search` begins a batch, within the bound.
LEMMA BeginStep ==
  ASSUME IInv, BeginBatch
  PROVE  IInv'
<1>1. /\ pc = "ready" /\ hits = <<>> /\ batch <= SearchItems /\ nonce <= (Batches - 1) * batch + 1
      /\ job' \in Job /\ good' \in SUBSET (nonce..(nonce + batch - 1))
      /\ constants' = job' /\ handed' = <<>> /\ faults' = [faults EXCEPT !.batch = 0]
      /\ device' = NoDevice /\ pc' = "launch"
      /\ UNCHANGED <<backend, solo, batch, group, nonce, queue, inputs, memory, out, validated, hits>>
  BY DEF BeginBatch, sizeVars
<1>2. batch \in 1..MaxItems /\ nonce \in Nat \ {0} /\ batch \in Nat \ {0}
  BY <1>1, Constants DEF IInv, SizesOK, BatchOK
<1>3. nonce + batch - 1 <= Batches * SearchItems
  <2>1. (Batches - 1) * batch = Batches * batch - batch
    BY <1>2, Constants
  <2>2. Batches * batch <= Batches * SearchItems
    BY <1>1, <1>2, Constants
  <2> DEFINE x == (Batches - 1) * batch
             y == Batches * batch
             z == Batches * SearchItems
  <2>3. x \in Int /\ y \in Int /\ z \in Int /\ x = y - batch /\ y <= z /\ nonce <= x + 1
    BY <1>1, <1>2, <2>1, <2>2, Constants
  <2> HIDE DEF x, y, z
  <2>4. nonce + batch - 1 <= z
    BY <1>2, <2>3
  <2> QED
    BY <2>4 DEF z
<1>4. TypeOK'
  <2>1. good' \subseteq Nonces
    <3>1. Batches * SearchItems \in Nat
      BY Constants
    <3> QED
      BY <1>1, <1>2, <1>3, <3>1 DEF Nonces
  <2>2. faults' \in [batch : 0..Faults, all : 0..Faults]
    <3>1. faults \in [batch : 0..Faults, all : 0..Faults] /\ 0 \in 0..Faults
      BY Constants DEF IInv, TypeOK
    <3> QED
      BY <1>1, <3>1
  <2>3. device' \in [items : 0..MaxSize, warps : 0..MaxSize]
    BY <1>1, Constants DEF NoDevice
  <2>4. handed' \in Seq(Hit)
    BY <1>1
  <2> QED
    BY <1>1, <2>1, <2>2, <2>3, <2>4 DEF IInv, TypeOK, Items
<1>5. SizesOK' /\ BatchOK'
  BY <1>1, <1>3 DEF IInv, SizesOK, BatchOK, Preparing
<1>6. QueueOK' /\ PipelineOK' /\ FirstBatchOK'
  BY <1>1 DEF IInv, QueueOK, PipelineOK, Launched, FirstBatchOK, CudaStopsOnMismatch
<1>7. FaultsOK'
  BY <1>1, Constants DEF IInv, TypeOK, FaultsOK
<1>8. (LaunchesAreLegal /\ HitsOK /\ LostOK /\ SoloOK)'
  BY <1>1 DEF LaunchesAreLegal, HitsOK, LostOK, SoloOK
<1>9. ResultsAreChecked'
  BY <1>1 DEF ResultsAreChecked
<1> QED
  BY <1>4, <1>5, <1>6, <1>7, <1>8, <1>9 DEF IInv

\* A step after which as much is done as before, with the same slots
LEMMA SamePipeline ==
  ASSUME IInv, Preparing, Launched', Done' = Done, Done \in Nat,
         UNCHANGED <<batch, job, nonce, inputs, memory, out, faults>>,
         ~Launched => Done = 0
  PROVE  PipelineOK'
<1>1. Items' = Items /\ \A i : Sample(i)' = Sample(i)
  BY DEF Items, Sample
<1>2. CASE Launched
  <2>1. \A i \in Items : Sound(i)' <=> Sound(i)
    BY <1>1 DEF Sound
  <2>2. Spoiled' = Spoiled
    BY <1>1, <2>1 DEF Spoiled
  <2> QED
    BY <1>1, <1>2, <2>2 DEF IInv, PipelineOK
<1>3. CASE ~Launched
  <2>1. Done' = 0
    BY <1>3
  <2>2. \A i \in Items' : Sound(i)'
    BY <2>1 DEF Sound
  <2>3. Spoiled' = {}
    BY <2>2 DEF Spoiled
  <2>4. Cardinality({}) = 0
    BY FS_EmptySet
  <2>5. Cardinality(Spoiled') = 0 /\ faults'.batch >= 0
    BY <2>3, <2>4 DEF IInv, TypeOK
  <2> QED
    BY <2>1, <2>5 DEF PipelineOK
<1> QED
  BY <1>2, <1>3

\* `prepare_jobs` and the others queue the next kernels of the batch.
LEMMA LaunchStep ==
  ASSUME IInv, Preparing, NEW next \in {"check", "export", "read"}, NEW kernels \in Seq(Kernel),
         Launch(next, kernels),
         Queued' = Queued + Len(kernels), Queued' <= 4,
         \A k \in 1..Len(kernels) : kernels[k] = Order[Queued + k]
  PROVE  IInv'
<1>1. /\ queue' = queue \o [k \in DOMAIN kernels |->
                              [kernel |-> kernels[k], job |-> job, first |-> nonce]]
      /\ pc' = next
      /\ UNCHANGED <<backend, solo, batch, group, device, job, nonce, good, constants, inputs,
                     memory, out, validated, hits, handed, faults>>
  BY DEF Launch, Queue, sizeVars, deviceVars
<1> DEFINE more == [k \in DOMAIN kernels |-> [kernel |-> kernels[k], job |-> job, first |-> nonce]]
           Command == [kernel : Kernel, job : Job, first : Nonces]
<1>2. /\ queue \in Seq(Command) /\ Len(queue) \in Nat /\ Len(queue) <= Queued
      /\ \A k \in 1..Len(queue) :
           queue[k] = [kernel |-> Order[Done + k], job |-> job, first |-> nonce]
  <2>1. queue \in Seq(Command) /\ Len(queue) \in Nat
    BY DEF IInv, TypeOK
  <2>2. CASE Launched
    BY <2>1, <2>2 DEF IInv, QueueOK
  <2>3. CASE ~Launched
    <3>1. queue = <<>> /\ Queued = 0
      BY <2>3, QueuedIs DEF Preparing, Launched, IInv, QueueOK
    <3>2. Len(queue) = 0
      BY <3>1
    <3> QED
      BY <2>1, <3>1, <3>2
  <2> QED
    BY <2>2, <2>3
<1>3. more \in Seq(Command) /\ Len(more) = Len(kernels) /\ Len(kernels) \in Nat
  <2>1. \A k \in DOMAIN kernels : [kernel |-> kernels[k], job |-> job, first |-> nonce] \in Command
    BY SampleIs DEF IInv, TypeOK
  <2>2. DOMAIN kernels = 1..Len(kernels) /\ Len(kernels) \in Nat
    OBVIOUS
  <2> HIDE DEF Command
  <2> QED
    BY <2>1, <2>2
<1>4. \A k \in 1..Len(kernels) :
        more[k] = [kernel |-> Order[Queued + k], job |-> job, first |-> nonce]
  OBVIOUS
<1> HIDE DEF more
<1>5. queue' = queue \o more
  BY <1>1 DEF more
<1> HIDE DEF Command
<1>6. /\ queue' \in Seq(Command) /\ Len(queue') = Len(queue) + Len(kernels)
      /\ \A k \in 1..Len(queue) : queue'[k] = queue[k]
      /\ \A k \in 1..Len(kernels) : queue'[Len(queue) + k] = more[k]
  <2>1. queue \in Seq(Command) /\ more \in Seq(Command)
    BY <1>2, <1>3
  <2>2. /\ queue \o more \in Seq(Command) /\ Len(queue \o more) = Len(queue) + Len(more)
        /\ \A k \in 1..Len(queue) : (queue \o more)[k] = queue[k]
    BY <2>1
  <2>3. \A k \in 1..Len(more) : (queue \o more)[Len(queue) + k] = more[k]
    BY <2>1
  <2> QED
    BY <1>3, <1>5, <2>2, <2>3, Zenon
<1>7. Queued \in Nat /\ Done' = Done /\ Done \in Nat /\ Queued = Done + Len(queue)
  BY <1>2, <1>3, <1>6, QueuedIs DEF Done, Preparing
<1>8. QueueOK'
  <2>1. Len(queue') <= Queued'
    BY <1>2, <1>3, <1>6, <1>7
  <2>2. ASSUME NEW k \in 1..Len(queue')
        PROVE  queue'[k] = [kernel |-> Order[Done + k], job |-> job, first |-> nonce]
    <3>1. CASE k <= Len(queue)
      <4>1. k \in 1..Len(queue)
        BY <1>2, <3>1
      <4> QED
        BY <1>2, <1>6, <4>1
    <3>2. CASE k > Len(queue)
      <4> DEFINE l == k - Len(queue)
      <4>1. l \in 1..Len(kernels) /\ k = Len(queue) + l /\ Done + k = Queued + l
        BY <1>2, <1>3, <1>6, <1>7, <3>2
      <4> HIDE DEF l
      <4> QED
        BY <1>4, <1>6, <4>1
    <3> QED
      BY <1>2, <3>1, <3>2
  <2> QED
    BY <1>1, <1>7, <2>1, <2>2 DEF QueueOK
<1>9. TypeOK'
  <2>1. queue' \in Seq([kernel : Kernel, job : Job, first : Nonces]) /\ Len(queue') <= 4
    <3>1. Len(queue') <= 4
      BY <1>2, <1>3, <1>6, <1>7
    <3> QED
      BY <1>6, <3>1 DEF Command
  <2> QED
    BY <1>1, <2>1 DEF IInv, TypeOK, Preparing, Items
<1>10. SizesOK' /\ BatchOK' /\ FaultsOK'
  BY <1>1 DEF IInv, SizesOK, BatchOK, FaultsOK, Preparing
<1>11. PipelineOK'
  <2>1. Launched' /\ (~Launched => Done = 0)
    <3>1. ~Launched => queue = <<>> /\ Queued = 0
      BY QueuedIs DEF Preparing, Launched, IInv, QueueOK
    <3> QED
      BY <1>1, <1>7, <3>1 DEF Launched
  <2> QED
    BY <1>1, <1>7, <2>1, SamePipeline
<1>12. pc' # "ready" /\ UNCHANGED handed
  BY <1>1
<1>13. (LaunchesAreLegal /\ ResultsAreChecked /\ HitsOK /\ LostOK /\ SoloOK /\ CudaStopsOnMismatch)'
  BY <1>12, NotReady
<1>14. FirstBatchOK'
  BY <1>1, <1>13 DEF IInv, FirstBatchOK
<1> QED
  BY <1>8, <1>9, <1>10, <1>11, <1>13, <1>14 DEF IInv

\* The four places where kernels are queued
LEMMA LaunchSteps ==
  ASSUME IInv, OpenClPrepare \/ OpenClArgon \/ OpenClExport \/ CudaLaunch
  PROVE  IInv'
<1> USE DEF Order, Kernel
<1>1. CASE OpenClPrepare
  <2> DEFINE kernels == <<"prepare", "init">>
  <2>1. pc = "launch" /\ Launch("check", kernels) /\ pc' = "check"
    BY <1>1 DEF OpenClPrepare, Launch
  <2>2. Queued = 0 /\ Queued' = 2
    BY <2>1 DEF Queued
  <2>3. /\ kernels \in Seq(Kernel) /\ Len(kernels) = 2
        /\ \A k \in 1..Len(kernels) : kernels[k] = Order[0 + k]
    OBVIOUS
  <2> HIDE DEF kernels
  <2>4. Queued' = Queued + Len(kernels) /\ Queued' <= 4 /\ Preparing
    BY <2>1, <2>2, <2>3 DEF Preparing
  <2>5. \A k \in 1..Len(kernels) : kernels[k] = Order[Queued + k]
    BY <2>2, <2>3
  <2> QED
    BY <2>1, <2>3, <2>4, <2>5, LaunchStep
<1>2. CASE OpenClArgon
  <2> DEFINE kernels == <<"argon">>
  <2>1. pc = "argon" /\ Launch("export", kernels) /\ pc' = "export"
    BY <1>2 DEF OpenClArgon, Launch
  <2>2. Queued = 2 /\ Queued' = 3
    BY <2>1 DEF Queued
  <2>3. /\ kernels \in Seq(Kernel) /\ Len(kernels) = 1
        /\ \A k \in 1..Len(kernels) : kernels[k] = Order[2 + k]
    OBVIOUS
  <2> HIDE DEF kernels
  <2>4. Queued' = Queued + Len(kernels) /\ Queued' <= 4 /\ Preparing
    BY <2>1, <2>2, <2>3 DEF Preparing
  <2>5. \A k \in 1..Len(kernels) : kernels[k] = Order[Queued + k]
    BY <2>2, <2>3
  <2> QED
    BY <2>1, <2>3, <2>4, <2>5, LaunchStep
<1>3. CASE OpenClExport
  <2> DEFINE kernels == <<"export">>
  <2>1. pc = "export" /\ Launch("read", kernels) /\ pc' = "read"
    BY <1>3 DEF OpenClExport, Launch
  <2>2. Queued = 3 /\ Queued' = 4
    BY <2>1 DEF Queued
  <2>3. /\ kernels \in Seq(Kernel) /\ Len(kernels) = 1
        /\ \A k \in 1..Len(kernels) : kernels[k] = Order[3 + k]
    OBVIOUS
  <2> HIDE DEF kernels
  <2>4. Queued' = Queued + Len(kernels) /\ Queued' <= 4 /\ Preparing
    BY <2>1, <2>2, <2>3 DEF Preparing
  <2>5. \A k \in 1..Len(kernels) : kernels[k] = Order[Queued + k]
    BY <2>2, <2>3
  <2> QED
    BY <2>1, <2>3, <2>4, <2>5, LaunchStep
<1>4. CASE CudaLaunch
  <2> DEFINE kernels == <<"prepare", "init", "argon", "export">>
  <2>1. pc = "launch" /\ Launch("read", kernels) /\ pc' = "read"
    BY <1>4 DEF CudaLaunch, Launch
  <2>2. Queued = 0 /\ Queued' = 4
    BY <2>1 DEF Queued
  <2>3. /\ kernels \in Seq(Kernel) /\ Len(kernels) = 4
        /\ \A k \in 1..Len(kernels) : kernels[k] = Order[0 + k]
    OBVIOUS
  <2> HIDE DEF kernels
  <2>4. Queued' = Queued + Len(kernels) /\ Queued' <= 4 /\ Preparing
    BY <2>1, <2>2, <2>3 DEF Preparing
  <2>5. \A k \in 1..Len(kernels) : kernels[k] = Order[Queued + k]
    BY <2>2, <2>3
  <2> QED
    BY <2>1, <2>3, <2>4, <2>5, LaunchStep
<1> QED
  BY <1>1, <1>2, <1>3, <1>4

\* `validate_initial_blocks_once` reads back and changes no buffer.
LEMMA CheckStep ==
  ASSUME IInv, CheckInitialBlocks
  PROVE  IInv'
<1>1. /\ pc = "check" /\ pc' = "argon" /\ validated' = validated \union {"initial"}
      /\ UNCHANGED <<backend, solo, batch, group, device, job, nonce, good, queue, constants,
                     inputs, memory, out, hits, handed, faults>>
  BY DEF CheckInitialBlocks, sizeVars, deviceVars
<1>2. TypeOK' /\ SizesOK' /\ BatchOK' /\ FaultsOK'
  BY <1>1 DEF IInv, TypeOK, SizesOK, BatchOK, FaultsOK, Preparing, Items
<1>3. Launched /\ Launched' /\ Preparing /\ Queued = 2 /\ Queued' = 2
  BY <1>1 DEF Launched, Preparing, Queued
<1>4. Len(queue) \in Nat /\ Len(queue) <= 2
  BY <1>3 DEF IInv, TypeOK, QueueOK
<1>5. Done' = Done /\ Done \in Nat
  BY <1>1, <1>3, <1>4 DEF Done
<1>6. QueueOK'
  BY <1>1, <1>3, <1>5 DEF IInv, QueueOK
<1>7. PipelineOK'
  BY <1>1, <1>3, <1>5, SamePipeline
<1>8. (LaunchesAreLegal /\ ResultsAreChecked /\ HitsOK /\ LostOK /\ SoloOK /\ CudaStopsOnMismatch)'
  BY <1>1, NotReady
<1>9. FirstBatchOK'
  BY <1>1, <1>8 DEF IInv, FirstBatchOK
<1> QED
  BY <1>2, <1>6, <1>7, <1>8, <1>9 DEF IInv

\* The worker ends.
LEMMA FailStep ==
  ASSUME IInv, Fail
  PROVE  IInv'
<1>1. /\ pc' = "gone"
      /\ UNCHANGED <<backend, solo, batch, group, device, job, nonce, good, queue, constants,
                     inputs, memory, out, validated, hits, handed, faults>>
  BY DEF Fail, sizeVars, deviceVars
<1>2. TypeOK' /\ SizesOK' /\ BatchOK' /\ QueueOK' /\ FaultsOK' /\ PipelineOK'
  BY <1>1 DEF IInv, TypeOK, SizesOK, BatchOK, QueueOK, FaultsOK, PipelineOK, Preparing, Launched, Items
<1>3. (LaunchesAreLegal /\ ResultsAreChecked /\ HitsOK /\ LostOK /\ SoloOK /\ CudaStopsOnMismatch)'
  BY <1>1, NotReady
<1>4. FirstBatchOK'
  BY <1>1, <1>3 DEF IInv, FirstBatchOK
<1> QED
  BY <1>2, <1>3, <1>4 DEF IInv

-----------------------------------------------------------------------------
(* The device                                                              *)

\* What the device runs next is the next kernel of the batch under way.
LEMMA KernelIs ==
  ASSUME IInv, queue # <<>>, pc # "gone"
  PROVE  /\ Launched /\ Preparing /\ Done \in 0..3 /\ Len(queue) \in Nat \ {0}
         /\ Head(queue) = [kernel |-> Order[Done + 1], job |-> job, first |-> nonce]
         /\ \A k \in 1..Len(Tail(queue)) :
              Tail(queue)[k] = [kernel |-> Order[Done + 1 + k], job |-> job, first |-> nonce]
         /\ Len(Tail(queue)) = Len(queue) - 1
<1>1. Launched /\ Preparing
  BY DEF IInv, TypeOK, QueueOK, Launched, Preparing
<1>2. queue \in Seq([kernel : Kernel, job : Job, first : Nonces]) /\ Len(queue) <= Queued
  BY <1>1 DEF IInv, TypeOK, QueueOK
<1>3. Len(queue) \in Nat \ {0} /\ Head(queue) = queue[1] /\ Len(Tail(queue)) = Len(queue) - 1
  BY <1>2
<1>4. \A k \in 1..(Len(queue) - 1) : Tail(queue)[k] = queue[k + 1]
  BY <1>2, <1>3
<1>5. Queued \in 0..4
  BY <1>1, QueuedIs DEF Launched
<1>6. Done \in 0..3
  <2>1. Len(queue) \in Nat /\ Len(queue) >= 1 /\ Len(queue) <= Queued
    BY <1>2, <1>3
  <2> QED
    BY <1>5, <2>1 DEF Done
<1>7. \A k \in 1..Len(queue) :
        queue[k] = [kernel |-> Order[Done + k], job |-> job, first |-> nonce]
  BY <1>1 DEF IInv, QueueOK
<1>8. \A k \in 1..(Len(queue) - 1) : k + 1 \in 1..Len(queue) /\ Done + (k + 1) = Done + 1 + k
  BY <1>3, <1>6
<1> QED
  BY <1>1, <1>3, <1>4, <1>6, <1>7, <1>8

\* A kernel does its part for every item of the batch, except one it may spoil.
LEMMA WorkedIs ==
  ASSUME batch \in Nat \ {0}, NEW buffer, NEW kernel, NEW result, NEW spoiled, NEW spoil, NEW i \in Items
  PROVE  Worked(buffer, kernel, result, spoiled, spoil)[i] =
           IF i \in spoiled THEN spoil ELSE result[i]
BY HelpersReachAll DEF Worked

\* The device goes on with the batch under way: the items that have been sound
\* remain so, except one that it may spoil.
LEMMA RunStep ==
  ASSUME IInv, RunKernel
  PROVE  IInv'
<1> DEFINE command == Head(queue)
           prepared == [i \in Items |-> Prepared(command, i)]
<1>1. /\ queue # <<>> /\ pc # "gone" /\ queue' = Tail(queue)
      /\ UNCHANGED <<backend, solo, batch, group, device, pc, job, nonce, good, constants,
                     validated, hits, handed>>
  BY DEF RunKernel, sizeVars
<1>2. PICK spoiled \in {{}} \union {{i} : i \in Items} :
        /\ faults.all + Cardinality(spoiled) <= Faults
        /\ faults' = [batch |-> faults.batch + Cardinality(spoiled),
                      all |-> faults.all + Cardinality(spoiled)]
        /\ \/ /\ command.kernel = "prepare"
              /\ inputs' = Worked(inputs, "prepare", prepared, spoiled, Junk)
              /\ UNCHANGED <<memory, out>>
           \/ /\ command.kernel = "init"
              /\ memory' = Worked(memory, "init", [i \in Items |-> FirstBlocks(i)], spoiled, Blank)
              /\ UNCHANGED <<inputs, out>>
           \/ /\ command.kernel = "argon"
              /\ memory' = Worked(memory, "argon", [i \in Items |-> FilledMemory(i)], spoiled, Blank)
              /\ UNCHANGED <<inputs, out>>
           \/ /\ command.kernel = "export"
              /\ out' = Worked(out, "export", [i \in Items |-> Exported(i)], spoiled, Junk)
              /\ UNCHANGED <<inputs, memory>>
  BY DEF RunKernel
<1>3. /\ Launched /\ Preparing /\ Done \in 0..3 /\ Len(queue) \in Nat \ {0}
      /\ command = [kernel |-> Order[Done + 1], job |-> job, first |-> nonce]
      /\ \A k \in 1..Len(Tail(queue)) :
           Tail(queue)[k] = [kernel |-> Order[Done + 1 + k], job |-> job, first |-> nonce]
      /\ Len(Tail(queue)) = Len(queue) - 1
  BY <1>1, KernelIs
<1>4. /\ Launched' /\ Preparing' /\ Queued' = Queued /\ Done' = Done + 1 /\ Queued \in 0..4
      /\ Items' = Items /\ \A i : Sample(i)' = Sample(i)
  <2>1. Launched' /\ Preparing' /\ Queued' = Queued /\ Items' = Items /\ \A i : Sample(i)' = Sample(i)
    BY <1>1, <1>3 DEF Launched, Preparing, Queued, Items, Sample
  <2>2. Queued \in 0..4
    BY <1>3, QueuedIs DEF Launched
  <2>3. Len(queue') = Len(queue) - 1 /\ Len(queue) \in Nat
    BY <1>1, <1>3
  <2>4. Done' = Done + 1
    BY <2>1, <2>2, <2>3 DEF Done
  <2> QED
    BY <2>1, <2>2, <2>4
<1>5. /\ batch \in Nat \ {0} /\ \A i \in Items : nonce + i - 1 \in Nonces /\ Sample(i) \in Slot
  BY <1>3, SampleIs
<1>6. constants = job /\ \A i \in Items : Prepared(command, i) = Sample(i)
  BY <1>3 DEF IInv, BatchOK, Prepared, Sample
<1>7. /\ command.kernel = "prepare" => Done = 0
      /\ command.kernel = "init" => Done = 1
      /\ command.kernel = "argon" => Done = 2
      /\ command.kernel = "export" => Done = 3
  BY <1>3 DEF Order
<1> HIDE DEF command, prepared
<1>8. /\ inputs \in [Items -> Slot] /\ out \in [Items -> Slot]
      /\ memory \in [Items -> [of : Slot, filled : BOOLEAN]]
  BY DEF IInv, TypeOK
<1> DEFINE Good(i) ==
             /\ inputs'[i] = Sample(i)
             /\ Done = 1 => memory'[i] = [of |-> Sample(i), filled |-> FALSE]
             /\ Done = 2 => memory'[i] = [of |-> Sample(i), filled |-> TRUE]
             /\ Done = 3 => out'[i] = Sample(i)
           Goal ==
             /\ inputs' \in [Items -> Slot] /\ out' \in [Items -> Slot]
             /\ memory' \in [Items -> [of : Slot, filled : BOOLEAN]]
             /\ \A i \in Items : inputs'[i] \in {Junk, Sample(i)}
             /\ \A i \in Items : i \notin spoiled /\ Sound(i) => Good(i)
<1>9. /\ Junk \in Slot /\ Blank \in [of : Slot, filled : BOOLEAN]
       /\ \A s \in Slot, b \in BOOLEAN : [of |-> s, filled |-> b] \in [of : Slot, filled : BOOLEAN]
  <2>1. Junk \in Slot
    BY DEF Slot
  <2>2. \A s \in Slot, b \in BOOLEAN : [of |-> s, filled |-> b] \in [of : Slot, filled : BOOLEAN]
    OBVIOUS
  <2> QED
    BY <2>1, <2>2 DEF Blank
<1>10. Done # 0 => \A i \in Items : inputs[i] \in {Junk, Sample(i)}
  BY <1>3 DEF IInv, PipelineOK
<1>11. \A i \in Items : Sound(i) =>
         /\ Done # 0 => inputs[i] = Sample(i)
         /\ Done = 2 => memory[i] = [of |-> Sample(i), filled |-> FALSE]
         /\ Done = 3 => memory[i] = [of |-> Sample(i), filled |-> TRUE]
  BY <1>3 DEF Sound
<1>12. ASSUME command.kernel = "prepare" PROVE Goal
  <2>1. Done = 0 /\ UNCHANGED <<memory, out>>
    BY <1>2, <1>7, <1>12
  <2>2. inputs' = Worked(inputs, "prepare", prepared, spoiled, Junk)
    BY <1>2, <1>12
  <2>3. \A i \in Items : inputs'[i] = IF i \in spoiled THEN Junk ELSE Sample(i)
    BY <1>5, <1>6, <2>2, WorkedIs DEF prepared
  <2>4. inputs' \in [Items -> Slot]
    <3>1. inputs' = [i \in Items |-> inputs'[i]]
      BY <2>2 DEF Worked
    <3>2. \A i \in Items : inputs'[i] \in Slot
      BY <1>5, <1>9, <2>3
    <3> QED
      BY <3>1, <3>2
  <2> QED
    BY <1>8, <2>1, <2>3, <2>4
<1>13. ASSUME command.kernel = "init" PROVE Goal
  <2>1. Done = 1 /\ UNCHANGED <<inputs, out>>
    BY <1>2, <1>7, <1>13
  <2>2. memory' = Worked(memory, "init", [i \in Items |-> FirstBlocks(i)], spoiled, Blank)
    BY <1>2, <1>13
  <2>3. \A i \in Items : memory'[i] = IF i \in spoiled THEN Blank ELSE FirstBlocks(i)
    BY <1>5, <2>2, WorkedIs
  <2>4. memory' \in [Items -> [of : Slot, filled : BOOLEAN]]
    <3>1. memory' = [i \in Items |-> memory'[i]]
      BY <2>2 DEF Worked
    <3>2. ASSUME NEW i \in Items PROVE memory'[i] \in [of : Slot, filled : BOOLEAN]
      <4>1. inputs[i] \in Slot /\ FALSE \in BOOLEAN
        BY <1>8
      <4>2. FirstBlocks(i) \in [of : Slot, filled : BOOLEAN]
        BY <1>9, <4>1 DEF FirstBlocks
      <4> QED
        BY <1>9, <2>3, <4>2
    <3> QED
      BY <3>1, <3>2
  <2> QED
    BY <1>8, <1>10, <1>11, <2>1, <2>3, <2>4 DEF FirstBlocks
<1>14. ASSUME command.kernel = "argon" PROVE Goal
  <2>1. Done = 2 /\ UNCHANGED <<inputs, out>>
    BY <1>2, <1>7, <1>14
  <2>2. memory' = Worked(memory, "argon", [i \in Items |-> FilledMemory(i)], spoiled, Blank)
    BY <1>2, <1>14
  <2>3. \A i \in Items : memory'[i] = IF i \in spoiled THEN Blank ELSE FilledMemory(i)
    BY <1>5, <2>2, WorkedIs
  <2>4. memory' \in [Items -> [of : Slot, filled : BOOLEAN]]
    <3>1. memory' = [i \in Items |-> memory'[i]]
      BY <2>2 DEF Worked
    <3>2. ASSUME NEW i \in Items PROVE memory'[i] \in [of : Slot, filled : BOOLEAN]
      <4>1. memory[i].of \in Slot /\ TRUE \in BOOLEAN
        BY <1>8
      <4>2. FilledMemory(i) \in [of : Slot, filled : BOOLEAN]
        BY <1>9, <4>1 DEF FilledMemory
      <4> QED
        BY <1>9, <2>3, <4>2
    <3> QED
      BY <3>1, <3>2
  <2> QED
    BY <1>8, <1>10, <1>11, <2>1, <2>3, <2>4 DEF FilledMemory
<1>15. ASSUME command.kernel = "export" PROVE Goal
  <2>1. Done = 3 /\ UNCHANGED <<inputs, memory>>
    BY <1>2, <1>7, <1>15
  <2>2. out' = Worked(out, "export", [i \in Items |-> Exported(i)], spoiled, Junk)
    BY <1>2, <1>15
  <2>3. \A i \in Items : out'[i] = IF i \in spoiled THEN Junk ELSE Exported(i)
    BY <1>5, <2>2, WorkedIs
  <2>4. out' \in [Items -> Slot]
    <3>1. out' = [i \in Items |-> out'[i]]
      BY <2>2 DEF Worked
    <3>2. \A i \in Items : out'[i] \in Slot
      BY <1>8, <1>9, <2>3 DEF Exported
    <3> QED
      BY <3>1, <3>2
  <2> QED
    BY <1>8, <1>10, <1>11, <2>1, <2>3, <2>4 DEF Exported
<1>16. Goal
  BY <1>2, <1>12, <1>13, <1>14, <1>15
<1> HIDE DEF Goal
<1>17. Cardinality(spoiled) \in 0..1 /\ IsFiniteSet(spoiled)
  <2>1. IsFiniteSet({}) /\ Cardinality({}) = 0
    BY FS_EmptySet
  <2>2. \A i : IsFiniteSet({i}) /\ Cardinality({i}) = 1
    BY FS_Singleton
  <2>3. IsFiniteSet(spoiled) /\ (Cardinality(spoiled) = 0 \/ Cardinality(spoiled) = 1)
    BY <2>1, <2>2, Zenon
  <2> QED
    BY <2>3
<1>18. Cardinality(Spoiled') <= faults'.batch
  <2>1. Spoiled' \subseteq Spoiled \union spoiled
    <3>1. \A i \in Items : i \notin spoiled /\ Sound(i) => Sound(i)'
      BY <1>3, <1>4, <1>16 DEF Goal, Sound
    <3> QED
      BY <1>4, <3>1 DEF Spoiled
  <2>2. IsFiniteSet(Spoiled)
    <3>1. IsFiniteSet(Items)
      BY <1>5, FS_Interval DEF Items
    <3> QED
      BY <3>1, FS_Subset DEF Spoiled
  <2>3. /\ IsFiniteSet(Spoiled \union spoiled) /\ Cardinality(Spoiled) \in Nat
        /\ Cardinality(Spoiled \union spoiled) <= Cardinality(Spoiled) + Cardinality(spoiled)
    <3>1. /\ IsFiniteSet(Spoiled \union spoiled)
          /\ Cardinality(Spoiled \union spoiled) =
               Cardinality(Spoiled) + Cardinality(spoiled) - Cardinality(Spoiled \intersect spoiled)
      BY <1>17, <2>2, FS_Union
    <3>2. Cardinality(Spoiled \intersect spoiled) \in Nat /\ Cardinality(Spoiled) \in Nat
      BY <1>17, <2>2, FS_Intersection, FS_CardinalityType
    <3> QED
      BY <1>17, <3>1, <3>2
  <2>4. Cardinality(Spoiled') <= Cardinality(Spoiled \union spoiled) /\ Cardinality(Spoiled') \in Nat
        /\ Cardinality(Spoiled \union spoiled) \in Nat
    BY <2>1, <2>3, FS_Subset, FS_CardinalityType
  <2>5. Cardinality(Spoiled) <= faults.batch
    BY <1>3 DEF IInv, PipelineOK
  <2>6. faults.batch \in Nat /\ faults'.batch = faults.batch + Cardinality(spoiled)
    BY <1>2 DEF IInv, TypeOK
  <2> QED
    BY <1>17, <2>3, <2>4, <2>5, <2>6
<1>19. PipelineOK'
  BY <1>4, <1>16, <1>18 DEF Goal, PipelineOK
<1>20. faults' \in [batch : 0..Faults, all : 0..Faults] /\ FaultsOK'
  <2>1. faults.batch \in 0..Faults /\ faults.all \in 0..Faults /\ faults.batch <= faults.all
    BY DEF IInv, TypeOK, FaultsOK
  <2>2. faults'.batch = faults.batch + Cardinality(spoiled)
          /\ faults'.all = faults.all + Cardinality(spoiled)
    BY <1>2
  <2>3. faults.batch + Cardinality(spoiled) \in 0..Faults /\ faults.all + Cardinality(spoiled) \in 0..Faults
          /\ faults.batch + Cardinality(spoiled) <= faults.all + Cardinality(spoiled)
    BY <1>2, <1>17, <2>1, Constants
  <2> QED
    BY <1>2, <2>2, <2>3 DEF FaultsOK
<1>21. queue' \in Seq([kernel : Kernel, job : Job, first : Nonces]) /\ Len(queue') <= 4
  <2>1. queue \in Seq([kernel : Kernel, job : Job, first : Nonces]) /\ Len(queue) <= 4
    BY DEF IInv, TypeOK
  <2>2. Tail(queue) \in Seq([kernel : Kernel, job : Job, first : Nonces])
    BY <1>1, <2>1
  <2> QED
    BY <1>1, <1>3, <2>1, <2>2
<1>22. TypeOK'
  BY <1>1, <1>4, <1>16, <1>20, <1>21 DEF Goal, IInv, TypeOK
<1>23. SizesOK' /\ BatchOK'
  BY <1>1 DEF IInv, SizesOK, BatchOK, Preparing
<1>24. QueueOK'
  <2>1. pc' \notin {"new", "ready", "launch"}
    BY <1>4 DEF Launched
  <2>2. Len(queue') <= Queued'
    BY <1>1, <1>3, <1>4 DEF IInv, QueueOK
  <2> QED
    BY <1>1, <1>3, <1>4, <2>1, <2>2 DEF QueueOK
<1>25. (LaunchesAreLegal /\ ResultsAreChecked /\ HitsOK /\ LostOK /\ SoloOK /\ CudaStopsOnMismatch)'
  BY <1>1, <1>4, NotReady DEF Launched
<1>26. FirstBatchOK'
  BY <1>1, <1>25 DEF IInv, FirstBatchOK
<1> QED
  BY <1>19, <1>20, <1>22, <1>23, <1>24, <1>25, <1>26 DEF IInv

-----------------------------------------------------------------------------
(* The hits                                                                *)

\* What is read back when the kernels have run: an item that is right for every
\* slot that is not spoiled, and none of another batch.
LEMMA ReadBack ==
  ASSUME IInv, pc = "read", queue = <<>>
  PROVE  /\ IsFiniteSet(Spoiled) /\ Cardinality(Spoiled) <= faults.batch
         /\ \A i \in Items : inputs[i] \in {Junk, Sample(i)}
         /\ \A i \in Items : i \notin Spoiled => Right(i)
<1>1. Launched /\ Preparing /\ Done = 4
  <2>1. Len(queue) = 0
    OBVIOUS
  <2> QED
    BY <2>1, QueuedIs DEF Launched, Preparing, Done
<1>2. Cardinality(Spoiled) <= faults.batch /\ \A i \in Items : inputs[i] \in {Junk, Sample(i)}
  BY <1>1 DEF IInv, PipelineOK
<1>3. \A i \in Items : i \notin Spoiled => Right(i)
  BY <1>1 DEF Spoiled, Sound, Right, Sample
<1>4. IsFiniteSet(Spoiled)
  <2>1. IsFiniteSet(Items)
    BY <1>1, SampleIs, FS_Interval DEF Items
  <2> QED
    BY <2>1, FS_Subset DEF Spoiled
<1> QED
  BY <1>2, <1>3, <1>4

\* The loop over the items finds every right item that is good, in order and once.
Found(s) ==
  \E from \in [1..Len(s) -> Items] :
    /\ \A k \in 1..Len(s) :
         IF Right(from[k])
         THEN s[k] = [nonce |-> nonce + from[k] - 1, meets |-> TRUE] /\ nonce + from[k] - 1 \in good
         ELSE s[k].nonce = 0
    /\ \A k, l \in 1..Len(s) : k < l => from[k] < from[l]
    /\ \A i \in Items : Right(i) /\ nonce + i - 1 \in good => \E k \in 1..Len(s) : from[k] = i

\* So does `HitsOf`, whatever the hashes of the slots that are not right come to.
LEMMA HitsAre ==
  ASSUME IInv, Preparing, NEW luck \in [{i \in Items : ~Right(i)} -> {"none", "bad", "good"}]
  PROVE  HitsOf(luck) \in Seq(Hit) /\ Found(HitsOf(luck))
<1> DEFINE wanted == {i \in Items : IF Right(i) THEN nonce + i - 1 \in good ELSE luck[i] # "none"}
           gives == [i \in Items |-> IF Right(i) THEN [nonce |-> nonce + i - 1, meets |-> TRUE]
                                     ELSE [nonce |-> 0, meets |-> luck[i] = "good"]]
           s == Pushed(batch, wanted, gives)
<1>1. HitsOf(luck) = s
  BY DEF HitsOf
<1>2. /\ batch \in Nat /\ Items = 1..batch
      /\ \A i \in Items : nonce + i - 1 \in Nonces
  BY SampleIs DEF Items
<1>3. gives \in [1..batch -> Hit] /\ wanted \in SUBSET (1..batch)
  <2>1. ASSUME NEW i \in Items PROVE gives[i] \in Hit
    <3>1. CASE Right(i)
      <4>1. gives[i] = [nonce |-> nonce + i - 1, meets |-> TRUE] /\ nonce + i - 1 \in Nonces
        BY <1>2, <3>1
      <4>2. TRUE \in BOOLEAN
        OBVIOUS
      <4> HIDE DEF gives
      <4> QED
        BY <4>1, <4>2 DEF Hit
    <3>2. CASE ~Right(i)
      <4>1. gives[i] = [nonce |-> 0, meets |-> luck[i] = "good"]
        BY <3>2
      <4>2. (luck[i] = "good") \in BOOLEAN
        OBVIOUS
      <4> HIDE DEF gives
      <4> QED
        BY <4>1, <4>2 DEF Hit
    <3> QED
      BY <3>1, <3>2
  <2>2. gives = [i \in 1..batch |-> gives[i]]
    BY <1>2
  <2>3. wanted \in SUBSET (1..batch)
    BY <1>2
  <2> HIDE DEF gives, wanted
  <2> QED
    BY <1>2, <2>1, <2>2, <2>3
<1>4. \A i \in wanted :
        IF Right(i)
        THEN gives[i] = [nonce |-> nonce + i - 1, meets |-> TRUE] /\ nonce + i - 1 \in good
        ELSE gives[i].nonce = 0
  OBVIOUS
<1>5. \A i \in Items : Right(i) /\ nonce + i - 1 \in good => i \in wanted
  OBVIOUS
<1>6. wanted \intersect (1..batch) \subseteq Items /\ wanted \intersect (1..batch) = wanted
  BY <1>2
<1> HIDE DEF wanted, gives
<1>7. s \in Seq(Hit) /\ Pushes(s, batch, wanted, gives)
  BY <1>2, <1>3, PushedIs
<1> HIDE DEF s
<1>8. Found(s)
  <2>1. PICK from \in [1..Len(s) -> wanted \intersect (1..batch)] :
          /\ \A i \in 1..Len(s) : s[i] = gives[from[i]]
          /\ \A i, j \in 1..Len(s) : i < j => from[i] < from[j]
          /\ \A w \in wanted \intersect (1..batch) : \E i \in 1..Len(s) : from[i] = w
    BY <1>7 DEF Pushes
  <2>2. from \in [1..Len(s) -> Items]
    BY <1>6, <2>1
  <2>3. \A k \in 1..Len(s) :
          IF Right(from[k])
          THEN s[k] = [nonce |-> nonce + from[k] - 1, meets |-> TRUE] /\ nonce + from[k] - 1 \in good
          ELSE s[k].nonce = 0
    BY <1>4, <1>6, <2>1
  <2>4. \A i \in Items : Right(i) /\ nonce + i - 1 \in good => \E k \in 1..Len(s) : from[k] = i
    BY <1>5, <1>6, <2>1
  <2> QED
    BY <2>1, <2>2, <2>3, <2>4, Zenon DEF Found
<1> QED
  BY <1>1, <1>7, <1>8

\* What the loop has found in a batch: no hit is wrong or there twice, and what is
\* missing has been spoiled.
LEMMA FoundIs ==
  ASSUME IInv, pc = "read", queue = <<>>, NEW s \in Seq(Hit), Found(s)
  PROVE  /\ Nonces0(s) \subseteq good /\ Distinct(s)
         /\ \A k \in DOMAIN s : s[k].nonce # 0 => s[k].meets
         /\ Cardinality(good \ Nonces0(s)) <= faults.batch
         /\ faults.batch = 0 /\ good # {} =>
              s # <<>> /\ Head(s).meets /\ \A n \in good : Head(s).nonce <= n
<1> DEFINE N == Len(s)
<1>1. N \in Nat /\ DOMAIN s = 1..N
  OBVIOUS
<1>2. PICK from \in [1..N -> Items] :
        /\ \A k \in 1..N :
             IF Right(from[k])
             THEN s[k] = [nonce |-> nonce + from[k] - 1, meets |-> TRUE] /\ nonce + from[k] - 1 \in good
             ELSE s[k].nonce = 0
        /\ \A k, l \in 1..N : k < l => from[k] < from[l]
        /\ \A i \in Items : Right(i) /\ nonce + i - 1 \in good => \E k \in 1..N : from[k] = i
  BY DEF Found
<1>3. /\ batch \in Nat \ {0} /\ nonce \in Nat \ {0} /\ Items = 1..batch
      /\ good \subseteq nonce..(nonce + batch - 1)
  BY SampleIs DEF IInv, BatchOK, Preparing, Items
<1>4. ASSUME NEW k \in 1..N, s[k].nonce # 0
      PROVE  /\ Right(from[k]) /\ s[k].nonce = nonce + from[k] - 1 /\ s[k].meets
             /\ s[k].nonce \in good
  <2>1. Right(from[k])
    BY <1>2, <1>4
  <2>2. s[k] = [nonce |-> nonce + from[k] - 1, meets |-> TRUE] /\ nonce + from[k] - 1 \in good
    BY <1>2, <2>1
  <2>3. s[k].nonce = nonce + from[k] - 1 /\ s[k].meets
    BY <2>2
  <2> QED
    BY <2>1, <2>2, <2>3
<1>5. Nonces0(s) \subseteq good /\ \A k \in DOMAIN s : s[k].nonce # 0 => s[k].meets
  BY <1>1, <1>4 DEF Nonces0
<1>6. Distinct(s)
  <2>1. ASSUME NEW k \in 1..N, NEW l \in 1..N, s[k].nonce = s[l].nonce, k # l, s[k].nonce # 0
        PROVE  FALSE
    <3>1. s[k].nonce = nonce + from[k] - 1 /\ s[l].nonce = nonce + from[l] - 1
      BY <1>4, <2>1
    <3>2. from[k] \in Nat /\ from[l] \in Nat
      BY <1>2, <1>3
    <3>3. from[k] = from[l]
      <4>1. nonce + from[k] - 1 = nonce + from[l] - 1
        BY <2>1, <3>1
      <4> QED
        BY <1>3, <3>2, <4>1
    <3>4. from[k] < from[l] \/ from[l] < from[k]
      BY <1>1, <1>2, <2>1
    <3> QED
      BY <3>2, <3>3, <3>4
  <2> QED
    BY <1>1, <2>1 DEF Distinct
<1>7. ASSUME NEW n \in good, Right(n - nonce + 1)
      PROVE  \E k \in 1..N : from[k] = n - nonce + 1 /\ s[k].nonce = n /\ n # 0
  <2>1. n - nonce + 1 \in Items /\ nonce + (n - nonce + 1) - 1 = n /\ n # 0
    BY <1>3
  <2>2. PICK k \in 1..N : from[k] = n - nonce + 1
    BY <1>2, <1>7, <2>1
  <2>3. s[k] = [nonce |-> nonce + from[k] - 1, meets |-> TRUE]
    BY <1>2, <1>7, <2>2
  <2>4. s[k].nonce = n
    BY <2>1, <2>2, <2>3
  <2> QED
    BY <2>1, <2>2, <2>4
<1>8. Cardinality(good \ Nonces0(s)) <= faults.batch
  <2> DEFINE Lost == good \ Nonces0(s)
             at == [n \in Lost |-> n - nonce + 1]
  <2>1. ASSUME NEW n \in Lost PROVE n - nonce + 1 \in Spoiled
    <3>1. n - nonce + 1 \in Items
      BY <1>3
    <3>2. ~Right(n - nonce + 1)
      BY <1>1, <1>7 DEF Nonces0
    <3> QED
      BY <3>1, <3>2, ReadBack
  <2>2. at \in [Lost -> Spoiled]
    BY <2>1
  <2>3. \A m, n \in Lost : at[m] = at[n] => m = n
    BY <1>3
  <2>4. \A n \in Lost : n \in Nat
    BY <1>3
  <2>5. at \in Injection(Lost, Spoiled)
    <3>1. DOMAIN at = Lost
      OBVIOUS
    <3> HIDE DEF at, Lost
    <3> QED
      BY <2>2, <2>3, <3>1 DEF Injection, IsInjective
  <2> HIDE DEF at, Lost
  <2>6. IsFiniteSet(Lost) /\ Cardinality(Lost) <= Cardinality(Spoiled)
    BY <2>5, ReadBack, FS_Injection
  <2>7. Cardinality(Lost) \in Nat /\ Cardinality(Spoiled) \in Nat /\ faults.batch \in Nat
    BY <2>6, ReadBack, FS_CardinalityType DEF IInv, TypeOK
  <2>8. Cardinality(Lost) <= faults.batch
    BY <2>6, <2>7, ReadBack
  <2> QED
    BY <2>8 DEF Lost
<1>9. ASSUME faults.batch = 0, good # {}
      PROVE  s # <<>> /\ Head(s).meets /\ \A n \in good : Head(s).nonce <= n
  <2>1. Spoiled = {}
    <3>1. Cardinality(Spoiled) \in Nat /\ Cardinality(Spoiled) <= 0
      BY <1>9, ReadBack, FS_CardinalityType
    <3>2. Cardinality(Spoiled) = 0
      BY <3>1
    <3> QED
      BY <3>2, ReadBack, FS_EmptySet
  <2>2. \A i \in Items : Right(i)
    BY <2>1, ReadBack
  <2>3. ASSUME NEW n \in good PROVE \E k \in 1..N : from[k] = n - nonce + 1
    <3>1. n - nonce + 1 \in Items
      BY <1>3
    <3> QED
      BY <1>7, <2>2, <3>1
  <2>4. 1 \in 1..N
    BY <1>1, <1>9, <2>3
  <2>5. s # <<>> /\ Head(s) = s[1]
    BY <1>1, <2>4
  <2>6. from[1] \in Items /\ s[1] = [nonce |-> nonce + from[1] - 1, meets |-> TRUE]
    BY <1>2, <2>2, <2>4
  <2>7. s[1].meets /\ s[1].nonce = nonce + from[1] - 1
    BY <2>6
  <2>8. ASSUME NEW n \in good PROVE s[1].nonce <= n
    <3>1. PICK k \in 1..N : from[k] = n - nonce + 1
      BY <2>3
    <3>2. k = 1 \/ 1 < k
      BY <1>1
    <3>3. from[1] <= from[k]
      BY <1>2, <1>3, <2>4, <3>2
    <3> QED
      BY <1>3, <2>6, <2>7, <3>1, <3>3
  <2> QED
    BY <2>5, <2>7, <2>8
<1> QED
  BY <1>5, <1>6, <1>8, <1>9

\* The results of a batch are read back, after the first CUDA batch has passed.
LEMMA SearchStep ==
  ASSUME IInv, OpenClRead \/ CudaRead
  PROVE  IInv'
<1>1. pc = "read" /\ queue = <<>> /\ Search /\ (backend = "Cuda" => "full" \in validated \/ Valid(1))
  BY DEF OpenClRead, CudaRead
<1>2. PICK luck \in [{i \in Items : ~Right(i)} -> {"none", "bad", "good"}] : hits' = HitsOf(luck)
  BY <1>1 DEF Search, ReadHits
<1>3. /\ nonce' = nonce + batch /\ validated' = validated \union {"full"} /\ pc' = "ready"
      /\ UNCHANGED <<backend, solo, batch, group, device, job, good, queue, constants, inputs,
                     memory, out, handed, faults>>
  BY <1>1 DEF Search, ReadHits, sizeVars, deviceVars
<1>4. Preparing /\ handed = <<>> /\ batch \in Nat \ {0} /\ nonce \in Nat \ {0}
  BY <1>1, SampleIs DEF Preparing, IInv, BatchOK
<1>5. hits' \in Seq(Hit) /\ Found(hits')
  BY <1>2, <1>4, HitsAre
<1>6. /\ Nonces0(hits') \subseteq good /\ Distinct(hits')
      /\ \A k \in DOMAIN hits' : hits'[k].nonce # 0 => hits'[k].meets
      /\ Cardinality(good \ Nonces0(hits')) <= faults.batch
      /\ faults.batch = 0 /\ good # {} =>
           hits' # <<>> /\ Head(hits').meets /\ \A n \in good : Head(hits').nonce <= n
  BY <1>1, <1>5, FoundIs
<1>7. TypeOK'
  <2>1. nonce' \in Nat
    BY <1>3, <1>4
  <2> QED
    BY <1>1, <1>3, <1>5, <2>1 DEF IInv, TypeOK, Items
<1>8. SizesOK' /\ BatchOK' /\ FaultsOK'
  BY <1>1, <1>3, <1>4 DEF IInv, SizesOK, BatchOK, FaultsOK, Preparing
<1>9. QueueOK' /\ PipelineOK'
  BY <1>1, <1>3 DEF QueueOK, PipelineOK, Launched
<1>10. nonce' # 1
  BY <1>3, <1>4
<1>11. CudaStopsOnMismatch'
  <2>1. ASSUME backend = "Cuda", nonce + batch = 1 + batch
        PROVE  out[1] = <<job, 1>> /\ inputs[1] = out[1]
    <3>1. nonce = 1 /\ 1 \in Items
      BY <1>4, <2>1 DEF Items
    <3>2. Valid(1)
      BY <1>1, <2>1, <3>1 DEF IInv, FirstBatchOK
    <3>3. inputs[1] \in {Junk, <<job, 1>>}
      BY <1>1, <3>1, ReadBack DEF Sample
    <3> QED
      BY <3>2, <3>3 DEF Valid
  <2> QED
    BY <1>3, <2>1 DEF CudaStopsOnMismatch
<1>12. FirstBatchOK' /\ LaunchesAreLegal' /\ ResultsAreChecked'
  BY <1>3, <1>10, <1>11 DEF FirstBatchOK, LaunchesAreLegal, IInv, ResultsAreChecked
<1>13. HitsOK'
  BY <1>3, <1>4, <1>6, NoHits DEF HitsOK
<1>14. LostOK'
  <2>1. {} \union Nonces0(hits') = Nonces0(hits')
    OBVIOUS
  <2> QED
    BY <1>3, <1>4, <1>6, <2>1, NoHits DEF LostOK
<1>15. SoloOK'
  BY <1>3, <1>4, <1>6 DEF SoloOK
<1> QED
  BY <1>7, <1>8, <1>9, <1>11, <1>12, <1>13, <1>14, <1>15 DEF IInv

-----------------------------------------------------------------------------
(* The caller                                                              *)

\* The first hit, and those that remain
LEMMA TailHits ==
  ASSUME NEW s \in Seq(Hit), s # <<>>
  PROVE  /\ Tail(s) \in Seq(Hit) /\ Head(s) \in Hit
         /\ Nonces0(s) = Nonces0(Tail(s)) \union ({Head(s).nonce} \ {0})
         /\ Distinct(s) => Distinct(Tail(s)) /\ Head(s).nonce \notin Nonces0(Tail(s))
         /\ (\A k \in DOMAIN s : s[k].nonce # 0 => s[k].meets) =>
              /\ Head(s).nonce # 0 => Head(s).meets
              /\ \A k \in DOMAIN Tail(s) : Tail(s)[k].nonce # 0 => Tail(s)[k].meets
<1> DEFINE N == Len(s)
           t == Tail(s)
<1>1. /\ N \in Nat \ {0} /\ DOMAIN s = 1..N /\ Head(s) = s[1] /\ s[1] \in Hit
      /\ t \in Seq(Hit) /\ Len(t) = N - 1
  OBVIOUS
<1>2. DOMAIN t = 1..(N - 1) /\ \A k \in 1..(N - 1) : t[k] = s[k + 1]
  BY <1>1
<1> HIDE DEF N, t
<1>3. \A k \in 1..(N - 1) : k + 1 \in 1..N /\ k + 1 # 1
  BY <1>1
<1>4. \A k \in 1..N : k = 1 \/ (k - 1 \in 1..(N - 1) /\ s[k] = t[k - 1])
  <2>1. \A k \in 1..N : k # 1 => k - 1 \in 1..(N - 1) /\ (k - 1) + 1 = k
    BY <1>1
  <2> QED
    BY <1>2, <2>1
<1>5. 1 \in 1..N
  BY <1>1
<1>6. Nonces0(s) = Nonces0(t) \union ({s[1].nonce} \ {0})
  <2>1. ASSUME NEW n \in Nonces0(s), n # s[1].nonce PROVE n \in Nonces0(t)
    <3>1. PICK k \in 1..N : n = s[k].nonce
      BY <1>1 DEF Nonces0
    <3>2. k - 1 \in DOMAIN t /\ t[k - 1].nonce = n
      BY <1>2, <1>4, <2>1, <3>1
    <3> QED
      BY <2>1, <3>2 DEF Nonces0
  <2>2. \A n \in Nonces0(t) : n \in Nonces0(s)
    BY <1>1, <1>2, <1>3 DEF Nonces0
  <2>3. s[1].nonce # 0 => s[1].nonce \in Nonces0(s)
    BY <1>1, <1>5 DEF Nonces0
  <2>4. 0 \notin Nonces0(s)
    BY DEF Nonces0
  <2> QED
    BY <2>1, <2>2, <2>3, <2>4
<1>7. ASSUME Distinct(s) PROVE Distinct(t) /\ s[1].nonce \notin Nonces0(t)
  <2>1. Distinct(t)
    <3>1. \A k, l \in 1..N : s[k].nonce = s[l].nonce /\ k # l => s[k].nonce = 0
      BY <1>1, <1>7 DEF Distinct
    <3>2. ASSUME NEW k \in 1..(N - 1), NEW l \in 1..(N - 1), t[k].nonce = t[l].nonce, k # l
          PROVE  t[k].nonce = 0
      <4>1. k + 1 \in 1..N /\ l + 1 \in 1..N /\ k + 1 # l + 1
        BY <1>3, <3>2
      <4>2. t[k] = s[k + 1] /\ t[l] = s[l + 1]
        BY <1>2
      <4> QED
        BY <3>1, <3>2, <4>1, <4>2
    <3> QED
      BY <1>2, <3>2 DEF Distinct
  <2>2. \A k \in 1..(N - 1) : t[k].nonce # 0 => t[k].nonce # s[1].nonce
    BY <1>1, <1>2, <1>3, <1>5, <1>7 DEF Distinct
  <2> QED
    BY <1>2, <2>1, <2>2 DEF Nonces0
<1>8. ASSUME \A k \in DOMAIN s : s[k].nonce # 0 => s[k].meets
      PROVE  /\ s[1].nonce # 0 => s[1].meets
             /\ \A k \in DOMAIN t : t[k].nonce # 0 => t[k].meets
  BY <1>1, <1>2, <1>3, <1>5, <1>8
<1>9. t = Tail(s)
  BY DEF t
<1> QED
  BY <1>1, <1>6, <1>7, <1>8, <1>9

\* One more that has been submitted
LEMMA AppendHits ==
  ASSUME NEW s \in Seq(Hit), NEW h \in Hit
  PROVE  /\ Append(s, h) \in Seq(Hit)
         /\ Nonces0(Append(s, h)) = Nonces0(s) \union ({h.nonce} \ {0})
         /\ Distinct(s) /\ h.nonce \notin Nonces0(s) => Distinct(Append(s, h))
         /\ (\A k \in DOMAIN s : s[k].meets) /\ h.meets =>
              \A k \in DOMAIN Append(s, h) : Append(s, h)[k].meets
<1> DEFINE N == Len(s)
           t == Append(s, h)
<1>1. /\ N \in Nat /\ DOMAIN s = 1..N /\ t \in Seq(Hit) /\ Len(t) = N + 1 /\ t[N + 1] = h
      /\ \A k \in 1..N : t[k] = s[k]
  OBVIOUS
<1>2. DOMAIN t = 1..(N + 1)
  BY <1>1
<1> HIDE DEF N, t
<1>3. \A k \in 1..(N + 1) : k \in 1..N \/ k = N + 1
  BY <1>1
<1>4. N + 1 \in 1..(N + 1) /\ \A k \in 1..N : k \in 1..(N + 1) /\ k # N + 1
  BY <1>1
<1>5. Nonces0(t) = Nonces0(s) \union ({h.nonce} \ {0})
  <2>1. \A n \in Nonces0(t) : n \in Nonces0(s) \/ n = h.nonce
    BY <1>1, <1>2, <1>3 DEF Nonces0
  <2>2. \A n \in Nonces0(s) : n \in Nonces0(t)
    BY <1>1, <1>2, <1>4 DEF Nonces0
  <2>3. h.nonce # 0 => h.nonce \in Nonces0(t)
    BY <1>1, <1>2, <1>4 DEF Nonces0
  <2>4. 0 \notin Nonces0(t)
    BY DEF Nonces0
  <2> QED
    BY <2>1, <2>2, <2>3, <2>4
<1>6. ASSUME Distinct(s), h.nonce \notin Nonces0(s) PROVE Distinct(t)
  <2>1. \A k \in 1..N : s[k].nonce # 0 => s[k].nonce # h.nonce
    BY <1>1, <1>6 DEF Nonces0
  <2>2. \A k, l \in 1..N : s[k].nonce = s[l].nonce /\ k # l => s[k].nonce = 0
    BY <1>1, <1>6 DEF Distinct
  <2> QED
    BY <1>1, <1>2, <1>3, <2>1, <2>2 DEF Distinct
<1>7. (\A k \in DOMAIN s : s[k].meets) /\ h.meets => \A k \in DOMAIN t : t[k].meets
  BY <1>1, <1>2, <1>3
<1>8. t = Append(s, h)
  BY DEF t
<1> QED
  BY <1>1, <1>5, <1>6, <1>7, <1>8

\* What a caller that looks at a hit leaves as it is
LEMMA CallerStep ==
  ASSUME IInv, pc = "ready", hits' \in Seq(Hit), handed' \in Seq(Hit),
         UNCHANGED <<backend, solo, batch, group, device, pc, job, nonce, good, queue, constants,
                     inputs, memory, out, validated, faults>>
  PROVE  (TypeOK /\ SizesOK /\ BatchOK /\ QueueOK /\ FaultsOK /\ PipelineOK /\ FirstBatchOK
            /\ LaunchesAreLegal)'
<1>1. TypeOK' /\ SizesOK' /\ FaultsOK'
  BY DEF IInv, TypeOK, SizesOK, FaultsOK, Items
<1>2. BatchOK' /\ QueueOK' /\ PipelineOK'
  BY DEF IInv, BatchOK, QueueOK, PipelineOK, Preparing, Launched
<1>3. FirstBatchOK'
  BY DEF IInv, FirstBatchOK, CudaStopsOnMismatch
<1>4. LaunchesAreLegal'
  <2>1. HelperBlock' = HelperBlock
    BY DEF HelperBlock
  <2>2. HelperThreads' = HelperThreads
    BY <2>1 DEF HelperThreads
  <2> QED
    BY <2>1, <2>2 DEF IInv, LaunchesAreLegal
<1> QED
  BY <1>1, <1>2, <1>3, <1>4

\* The scheduler of the pools looks at the first hit, and submits it if it is one.
LEMMA SubmitHitStep ==
  ASSUME IInv, SubmitHit
  PROVE  IInv'
<1> DEFINE h == Head(hits)
<1>1. /\ pc = "ready" /\ ~solo /\ hits # <<>> /\ hits' = Tail(hits)
      /\ handed' = IF h.meets THEN Append(handed, h) ELSE handed
      /\ UNCHANGED <<backend, solo, batch, group, device, pc, job, nonce, good, queue, constants,
                     inputs, memory, out, validated, faults>>
  BY DEF SubmitHit, sizeVars, deviceVars
<1>2. hits \in Seq(Hit) /\ handed \in Seq(Hit)
  BY DEF IInv, TypeOK
<1>3. /\ Nonces0(hits) \subseteq good /\ Nonces0(handed) \subseteq good
      /\ Nonces0(hits) \intersect Nonces0(handed) = {}
      /\ Distinct(hits) /\ Distinct(handed)
      /\ \A k \in DOMAIN hits : hits[k].nonce # 0 => hits[k].meets
  BY <1>1 DEF IInv, HitsOK
<1>4. /\ hits' \in Seq(Hit) /\ h \in Hit /\ Distinct(hits') /\ h.nonce \notin Nonces0(hits')
      /\ Nonces0(hits) = Nonces0(hits') \union ({h.nonce} \ {0})
      /\ h.nonce # 0 => h.meets
      /\ \A k \in DOMAIN hits' : hits'[k].nonce # 0 => hits'[k].meets
  BY <1>1, <1>2, <1>3, TailHits
<1> HIDE DEF h
<1>5. /\ handed' \in Seq(Hit) /\ Nonces0(handed') = Nonces0(handed) \union ({h.nonce} \ {0})
      /\ Distinct(handed') /\ ResultsAreChecked'
  <2>1. 0 \notin Nonces0(handed)
    BY DEF Nonces0
  <2>2. h.nonce \notin Nonces0(handed)
    BY <1>3, <1>4, <2>1
  <2>3. \A k \in DOMAIN handed : handed[k].meets
    BY DEF IInv, ResultsAreChecked
  <2>4. CASE h.meets
    <3>1. handed' = Append(handed, h)
      BY <1>1, <2>4
    <3> QED
      BY <1>2, <1>3, <1>4, <2>2, <2>3, <2>4, <3>1, AppendHits DEF ResultsAreChecked
  <2>5. CASE ~h.meets
    <3>1. handed' = handed /\ {h.nonce} \ {0} = {}
      BY <1>1, <1>4, <2>5
    <3> QED
      BY <1>2, <1>3, <2>3, <3>1 DEF ResultsAreChecked
  <2> QED
    BY <2>4, <2>5
<1>6. HitsOK'
  BY <1>1, <1>3, <1>4, <1>5 DEF HitsOK
<1>7. Nonces0(handed') \union Nonces0(hits') = Nonces0(handed) \union Nonces0(hits)
  BY <1>4, <1>5
<1>8. LostOK'
  BY <1>1, <1>7 DEF IInv, LostOK
<1>9. SoloOK'
  BY <1>1 DEF SoloOK
<1> QED
  BY <1>1, <1>4, <1>5, <1>6, <1>8, <1>9, CallerStep DEF IInv

\* Solo mining looks at the first hit only.
LEMMA SubmitBlockStep ==
  ASSUME IInv, SubmitBlock
  PROVE  IInv'
<1> DEFINE h == Head(hits)
<1>1. /\ pc = "ready" /\ solo /\ hits # <<>> /\ hits' = <<>>
      /\ handed' = IF h.meets THEN <<h>> ELSE handed
      /\ UNCHANGED <<backend, solo, batch, group, device, pc, job, nonce, good, queue, constants,
                     inputs, memory, out, validated, faults>>
  BY DEF SubmitBlock, sizeVars, deviceVars
<1>2. hits \in Seq(Hit) /\ handed \in Seq(Hit)
  BY DEF IInv, TypeOK
<1>3. Nonces0(hits) \subseteq good /\ Nonces0(handed) \subseteq good /\ Distinct(handed)
  BY <1>1 DEF IInv, HitsOK
<1>4. h \in Hit /\ {h.nonce} \ {0} \subseteq good
  BY <1>1, <1>2, <1>3, TailHits
<1>5. <<h>> \in Seq(Hit) /\ <<h>> # <<>> /\ <<h>>[1] = h /\ Append(<<>>, h) = <<h>>
  BY <1>4
<1> HIDE DEF h
<1>6. /\ Nonces0(<<h>>) = {} \union ({h.nonce} \ {0}) /\ Distinct(<<h>>)
      /\ h.meets => \A k \in DOMAIN <<h>> : <<h>>[k].meets
  <2>1. (\A k \in DOMAIN <<>> : <<>>[k].meets) /\ h.nonce \notin Nonces0(<<>>)
    BY NoHits
  <2> DEFINE t == Append(<<>>, h)
  <2>2. /\ Nonces0(t) = {} \union ({h.nonce} \ {0}) /\ Distinct(t)
        /\ h.meets => \A k \in DOMAIN t : t[k].meets
    BY <1>4, <2>1, AppendHits, NoHits
  <2>3. t = <<h>>
    BY <1>5
  <2> HIDE DEF t
  <2> QED
    BY <2>2, <2>3
<1>7. /\ handed' \in Seq(Hit) /\ Nonces0(handed') \subseteq good /\ Distinct(handed')
      /\ ResultsAreChecked'
  BY <1>1, <1>2, <1>3, <1>4, <1>5, <1>6 DEF IInv, ResultsAreChecked
<1>8. hits' \in Seq(Hit) /\ Nonces0(hits') = {} /\ Distinct(hits') /\ DOMAIN hits' = {}
  BY <1>1, NoHits
<1>9. HitsOK'
  BY <1>1, <1>7, <1>8 DEF HitsOK
<1>10. LostOK'
  BY <1>1 DEF LostOK
<1>11. SoloOK'
  <2>1. ASSUME faults.batch = 0, good # {}
        PROVE  handed' # <<>> /\ \A n \in good : handed'[1].nonce <= n
    <3>1. h.meets /\ \A n \in good : h.nonce <= n
      BY <1>1, <2>1 DEF IInv, SoloOK, h
    <3> QED
      BY <1>1, <1>5, <3>1
  <2> QED
    BY <1>1, <2>1 DEF SoloOK
<1> QED
  BY <1>1, <1>7, <1>8, <1>9, <1>10, <1>11, CallerStep DEF IInv

-----------------------------------------------------------------------------
(* The theorems                                                            *)

\* Every step of the host, the device and the caller keeps the invariant.
LEMMA NextIInv == IInv /\ [Next]_vars => IInv'
<1> SUFFICES ASSUME IInv, [Next]_vars PROVE IInv'
  OBVIOUS
<1>1. CASE NewOpenCl \/ NewCuda
  BY <1>1, NewStep
<1>2. CASE RunKernel
  BY <1>2, RunStep
<1>3. CASE BeginBatch
  BY <1>3, BeginStep
<1>4. CASE OpenClPrepare \/ OpenClArgon \/ OpenClExport \/ CudaLaunch
  BY <1>4, LaunchSteps
<1>5. CASE CheckInitialBlocks
  BY <1>5, CheckStep
<1>6. CASE OpenClRead \/ CudaRead
  BY <1>6, SearchStep
<1>7. CASE Fail
  BY <1>7, FailStep
<1>8. CASE SubmitHit
  BY <1>8, SubmitHitStep
<1>9. CASE SubmitBlock
  BY <1>9, SubmitBlockStep
<1>10. CASE UNCHANGED vars
  <2>1. UNCHANGED <<backend, solo, batch, group, device, pc, job, nonce, good, queue, constants,
                    inputs, memory, out, validated, hits, handed, faults>>
    BY <1>10 DEF vars, sizeVars, deviceVars
  <2>2. TypeOK' /\ SizesOK' /\ BatchOK' /\ FaultsOK'
    BY <2>1 DEF IInv, TypeOK, SizesOK, BatchOK, FaultsOK, Preparing, Items
  <2>3. Queued' = Queued /\ Launched' = Launched
    BY <2>1 DEF Queued, Launched
  <2>4. Done' = Done
    BY <2>1, <2>3 DEF Done
  <2>5. QueueOK'
    BY <2>1, <2>3, <2>4 DEF IInv, QueueOK
  <2>6. PipelineOK'
    <3>1. Items' = Items /\ \A i : Sample(i)' = Sample(i)
      BY <2>1 DEF Items, Sample
    <3>2. \A i : Sound(i)' <=> Sound(i)
      BY <2>1, <2>4, <3>1 DEF Sound
    <3>3. Spoiled' = Spoiled
      BY <3>1, <3>2 DEF Spoiled
    <3> QED
      BY <2>1, <2>3, <2>4, <3>1, <3>3 DEF IInv, PipelineOK
  <2>7. FirstBatchOK' /\ ResultsAreChecked'
    BY <2>1 DEF IInv, FirstBatchOK, CudaStopsOnMismatch, ResultsAreChecked
  <2>8. LaunchesAreLegal'
    <3>1. HelperBlock' = HelperBlock
      BY <2>1 DEF HelperBlock
    <3>2. HelperThreads' = HelperThreads
      BY <2>1, <3>1 DEF HelperThreads
    <3> QED
      BY <2>1, <3>1, <3>2 DEF IInv, LaunchesAreLegal
  <2>9. HitsOK' /\ LostOK' /\ SoloOK'
    <3>1. Nonces0(hits)' = Nonces0(hits) /\ Nonces0(handed)' = Nonces0(handed)
      BY <2>1
    <3> QED
      BY <2>1 DEF IInv, HitsOK, LostOK, SoloOK
  <2> QED
    BY <2>2, <2>5, <2>6, <2>7, <2>8, <2>9 DEF IInv
<1> QED
  BY <1>1, <1>2, <1>3, <1>4, <1>5, <1>6, <1>7, <1>8, <1>9, <1>10 DEF Next

\* Every step of the searchers, the device and the caller keeps the invariant.
THEOREM Invariance == SafetySpec => []IInv
BY InitIInv, NextIInv, PTL DEF SafetySpec

\* What the searchers, their buffers and their caller hold stays in its set, and a
\* batch is never empty nor beyond the limit of `new`.
THEOREM TypeCorrectness == SafetySpec => []TypeOK
<1>1. IInv => TypeOK
  BY DEF IInv
<1> QED
  BY <1>1, Invariance, PTL

\* `new` finds sizes that can be launched, whatever the options and the device: the
\* searches for a divisor find one, and the helper blocks of CUDA end with the batch.
THEOREM SizesCanBeLaunched == SafetySpec => []LaunchesAreLegal
<1>1. IInv => LaunchesAreLegal
  BY DEF IInv
<1> QED
  BY <1>1, Invariance, PTL

\* `submit_hit` and `generate_block_if_pow` hash anew: nothing is submitted that
\* does not meet the target, however faulty the device is.
THEOREM NothingIsBelieved == SafetySpec => []ResultsAreChecked
<1>1. IInv => ResultsAreChecked
  BY DEF IInv
<1> QED
  BY <1>1, Invariance, PTL

\* The full validation of the first CUDA batch lets no device pass that got its
\* first item wrong.
THEOREM FirstItemIsRight == SafetySpec => []CudaStopsOnMismatch
<1>1. IInv => CudaStopsOnMismatch
  BY DEF IInv, FirstBatchOK
<1> QED
  BY <1>1, Invariance, PTL

\* `search` and its caller submit every nonce of the batch that is good, each once,
\* but for one at most for each slot that the device has spoiled; kernels that run
\* late and buffers that are used again make no difference.
THEOREM BatchesAreExact == SafetySpec => []BatchIsExact
<1>1. ASSUME IInv PROVE BatchIsExact
  <2>1. SUFFICES ASSUME BatchDone PROVE BatchIsExact
    BY DEF BatchIsExact
  <2>2. pc = "ready" /\ hits = <<>> /\ HandedNonces = Nonces0(handed) /\ Nonces0(hits) = {}
    BY <2>1, NoHits DEF BatchDone, HandedNonces, Nonces0
  <2>3. HandedNonces \subseteq good /\ Distinct(handed)
    BY <1>1, <2>2 DEF IInv, HitsOK
  <2>4. ~solo => Cardinality(good \ HandedNonces) <= faults.batch
    <3>1. Nonces0(handed) \union Nonces0(hits) = HandedNonces
      BY <2>2
    <3> QED
      BY <1>1, <2>2, <3>1 DEF IInv, LostOK
  <2>5. solo /\ faults.batch = 0 /\ good # {} => handed # <<>> /\ \A n \in good : handed[1].nonce <= n
    BY <1>1, <2>2 DEF IInv, SoloOK
  <2> QED
    BY <2>3, <2>4, <2>5 DEF BatchIsExact, Distinct
<1>2. IInv => BatchIsExact
  BY <1>1
<1> QED
  BY <1>2, Invariance, PTL

-----------------------------------------------------------------------------
(* The abstract search                                                     *)

\* What the loop over the items has found is an answer: a hit that stands for no
\* nonce comes from a spoiled item of its own.
LEMMA FoundAnswers ==
  ASSUME IInv, pc = "read", queue = <<>>, NEW s \in Seq(Hit), Found(s)
  PROVE  Searcher!Answers(s)
<1> DEFINE N == Len(s)
<1>1. N \in Nat /\ DOMAIN s = 1..N
  OBVIOUS
<1>2. PICK from \in [1..N -> Items] :
        /\ \A k \in 1..N :
             IF Right(from[k])
             THEN s[k] = [nonce |-> nonce + from[k] - 1, meets |-> TRUE] /\ nonce + from[k] - 1 \in good
             ELSE s[k].nonce = 0
        /\ \A k, l \in 1..N : k < l => from[k] < from[l]
        /\ \A i \in Items : Right(i) /\ nonce + i - 1 \in good => \E k \in 1..N : from[k] = i
  BY DEF Found
<1>3. batch \in Nat \ {0} /\ nonce \in Nat \ {0} /\ Items = 1..batch
  <2>1. Preparing
    BY DEF Preparing
  <2>2. nonce \in Nat \ {0}
    BY DEF IInv, BatchOK
  <2> QED
    BY <2>1, <2>2, SampleIs DEF Items
<1>4. \A k \in 1..N : from[k] \in Nat \ {0}
  BY <1>2, <1>3
<1>5. ASSUME NEW k \in 1..N
      PROVE  IF Right(from[k]) THEN s[k].nonce = nonce + from[k] - 1 /\ s[k].nonce # 0
             ELSE s[k].nonce = 0
  <2>1. CASE Right(from[k])
    <3>1. s[k] = [nonce |-> nonce + from[k] - 1, meets |-> TRUE]
      BY <1>2, <2>1
    <3>2. s[k].nonce = nonce + from[k] - 1
      BY <3>1
    <3>3. nonce + from[k] - 1 # 0
      BY <1>3, <1>4
    <3> QED
      BY <2>1, <3>2, <3>3
  <2>2. CASE ~Right(from[k])
    BY <1>2, <2>2
  <2> QED
    BY <2>1, <2>2
<1> DEFINE Strange == {k \in 1..N : s[k].nonce = 0}
           at == [k \in Strange |-> from[k]]
<1>6. \A k, l \in (1..N) \ Strange : k < l => s[k].nonce < s[l].nonce
  <2> SUFFICES ASSUME NEW k \in (1..N) \ Strange, NEW l \in (1..N) \ Strange, k < l
               PROVE  s[k].nonce < s[l].nonce
    OBVIOUS
  <2>1. s[k].nonce # 0 /\ s[l].nonce # 0
    OBVIOUS
  <2> HIDE DEF Strange
  <2>3. s[k].nonce = nonce + from[k] - 1
    BY <1>5, <2>1
  <2>4. s[l].nonce = nonce + from[l] - 1
    BY <1>5, <2>1
  <2>2. from[k] < from[l]
    BY <1>2
  <2> QED
    BY <1>3, <1>4, <2>2, <2>3, <2>4
<1>7. Cardinality(Strange) <= faults.batch
  <2>1. at \in [Strange -> Spoiled]
    <3>1. ASSUME NEW k \in Strange PROVE from[k] \in Spoiled
      BY <1>2, <1>5, ReadBack
    <3> QED
      BY <3>1
  <2>2. \A k, l \in Strange : at[k] = at[l] => k = l
    <3>1. ASSUME NEW k \in Strange, NEW l \in Strange, from[k] = from[l], k # l PROVE FALSE
      <4>1. k < l \/ l < k
        BY <3>1
      <4> QED
        BY <1>2, <1>4, <3>1, <4>1
    <3> QED
      BY <3>1
  <2>3. DOMAIN at = Strange
    OBVIOUS
  <2> HIDE DEF at, Strange
  <2>4. at \in Injection(Strange, Spoiled)
    BY <2>1, <2>2, <2>3 DEF Injection, IsInjective
  <2>5. IsFiniteSet(Strange) /\ Cardinality(Strange) <= Cardinality(Spoiled)
    BY <2>4, ReadBack, FS_Injection
  <2>6. Cardinality(Strange) \in Nat /\ Cardinality(Spoiled) \in Nat /\ faults.batch \in Nat
    BY <2>5, ReadBack, FS_CardinalityType DEF IInv, TypeOK
  <2> QED
    BY <2>5, <2>6, ReadBack
<1>8. Searcher!NoncesOf(s) = Nonces0(s) /\ Searcher!Strangers(s) = Strange
  BY <1>1 DEF Searcher!NoncesOf, Searcher!Strangers, Nonces0
<1>9. /\ Nonces0(s) \subseteq good /\ Cardinality(good \ Nonces0(s)) <= faults.batch
      /\ \A k \in DOMAIN s : s[k].nonce # 0 => s[k].meets
  BY FoundIs
<1>10. \A k \in (1..N) \ Strange : s[k].meets
  BY <1>1, <1>9
<1>11. \A S : Searcher!Cardinality(S) = Cardinality(S)
  BY DEF Searcher!Cardinality, Cardinality
<1> HIDE DEF Strange
<1> QED
  BY <1>1, <1>6, <1>7, <1>8, <1>9, <1>10, <1>11 DEF Searcher!Answers

\* Solo mining submits once per batch: before it looks at the hits, it has
\* submitted nothing.
FreshOK == solo /\ hits # <<>> => handed = <<>>

\* Only the end of `search` brings hits, and the batch has begun with none submitted.
LEMMA FreshStep == IInv /\ FreshOK /\ [Next]_vars => FreshOK'
<1> SUFFICES ASSUME IInv, FreshOK, [Next]_vars PROVE FreshOK'
  OBVIOUS
<1> USE DEF sizeVars, deviceVars, FreshOK
<1>1. CASE NewOpenCl \/ NewCuda
  <2>1. UNCHANGED <<solo, hits, handed>>
    BY <1>1 DEF NewOpenCl, NewCuda, Create
  <2> QED
    BY <2>1
<1>2. CASE RunKernel
  <2>1. UNCHANGED <<solo, hits, handed>>
    BY <1>2 DEF RunKernel
  <2> QED
    BY <2>1
<1>3. CASE BeginBatch
  BY <1>3 DEF BeginBatch
<1>4. CASE OpenClPrepare \/ OpenClArgon \/ OpenClExport \/ CudaLaunch
  BY <1>4 DEF OpenClPrepare, OpenClArgon, OpenClExport, CudaLaunch, Launch
<1>5. CASE CheckInitialBlocks \/ Fail
  BY <1>5 DEF CheckInitialBlocks, Fail
<1>6. CASE OpenClRead \/ CudaRead
  <2>1. handed' = handed /\ pc = "read"
    BY <1>6 DEF OpenClRead, CudaRead, Search, ReadHits
  <2> QED
    BY <2>1 DEF IInv, BatchOK, Preparing
<1>7. CASE SubmitHit \/ SubmitBlock
  BY <1>7 DEF SubmitHit, SubmitBlock
<1>8. CASE UNCHANGED vars
  BY <1>8 DEF vars
<1> QED
  BY <1>1, <1>2, <1>3, <1>4, <1>5, <1>6, <1>7, <1>8 DEF Next

\* A kernel runs only in a batch under way, and spoils one slot at most.
LEMMA KernelSpoils ==
  ASSUME IInv, RunKernel
  PROVE  /\ Launched /\ faults'.batch \in {faults.batch, faults.batch + 1}
         /\ UNCHANGED <<solo, pc, job, nonce, good, hits, handed>>
<1>1. Launched
  BY DEF RunKernel, Launched, IInv, TypeOK, QueueOK
<1>2. PICK spoiled \in {{}} \union {{i} : i \in Items} :
        faults' = [batch |-> faults.batch + Cardinality(spoiled),
                   all |-> faults.all + Cardinality(spoiled)]
  BY DEF RunKernel
<1>3. Cardinality(spoiled) = 0 \/ Cardinality(spoiled) = 1
  <2>1. CASE spoiled = {}
    BY <2>1, FS_EmptySet
  <2>2. ASSUME NEW i \in Items, spoiled = {i} PROVE Cardinality(spoiled) = 1
    BY <2>2, FS_Singleton
  <2> QED
    BY <2>1, <2>2
<1>4. faults'.batch = faults.batch + Cardinality(spoiled) /\ faults.batch \in Nat
  BY <1>2 DEF IInv, TypeOK
<1> QED
  BY <1>1, <1>3, <1>4 DEF RunKernel, sizeVars

\* Every step is one of the abstract search, or not visible there.
LEMMA StepSearches ==
  IInv /\ IInv' /\ FreshOK /\ [Next]_vars => [Searcher!SearchNext]_(Searcher!searchVars)
<1> SUFFICES ASSUME IInv, IInv', FreshOK, [Next]_vars
             PROVE  Searcher!SearchNext \/ UNCHANGED Searcher!searchVars
  OBVIOUS
<1> USE DEF sizeVars, deviceVars
<1>1. CASE NewOpenCl \/ NewCuda
  <2>1. /\ pc = "new" /\ pc' = "ready"
        /\ UNCHANGED <<solo, job, nonce, good, hits, handed, faults>>
    BY <1>1 DEF NewOpenCl, NewCuda, Create
  <2> QED
    BY <2>1 DEF Phase, Searcher!searchVars
<1>2. CASE RunKernel
  <2>1. pc' = pc /\ Phase = "busy" /\ Phase' = "busy"
    BY <1>2, KernelSpoils DEF Phase, Launched
  <2>2. CASE faults'.batch = faults.batch
    BY <1>2, <2>1, <2>2, KernelSpoils DEF Searcher!searchVars
  <2>3. CASE faults'.batch = faults.batch + 1
    BY <1>2, <2>1, <2>3, KernelSpoils DEF Searcher!SearchNext, Searcher!Spoil
  <2> QED
    BY <1>2, <2>2, <2>3, KernelSpoils
<1>3. CASE BeginBatch
  <2>1. /\ pc = "ready" /\ pc' = "launch" /\ hits = <<>> /\ handed' = <<>> /\ job' \in Job
        /\ faults' = [faults EXCEPT !.batch = 0]
        /\ good' \in SUBSET (nonce..(nonce + batch - 1))
        /\ UNCHANGED <<solo, nonce, hits>>
    BY <1>3 DEF BeginBatch
  <2>2. faults'.batch = 0
    BY <2>1 DEF IInv, TypeOK
  <2>3. good' \in SUBSET {n \in Nonces : n >= nonce}
    <3>1. good' \subseteq Nonces
      BY DEF IInv, TypeOK
    <3>2. nonce \in Nat /\ batch \in Nat
      BY <2>1 DEF IInv, TypeOK
    <3> QED
      BY <2>1, <3>1, <3>2
  <2>4. Phase = "idle" /\ Phase' = "busy"
    BY <2>1 DEF Phase
  <2> QED
    BY <2>1, <2>2, <2>3, <2>4 DEF Searcher!SearchNext, Searcher!Begin
<1>4. CASE OpenClPrepare \/ OpenClArgon \/ OpenClExport \/ CudaLaunch \/ CheckInitialBlocks
  <2>1. /\ Preparing /\ pc' \in {"check", "argon", "export", "read"}
        /\ UNCHANGED <<solo, job, nonce, good, hits, handed, faults>>
    BY <1>4 DEF OpenClPrepare, OpenClArgon, OpenClExport, CudaLaunch, CheckInitialBlocks, Launch,
                Preparing
  <2>2. Phase = "busy" /\ Phase' = "busy"
    BY <2>1 DEF Phase, Preparing
  <2> QED
    BY <2>1, <2>2 DEF Searcher!searchVars
<1>5. CASE OpenClRead \/ CudaRead
  <2>1. pc = "read" /\ queue = <<>> /\ Preparing
    BY <1>5 DEF OpenClRead, CudaRead, Preparing
  <2>2. PICK luck \in [{i \in Items : ~Right(i)} -> {"none", "bad", "good"}] : hits' = HitsOf(luck)
    BY <1>5 DEF OpenClRead, CudaRead, Search, ReadHits
  <2>3. pc' = "ready" /\ nonce' = nonce + batch /\ UNCHANGED <<solo, job, good, handed, faults>>
    BY <1>5 DEF OpenClRead, CudaRead, Search, ReadHits
  <2>4. hits' \in Seq(Hit) /\ Found(hits')
    BY <2>1, <2>2, HitsAre
  <2>5. Searcher!Answers(hits')
    BY <2>1, <2>4, FoundAnswers
  <2>6. nonce' > nonce /\ \A n \in good : n < nonce'
    <3>1. /\ batch \in Nat \ {0} /\ nonce \in Nat \ {0}
          /\ good \subseteq nonce..(nonce + batch - 1)
      BY <2>1, SampleIs DEF IInv, BatchOK
    <3> QED
      BY <2>3, <3>1
  <2>7. Phase = "busy" /\ Phase' = "idle" /\ hits' \in Seq(Searcher!Hit)
    BY <2>1, <2>3, <2>4 DEF Phase, Hit, Searcher!Hit
  <2> QED
    BY <2>3, <2>5, <2>6, <2>7 DEF Searcher!SearchNext, Searcher!Answer
<1>6. CASE Fail
  <2>1. /\ pc # "gone" /\ pc' = "gone" /\ UNCHANGED <<solo, job, nonce, good, hits, handed, faults>>
    BY <1>6 DEF Fail
  <2>2. Phase # "gone" /\ Phase' = "gone"
    BY <2>1 DEF Phase
  <2> QED
    BY <2>1, <2>2 DEF Searcher!SearchNext, Searcher!Stop
<1>7. CASE SubmitHit
  <2>1. /\ pc = "ready" /\ pc' = pc /\ ~solo /\ hits # <<>> /\ hits' = Tail(hits)
        /\ handed' = IF Head(hits).meets THEN Append(handed, Head(hits)) ELSE handed
        /\ UNCHANGED <<solo, job, nonce, good, faults>>
    BY <1>7 DEF SubmitHit
  <2>2. Phase = "idle" /\ Phase' = "idle"
    BY <2>1 DEF Phase
  <2> QED
    BY <2>1, <2>2 DEF Searcher!SearchNext, Searcher!HandOn
<1>8. CASE SubmitBlock
  <2>1. /\ pc = "ready" /\ pc' = pc /\ solo /\ hits # <<>> /\ hits' = <<>>
        /\ handed' = IF Head(hits).meets THEN <<Head(hits)>> ELSE handed
        /\ UNCHANGED <<solo, job, nonce, good, faults>>
    BY <1>8 DEF SubmitBlock
  <2>2. Append(handed, Head(hits)) = <<Head(hits)>>
    BY <2>1 DEF FreshOK
  <2>3. Phase = "idle" /\ Phase' = "idle"
    BY <2>1 DEF Phase
  <2> QED
    BY <2>1, <2>2, <2>3 DEF Searcher!SearchNext, Searcher!HandOn
<1>9. CASE UNCHANGED vars
  BY <1>9 DEF vars, Phase, Searcher!searchVars
<1> QED
  BY <1>1, <1>2, <1>3, <1>4, <1>5, <1>6, <1>7, <1>8, <1>9 DEF Next

\* The kernels, the buffers and the host that drives them implement the search of a
\* batch in one step, over nonces that no other batch has.
THEOREM SearchesImplement == SafetySpec => ImplementsSearch
<1>1. Init => Searcher!SearchInit
  <2> SUFFICES ASSUME Init PROVE Searcher!SearchInit
    OBVIOUS
  <2>1. job \in Job
    BY Constants DEF Init
  <2> QED
    BY <2>1 DEF Init, Phase, Searcher!SearchInit
<1>2. Init => FreshOK
  BY DEF Init, FreshOK
<1> QED
  BY <1>1, <1>2, FreshStep, StepSearches, Invariance, PTL
     DEF SafetySpec, ImplementsSearch, Searcher!SearchSafety
=============================================================================
