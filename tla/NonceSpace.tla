----------------------------- MODULE NonceSpace ------------------------------
(***************************************************************************)
(* Which nonces a worker searches: `set_extranonce` (stratum.rs) computes  *)
(* a mask and fixed bits from what the pool assigns, a job carries both,   *)
(* and the CPU loop (`apply_extranonce`, pow.rs) and the kernels of the    *)
(* two GPU backends (gpu.rs, cuda.rs) put the worker's counter through     *)
(* them.  The numbers have Width bits in place of 64, bytes have ByteBits  *)
(* and hexadecimal digits DigitBits.                                       *)
(*                                                                         *)
(* One worker with a counter of its own is enough: workers share nothing   *)
(* here but the job.  When it gets which job is the subject of             *)
(* StratumSession and StratumMiner; here it may get any job at any time.   *)
(***************************************************************************)
EXTENDS Naturals, FiniteSets, Bitwise

CONSTANTS Width, ByteBits, DigitBits,
          SizeBits,   \* of the `u32` that the size of extranonce2 is cut to
          BatchSize,  \* of a GPU; a CPU worker tests one nonce at a time
          MaxDigits,  \* bound: digits of an extranonce
          MaxSize     \* bound: the size that the pool gives to extranonce2

ASSUME WidthAssumption ==
  /\ ByteBits \in Nat \ {0} /\ DigitBits \in Nat \ {0}
  /\ Width \in Nat \ {0} /\ Width % ByteBits = 0
  /\ 2 ^ SizeBits > Width
ASSUME BoundsAssumption ==
  /\ BatchSize \in Nat \ {0}
  /\ MaxDigits \in Nat /\ MaxSize \in Nat

Word == 0..(2 ^ Width - 1)

VARIABLES
  job,       \* `nonce_mask` and `nonce_fixed` of the worker's job
  assigned,  \* history: the extranonce that they come from
  batch,     \* how many nonces the worker tests at once
  nonce,     \* its counter, which wraps around
  tested,    \* history: how many nonces of the job it has tested
  searched   \* history: which ones

jobVars == <<job, assigned>>
vars == <<jobVars, batch, nonce, tested, searched>>

\* Digits, their value, and the size of what is left to the miner
Extranonce ==
  [digits : 0..MaxDigits, value : 0..(2 ^ (DigitBits * MaxDigits) - 1), size : 0..MaxSize]
Legible == {e \in Extranonce : e.value < 2 ^ (DigitBits * e.digits)}

\* A handler that the pool has not told anything
None == [digits |-> 0, value |-> 0, size |-> Width \div ByteBits]
Unrestricted == [mask |-> 2 ^ Width - 1, fixed |-> 0]

Space == [mask : Word, fixed : Word]

\* Every variable stays in its set: mask, fixed bits and the nonces made from
\* them fit in a word.
TypeOK ==
  /\ job \in Space
  /\ assigned \in Legible \union {None}
  /\ batch \in {1, BatchSize}
  /\ nonce \in Word
  /\ tested \in 0..(2 ^ Width + batch - 1)
  /\ searched \subseteq Word

\* The counter starts at a random number (`thread_rng`).
Init ==
  /\ job = Unrestricted
  /\ assigned = None
  /\ batch \in {1, BatchSize}
  /\ nonce \in Word
  /\ tested = 0
  /\ searched = {}

-----------------------------------------------------------------------------
(* Mistakes that the properties at the end of the module must reject       *)

\* The size alone is compared with the width of a nonce.
FitsAlone(e) ==
  LET bits == ByteBits * (e.size % 2 ^ SizeBits)
  IN  bits < 2 ^ SizeBits /\ bits <= Width

\* A mask that is one too large
MaskOffByOne(bits) == IF bits = Width THEN 2 ^ Width - 1 ELSE 2 ^ bits

\* A counter that does not wrap around
AdvanceWithoutWrapping(n, step) == n + step

-----------------------------------------------------------------------------
(* `set_extranonce`                                                        *)

\* `nonce_size as u32`
FreeBits(e) == ByteBits * (e.size % 2 ^ SizeBits)

\* `checked_mul` and the two comparisons with 64
Fits(e) ==
  /\ FreeBits(e) < 2 ^ SizeBits
  /\ FreeBits(e) <= Width
  /\ DigitBits * e.digits + FreeBits(e) <= Width

Mask(bits) == IF bits = Width THEN 2 ^ Width - 1 ELSE 2 ^ bits - 1

\* `<<` as a release build does it: the count is taken modulo the width, and
\* bits that leave the word are lost.
ShiftLeft(x, bits) == (x * 2 ^ (bits % Width)) % 2 ^ Width

\* An assignment that does not fit is an error, which ends the connection.
SetExtranonce(e) == [mask |-> Mask(FreeBits(e)), fixed |-> ShiftLeft(e.value, FreeBits(e))]

-----------------------------------------------------------------------------
(* The worker                                                              *)

\* A job comes with what the handler has computed last; the worker keeps its
\* counter.
TakeJob(e) ==
  /\ Fits(e)
  /\ job' = SetExtranonce(e)
  /\ assigned' = [e EXCEPT !.size = @ % 2 ^ SizeBits]
  /\ tested' = 0
  /\ searched' = {}
  /\ UNCHANGED <<batch, nonce>>

\* `apply_extranonce`, also in the kernels
Apply(n) == (n & job.mask) | job.fixed

\* `Wrapping`
Advance(n, step) == (n + step) % 2 ^ Width

\* One nonce on the CPU, a batch from the counter on on a GPU.  Bound: a job
\* whose whole space has been searched is not searched again.
Search ==
  /\ tested < 2 ^ FreeBits(assigned)
  /\ searched' = searched \union {Apply(Advance(nonce, i)) : i \in 0..(batch - 1)}
  /\ tested' = tested + batch
  /\ nonce' = Advance(nonce, batch)
  /\ UNCHANGED <<jobVars, batch>>

-----------------------------------------------------------------------------

Next ==
  \/ \E e \in Legible : TakeJob(e)
  \/ Search

Spec == Init /\ [][Next]_vars

-----------------------------------------------------------------------------
(* Properties                                                              *)

SpaceSize == 2 ^ FreeBits(assigned)

\* Every nonce that a worker tests has the pool's extranonce in front of the
\* part that is left to the miner.  Two miners with extranonces of one length,
\* but different values, therefore never search the same nonce.
NoncesAsAssigned == \A n \in searched : n \div SpaceSize = assigned.value

\* From any start, across the wraparound of the counter, and in batches of any
\* size, no nonce is tested twice before all have been; then all have been.
SweepsOnce == Cardinality(searched) = IF tested < SpaceSize THEN tested ELSE SpaceSize
==============================================================================
