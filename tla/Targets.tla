------------------------------- MODULE Targets -------------------------------
(***************************************************************************)
(* What a hash must meet: the targets that come from the compact bits of a *)
(* block header or from the decimal difficulty of a pool (target.rs), and  *)
(* the comparison of a hash with them (`pow_match`, pow.rs).               *)
(*                                                                         *)
(* A 256-bit number is kept in little-endian limbs, as in the code, but of *)
(* LimbBits bits in place of 64 and with bytes of ByteBits in place of 8.  *)
(* The job of a worker never changes, so a behaviour has one job, and      *)
(* hashes that are compared with it.                                       *)
(***************************************************************************)
EXTENDS Naturals, FiniteSetsExt

CONSTANTS Limbs, LimbBits, ByteBits,
          Mantissa, Exponent,  \* bounds: the parts of compact bits
          Whole,               \* bound: the integral parts of difficulties
          MaxFraction,         \* bound: decimals after their point
          Sample               \* bound: the limbs that hashes are made of

ASSUME WidthAssumption ==
  /\ Limbs \in Nat \ {0} /\ ByteBits \in Nat \ {0}
  /\ LimbBits \in Nat /\ LimbBits >= 3 * ByteBits
ASSUME BoundsAssumption ==
  /\ Mantissa \subseteq 0..(2 ^ (3 * ByteBits) - 1) /\ Exponent \subseteq Nat
  /\ Whole \subseteq Nat /\ MaxFraction \in Nat
  /\ Sample \subseteq 0..(2 ^ LimbBits - 1)

VARIABLES
  source,       \* history: what the job's targets come from
  blockTarget,  \* `block_target`
  shareTarget,  \* `share_target`
  pow,          \* the hash compared last
  match         \* what `pow_match` says of it

vars == <<source, blockTarget, shareTarget, pow, match>>

Limb == 0..(Limbs - 1)
Width == Limbs * LimbBits
Uint256 == [Limb -> 0..(2 ^ LimbBits - 1)]
Zero == [i \in Limb |-> 0]

\* The number that limbs stand for
ValueOf(u) == MapThenSumSet(LAMBDA i : u[i] * 2 ^ (LimbBits * i), Limb)

Bits == [kind : {"bits"}, mantissa : Mantissa, exponent : Exponent]
\* A difficulty is its integral part, the number of decimals and what they say.
Difficulty ==
  UNION {[kind : {"difficulty"}, whole : Whole, digits : {n}, fraction : 0..(10 ^ n - 1)] :
           n \in 0..MaxFraction}
NoJob == [kind |-> "none"]

\* Every variable stays in its set: no limb of a target overflows.
TypeOK ==
  /\ source \in {NoJob} \union Bits \union Difficulty
  /\ blockTarget \in Uint256
  /\ shareTarget \in Uint256
  /\ pow \in Uint256
  /\ match \in {"untested", "None", "Share", "Block"}

Init ==
  /\ source = NoJob
  /\ blockTarget = Zero
  /\ shareTarget = Zero
  /\ pow = Zero
  /\ match = "untested"

-----------------------------------------------------------------------------
(* Mistakes that the properties at the end of the module must reject       *)

\* A limb that keeps what is shifted out of it
LowPartWhole(limb, bits) == limb * 2 ^ bits

\* Bits that are shifted out of a limb are lost.
NoCarry(limb, bits) == 0

\* The limbs are compared from the lowest on.
AtMostLittleEndian(u, v) ==
  \/ u = v
  \/ \E i \in Limb : u[i] < v[i] /\ \A k \in Limb : k < i => u[k] = v[k]

-----------------------------------------------------------------------------
(* `Uint256`                                                               *)

FromNumber(n) == [i \in Limb |-> (n \div 2 ^ (LimbBits * i)) % 2 ^ LimbBits]

\* `<<` of one limb, and what it hands on to the next
LowPart(limb, bits) == (limb * 2 ^ bits) % 2 ^ LimbBits
Carry(limb, bits) == IF bits > 0 THEN limb \div 2 ^ (LimbBits - bits) ELSE 0

ShiftLeft(u, shift) ==
  LET words == shift \div LimbBits
      bits  == shift % LimbBits
  IN  [i \in Limb |->
        (IF i >= words THEN LowPart(u[i - words], bits) ELSE 0)
          + (IF i >= words + 1 THEN Carry(u[i - words - 1], bits) ELSE 0)]

\* `Ord`: the highest limb that differs decides.
AtMost(u, v) ==
  \/ u = v
  \/ \E i \in Limb : u[i] < v[i] /\ \A k \in Limb : k > i => u[k] = v[k]

-----------------------------------------------------------------------------
(* The two sources of targets                                              *)

\* `u256_from_compact_target`: a mantissa of three bytes and an exponent that
\* counts bytes; the highest bit of the mantissa is a sign.
FromCompact(bits) ==
  LET small    == bits.exponent <= 3
      mantissa == IF small THEN bits.mantissa \div 2 ^ (ByteBits * (3 - bits.exponent))
                  ELSE bits.mantissa
      shift    == IF small THEN 0 ELSE ByteBits * (bits.exponent - 3)
  IN  IF mantissa >= 2 ^ (3 * ByteBits - 1) THEN Zero
      ELSE ShiftLeft([Zero EXCEPT ![0] = mantissa], shift)

\* The target of difficulty 1: `00ffff00...`
DiffOne == (2 ^ (2 * ByteBits) - 1) * 2 ^ (Width - 3 * ByteBits)

\* `trim_end_matches('0')`: the fewest decimals that say the same
Trimmed(d) ==
  CHOOSE n \in 0..d.digits :
    /\ d.fraction % 10 ^ (d.digits - n) = 0
    /\ \A k \in 0..(n - 1) : d.fraction % 10 ^ (d.digits - k) # 0

\* `u256_from_stratum_difficulty_str`: difficulty 0 has no target, and of a
\* quotient that is too large the lowest bytes are kept.
HasTarget(d) == d.whole > 0 \/ d.fraction > 0

FromDifficulty(d) ==
  LET scale  == 10 ^ Trimmed(d)
      scaled == d.whole * scale + d.fraction \div 10 ^ (d.digits - Trimmed(d))
  IN  FromNumber((DiffOne * scale) \div scaled)

-----------------------------------------------------------------------------
(* Jobs and hashes                                                         *)

\* `State::new`: a block template has one target for both.
NewTemplate ==
  /\ source = NoJob
  /\ \E bits \in Bits :
       /\ source' = bits
       /\ blockTarget' = FromCompact(bits)
       /\ shareTarget' = FromCompact(bits)
  /\ UNCHANGED <<pow, match>>

\* `State::from_stratum`, with the difficulty's target; the block target is
\* the pool's own affair.
NewJob ==
  /\ source = NoJob
  /\ \E d \in Difficulty :
       /\ HasTarget(d)
       /\ source' = d
       /\ shareTarget' = FromDifficulty(d)
       /\ blockTarget' \in {Zero, FromNumber(DiffOne)}
  /\ UNCHANGED <<pow, match>>

\* `pow_match`
Match(hash) ==
  IF AtMost(hash, blockTarget) THEN "Block"
  ELSE IF AtMost(hash, shareTarget) THEN "Share"
  ELSE "None"

\* The hash of a nonce may be any; the targets themselves, and the first hash
\* that is too large, are tried as well.
Test ==
  /\ source # NoJob
  /\ \E hash \in [Limb -> Sample]
                    \union {blockTarget, shareTarget, FromNumber(ValueOf(shareTarget) + 1)} :
       /\ pow' = hash
       /\ match' = Match(hash)
  /\ UNCHANGED <<source, blockTarget, shareTarget>>

-----------------------------------------------------------------------------

Next == NewTemplate \/ NewJob \/ Test

Spec == Init /\ [][Next]_vars

-----------------------------------------------------------------------------
(* Properties                                                              *)

\* Compact bits mean `mantissa * 256 ^ (exponent - 3)`, rounded down and cut to
\* the width, and nothing if the mantissa is negative.
CompactValue(bits) ==
  LET scaled == (bits.mantissa * 2 ^ (ByteBits * bits.exponent)) \div 2 ^ (3 * ByteBits)
      negative == (IF bits.exponent < 3 THEN scaled ELSE bits.mantissa)
                    >= 2 ^ (3 * ByteBits - 1)
  IN  IF negative THEN 0 ELSE scaled % 2 ^ Width

\* The target of a template is that number, across all limbs.
TemplatesAsDefined ==
  source.kind = "bits" => ValueOf(blockTarget) = CompactValue(source)

\* A difficulty so low that its target does not fit
TooLow(d) ==
  DiffOne * 10 ^ d.digits >= 2 ^ Width * (d.whole * 10 ^ d.digits + d.fraction)

\* In exact arithmetic: a hash is a share of a pool's job just when it is no
\* block and at most the first difficulty's target divided by the difficulty,
\* however the difficulty is written.
SharesMeetTheDifficulty ==
  source.kind = "difficulty" /\ match # "untested" /\ ~TooLow(source) =>
    (match = "Share" <=>
       /\ ValueOf(pow) > ValueOf(blockTarget)
       /\ ValueOf(pow) * (source.whole * 10 ^ source.digits + source.fraction)
            <= DiffOne * 10 ^ source.digits)
==============================================================================
