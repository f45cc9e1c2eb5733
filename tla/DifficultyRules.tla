---------------------------- MODULE DifficultyRules ----------------------------
(***************************************************************************)
(* What the proof-of-work arithmetic promises, over every target the small *)
(* arithmetic of a run has and every timespan an epoch may measure.  None  *)
(* of it depends on the accounts, so it is stated of the states before the *)
(* client exists: TLC then evaluates it once.                              *)
(***************************************************************************)
EXTENDS LightClient

\* The code's constants: a quarter of the timespan is exact and the easiest target times
\* the longest timespan stays within 256 bits.
ASSUME RetargetAssumption ==
  /\ TargetTimespan % 4 = 0
  /\ TargetFromBits(MaxTargetBits) * (TargetTimespan * 4) < Modulus

\* The compact targets that calculate_new_bits can return, the easiest included.
EpochBits == {BitsFromTarget(t) : t \in 0..TargetFromBits(MaxTargetBits)}

\* Timespans on both sides of both clamps.
Timespans == 0..(TargetTimespan * 4 + 1)

\* One unit of the last mantissa digit that a compact target of this size keeps.
Ulp(target) == LET size == SizeOf(target) IN IF size <= 2 THEN 1 ELSE Byte^(size - 2)

\* A retarget never makes blocks more than four times easier or, up to the digits
\* the compact form drops, more than four times harder, and never easier than the
\* maximum target, although measured timespans are arbitrary (calculate_new_bits).
RetargetBounded ==
  lc = NoClient =>
  \A bits \in EpochBits, span \in Timespans :
    LET old == TargetFromBits(bits)
        new == TargetFromBits(CalculateNewBits(bits, span))
    IN  bits # 0 => /\ new <= 4 * old
                    /\ new <= TargetFromBits(MaxTargetBits)
                    /\ 4 * (new + Ulp(old)) > old

\* The compact form loses nothing that the client compares or adds up: the bits of every
\* epoch are the one canonical encoding of their target, so that comparing header bits with
\* required bits rejects no honest header (bits_from_target after target_from_bits); and the
\* work of a block is exactly 2^256 / (target + 1), which calculate_chainwork computes as
\* (~target) / (target + 1) + 1 to stay within 256 bits (no hash meets a target of zero).
CompactExact ==
  lc = NoClient =>
  \A bits \in EpochBits :
    LET target == TargetFromBits(bits)
    IN  /\ BitsFromTarget(target) = bits
        /\ target > 0 => CalculateChainwork(bits) = Modulus \div (target + 1)
===============================================================================
