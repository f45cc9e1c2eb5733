------------------------------ MODULE Difficulty ------------------------------
(***************************************************************************)
(* The proof-of-work arithmetic of the Bitcoin light client                *)
(* (btc-light-client/src/utils/{difficulty,pow,u256}.rs) and its median    *)
(* time past (extend_blockchain.rs).  The code computes on 32 bytes of 256 *)
(* values; the module keeps the algorithms and takes the size of a byte    *)
(* and the number of bytes as parameters, so that every target can be      *)
(* enumerated.  A compact target is a natural number                       *)
(* exponent * Byte^3 + mantissa, as in the block header.                   *)
(***************************************************************************)
EXTENDS Integers, Sequences, FiniteSets

CONSTANTS
  Byte,             \* values of a byte (256 in the code); even
  TargetBytes,      \* bytes of a target (32)
  TargetTimespan,   \* seconds an epoch should take (1_209_600)
  BlocksPerEpoch,   \* blocks between two retargets (2016)
  MaxTargetBits,    \* the easiest target allowed, compact (0x1d00ffff)
  MinDiffGap        \* testnet4's minimum-difficulty gap in seconds (20 * 60)

ASSUME DifficultyAssumption ==
  /\ Byte \in Nat /\ Byte > 1 /\ Byte % 2 = 0
  /\ TargetBytes \in Nat /\ TargetBytes > 3
  /\ TargetTimespan \in Nat /\ TargetTimespan > 3
  /\ BlocksPerEpoch \in Nat /\ BlocksPerEpoch > 0
  /\ MaxTargetBits \in Nat
  /\ MinDiffGap \in Nat

\* Powers of the byte size, as far as a target reaches: the law of exponentiation, which
\* the provers do not know.
ASSUME PowerAssumption ==
  Byte^0 = 1 /\ \A n \in 0..TargetBytes : Byte^(n + 1) = Byte * Byte^n

Mantissas == Byte^3                  \* a mantissa is three bytes
SignBit   == Mantissas \div 2        \* 0x800000
Modulus   == Byte^TargetBytes        \* 2^256

Smaller(a, b) == IF a < b THEN a ELSE b
Larger(a, b)  == IF a < b THEN b ELSE a

\* Exponents from TargetBytes + 1 on would write past the array: target zero.
TargetFromBits(bits) ==
  LET exponent == bits \div Mantissas
      mantissa == bits % SignBit
  IN  IF exponent <= 3
        THEN mantissa \div Byte^(3 - exponent)
        ELSE IF exponent <= TargetBytes THEN mantissa * Byte^(exponent - 3) ELSE 0

\* The number of significant bytes of a target.
SizeOf(target) ==
  CHOOSE n \in 0..TargetBytes :
    target < Byte^n /\ (n = 0 \/ target >= Byte^(n - 1))

\* Fault: the sign bit is masked off without shifting the mantissa.
BitsFromTargetUnsigned(target) ==
  LET size == SizeOf(target)
      top  == IF size <= 3 THEN target * Byte^(3 - size)
                           ELSE target \div Byte^(size - 3)
  IN  IF size = 0 THEN 0 ELSE size * Mantissas + (top % SignBit)

BitsFromTarget(target) ==
  LET size == SizeOf(target)
      top  == IF size <= 3 THEN target * Byte^(3 - size)
                           ELSE target \div Byte^(size - 3)
      grow == top >= SignBit          \* the sign bit is set: shift one byte
      mantissa == IF grow THEN top \div Byte ELSE top
  IN  IF size = 0 THEN 0
      ELSE (IF grow THEN size + 1 ELSE size) * Mantissas + (mantissa % SignBit)

\* Fault: the timespan is not clamped from below.
CalculateNewBitsUnclamped(oldBits, timespan) ==
  LET clamped == Smaller(timespan, TargetTimespan * 4)
      scaled  == ((TargetFromBits(oldBits) * clamped) % Modulus) \div TargetTimespan
  IN  BitsFromTarget(Smaller(scaled, TargetFromBits(MaxTargetBits)))

\* 256-bit products wrap, as in u256_mul_u32.
CalculateNewBits(oldBits, timespan) ==
  LET clamped == Larger(TargetTimespan \div 4, Smaller(timespan, TargetTimespan * 4))
      scaled  == ((TargetFromBits(oldBits) * clamped) % Modulus) \div TargetTimespan
  IN  BitsFromTarget(Smaller(scaled, TargetFromBits(MaxTargetBits)))

\* The subtraction at a boundary saturates at zero.
RequiredBitsForNextBlock(testnet4, height, time, parentTime, epochBits, epochStart) ==
  IF epochBits = 0 THEN 0
  ELSE IF height % BlocksPerEpoch = 0
    THEN CalculateNewBits(epochBits, Larger(0, parentTime - epochStart))
  ELSE IF testnet4 /\ time > parentTime /\ time - parentTime > MinDiffGap
    THEN MaxTargetBits
  ELSE epochBits

\* (~target) / (target + 1) + 1; zero work when target + 1 overflows.
CalculateChainwork(bits) ==
  LET target == TargetFromBits(bits)
  IN  IF target + 1 = Modulus THEN 0
      ELSE ((Modulus - 1 - target) \div (target + 1) + 1) % Modulus

\* The element of index n/2 of the sorted window.
MedianTimestamp(window) ==
  LET positions == DOMAIN window
      below(v)   == Cardinality({i \in positions : window[i] < v})
      notAbove(v) == Cardinality({i \in positions : window[i] <= v})
      middle == Len(window) \div 2
  IN  CHOOSE v \in {window[i] : i \in positions} :
        below(v) <= middle /\ middle < notAbove(v)

\* The sliding window of the last `width` timestamps.
Slide(window, time, width) ==
  IF Len(window) < width THEN Append(window, time) ELSE Append(Tail(window), time)
===============================================================================
