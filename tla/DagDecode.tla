----------------------------- MODULE DagDecode -----------------------------
(***************************************************************************)
(* The timestamp decoder of dag_join.c, fixed_32_32_to_nanos (lines       *)
(* 56-78), applied to the records of one capture in the order the card    *)
(* stamped them.                                                          *)
(*                                                                         *)
(* A 32.32 fixed-point timestamp is a record [secs, frac].  The 32-bit    *)
(* fraction is held as a small integer f: f >= 0 is the fraction f, and  *)
(* f < 0 is the fraction 2^32 + f, just below the next second.  This     *)
(* keeps both ends of a second, and the carry between them, inside TLC's *)
(* integers.  Since 10^9 = 5^9 * 2^9,                                     *)
(*   (frac * 10^9) >> 32  =  (frac * 5^9) \div 2^23                       *)
(* and for frac = 2^32 + f this is 10^9 + (f * 5^9) \div 2^23 (\div      *)
(* rounds towards minus infinity).  The low bits of frac are those of f. *)
(***************************************************************************)
EXTENDS Integers, Bitwise

CONSTANTS
  MaxSecs,     \* largest whole-seconds part stamped
  FracSpan,    \* f ranges over -FracSpan..FracSpan
  MaxStep,     \* largest raw advance between consecutive records
  None         \* no record decoded yet

ASSUME /\ MaxSecs \in 0..1 /\ FracSpan \in 1..1000 /\ MaxStep \in 1..FracSpan

SECS2NS == 1000 * 1000 * 1000
Pow5_9  == 1953125                 \* 5^9
Pow2_23 == 8388608                 \* 2^23

Fracs  == -FracSpan..FracSpan
Fixed  == [secs : 0..MaxSecs, frac : Fracs]

(* The value of the low 32 bits, fixed & 0xFFFFFFFF, read as an int32_t: *)
(* a fraction of half a second or more is negative.                      *)
FracNsSigned(f) == (f * Pow5_9) \div Pow2_23

(* Line 64: ((fixed & 0xFFFFFFFF) * SECS2NS) >> 32, in uint64_t. *)
FracNs(f) ==
  IF f < 0 THEN SECS2NS + (f * Pow5_9) \div Pow2_23
           ELSE (f * Pow5_9) \div Pow2_23

(* Line 61: a record of the raw-nanosecond source returns the field as   *)
(* it is.  Such a stream stays within secs = 0 and f >= 0 here (Gap and   *)
(* the carry are fixed-point only), where the field is fx.frac.           *)
RawValue(fx) == fx.secs * 65536 * 65536 + fx.frac

(* The correction of lines 69-76 with one ns for each of bits 1 and 0.   *)
fixed_32_32_to_nanos_per_bit(fx, reserved) ==
  IF reserved
  THEN RawValue(fx)
  ELSE fx.secs * SECS2NS + FracNs(fx.frac)
         + (IF (fx.frac % 8) & 4 # 0 THEN 1 ELSE 0)
         + (IF (fx.frac % 8) & 2 # 0 THEN 1 ELSE 0)
         + (IF (fx.frac % 8) & 1 # 0 THEN 1 ELSE 0)

(* fixed_32_32_to_nanos, lines 56-78: seconds and fraction in ns, plus   *)
(* one ns if bit 2 is set and one more if bit 1 or bit 0 is.             *)
fixed_32_32_to_nanos(fx, reserved) ==
  IF reserved
  THEN RawValue(fx)
  ELSE fx.secs * SECS2NS + FracNs(fx.frac)
         + (IF (fx.frac % 8) & 4 # 0 THEN 1 ELSE 0)
         + (IF (fx.frac % 8) & 3 # 0 THEN 1 ELSE 0)

-----------------------------------------------------------------------------
(* One capture: the card stamps successive records with a raw clock that *)
(* never goes back (spec 3, Decoded Timestamp), and dag_join decodes     *)
(* each of them.                                                          *)
VARIABLES
  reserved,    \* the capture's flags.reserved (one source per capture)
  fixed,       \* raw timestamp of the current record
  prev_ns      \* decoded timestamp of the previous record, or None

vars == <<reserved, fixed, prev_ns>>

nanos == fixed_32_32_to_nanos(fixed, reserved)

TypeOK ==
  /\ reserved \in BOOLEAN
  /\ fixed \in Fixed
  /\ prev_ns \in Nat \cup {None}
  /\ nanos \in Nat                  \* the uint64_t result

Init ==
  /\ reserved \in BOOLEAN
  /\ fixed \in [secs : {0}, frac : 0..MaxStep]
  /\ prev_ns = None

(* The next record, stamped d ticks later within the same second, or     *)
(* carrying into the next second.                                        *)
Advance ==
  \E d \in 1..MaxStep :
    LET f == fixed.frac + d IN
    /\ \/ /\ f \in Fracs /\ (fixed.frac < 0 => f < 0)
          /\ fixed' = [fixed EXCEPT !.frac = f]
       \/ /\ fixed.frac < 0 /\ f >= 0
          /\ fixed.secs < MaxSecs /\ ~reserved
          /\ fixed' = [secs |-> fixed.secs + 1, frac |-> f]
    /\ prev_ns' = nanos
    /\ UNCHANGED reserved

(* The next record, stamped late in the same second (a gap in traffic). *)
Gap ==
  /\ fixed.frac >= 0 /\ ~reserved
  /\ \E f \in -FracSpan..-1 : fixed' = [fixed EXCEPT !.frac = f]
  /\ prev_ns' = nanos
  /\ UNCHANGED reserved

Next == Advance \/ Gap

Spec == Init /\ [][Next]_vars

-----------------------------------------------------------------------------
(* Properties *)

(* The rounding correction of lines 69-76 can make a later raw timestamp *)
(* decode to an earlier time, but never by more than 2 ns: well inside   *)
(* the 250 ns backward guard band that do_join's window (line 222)       *)
(* allows, so the correction cannot push a match out of its window.      *)
DecodeRegressionBounded ==
  prev_ns # None => nanos + 2 >= prev_ns

=============================================================================
