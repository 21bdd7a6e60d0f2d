------------------------------ MODULE DagJoin ------------------------------
(***************************************************************************)
(* The correlation engine of dag_join.c: do_join() walks the reference     *)
(* capture dag0, and for each record finds a window of candidate indices   *)
(* in the comparison capture dag1 with get_range() (two calls of the       *)
(* linear locator get_index_linear(), seeded from the globals              *)
(* start_idx_cache / end_idx_cache), scans the window with                 *)
(* packet_compare(), and classifies the record.                            *)
(*                                                                         *)
(* Records are abstracted to their decoded timestamp (the value of         *)
(* fixed_32_32_to_nanos, see DagDecode) and their identity fingerprint     *)
(* (bytes 18..79, compared by memcmp), a model value of Payloads.          *)
(* Indices are 0-based, as in the code.  uint64_t arithmetic is modulo     *)
(* 2^UBits and the int that abs() returns is IBits wide: both widths are   *)
(* reduced from 64 and 32 so that TLC can represent them, with timestamps  *)
(* scaled down with them.                                                  *)
(***************************************************************************)
EXTENDS Integers, Sequences, FiniteSets

CONSTANTS
  Payloads,      \* identity fingerprints of records
  Times,         \* decoded timestamps (ns) a record may carry
  MaxLen0,       \* longest reference capture (dag0)
  MaxLen1,       \* longest comparison capture (dag1)
  Offsets,       \* values of the dag_off argument (option -f)
  Lengths,       \* values of the dag_len argument (option -l, -1 = all)
  WindowNanos,   \* window_nanos = options.window * 1000
  Slack,         \* the 250 ns backward guard band of line 222
  UBits,         \* width of uint64_t (64 in the build)
  IBits,         \* width of the int returned by abs() (32 in the build)
  IdxBits,       \* width of output_match's uint32_t index parameters
  StrictTimes,   \* TRUE: captures strictly increasing in time
  NotWritten,    \* get_index_linear returned without writing *idx_out
  Garbage        \* latency computed from memory past the end of dag1

ASSUME /\ Times \subseteq Nat /\ Payloads # {}
       /\ MaxLen0 \in Nat \ {0} /\ MaxLen1 \in Nat \ {0}
       /\ Offsets \subseteq Nat /\ Lengths \subseteq Int
       /\ WindowNanos \in Nat /\ Slack \in Nat
       /\ UBits \in 1..30 /\ IBits \in 2..30 /\ IdxBits \in 1..30
       /\ StrictTimes \in BOOLEAN

U64    == 2^UBits
NoIdx  == U64 - 1                 \* ~0 as a uint64_t index
U32Mod == 2^IdxBits

(* (int64_t) of a uint64_t value *)
I64(x) == IF x >= U64 \div 2 THEN x - U64 ELSE x

(* abs((int64_t)d): abs() takes an int, so d is first truncated to the    *)
(* int width; abs(INT_MIN) stays INT_MIN, as two's complement gives.      *)
abs_int(d) ==
  LET half == 2^(IBits - 1)
      y    == ((d + half) % (2 * half)) - half
  IN  IF y = -half THEN y ELSE IF y < 0 THEN -y ELSE y

MinOf(a, b) == IF a <= b THEN a ELSE b

-----------------------------------------------------------------------------
(* Captures: non-empty sequences of records in time order (the loader     *)
(* exits on a zero-byte read).                                            *)
Record == [ts : Times, pay : Payloads]

InOrder(s) ==
  \A k \in 1..Len(s) - 1 :
    IF StrictTimes THEN s[k].ts < s[k + 1].ts ELSE s[k].ts <= s[k + 1].ts

Captures(maxLen) ==
  {s \in UNION {[1..n -> Record] : n \in 1..maxLen} : InOrder(s)}

(* fixed_32_32_to_nanos(&samples[i]) *)
Ts(s, i) == s[i + 1].ts

-----------------------------------------------------------------------------
(* get_index_linear, lines 101-123: walk from i in direction dir while    *)
(* the distance to nanos does not grow; return the best index once it     *)
(* grows.  Leaving the capture without a regression returns NotWritten:   *)
(* the function falls off its end without assigning *idx_out.             *)
(* Mutant of Walk: the walk also stops when the distance merely stays   *)
(* the same (>= for > on line 118).                                       *)
RECURSIVE WalkStopOnTie(_, _, _, _, _, _)
WalkStopOnTie(s, nanos, dir, i, diffBest, indexBest) ==
  IF i < 0 \/ i >= Len(s)
  THEN NotWritten
  ELSE LET diffNow == abs_int(nanos - Ts(s, i)) IN
       IF diffNow >= diffBest
       THEN indexBest
       ELSE WalkStopOnTie(s, nanos, dir, i + dir, MinOf(diffNow, diffBest),
                          IF diffNow < diffBest THEN i ELSE indexBest)

RECURSIVE Walk(_, _, _, _, _, _)
Walk(s, nanos, dir, i, diffBest, indexBest) ==
  IF i < 0 \/ i >= Len(s)
  THEN NotWritten
  ELSE LET diffNow == abs_int(nanos - Ts(s, i)) IN
       IF diffNow > diffBest
       THEN indexBest
       ELSE Walk(s, nanos, dir, i + dir, MinOf(diffNow, diffBest),
                 IF diffNow < diffBest THEN i ELSE indexBest)

(* get_index_linear, lines 86-125.  A start index past the capture (the   *)
(* cache holding ~0) reads samples[start] out of bounds, then fails the   *)
(* loop test at once.                                                     *)
get_index_linear(s, start, nanos) ==
  IF nanos <= Ts(s, 0) THEN 0
  ELSE IF nanos >= Ts(s, Len(s) - 1) THEN Len(s) - 1
  ELSE IF start >= Len(s) THEN NotWritten
  ELSE LET timeNow == Ts(s, start)
           direction == IF nanos - timeNow > 0 THEN 1 ELSE -1
       IN  Walk(s, nanos, direction, start, abs_int(nanos - timeNow), start)

(* get_index_linear reads samples[start] beyond the capture. *)
ReadsPastEnd(s, start, nanos) ==
  /\ nanos > Ts(s, 0)
  /\ nanos < Ts(s, Len(s) - 1)
  /\ start >= Len(s)

(* packet_compare(a, b) == 0 *)
packet_compare_eq(a, b) == a.pay = b.pay

-----------------------------------------------------------------------------
VARIABLES
  dag0, dag1,                   \* the two mapped captures (read-only)
  pc,                           \* "start", "loop", "done" or "fault"
  dag_off, dag_len,             \* do_join's range arguments, then clamped
  dag1_end_ns,                  \* time of dag1's last record
  d0i,                          \* the main loop's index into dag0
  start_idx_cache, end_idx_cache,
  total_matched, total_dropped_before_match,
  total_dropped_after_match, total_out_of_time_opt,
  out                           \* binary_out_t records written, in order

vars == <<dag0, dag1, pc, dag_off, dag_len, dag1_end_ns, d0i,
          start_idx_cache, end_idx_cache, total_matched,
          total_dropped_before_match, total_dropped_after_match,
          total_out_of_time_opt, out>>

counters == <<total_matched, total_dropped_before_match,
              total_dropped_after_match, total_out_of_time_opt>>

OutRecord == [matched : {0, 1}, d0_idx : Nat, d1_idx : Nat,
              latency : Int \cup {Garbage}]

TypeOK ==
  /\ dag0 \in Seq(Record) /\ dag1 \in Seq(Record)
  /\ pc \in {"start", "loop", "done", "fault"}
  /\ dag_off \in Nat /\ dag_len \in Int /\ dag1_end_ns \in Nat
  /\ d0i \in Nat
  /\ start_idx_cache \in 0..NoIdx /\ end_idx_cache \in 0..NoIdx
  /\ total_matched \in Nat /\ total_dropped_before_match \in Nat
  /\ total_dropped_after_match \in Nat /\ total_out_of_time_opt \in Nat
  /\ out \in Seq(OutRecord)

-----------------------------------------------------------------------------
(* State of the current iteration of the main loop, lines 208-226. *)
dag0_time  == Ts(dag0, d0i)
StartNanos == (dag0_time - Slack) % U64          \* lines 222, 135
EndNanos   == (dag0_time + WindowNanos) % U64    \* lines 223, 136

(* get_range, lines 133-140: out-parameters start as 0 and ~0 (224-225). *)
RangeStart ==
  LET r == get_index_linear(dag1, start_idx_cache, StartNanos)
  IN  IF r = NotWritten THEN 0 ELSE r
(* Mutant of RangeEnd: the unwritten end index taken as a signed -1. *)
RangeEndSigned ==
  LET r == get_index_linear(dag1, end_idx_cache, EndNanos)
  IN  IF r = NotWritten THEN -1 ELSE r
RangeEnd ==
  LET r == get_index_linear(dag1, end_idx_cache, EndNanos)
  IN  IF r = NotWritten THEN NoIdx ELSE r

(* The scan of lines 231-240 within dag1: its first hit, if any. *)
Hits == {j \in RangeStart..MinOf(RangeEnd, Len(dag1) - 1) :
           packet_compare_eq(dag1[j + 1], dag0[d0i + 1])}
FirstHit == CHOOSE j \in Hits : \A k \in Hits : j <= k

(* The scan runs past dag1's last record (d1i <= ~0 never fails). *)
ScanPastEnd == Hits = {} /\ RangeEnd >= Len(dag1)

(* output_match, lines 153-168 *)
output_match(matched, d0, d1, latency) ==
  [matched |-> matched, d0_idx |-> d0 % U32Mod,
   d1_idx |-> IF matched = 1 THEN d1 % U32Mod ELSE NoIdx,
   latency |-> IF matched = 1 THEN latency ELSE -1]

InLoop == pc = "loop" /\ d0i < dag_len

(* Line 209: uint64_t subtraction, so it wraps when the time is smaller  *)
(* than the window.                                                       *)
Pruned == (dag0_time - WindowNanos) % U64 > dag1_end_ns

Searched ==
  /\ InLoop /\ ~Pruned
  /\ start_idx_cache' = RangeStart
  /\ end_idx_cache' = RangeEnd

-----------------------------------------------------------------------------
Init ==
  /\ dag0 \in Captures(MaxLen0)
  /\ dag1 \in Captures(MaxLen1)
  /\ pc = "start"
  /\ dag_off \in Offsets
  /\ dag_len \in Lengths
  /\ dag1_end_ns = 0
  /\ d0i = 0
  /\ start_idx_cache = 0 /\ end_idx_cache = 0
  /\ total_matched = 0 /\ total_dropped_before_match = 0
  /\ total_dropped_after_match = 0 /\ total_out_of_time_opt = 0
  /\ out = <<>>

(* do_join, lines 183-196: clamp the range, note dag1's end time. *)
Setup ==
  LET n0 == Len(dag0)
      len == IF dag_len < 0 THEN n0 ELSE dag_len
  IN  /\ pc = "start"
      /\ dag_len' = MinOf((dag_off + len) % U64, n0)
      /\ dag_off' = MinOf(dag_off, n0)
      /\ dag1_end_ns' = Ts(dag1, Len(dag1) - 1)
      /\ d0i' = MinOf(dag_off, n0)
      /\ pc' = "loop"
      /\ UNCHANGED <<dag0, dag1, start_idx_cache, end_idx_cache, counters, out>>

(* Mutant of Prune: the out-of-time counter is not incremented. *)
PruneUncounted ==
  /\ InLoop /\ Pruned
  /\ d0i' = d0i + 1
  /\ UNCHANGED <<dag0, dag1, pc, dag_off, dag_len, dag1_end_ns,
                 start_idx_cache, end_idx_cache, counters, out>>

(* Lines 208-212: past dag1's time horizon, skip the record. *)
Prune ==
  /\ InLoop /\ Pruned
  /\ total_out_of_time_opt' = total_out_of_time_opt + 1
  /\ d0i' = d0i + 1
  /\ UNCHANGED <<dag0, dag1, pc, dag_off, dag_len, dag1_end_ns,
                 start_idx_cache, end_idx_cache, total_matched,
                 total_dropped_before_match, total_dropped_after_match, out>>

(* Lines 226-239: the scan hits; output the match. *)
Match ==
  /\ Searched
  /\ Hits # {}
  /\ out' = Append(out, output_match(1, d0i, FirstHit,
                          I64((Ts(dag1, FirstHit) - dag0_time) % U64)))
  /\ total_matched' = total_matched + 1
  /\ d0i' = d0i + 1
  /\ UNCHANGED <<dag0, dag1, pc, dag_off, dag_len, dag1_end_ns,
                 total_dropped_before_match, total_dropped_after_match,
                 total_out_of_time_opt>>

(* Lines 226-252: the window holds no match; classify the drop. *)
NoMatch ==
  /\ Searched
  /\ Hits = {} /\ ~ScanPastEnd
  /\ IF total_matched > 1
     THEN /\ out' = Append(out, output_match(0, d0i, NoIdx, -1))
          /\ total_dropped_after_match' = total_dropped_after_match + 1
          /\ UNCHANGED total_dropped_before_match
     ELSE /\ total_dropped_before_match' = total_dropped_before_match + 1
          /\ UNCHANGED <<out, total_dropped_after_match>>
  /\ d0i' = d0i + 1
  /\ UNCHANGED <<dag0, dag1, pc, dag_off, dag_len, dag1_end_ns,
                 total_matched, total_out_of_time_opt>>

(* Lines 232-238 with dag1_end_idx = ~0 and no hit inside dag1: memcmp   *)
(* reads the memory after the mapping.  Either that faults, or some bytes *)
(* there equal the dag0 record (e.g. a neighbouring mapping of dag0) and  *)
(* a match at an index past dag1 is output.                               *)
ScanFault ==
  /\ Searched
  /\ ScanPastEnd
  /\ pc' = "fault"
  /\ UNCHANGED <<dag0, dag1, dag_off, dag_len, dag1_end_ns, d0i, counters, out>>

ScanGarbageMatch ==
  /\ Searched
  /\ ScanPastEnd
  /\ out' = Append(out, output_match(1, d0i, Len(dag1), Garbage))
  /\ total_matched' = total_matched + 1
  /\ d0i' = d0i + 1
  /\ UNCHANGED <<dag0, dag1, pc, dag_off, dag_len, dag1_end_ns,
                 total_dropped_before_match, total_dropped_after_match,
                 total_out_of_time_opt>>

(* Line 102 inside get_range (226): samples[end_idx_cache] with the      *)
(* cache holding ~0 reads before the mapping and faults.                  *)
LocateFault ==
  /\ InLoop /\ ~Pruned
  /\ \/ ReadsPastEnd(dag1, start_idx_cache, StartNanos)
     \/ ReadsPastEnd(dag1, end_idx_cache, EndNanos)
  /\ pc' = "fault"
  /\ UNCHANGED <<dag0, dag1, dag_off, dag_len, dag1_end_ns, d0i,
                 start_idx_cache, end_idx_cache, counters, out>>

(* Line 197: the loop ends; main() reports and exits through term(). *)
LoopExit ==
  /\ pc = "loop" /\ d0i >= dag_len
  /\ pc' = "done"
  /\ UNCHANGED <<dag0, dag1, dag_off, dag_len, dag1_end_ns, d0i,
                 start_idx_cache, end_idx_cache, counters, out>>

Next ==
  \/ Setup
  \/ Prune
  \/ Match
  \/ NoMatch
  \/ ScanFault
  \/ ScanGarbageMatch
  \/ LocateFault
  \/ LoopExit

Spec == Init /\ [][Next]_vars

-----------------------------------------------------------------------------
(* Properties *)

(* Records of dag1 identical to dag0's record i and inside its window     *)
(* [t - 250, t + window] (spec 4.3 step 3).                               *)
InWindow(i) ==
  {j \in 0..Len(dag1) - 1 :
     /\ packet_compare_eq(dag1[j + 1], dag0[i + 1])
     /\ Ts(dag1, j) + Slack >= Ts(dag0, i)
     /\ Ts(dag1, j) <= Ts(dag0, i) + WindowNanos}

MatchOutput(i) == \E k \in 1..Len(out) : out[k].matched = 1 /\ out[k].d0_idx = i

(* Completeness of the join: every processed dag0 record that has an      *)
(* identical dag1 record within its time window is reported as matched.   *)
(* It depends on get_index_linear finding the window's ends from the      *)
(* cached start indices, on the pruning test of line 209 and on the scan  *)
(* bounds of line 232.                                                    *)
MatchFoundWhenPresent ==
  \A i \in dag_off..d0i - 1 : InWindow(i) # {} => MatchOutput(i)

(* Every processed record is counted exactly once in one of the four run  *)
(* counters, and every record written out is a match or a drop counted    *)
(* after the first match (spec 8, "Join completeness").                   *)
CountersAccountForEveryRecord ==
  pc # "start" =>
    /\ total_matched + total_dropped_before_match
         + total_dropped_after_match + total_out_of_time_opt = d0i - dag_off
    /\ Len(out) = total_matched + total_dropped_after_match

(* The join never reads outside the two mapped captures: it neither       *)
(* faults nor reports a match at an index past dag1's last record.        *)
ReadsStayInBounds ==
  /\ pc # "fault"
  /\ \A k \in 1..Len(out) : out[k].matched = 1 => out[k].d1_idx < Len(dag1)

-----------------------------------------------------------------------------
(* Refinement of JoinSpec.  Before Setup the range is the one Setup will  *)
(* clamp the arguments to; afterwards it is dag_off .. dag_len - 1.  The  *)
(* verdict on a processed dag0 record is "matched" when the output holds  *)
(* a match for it: a record dropped, before or after the first match, or  *)
(* pruned by the time horizon of line 209, is unmatched.                  *)
AbsLo  == MinOf(dag_off, Len(dag0))
AbsHi  == IF pc = "start"
          THEN MinOf(dag_off + (IF dag_len < 0 THEN Len(dag0) ELSE dag_len),
                     Len(dag0))
          ELSE dag_len
AbsNxt == IF pc = "start" THEN AbsLo ELSE d0i

Abs == INSTANCE JoinSpec
         WITH lo <- AbsLo, hi <- AbsHi, nxt <- AbsNxt,
              verdict <- [i \in AbsLo..AbsNxt - 1 |->
                            IF MatchOutput(i) THEN "matched" ELSE "unmatched"],
              finished <- pc = "done"

(* do_join implements the join of spec 4.3: it decides the records of    *)
(* the range once each and in order, through the skip of line 209, the   *)
(* scan of lines 231-240 and the drop counting of lines 244-252; a       *)
(* record with an identical dag1 record inside its window is matched,    *)
(* which rests on get_index_linear finding the window from the cached    *)
(* indices; and the loop of line 197 ends only once the range is         *)
(* exhausted.                                                             *)
JoinRefinement == Abs!AbsSpec
=============================================================================
