------------------------------ MODULE JoinSpec ------------------------------
(***************************************************************************)
(* What the join of dag_join promises, without get_index_linear, the      *)
(* index caches, the pruning shortcut or the counters (spec 4.3): the     *)
(* records of the reference capture dag0 in the range -f / -l are decided *)
(* one at a time, in order, as matched or unmatched; a record with an    *)
(* identical record of the comparison capture dag1 inside its window      *)
(* [t - Slack, t + WindowNanos] is never left unmatched.  The join ends   *)
(* once the whole range is decided.  Which dag1 record a match names is   *)
(* not part of this promise: DagJoin!ReadsStayInBounds is about that.     *)
(*                                                                         *)
(* Records are [ts, pay] as in DagJoin; indices are 0-based.               *)
(***************************************************************************)
EXTENDS Integers, Sequences

CONSTANTS
  Payloads,      \* identity fingerprints of records
  Times,         \* decoded timestamps (ns)
  Offsets,       \* values of -f
  Lengths,       \* values of -l, -1 = all
  WindowNanos,   \* the matching window after t
  Slack          \* the guard band before t

VARIABLES
  dag0, dag1,    \* the two captures
  lo, hi,        \* the range of dag0 indices to decide: lo .. hi - 1
  nxt,           \* the next index to decide
  verdict,       \* decided index -> "matched" or "unmatched"
  finished       \* the join has ended

absvars == <<dag0, dag1, lo, hi, nxt, verdict, finished>>

JRecord == [ts : Times, pay : Payloads]

Lower(x, y) == IF x <= y THEN x ELSE y

(* The range: from -f, -l records or all with -1, cut at dag0's end. *)
RangeLo(off, n0)      == Lower(off, n0)
RangeHi(off, len, n0) == Lower(off + (IF len < 0 THEN n0 ELSE len), n0)

(* dag1 records identical to dag0's record i inside its window. *)
WindowTwins(i) ==
  {j \in 0..Len(dag1) - 1 : /\ dag1[j + 1].pay = dag0[i + 1].pay
                            /\ dag1[j + 1].ts + Slack >= dag0[i + 1].ts
                            /\ dag1[j + 1].ts <= dag0[i + 1].ts + WindowNanos}

(* The verdicts the join may give record i. *)
Verdicts(i) ==
  IF WindowTwins(i) = {} THEN {"matched", "unmatched"} ELSE {"matched"}

AbsInit ==
  /\ dag0 \in Seq(JRecord) /\ dag1 \in Seq(JRecord)
  /\ \E off \in Offsets, len \in Lengths :
       /\ lo = RangeLo(off, Len(dag0))
       /\ hi = RangeHi(off, len, Len(dag0))
  /\ nxt = lo
  /\ verdict = [i \in {} |-> "unmatched"]
  /\ finished = FALSE

(* The next record of the range is decided. *)
Decide ==
  /\ ~finished /\ nxt < hi
  /\ \E v \in Verdicts(nxt) :
       verdict' = [i \in DOMAIN verdict \cup {nxt} |->
                     IF i = nxt THEN v ELSE verdict[i]]
  /\ nxt' = nxt + 1
  /\ UNCHANGED <<dag0, dag1, lo, hi, finished>>

(* The join ends with the whole range decided. *)
End ==
  /\ ~finished /\ nxt >= hi
  /\ finished' = TRUE
  /\ UNCHANGED <<dag0, dag1, lo, hi, nxt, verdict>>

AbsNext == Decide \/ End

AbsSpec == AbsInit /\ [][AbsNext]_absvars
=============================================================================
