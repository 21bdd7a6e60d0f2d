--------------------------- MODULE MCCaptureJoin ---------------------------
(***************************************************************************)
(* dag_capture and dag_join in sequence: one capture run records the same *)
(* traffic on two ports of the card, and dag_join then correlates the two *)
(* files it wrote, file RefPort as dag0 (-i) and file CmpPort as dag1     *)
(* (-I).  The capture's timestamps are taken as already decoded.          *)
(***************************************************************************)
EXTENDS Integers, Sequences, TLC

CONSTANTS
  Ports, Times, Samples, Timeout, ZeroWlen, Signals, Zero,
  WindowNanos, Slack, UBits, IBits, IdxBits, NotWritten, Garbage,
  RefPort, CmpPort, a, b

VARIABLES
  cpc, data, last_ts, sample, samples_total, slots, first, end_time_ns,
  files, captured,
  jpc, dag0, dag1, dag_off, dag_len, dag1_end_ns, d0i,
  start_idx_cache, end_idx_cache, total_matched,
  total_dropped_before_match, total_dropped_after_match,
  total_out_of_time_opt, out

capVars == <<cpc, data, last_ts, sample, samples_total, slots, first,
             end_time_ns, files, captured>>
joinVars == <<jpc, dag0, dag1, dag_off, dag_len, dag1_end_ns, d0i,
              start_idx_cache, end_idx_cache, total_matched,
              total_dropped_before_match, total_dropped_after_match,
              total_out_of_time_opt, out>>

MCPayloads == {a, b}

Cap == INSTANCE DagCapture WITH pc <- cpc, Payloads <- MCPayloads

(* A zeroed slot is a record of timestamp 0 whose bytes match no packet. *)
Join == INSTANCE DagJoin
          WITH pc <- jpc, Times <- Times \cup {0},
               Payloads <- MCPayloads \cup {Zero},
               MaxLen0 <- Samples, MaxLen1 <- Samples,
               Offsets <- {0}, Lengths <- {-1}, StrictTimes <- FALSE

(* A record of a capture file as dag_join reads it. *)
AsRecords(f) == [i \in 1..Len(f) |-> [ts |-> f[i].ts, pay |-> f[i].pay]]

Init ==
  /\ Cap!Init
  /\ jpc = "idle"
  /\ dag0 = <<>> /\ dag1 = <<>>
  /\ dag_off = 0 /\ dag_len = -1 /\ dag1_end_ns = 0 /\ d0i = 0
  /\ start_idx_cache = 0 /\ end_idx_cache = 0
  /\ total_matched = 0 /\ total_dropped_before_match = 0
  /\ total_dropped_after_match = 0 /\ total_out_of_time_opt = 0
  /\ out = <<>>

(* dag_join's main, lines 312-322: both files are read, and a run with an *)
(* empty file exits before the join.                                      *)
Load ==
  /\ cpc = "exited" /\ jpc = "idle"
  /\ files[RefPort] # <<>> /\ files[CmpPort] # <<>>
  /\ dag0' = AsRecords(files[RefPort])
  /\ dag1' = AsRecords(files[CmpPort])
  /\ jpc' = "start"
  /\ UNCHANGED <<capVars, dag_off, dag_len, dag1_end_ns, d0i,
                 start_idx_cache, end_idx_cache, total_matched,
                 total_dropped_before_match, total_dropped_after_match,
                 total_out_of_time_opt, out>>

Next ==
  \/ jpc = "idle" /\ Cap!Next /\ UNCHANGED joinVars
  \/ Load
  \/ Join!Next /\ UNCHANGED capVars

Spec == Init /\ [][Next]_<<capVars, joinVars>>

(* End to end: every packet recorded on the reference port whose copy on *)
(* the comparison port lies within the window is reported as matched.    *)
EndToEndMatch == Join!MatchFoundWhenPresent
=============================================================================
