---------------------------- MODULE MCDagAnalyse ----------------------------
(***************************************************************************)
(* Capture files for DagAnalyse: up to three whole records, all of 80     *)
(* bytes as dag_capture's term() writes them (dag_capture.c line 205) or  *)
(* all of 112 as dag_join's output_match writes them (dag_join.c line     *)
(* 160), of TCP (1) or UDP (2) packets, stamped 100 raw ticks apart       *)
(* within second 0.                                                       *)
(***************************************************************************)
EXTENDS DagAnalyse

MaxRecs == 3

Rec(rlen, type, i) == [rlen |-> rlen, type |-> type, ts |-> [secs |-> 0, frac |-> 100 * i]]

CaptureFiles ==
  {[i \in 1..n |-> Rec(r, types[i], i)] :
     n \in 0..MaxRecs, r \in {80, 112}, types \in [1..MaxRecs -> {1, 2}]}

(* -p values: all, or TCP. *)
PTypeValues == {-1, 1}

=============================================================================
