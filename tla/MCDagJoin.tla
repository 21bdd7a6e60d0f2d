----------------------------- MODULE MCDagJoin -----------------------------
(***************************************************************************)
(* Model-checking instance of DagJoin: two payloads, captures of up to     *)
(* three records, timestamps on a 200 ns grid.                             *)
(***************************************************************************)
EXTENDS DagJoin, TLC

CONSTANTS a, b

MCPayloads == {a, b}

(* -f and -l: the whole capture (-1) or one record, from 0 or 1. *)
MCLengths == {-1, 1}

(* Payloads are only compared for equality (memcmp), so renaming them    *)
(* maps behaviours onto behaviours.                                       *)
MCSymmetry == Permutations(MCPayloads)
=============================================================================
