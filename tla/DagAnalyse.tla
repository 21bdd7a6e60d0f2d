----------------------------- MODULE DagAnalyse -----------------------------
(***************************************************************************)
(* main of dag_analyse.c (lines 333-493): the walk over a capture file of *)
(* variable-length ERF records driven by each record's rlen field, first  *)
(* past -f records and then over -l records, filtered by -p, and written  *)
(* as text/CSV or binary, with the binary header finalised at the end.    *)
(* term() (lines 25-30) runs on SIGTERM, SIGINT or SIGQUIT.               *)
(*                                                                         *)
(* A file is a sequence of records [rlen, type, ts]: rlen in bytes as     *)
(* ntohs returns it, the packet type parse_packet finds, and the raw      *)
(* 32.32 timestamp of DagDecode.  The walk holds a byte position; output  *)
(* records are the positions of the records written.  Formatting, the    *)
(* previous/next records used only for the text columns, and the          *)
(* statistics print are left out.                                         *)
(***************************************************************************)
EXTENDS Integers, Sequences, SequencesExt

CONSTANTS
  Files,        \* capture files the tool may be given
  ReservedSet,  \* values of the captures' flags.reserved
  Offsets,      \* values of options.offset (-f)
  Lengths,      \* values of options.length (-l)
  PTypes,       \* values of options.ptype (-p), -1 = all
  None          \* no start time yet

ASSUME /\ Offsets \subseteq Nat /\ Lengths \subseteq Int /\ PTypes \subseteq Int
       /\ ReservedSet \subseteq BOOLEAN

(* The decoder, fixed_32_32_to_nanos (lines 33-53), is that of DagDecode. *)
Decoder == INSTANCE DagDecode
             WITH MaxSecs <- 1, FracSpan <- 1000, MaxStep <- 1, None <- None,
                  reserved <- FALSE, fixed <- [secs |-> 0, frac |-> 0],
                  prev_ns <- None

VARIABLES
  capture,     \* the file given with -i, as it was when the tool started
  infile,      \* the same file on disk, as the tool leaves it
  reserved,    \* the capture's flags.reserved
  offset, length, ptype, csv, bin, do_head,   \* the options
  pc,          \* "open", "skip", "out", "final" or "done"
  pos,         \* byte offset of dag_rec in the file
  rec_idx,
  start_time,
  outhead,     \* header written: "none", "txt" or "bin"
  out,         \* positions of the records written, in order
  reason       \* why the process ended

vars == <<capture, infile, reserved, offset, length, ptype, csv, bin, do_head,
          pc, pos, rec_idx, start_time, outhead, out, reason>>

(* Byte offset of record k and the length of the file. *)
Start(k)  == MapThenSumSet(LAMBDA i : capture[i].rlen, 1..k - 1)
FileLen   == Start(Len(capture) + 1)

(* The record dag_rec points at; the files walked are whole records. *)
RecAt(p) == capture[CHOOSE k \in DOMAIN capture : Start(k) = p]

(* ntohs of a big-endian field on a little-endian host. *)
Swap16(r) == (r % 256) * 256 + r \div 256

(* Lines 393 and 429: ntohs(rlen) != 80 && rlen == 14 * 8, where the    *)
(* second test reads the raw, unswapped field.                           *)
RlenRejected(r) == r # 80 /\ Swap16(r) = 112

TsNanos(rec) == Decoder!fixed_32_32_to_nanos(rec.ts, reserved)

(* Line 483: the uint64_t n stored over a ts field.  n < 2^31 here, so  *)
(* the high word is 0 and the low word n.                                *)
WrittenTs(n) == [secs |-> 0, frac |-> n]

(* Line 418: rec_idx < options.offset + options.length, where the sum   *)
(* is a uint64_t: a negative sum wraps past every index.                 *)
InRange(i) == offset + length < 0 \/ i < offset + length

(* Line 446: the -p filter. *)
Filtered(rec) == ptype # -1 /\ rec.type # ptype

TypeOK ==
  /\ capture \in Files /\ reserved \in ReservedSet
  /\ offset \in Offsets /\ length \in Lengths /\ ptype \in PTypes
  /\ {csv, bin, do_head} \subseteq BOOLEAN
  /\ pc \in {"open", "skip", "out", "final", "done"}
  /\ pos \in {Start(k) : k \in 1..Len(capture) + 1}   \* on a record boundary
  /\ rec_idx \in Nat
  /\ outhead \in {"none", "txt", "bin"}
  /\ out \in Seq(0..FileLen)
  /\ reason \in {"none", "end", "error", "ranout", "signal"}

Init ==
  /\ capture \in Files /\ infile = capture /\ reserved \in ReservedSet
  /\ offset \in Offsets /\ length \in Lengths /\ ptype \in PTypes
  /\ csv \in BOOLEAN /\ bin \in BOOLEAN /\ do_head \in BOOLEAN
  /\ pc = "open" /\ pos = 0 /\ rec_idx = 0 /\ start_time = None
  /\ outhead = "none" /\ out = <<>> /\ reason = "none"

Exit(why) == pc' = "done" /\ reason' = why

(* Lines 352-380: -b with -c, or a file shorter than one record, is an   *)
(* error; otherwise start_time is the first record's time.               *)
Open ==
  /\ pc = "open"
  /\ IF (bin /\ csv) \/ FileLen < 80
     THEN Exit("error") /\ UNCHANGED start_time
     ELSE pc' = "skip" /\ start_time' = TsNanos(capture[1]) /\ UNCHANGED reason
  /\ UNCHANGED <<capture, infile, reserved, offset, length, ptype, csv, bin,
                 do_head, pos, rec_idx, outhead, out>>

(* Mutant of Skip: the skip loop runs while rec_idx <= offset. *)
SkipPastOffset ==
  /\ pc = "skip" /\ rec_idx <= offset
  /\ CASE pos >= FileLen                  -> Exit("ranout") /\ UNCHANGED <<pos, rec_idx>>
       [] RlenRejected(RecAt(pos).rlen)   -> Exit("error") /\ UNCHANGED <<pos, rec_idx>>
       [] OTHER -> /\ rec_idx' = rec_idx + 1 /\ pos' = pos + RecAt(pos).rlen
                   /\ UNCHANGED <<pc, reason>>
  /\ UNCHANGED <<capture, infile, reserved, offset, length, ptype, csv, bin,
                 do_head, start_time, outhead, out>>

(* Lines 383-397: one record skipped on the way to -f. *)
Skip ==
  /\ pc = "skip" /\ rec_idx < offset
  /\ CASE pos >= FileLen                  -> Exit("ranout") /\ UNCHANGED <<pos, rec_idx>>
       [] RlenRejected(RecAt(pos).rlen)   -> Exit("error") /\ UNCHANGED <<pos, rec_idx>>
       [] OTHER -> /\ rec_idx' = rec_idx + 1 /\ pos' = pos + RecAt(pos).rlen
                   /\ UNCHANGED <<pc, reason>>
  /\ UNCHANGED <<capture, infile, reserved, offset, length, ptype, csv, bin,
                 do_head, start_time, outhead, out>>

(* Lines 400-412: the text header with -H, else the binary header with   *)
(* -b, its end time and count left at ~0.                                *)
WriteHead ==
  /\ pc = "skip" /\ rec_idx >= offset
  /\ pc' = "out"
  /\ outhead' = IF do_head THEN "txt" ELSE IF bin THEN "bin" ELSE "none"
  /\ UNCHANGED <<capture, infile, reserved, offset, length, ptype, csv, bin,
                 do_head, pos, rec_idx, start_time, out, reason>>

(* Mutant of Emit: the walk steps a fixed 80 bytes, not by rlen. *)
EmitFixedStride ==
  /\ pc = "out" /\ InRange(rec_idx)
  /\ CASE pos >= FileLen                  -> pc' = "final" /\ UNCHANGED <<pos, rec_idx, out>>
       [] RlenRejected(RecAt(pos).rlen)   -> Exit("error") /\ UNCHANGED <<pos, rec_idx, out>>
       [] OTHER -> /\ out' = IF Filtered(RecAt(pos)) THEN out ELSE Append(out, pos)
                   /\ rec_idx' = rec_idx + 1 /\ pos' = pos + 80
                   /\ UNCHANGED pc
  /\ UNCHANGED reason
  /\ UNCHANGED <<capture, infile, reserved, offset, length, ptype, csv, bin,
                 do_head, start_time, outhead>>

(* Lines 418-470: one iteration of the output loop.  A filtered record   *)
(* is passed over by continue, which still runs the loop's increment.    *)
Emit ==
  /\ pc = "out" /\ InRange(rec_idx)
  /\ CASE pos >= FileLen                  -> pc' = "final" /\ UNCHANGED <<pos, rec_idx, out>>
       [] RlenRejected(RecAt(pos).rlen)   -> Exit("error") /\ UNCHANGED <<pos, rec_idx, out>>
       [] OTHER -> /\ out' = IF Filtered(RecAt(pos)) THEN out ELSE Append(out, pos)
                   /\ rec_idx' = rec_idx + 1 /\ pos' = pos + RecAt(pos).rlen
                   /\ UNCHANGED pc
  /\ UNCHANGED reason
  /\ UNCHANGED <<capture, infile, reserved, offset, length, ptype, csv, bin,
                 do_head, start_time, outhead>>

(* Line 418: the loop's condition fails after -l records. *)
EmitDone ==
  /\ pc = "out" /\ ~InRange(rec_idx)
  /\ pc' = "final"
  /\ UNCHANGED <<capture, infile, reserved, offset, length, ptype, csv, bin,
                 do_head, pos, rec_idx, start_time, outhead, out, reason>>

(* Lines 478-488: with -b the finished header is written with            *)
(* open(options.in, O_WRONLY), at offset 0, sizeof(dag_data_head) = 8     *)
(* bytes of it: its start_time lands on the first record's ts field.    *)
(* term(0) follows.                                                      *)
Finish ==
  /\ pc = "final"
  /\ infile' = IF bin THEN [infile EXCEPT ![1].ts = WrittenTs(start_time)]
                      ELSE infile
  /\ Exit("end")
  /\ UNCHANGED <<capture, reserved, offset, length, ptype, csv, bin, do_head,
                 pos, rec_idx, start_time, outhead, out>>

(* term(), run by a signal (lines 348-350) at any step. *)
Signal ==
  /\ pc # "done"
  /\ Exit("signal")
  /\ UNCHANGED <<capture, infile, reserved, offset, length, ptype, csv, bin,
                 do_head, pos, rec_idx, start_time, outhead, out>>

Next == Open \/ Skip \/ WriteHead \/ Emit \/ EmitDone \/ Finish \/ Signal

Spec == Init /\ [][Next]_vars

-----------------------------------------------------------------------------
(* Properties *)

(* The records the options ask for (lines 338-340): indices offset ..    *)
(* offset + length - 1 that exist, or all from offset with -l -1, less   *)
(* those of another type than -p.                                         *)
Selected ==
  LET ks == {k \in DOMAIN capture : offset < k
                                     /\ (length = -1 \/ k <= offset + length)
                                     /\ ~Filtered(capture[k])}
  IN  SetToSortSeq({Start(k) : k \in ks}, <)

(* The rlen-driven walk, the skip past -f, the -l bound and the -p       *)
(* filter's continue together write the selected records in file order:  *)
(* what has been written is always a prefix of them, and a run that      *)
(* ends normally has written all of them.                                *)
OutputIsSelection ==
  /\ IsPrefix(out, Selected)
  /\ (pc = "done" /\ reason = "end") => out = Selected

(* dag_analyse only reads its input: the capture given with -i is on     *)
(* disk as it was before the tool ran (spec 3: capture arrays are        *)
(* read-only).                                                            *)
InputUnchanged ==
  infile = capture

=============================================================================
