---------------------------- MODULE DagCapture ----------------------------
(***************************************************************************)
(* The capture loop of dag_capture.c (main, lines 296-363) and its exit   *)
(* handler term() (lines 158-221), which runs at the loop's end or as the *)
(* SIGTERM/SIGINT/SIGQUIT handler between any two of the loop's steps.    *)
(*                                                                         *)
(* A slot of the sample buffer is abstracted to the fields the tools      *)
(* downstream read: the timestamp (raw[0]), the port (flags.iface, in     *)
(* raw[1]) and the payload fingerprint (raw[2..9]).  alloc_sample_mem     *)
(* zeroes the buffer (line 93), so an unwritten field is 0 / Zero.        *)
(***************************************************************************)
EXTENDS Integers, Sequences, SequencesExt

CONSTANTS
  Ports,       \* the card's ports (flags.iface), 0..3 in the build
  Times,       \* timestamps the card stamps, in clock order
  Payloads,    \* payload fingerprints
  Samples,     \* options.samples, the buffer's capacity
  Timeout,     \* options.timeout_secs in clock ticks, 0 = unlimited
  ZeroWlen,    \* TRUE: the card may deliver records with wlen = 0
  Signals,     \* TRUE: a signal may arrive during the capture
  Zero         \* the payload of a zeroed slot

ASSUME /\ 0 \in Ports /\ Times \subseteq Nat \ {0}
       /\ Samples \in Nat \ {0} /\ Timeout \in Nat
       /\ ZeroWlen \in BOOLEAN /\ Signals \in BOOLEAN

Slot == [ts : Times \cup {0}, iface : Ports, pay : Payloads \cup {Zero}]
ZeroSlot == [ts |-> 0, iface |-> 0, pay |-> Zero]
Card == [ts : Times, iface : Ports, pay : Payloads, wlen0 : BOOLEAN]

(* The fields of a card record that a full copy (lines 336-345) keeps. *)
AsSlot(r) == [ts |-> r.ts, iface |-> r.iface, pay |-> r.pay]

(* sample_space[i].f = v.  A store past the buffer still happens: the     *)
(* buffer then holds an index outside 0..Samples-1.                       *)
Store(buf, i, f, v) ==
  IF i \in DOMAIN buf THEN [buf EXCEPT ![i][f] = v]
  ELSE buf @@ (i :> [ZeroSlot EXCEPT ![f] = v])

(* sample_space[i] as term() reads it.  Past the buffer it reads the     *)
(* zeroed padding of the page-rounded allocation (lines 88-93).          *)
SlotAt(buf, i) == IF i \in DOMAIN buf THEN buf[i] ELSE ZeroSlot

VARIABLES
  pc,            \* the loop's position, "term" at its end, "exited"
  data,          \* the card record the loop holds (start_read)
  last_ts,       \* the card's clock: the last timestamp it stamped
  sample,        \* index of the next slot (the sample pointer)
  samples_total, \* records counted (line 319)
  slots,         \* the sample buffer, 0..Samples-1
  first,         \* no record copied yet (line 327)
  end_time_ns,   \* timeout deadline, set from the first record (329)
  files,         \* per port, the records term() wrote
  captured       \* history: records whose copy completed, in order

vars == <<pc, data, last_ts, sample, samples_total, slots, first,
          end_time_ns, files, captured>>

LoopPcs == {"read", "counted", "copied_ts", "copied_flags", "check"}

TypeOK ==
  /\ pc \in LoopPcs \cup {"term", "exited"}
  /\ data \in Card \cup {ZeroSlot}
  /\ last_ts \in Times \cup {0}
  /\ sample \in 0..Samples /\ samples_total \in Nat
  /\ slots \in [0..Samples - 1 -> Slot]
  /\ first \in BOOLEAN /\ end_time_ns \in Nat
  /\ files \in [Ports -> Seq(Slot)]
  /\ captured \in Seq(Slot)

Init ==
  /\ pc = "read"
  /\ data = ZeroSlot
  /\ last_ts = 0
  /\ sample = 0 /\ samples_total = 0
  /\ slots = [i \in 0..Samples - 1 |-> ZeroSlot]
  /\ first = TRUE /\ end_time_ns = Timeout
  /\ files = [p \in Ports |-> <<>>]
  /\ captured = <<>>

(* Lines 302-319: the card hands over its next record, stamped after the *)
(* previous one; the loop counts it for its port and in samples_total.   *)
Receive ==
  /\ pc = "read"
  /\ \E r \in Card :
       /\ r.ts > last_ts
       /\ ZeroWlen \/ ~r.wlen0
       /\ data' = r /\ last_ts' = r.ts
  /\ samples_total' = samples_total + 1
  /\ pc' = "counted"
  /\ UNCHANGED <<sample, slots, first, end_time_ns, files, captured>>

(* Lines 321-324: a record with wlen 0 is released and skipped, after it *)
(* has been counted.                                                      *)
SkipEmpty ==
  /\ pc = "counted" /\ data.wlen0
  /\ pc' = "read"
  /\ UNCHANGED <<data, last_ts, sample, samples_total, slots, first,
                 end_time_ns, files, captured>>

(* Lines 327-336: note the start time, then copy the timestamp word. *)
CopyTs ==
  /\ pc = "counted" /\ ~data.wlen0
  /\ IF first THEN /\ end_time_ns' = end_time_ns + data.ts
                   /\ first' = FALSE
              ELSE UNCHANGED <<end_time_ns, first>>
  /\ slots' = Store(slots, sample, "ts", data.ts)
  /\ pc' = "copied_ts"
  /\ UNCHANGED <<data, last_ts, sample, samples_total, files, captured>>

(* Mutant of CopyFlags: the unrolled copy's second line left reading    *)
(* word 0 of data (sample->raw[1] = word 0), so the timestamp word lands *)
(* where flags.iface belongs.                                             *)
CopyFlagsWord0 ==
  /\ pc = "copied_ts"
  /\ slots' = Store(slots, sample, "iface", data.ts)
  /\ pc' = "copied_flags"
  /\ UNCHANGED <<data, last_ts, sample, samples_total, first,
                 end_time_ns, files, captured>>

(* Line 337: the word that holds flags.iface. *)
CopyFlags ==
  /\ pc = "copied_ts"
  /\ slots' = Store(slots, sample, "iface", data.iface)
  /\ pc' = "copied_flags"
  /\ UNCHANGED <<data, last_ts, sample, samples_total, first,
                 end_time_ns, files, captured>>

(* Lines 338-349: the payload words, end_read, and sample++. *)
CopyPayload ==
  /\ pc = "copied_flags"
  /\ slots' = Store(slots, sample, "pay", data.pay)
  /\ sample' = sample + 1
  /\ captured' = Append(captured, AsSlot(data))
  /\ pc' = "check"
  /\ UNCHANGED <<data, last_ts, samples_total, first, end_time_ns, files>>

(* Mutant of Check: the count limit tested with > (line 351). *)
CheckPastLimit ==
  /\ pc = "check"
  /\ pc' = IF samples_total > Samples THEN "term"
           ELSE IF Timeout # 0 /\ data.ts > end_time_ns THEN "term"
           ELSE "read"
  /\ UNCHANGED <<data, last_ts, sample, samples_total, slots, first,
                 end_time_ns, files, captured>>

(* Lines 351-359: stop when the buffer's count is reached, or when the   *)
(* record's time is past the deadline; otherwise read the next record.   *)
Check ==
  /\ pc = "check"
  /\ pc' = IF samples_total >= Samples THEN "term"
           ELSE IF Timeout # 0 /\ data.ts > end_time_ns THEN "term"
           ELSE "read"
  /\ UNCHANGED <<data, last_ts, sample, samples_total, slots, first,
                 end_time_ns, files, captured>>

(* Mutant of TermWrites: the loop of line 196 stops one slot short. *)
TermWritesShort ==
  LET written == [i \in 1..samples_total - 1 |-> SlotAt(slots, i - 1)]
  IN  [p \in Ports |-> SelectSeq(written, LAMBDA s : s.iface = p)]

(* term(), lines 158-221: write the first samples_total slots, each to   *)
(* the file of the port its flags name, and exit.                        *)
TermWrites ==
  LET written == [i \in 1..samples_total |-> SlotAt(slots, i - 1)]
  IN  [p \in Ports |-> SelectSeq(written, LAMBDA s : s.iface = p)]

(* Line 363: the loop ended and calls term(0). *)
Exit ==
  /\ pc = "term"
  /\ files' = TermWrites
  /\ pc' = "exited"
  /\ UNCHANGED <<data, last_ts, sample, samples_total, slots, first,
                 end_time_ns, captured>>

(* Lines 278-286: a signal runs term() between two steps of the loop. *)
Signal ==
  /\ Signals /\ pc \in LoopPcs
  /\ files' = TermWrites
  /\ pc' = "exited"
  /\ UNCHANGED <<data, last_ts, sample, samples_total, slots, first,
                 end_time_ns, captured>>

Next ==
  \/ Receive \/ SkipEmpty \/ CopyTs \/ CopyFlags \/ CopyPayload \/ Check
  \/ Exit \/ Signal

Spec == Init /\ [][Next]_vars

-----------------------------------------------------------------------------
(* Properties *)

Port(seq, p) == SelectSeq(seq, LAMBDA s : s.iface = p)

(* The copy of lines 336-345 always stores into the buffer: the limit    *)
(* test of line 351, made after each copy, keeps the pointer below       *)
(* options.samples although skipped records are counted too.             *)
WritesWithinBuffer ==
  pc \in {"counted", "copied_ts", "copied_flags"} /\ ~data.wlen0
    => sample < Samples

(* Whatever interrupts the loop, term() writes every record whose copy   *)
(* completed, in capture order, to the file of its port: each file       *)
(* starts with exactly those records.                                     *)
CopiedRecordsOutput ==
  pc = "exited" => \A p \in Ports : IsPrefix(Port(captured, p), files[p])

=============================================================================
