# TLA+ models of the QJump camio tools and the RCP ns-2 agent

This directory holds TLA+ models of the C and C++ sources under `src/`, the
TLC configurations that check them, and `PROJECT.json`. That file lists every
component, run, mutant, source mapping, finding and hazard.

## The system

The repository has two unrelated parts.

**QJump camio tools** (`src/QJump/qjump-camio-tools`) is a latency-measurement
tool chain built on fixed-size 80-byte DAG ERF capture records:

| Tool | Role | State and operations |
|------|------|----------------------|
| `dag_capture` | Records traffic from a DAG/ExaNIC card into a zeroed, locked buffer. On exit, or on SIGTERM/SIGINT/SIGQUIT, it writes the buffer into one file per card port (`/tmp/dag_cap_A`..`D`). | `samples_total`, `samples_[4]`, the buffer and its write pointer. The capture loop (lines 301-361) and the asynchronous signal handler `term()` (158-221) share these without synchronisation. |
| `dag_join` | Takes two capture files (the same traffic seen at two taps) and, for each record of the reference capture dag0, looks for the record with identical bytes 18..79 in dag1 inside a time window. It writes one `binary_out_t` per record: matched flag, both indices and the latency. | Four global run counters, and two global index caches that seed a linear locator. |
| timestamp decoder | `fixed_32_32_to_nanos`, repeated verbatim in `dag_join.c`, `dag_capture.c` and `dag_analyse.c`. Converts a 32.32 fixed-point timestamp, or a raw ns value when `flags.reserved` is set, to ns. | Pure function. |
| `dag_analyse` | Walks a capture of variable-length records by their `rlen` field and writes text, CSV or binary summaries of each parsed packet. | Offset/length options and the `rlen`-driven record pointer. |
| `packet_gen` | Generates UDP traffic in bursts, with statistics every 10^6 packets and optional stop conditions (packet count and timeout). | `pppcount` and the burst and delay timers. |
| `camio_perf` | Client and server for a throughput test. | Sequence numbers and timers. |

The tools interact only through files. `dag_capture` produces the captures that
`dag_join` correlates, and `dag_join` assumes each capture is non-empty and
ordered in time.

**RCP** (`src/RCP-NS2/patch/rcp`) is the Rate Control Protocol for the ns-2
simulator:
- The host agent (`rcp-host.cc`) is a sender/receiver state machine (INACT,
  SYNSENT, CONGEST, RUNNING, RUNNING_WREF, FINSENT, RETRANSMIT). It exchanges
  SYN/SYNACK, REF/REFACK, DATA/ACK and FIN/FINACK over the simulated network.
  Three timers drive it: `rcp_timer_` paces the data, `ref_timer_` resends the
  SYN or sends REF probes, and `rto_timer_` starts retransmission.
- The router queue (`rcp.cc`) recomputes the advertised rate every control
  interval (`queue_timeout`). As packets leave it, it writes that rate into
  SYN, REF and DATA packets that ask for more (`fill_in_feedback`). The
  receiver copies the rate into its reply, which is how the sender learns it.

ns-2 is a single-threaded discrete-event simulator. The agent's concurrency is
the order of events: timer expiries, arrivals on both paths and rate changes,
with no two handlers overlapping.

## Hard behaviours in the code

- **The join's locator and window.** They depend on unsigned/signed
  conversions, on `abs()` taking an `int`, on an early return that leaves an
  out-parameter unwritten, and on caches carried from one record to the next.
  These are numeric edges and stale state that a unit test with friendly data
  does not reach.
- **The decoder's rounding correction.** It is not monotone: raw 5 then 8
  decode to 3 then 1 ns, where spec 3 says decoded timestamps are
  non-decreasing. The `decode` run bounds the regression instead.
- **`dag_analyse`'s walk.** It follows each record's own length field,
  mixes `uint64_t` and `int64_t` in its bounds, and in binary mode writes
  into its input file.
- **`dag_capture`'s signal handler.** It interrupts the capture loop at any
  statement, and the loop counts records that it then skips.
- **`packet_gen`'s stop condition.** It uses a counter that is reset elsewhere,
  which threatens termination.
- **RCP.** It runs timers and retransmissions over a network that may lose,
  duplicate or delay packets. The REF accounting (`numOutRefs_`) exits the
  simulation if it goes negative.

## Modules

| Module | Models | State / actions |
|--------|--------|-----------------|
| `DagJoin` | `do_join`, `get_range`, `get_index_linear`, `output_match`, `packet_compare` in `dag_join.c`; `main`'s loading as `Init` | Variables: the two captures, the clamped offset/length, `d0i`, the two index caches, the four counters and the output sequence. Actions: `Setup` (lines 181-196), then one action per outcome of a loop iteration. |
| `JoinSpec` | What the join promises (spec 4.3), with no locator, caches, pruning or counters | Variables: the captures, the range `lo..hi-1`, the next index, a verdict per decided record, and `finished`. Actions: `Decide` (the next record is matched, or unmatched when no identical record lies in its window) and `End`. |
| `MCDagJoin` | TLC instance of `DagJoin` | Two payload model values under symmetry; the lengths set. |
| `DagDecode` | `fixed_32_32_to_nanos` | A stream of raw timestamps as the card stamps them, decoded one by one. |
| `DagCapture` | `dag_capture.c`: the capture loop of `main` and `term()` | Variables: the loop's position, the held card record, the buffer slots, the pointer, `samples_total`, the timeout deadline, the output files, and the history of completed copies. Actions: one per step of the loop at which a signal can interrupt it, plus `term()` from the loop's end (`Exit`) or from a signal (`Signal`). |
| `MCCaptureJoin` | `dag_capture` followed by `dag_join` on two of its files | Instances of `DagCapture` and `DagJoin` over disjoint variables. `Load` is `dag_join`'s `main` reading the two files. |
| `PacketGen` | `main`'s send loop in `packet_gen.c`, and `term()` | Variables: the options `num`, `burst`, `timeout` and the mode, chosen in `Init`; the loop position `pc`, `pppcount`, `total_count` (`sent`), the runtime and the exit reason. Actions: `Top` (the client's wait and the burst delay), `Stats`, `SendBurst`, `Serve`, `Check` (the `-n` test) and `Signal`. |
| `DagAnalyse` | `main` of `dag_analyse.c`, and `term()` | Variables: the input file as given and as left on disk, the capture's `flags.reserved`, the options, the loop position, the byte position `dag_rec`, `rec_idx`, `start_time`, the header and the records written. Actions: `Open`, `Skip` (the loop to `-f`), `WriteHead`, `Emit` (one output-loop iteration), `EmitDone`, `Finish` (the binary header write and `term(0)`) and `Signal`. The decoder is `DagDecode`'s, by `INSTANCE`. |
| `MCDagAnalyse` | TLC instance of `DagAnalyse` | The capture files: whole records of 80 bytes (as `dag_capture` writes them) or 112 bytes (as `dag_join` writes them). |
| `MCPacketGen` | TLC instance of `PacketGen` | The sets of `-n` values, which hold `-1` and so cannot be written in a `.cfg`. |
| `RcpHost` | One RCP flow: the sending and receiving `RCPAgent` (`rcp-host.cc`), the two links, and the router's feedback (`rcp.cc`) | Variables: the agent's fields of `rcp-host.h`, the three timers as pending flags, the links `fwd` and `rev` as FIFO sequences, and the flow rate. Actions: `SendFile`, one per timer callback, one per `recv` case, and `QueueTimeout`. |

### DagJoin

A record is abstracted to its decoded timestamp and its identity fingerprint:
- **Fingerprint.** A model value. `packet_compare` is a `memcmp` of bytes
  18..79, so two records compare equal iff their fingerprints do.
- **Decoded timestamp.** Kept as a number, because the join uses only the
  decoded value (the decoder itself is `DagDecode`'s subject).

The loop body of `do_join` is split into actions by the outcome of one
iteration. Each action does the whole iteration: the locator calls, the cache
update, the scan, the output and the counter:
- `Prune`: lines 208-212.
- `Match`: the scan hits.
- `NoMatch`: the scan is exhausted. It holds both branches of line 245.
- `ScanFault` and `ScanGarbageMatch`: the scan runs past dag1's end, because
  the end index was left at `~0`. Reading past the mapping either faults, or
  finds bytes equal to the dag0 record. Both outcomes are kept, since what
  lies beyond the mapping is undefined.
- `LocateFault`: the next `get_index_linear` reads `samples[end_idx_cache]`
  with the cache at `~0`.
- `LoopExit`.

Widths are reduced so that TLC can represent them. `uint64_t` is taken modulo
`2^UBits`, the `int` returned by `abs()` is `IBits` wide, and `output_match`'s
`uint32_t` parameters are `IdxBits` wide. The timestamps are scaled with them:
in the default run, a span below `2^(IBits-1)` plays the role of a span below
2.1 s.

**Refinement.** `DagJoin` instantiates `JoinSpec` as `Abs`, and the join run
checks `JoinRefinement == Abs!AbsSpec` as a property. The refinement mapping:
- **Range.** Before `Setup`, the range is the one `Setup` will clamp the
  arguments to. Afterwards it is `dag_off .. dag_len - 1`.
- **Next index.** `d0i`.
- **Verdicts.** A processed record is "matched" iff the output holds a match
  for it. A record dropped before the first match, dropped after it, or
  pruned at line 209 is "unmatched".
- **`finished`.** `pc = "done"`.

`Setup` and the fault actions are stuttering steps of `JoinSpec`. Every other
loop action is one `Decide`, and `LoopExit` is `End`.

`JoinSpec` does not say which dag1 record a match names. A match past dag1's
end (`ScanGarbageMatch`) occurs on the join run's own captures, so that part
of the promise is `ReadsStayInBounds`, which the join_bounds run finds
violated.

### DagDecode

The fraction is held as a small integer `f`:
- `f >= 0` stands for the fraction `f`;
- `f < 0` stands for the fraction `2^32 + f`.

This reaches both ends of a second, and the carry between them, within TLC's
32-bit integers. The decoder's `(frac * 10^9) >> 32` is computed exactly as
`(frac * 5^9) \div 2^23`, because 10^9 = 5^9 * 2^9. `Advance` and `Gap` are the
card stamping the next record: a few ticks later, across a second boundary, or
late in the same second.

### DagCapture

**Slots.** A buffer slot is abstracted to the timestamp word, the port
(`flags.iface`, in the second word) and the payload fingerprint. Since
`alloc_sample_mem` zeroes the buffer, an unwritten field reads as 0 or `Zero`.

**Copy steps.** The copy of lines 336-345 is split where the output differs if
`term()` runs in between:
- after the timestamp word (the record goes to file A with a real time);
- after the flags word (the record goes to the right file with a zero payload);
- after the payload words.

**Stores.** A store past the buffer is kept as a store: the buffer map gains the
index. A read past the buffer by `term()` returns the zeroed page padding.

**Not modelled.** A card that has nothing ready (`len == 0`) makes the loop
spin without changing state, so it is not an action. `term2()` only prints.

### MCCaptureJoin

The capture runs to `term()`. Then `dag_join` reads file `RefPort` as dag0 and
file `CmpPort` as dag1, and the join runs on them. The capture's timestamps
play the role of decoded nanoseconds.

### RcpHost

**State.** The sender's variables are the agent's own fields, with their
names. A timer is a boolean: TRUE while an expiry is scheduled. A `resched`
sets it and a `force_cancel` clears it.

**Abstracted data.**
- `numpkts_` is a double ("need not be an integer", line 92), so the model
  holds `NumPkts2 = 2 * numpkts_`. The comparisons of lines 221, 427 and 502
  are made on doubled values. The assignment to the int
  `num_Pkts_to_retransmit_` (line 260) truncates toward zero.
- A rate stands for the interval computed from it, since
  `interval_ = size / rate` is one-to-one. `interval_` is never initialised,
  so `Init` lets it take any value.
- Times (`rtt_`, `min_rtt_`, `lastpkttime_`) are not kept. The two
  comparisons `rate_change` makes with them become free choices:
  - `slow`: the interval exceeds `REF_INTVAL * min_rtt_`;
  - `late`: the next send time is still ahead.

**Links.** `fwd` is the data path through the router and `rev` the ack path.
Each is FIFO, as an ns-2 link with one queue is. A send may instead lose the
packet, at most `FwdLoss` and `RevLoss` times, as a DropTail queue full of
other flows' traffic would. The router stamps a packet with the rate as it
leaves the queue, at the moment the receiver takes it (`RcvHead`).
`QueueTimeout` changes the flow rate to another value of `Rates`. The code
clamps the rate to at least `min_pprtt_` packets per rtt, so a router never
advertises a rate of zero or below. That is why `Rates` holds only positive
values, and why the branches for a rate of zero or below (CONGEST, `pause()`)
are not reached in these runs.

**Actions.** Each action is a whole handler, every call it makes included:
- `RcpTimeout` is `timeout()`, including `sendpkt()`/`sendlast()`.
- `RecvAck` is the ACK case, including `stop()` and `rate_change()`.
- `RateChange` is a helper used by the ACK and REFACK handlers. Its sync
  branch calls `timeout()` and then sets the REF mode from the interval.
  That branch is where the second FIN of `rcp_rate_change` comes from.

**Pacing.** A timer callback fires only while fewer than `QLimit` packets are
on the two links (`TimerMayFire`). The timers pace the sender at its rate, so
a round trip carries the packets of earlier expiries before many more are
sent. `rto_timer_` is armed for `2 * rtt_` after the last packet. With
`RtoAfterDrain` it fires once the DATA and FIN packets and their acks have
been delivered or lost (`DataDrained`). REF probes may still be travelling.

### DagAnalyse

`dag_analyse` walks a file of ERF records by each record's `rlen`
(`pos' = pos + rlen`), first `-f` records to skip (`Skip`, lines 383-397),
then the output loop (`Emit`, lines 418-470) while `InRange(rec_idx)`:
`rec_idx < offset + length` computed in `uint64_t`, so a negative sum wraps
past every index. Each iteration stops at the end of the file, exits on the
`rlen` test of line 429, or writes the record unless the `-p` filter's
`continue` passes it over; the `for` increment runs either way. `Finish`
(lines 478-488) is the binary mode's header finalisation: it opens the
**input** file and writes `sizeof(dag_data_head)` = 8 bytes, which land on the
first record's `ts` field (`WrittenTs`).

The `rlen` test (`RlenRejected`) is modelled as written: `ntohs(rlen) != 80 &&
rlen == 112`, where the second `rlen` is the raw big-endian field (`Swap16`).
It never rejects an 80- or 112-byte record, nor a corrupt one. A record's
contents are reduced to its length, the packet type `parse_packet` finds, and
its raw timestamp; the previous and next records, which only feed the text
columns, and the statistics print are left out.

### PacketGen

One pass of `main`'s `while(1)` (lines 638-829) is the sequence `Top`,
`Stats`, then `SendBurst` and `Check`, or `Serve` in server mode:
- `Top` (lines 639-681): a client spins on `read_distagg()` for a control
  message; every mode then waits out the burst delay, which the model leaves
  untimed. The runtime advances by one iteration.
- `Stats` (lines 683-718): when `pppcount` is a non-zero multiple of 10^6
  (`StatsEvery`), the statistics are printed and `pppcount` is reset to 0;
  only here is the time limit tested, and `exit(0)` ends the process.
- `SendBurst` (lines 782-819): `burst` packets, each counted in `pppcount`
  and `total_count`.
- `Serve` (lines 720-781): the server broadcasts and collects replies in an
  inner loop that never returns.
- `Check` (lines 822-827): `options.num != -1 && pppcount >= options.num`
  breaks the loop, and `term(0)` follows. `CountReached` keeps the conversion
  of the `int64_t` option to `uint64_t`: a negative `num` other than -1 is
  never reached.
- `Signal`: `term()` (lines 319-325), installed for SIGTERM and SIGINT at
  lines 506-507, runs at any step and exits.

The runtime is counted in loop iterations and kept up to `timeout + 1`
(`Elapsed`), which is all the test `runtime > options.timeout` can tell apart;
`sent` is kept up to `SentCap`.

## Runs

| Run | Config | Expect | What it shows |
|-----|--------|--------|---------------|
| join | `MCDagJoin.cfg` | pass | Realistic captures: strictly increasing timestamps, at least the window, spans below 2^(IBits-1). `do_join` implements `JoinSpec` (`JoinRefinement`). That is, it decides each record of the range once and in order, it matches every record with an identical counterpart in its window, and it ends only when the range is exhausted. Every record is counted exactly once (`CountersAccountForEveryRecord`). The run still reaches the faulting paths, since the unwritten end index happens on such captures. |
| join_bounds | `MCDagJoinBounds.cfg` | violation | `ReadsStayInBounds`: a window end just below dag1's last timestamp leaves the end index at `~0`, and the scan leaves dag1. |
| decode | `MCDagDecode.cfg` | pass | The rounding correction makes decoding regress by at most 2 ns between consecutive raw timestamps. This is well inside the join's 250 ns guard band. |
| capture | `MCDagCapture.cfg` | pass | With wlen-0 records and a signal at any step: the copy never stores past the buffer (`WritesWithinBuffer`), and each file starts with exactly the completely copied records of its port, in order (`CopiedRecordsOutput`). |
| capture_join | `MCCaptureJoin.cfg` | violation | `EndToEndMatch`: with file A as dag1, the zeroed slot makes `dag1_end_ns` 0, and the join prunes a record whose copy is in the window. Skipped wlen-0 records are counted (line 319), so zeroed slots end file A. |
| rcp | `MCRcpHost.cfg` | pass | A flow of two packets, with rate changes in both directions, REF mode, and one data-path packet lost. `numOutRefs_` never drops below the REFs and REFACKs in flight, so the `exit(1)` of line 397 cannot happen within a flow (`RefsAccounted`). The flow finishes (`FlowFinishes`). Every action fires. |
| rcp_rate_change | `MCRcpHostRateChange.cfg` | violation | `ReceiverNeverOvercounts`: the sync branch of `rate_change` sends the FIN, then overwrites FINSENT with RUNNING_WREF (lines 662-668). A later rate change sends a second FIN, and the receiver counts 3 of 2 packets. The comment of lines 142-145 guards this very overwrite in `start()`. |
| rcp_ack_loss | `MCRcpHostAckLoss.cfg` | violation | `FlowFinishes`: a lost ACK leaves the sender's count behind. The receiver counts the retransmitted packets a second time, so its count passes `numpkts_` and the equality of line 427 never holds. `retrans_timeout` then has nothing to resend and arms no timer. |
| analyse | `MCDagAnalyse.cfg` | pass | Capture and join files of up to three records, `-f` up to past the end, `-l` 0..2, `-p` all or TCP, every output mode and a signal at any step: the walk stays on record boundaries (`TypeOK`), and what is written is always a prefix of the selected records in file order, all of them when the run ends normally (`OutputIsSelection`). |
| analyse_bin | `MCDagAnalyseBin.cfg` | violation | `InputUnchanged`: with `-b`, on a 32.32 capture, `Finish` writes the decoded start time (24 ns for raw fraction 100) over the first record's raw timestamp in the input file. On a raw-nanosecond capture the same write happens to store the value that was there. |
| pg | `MCPacketGen.cfg` | pass | Every mode, `-n` in {-1, 1..4}, bursts 1 and 3, with and without a time limit: no run sends a whole burst past `-n` (`NeverOversends`), and a plain generator given `-n` or `-t` exits (`StopsWhenAsked`). |
| pg_count_reset | `MCPacketGenCountReset.cfg` | violation | `NeverOversends`: with `-n` above the statistics period (6 against 4) and a burst dividing the period, the reset of line 707 puts `pppcount` back to 0 before it reaches `-n`, so the test of line 822 never holds and the generator sends for ever. `total_count`, which is never reset, is the counter the test needs. |

### Bounds

**join.** The bounds are:
- captures of up to 3 records each, over 7 timestamps 1000..2400 ns;
- window 1000 ns, with the 250 ns slack;
- offsets {0, 1} and lengths {-1, 1}.

Three records are the fewest that reach a drop after two matches, which is the
only way into line 246. The timestamp 2400 lies a full window beyond 1400,
which is needed both for pruning and for an end index left unwritten on one
record and read by the next. Every action fires in this run.

Spans stay below `2^(IBits-1)`, where `abs()` is exact. With timestamps
{1000, 2800, 3000, 4200}, a target more than `2^(IBits-1)` from the cached
index, TLC finds `JoinRefinement` (and `MatchFoundWhenPresent`) violated: `abs()` of the truncated
difference stops the walk early (`dag_join.c` line 110). That configuration is
not one of the runs.

**capture.** The bounds are:
- two ports, a buffer of 2 samples;
- a card clock of 5 ticks, and a timeout of 2 ticks after the first record.

This is enough to stop on the limit and on the timeout, to skip records before
and after the limit, and to deliver a signal at every step of the loop.
A signal between the count of line 319 and the copy leaves a zeroed or
half-copied slot after the records `CopiedRecordsOutput` covers; no run
states what that slot holds. The
composition uses a buffer of 3 and timestamps 1000..1400 ns, so that a packet
recorded on both ports can lie inside the join's window.

**analyse.** Files of 0 to 3 records (the empty file reaches the `len < 80`
exit), all 80 or all 112 bytes, of types TCP and UDP; `-f` in {0, 1, 2, 4},
so the skip both stops inside the file and runs out; `-l` in {0, 1, 2}, so
the loop ends both on its bound and at the end of the file; `-p` -1 or 1,
so records are both written and passed over; every combination of `-b`,
`-c` and `-H`. A `.cfg` cannot hold -1, so the sets with it are defined in
`MCDagAnalyse`. `-l -1` is left out of the run: with `-f 1 -l -1` TLC finds
`OutputIsSelection` violated, since `offset + length` is `offset - 1` and the
output loop never runs, although the help text says -1 means all records.

**decode.** Fractions within 40 ticks of each end of seconds 0 and 1, with steps
of 1..9 ticks. Every pattern of the three low bits follows every other, and the
second boundary is crossed from every fraction within 9 ticks of it.

**rcp.** The bounds are:
- two packets (`NumPkts2 = 4`), which is enough for a DATA packet, then the
  FIN, and a rate change between them;
- rates {1, 2}, so the router can both raise and lower the rate;
- one loss on the data path, with `QLimit = 3` packets in flight;
- two REFs outstanding (`MaxOutRefs`), and two entries into RETRANSMIT
  (`MaxRetransmits`).

With these bounds REF mode is entered both at start and on a rate change, a
REF can be in flight while the other one's REFACK returns, and a lost DATA or
FIN packet leads to retransmission. The violation runs change one constant
each: `RevLoss = 1` for `rcp_ack_loss`. With `NumPkts2 = 5` (`numpkts_ = 2.5`,
which line 92 allows) on lossless links, TLC also finds `FlowFinishes`
violated: the integer count never equals `numpkts_` (lines 427, 502). That
configuration is not one of the runs.

**pg.** `StatsEvery = 4` stands for 10^6: `-n` from 1 to 4 covers a limit
below, at and (with a burst of 3) straddling the statistics period, and -1
covers no limit. Time limits 0 and 2 iterations cover no limit and a limit
that passes before the period is reached. `SentCap = 8` is above every
`num + burst` of the run. The violation run uses `-n 6` above the period 4
and bursts 1 and 2, which divide it.

### Fairness

The `dag_join`, decoder and `dag_capture` properties are safety properties, so no fairness is assumed there.
`dag_join` is single-threaded and runs to completion.

`FlowFinishes` rests on ns-2's scheduler. It runs every scheduled timer
event, and a link delivers every packet it carries, so every timer callback
and every delivery is fair. In the model, a step that sends waits while
`QLimit` packets are in flight, and `rto_timer_` waits for the data to drain.
So these steps are only intermittently enabled, and they are strongly fair
(SF). The script calls `sendfile` (WF). `QueueTimeout` has no fairness: the
router need not change the rate.

`StopsWhenAsked` rests on the send loop running on the CPU without blocking:
`Stats`, `SendBurst` and `Check` are weakly fair, and so is `Top` except in
client mode, where `read_distagg()` may spin for ever on a message that never
comes. `Signal` has no fairness: no signal need arrive.

### Mutants

Each property of a passing run is broken by one plausible bug in the code it
covers (see `PROJECT.json`):
- the walk stopping on a tie (`>=` for `>`), which breaks the refinement;
- a prune that does not count;
- the unwritten end index taken as a signed -1;
- the capture's limit test with `>`;
- `term()` writing one slot short;
- the unrolled copy's second line reading word 0 (the timestamp) into the
  flags word;
- the fraction read as a signed `int32_t`;
- a correction of 1 ns per low bit;
- the receiver's reply without its count;
- the REF sent by `rate_change` left uncounted;
- `retrans_timeout` not rescheduling `rcp_timer_`;
- a burst loop that runs once too often;
- the statistics block without its time-limit test;
- the walk stepping a fixed 80 bytes instead of `rlen`;
- the skip loop running while `rec_idx <= offset`.

`PacketGen` has no type invariant. Its variables can leave their types only
through the model's own caps on the runtime and `total_count`. No bug of
`packet_gen.c` could break such an invariant, so it would show nothing.

## Not modelled (yet)

- **`dag_capture`.** The timeout test reads the record after `end_read`. A
  stale value only moves the stop by one record, which no property
  distinguishes, so the model uses the record's own timestamp.
- **`packet_gen`.** Packet construction, checksums, ARP, netmap set-up and
  the parsing of control messages. The default time limit `3*60*10^9`
  (line 521) is compared with a runtime in microseconds (line 702), so it is
  about 50 hours rather than the help text's 60 s; the model counts
  iterations and cannot tell units apart.
- **`dag_analyse`.** `parse_packet`'s header parsing and MD5 hash, and the
  text, CSV and binary record layouts: formatting, reduced to the packet
  type the filter reads. Files with a corrupt `rlen` are not among the
  inputs, so the `rlen` test's failure to reject them is a hazard without a
  run. A record whose `rlen` field is 0 is never stepped past (lines
  418-422). Under `-l -1` the loop's `uint64_t` bound is `2^64 - 1`, so that
  record is written without end. The model equates a record's bytes with its
  `rlen`, so it cannot express such a file.
- **`camio_perf`.** The client sends a buffer in an endless loop and the
  server counts what it receives; there is no guard or branch to check. The
  client stores the sequence number after each send (`camio_perf_c.c` line
  177), so packet k carries k - 1 and the first carries uninitialised bytes,
  and `-q` is never used. This is listed as a hazard.
- **RCP host agent.** Left out:
  - `reset()` and the reuse of an agent for a second flow. A stale REFACK
    from the earlier flow is the other way to reach the `exit(1)` of line 397.
  - `pause()` after a rate of zero, which is unreachable while the router
    clamps its rate.
  - Duplicated packets, which ns-2 links do not produce.
- **RCP router.** Its floating-point rate computation (load and queue
  averages) is abstracted to a free choice of the next rate. The host's
  properties hold for any sequence of rates.
- **Left out for good.** Packet construction, text and CSV formatting, option
  parsing and file I/O. They are layout and I/O, with no control of their own.

## Plan

1. `DagJoin` and `DagDecode` (done).
2. `DagCapture`, and its composition with `DagJoin` (done).
3. `RcpHost`: sender and receiver of one flow over lossy FIFO links, with the
   REF accounting, the receiver's count and the flow's termination (done).
   Next: two flows sharing the router, and agent reuse after `reset()`.
4. `PacketGen`: the send loop's termination as a liveness property (done).
   `DagAnalyse`: the walker (done).
5. An abstract specification of the join, `JoinSpec`, with `DagJoin` shown
   to refine it on realistic captures (done).
