----------------------------- MODULE PacketGen -----------------------------
(***************************************************************************)
(* The send loop of packet_gen.c (main, lines 616-831): bursts of packets, *)
(* the statistics block that runs whenever pppcount is a non-zero multiple *)
(* of 10^6 and resets it, the time limit tested inside that block, and    *)
(* the -n stop test after each burst.  The distribute/aggregate client    *)
(* waits for a control message before each burst; the server broadcasts   *)
(* forever.  term() (319-325) ends the process on SIGTERM/SIGINT.         *)
(*                                                                         *)
(* The options are chosen once, in Init, from small sets.  10^6 is the    *)
(* constant StatsEvery.  The runtime is counted in loop iterations and    *)
(* kept only up to Timeout + 1, which is all that the test of line 713   *)
(* can tell apart; sent (total_count) is kept up to SentCap.             *)
(***************************************************************************)
EXTENDS Integers

CONSTANTS
  NumSet,       \* values of options.num (-n), -1 = no limit
  BurstSet,     \* values of options.burst (-b)
  TimeoutSet,   \* values of options.timeout (-t) in iterations, 0 = none
  ModeSet,      \* subset of {"plain", "client", "server"} (-C, -D)
  StatsEvery,   \* the 1 * 1000 * 1000 of line 683
  SentCap       \* bound kept on total_count

ASSUME /\ NumSet \subseteq Int /\ BurstSet \subseteq Nat \ {0}
       /\ TimeoutSet \subseteq Nat /\ StatsEvery \in Nat \ {0}
       /\ ModeSet \subseteq {"plain", "client", "server"}
       /\ SentCap \in Nat

VARIABLES
  num, burst, timeout, mode,   \* the options
  pc,          \* "top", "stats", "send", "serving", "check" or "done"
  pppcount,    \* packets since the last statistics block
  sent,        \* total_count, up to SentCap
  runtime,     \* iterations since start, up to timeout + 1
  reason       \* why the process ended

vars == <<num, burst, timeout, mode, pc, pppcount, sent, runtime, reason>>

(* Lines 700-702: runtime since start, as far as line 713 compares it. *)
Elapsed(r) == IF r > timeout THEN r ELSE r + 1

(* Line 822: options.num != -1 && pppcount >= options.num.  The int64_t *)
(* num is converted to uint64_t: a negative num other than -1 becomes at *)
(* least 2^63, which no count reaches.                                    *)
CountReached(k) == num # -1 /\ num >= 0 /\ k >= num

Init ==
  /\ num \in NumSet /\ burst \in BurstSet /\ timeout \in TimeoutSet
  /\ mode \in ModeSet
  /\ pc = "top"
  /\ pppcount = 0 /\ sent = 0 /\ runtime = 0
  /\ reason = "none"

(* Lines 639-681: a client spins until a control message arrives; then   *)
(* the burst delay passes.                                                *)
Top ==
  /\ pc = "top"
  /\ pc' = "stats"
  /\ runtime' = Elapsed(runtime)
  /\ UNCHANGED <<num, burst, timeout, mode, pppcount, sent, reason>>

(* Mutant of Stats: the time limit test of line 713 left out. *)
StatsNoTimeout ==
  /\ pc = "stats"
  /\ IF pppcount # 0 /\ pppcount % StatsEvery = 0
     THEN pppcount' = 0 /\ pc' = "send" /\ UNCHANGED reason
     ELSE pc' = "send" /\ UNCHANGED <<pppcount, reason>>
  /\ UNCHANGED <<num, burst, timeout, mode, sent, runtime>>

(* Lines 683-718: at a non-zero multiple of 10^6 the statistics are      *)
(* printed and reset, and the process exits once the runtime exceeds the *)
(* time limit.                                                            *)
Stats ==
  /\ pc = "stats"
  /\ IF pppcount # 0 /\ pppcount % StatsEvery = 0
     THEN /\ pppcount' = 0
          /\ IF timeout # 0 /\ runtime > timeout
             THEN pc' = "done" /\ reason' = "timeout"
             ELSE pc' = "send" /\ UNCHANGED reason
     ELSE pc' = "send" /\ UNCHANGED <<pppcount, reason>>
  /\ UNCHANGED <<num, burst, timeout, mode, sent, runtime>>

(* Mutant of SendBurst: the loop of line 785 runs burst + 1 times. *)
SendBurstLong ==
  /\ pc = "send" /\ mode # "server"
  /\ pppcount' = pppcount + burst + 1
  /\ sent' = IF sent + burst + 1 > SentCap THEN SentCap ELSE sent + burst + 1
  /\ pc' = "check"
  /\ UNCHANGED <<num, burst, timeout, mode, runtime, reason>>

(* Lines 782-819: one burst, pppcount and total_count counting each     *)
(* packet.                                                                *)
SendBurst ==
  /\ pc = "send" /\ mode # "server"
  /\ pppcount' = pppcount + burst
  /\ sent' = IF sent + burst > SentCap THEN SentCap ELSE sent + burst
  /\ pc' = "check"
  /\ UNCHANGED <<num, burst, timeout, mode, runtime, reason>>

(* Lines 720-781: the server broadcasts and collects replies in a loop   *)
(* with no exit; no data packet is sent.                                  *)
Serve ==
  /\ pc \in {"send", "serving"} /\ mode = "server"
  /\ pc' = "serving"
  /\ runtime' = Elapsed(runtime)
  /\ UNCHANGED <<num, burst, timeout, mode, pppcount, sent, reason>>

(* Lines 822-827: stop when the count is reached, else loop. *)
Check ==
  /\ pc = "check"
  /\ IF CountReached(pppcount)
     THEN pc' = "done" /\ reason' = "count"
     ELSE pc' = "top" /\ UNCHANGED reason
  /\ UNCHANGED <<num, burst, timeout, mode, pppcount, sent, runtime>>

(* term(), lines 319-325, run by SIGTERM or SIGINT (lines 506-507). *)
Signal ==
  /\ pc # "done"
  /\ pc' = "done" /\ reason' = "signal"
  /\ UNCHANGED <<num, burst, timeout, mode, pppcount, sent, runtime>>

Next == Top \/ Stats \/ SendBurst \/ Serve \/ Check \/ Signal

(* The loop runs on the CPU without blocking, except for the client's   *)
(* wait for a message that may never come; no signal need arrive.       *)
Fairness ==
  /\ WF_vars(Stats) /\ WF_vars(SendBurst) /\ WF_vars(Check)
  /\ WF_vars(Top /\ mode # "client")

Spec == Init /\ [][Next]_vars /\ Fairness

-----------------------------------------------------------------------------
(* Properties *)

(* -n: with a limit of num packets the generator stops on the first      *)
(* burst that reaches it, so it never sends a whole burst more than num, *)
(* whatever the statistics block and the time limit do.                   *)
NeverOversends ==
  num > 0 => sent < num + burst

(* A plain generator given -n or -t eventually exits: the count test of  *)
(* line 822 or the time limit of line 713 ends the loop.                  *)
StopsWhenAsked ==
  (mode = "plain" /\ (num # -1 \/ timeout # 0)) => <>(pc = "done")

=============================================================================
