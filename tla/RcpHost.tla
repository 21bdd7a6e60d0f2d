------------------------------ MODULE RcpHost ------------------------------
(***************************************************************************)
(* One RCP flow in ns-2 (src/RCP-NS2/patch/rcp): a sending RCPAgent, the  *)
(* receiving RCPAgent, and the RCP router queue of the bottleneck link    *)
(* (rcp.cc) that stamps its advertised rate into SYN, REF and DATA       *)
(* packets.  The agents are driven by the three timers of rcp-host.h     *)
(* (rcp_timer_, ref_timer_, rto_timer_) and by packet arrivals.           *)
(*                                                                         *)
(* Time is abstracted: a timer is pending or not, and a pending timer may *)
(* expire at any point relative to packet arrivals.  A comparison of      *)
(* times the model does not track (the packet interval against the       *)
(* minimum rtt, the next send time against now) is a free choice.  Each   *)
(* link is FIFO (an ns-2 link), and a packet may be dropped at a full     *)
(* DropTail queue: at most FwdLoss / RevLoss times per run.               *)
(*                                                                         *)
(* numpkts_ is a double ("need not be an integer", line 92): the model    *)
(* holds NumPkts2 = 2 * numpkts_.  A rate is a positive integer, equal    *)
(* rates give equal intervals ((size_ + 40) / rate), and interval_ holds  *)
(* the rate it was computed from.                                         *)
(***************************************************************************)
EXTENDS Integers, Sequences, SequencesExt

CONSTANTS
  NumPkts2,        \* 2 * numpkts_, the file size in packets
  Rates,           \* values the router's flow_rate_ takes
  FwdLoss,         \* drops allowed on the data path
  RevLoss,         \* drops allowed on the ack path
  QLimit,          \* packets of the flow a link holds at once
  MaxOutRefs,      \* bound on numOutRefs_ for the ref timer to fire
  MaxRetransmits,  \* bound on num_enter_retransmit_mode_
  RtoAfterDrain,   \* TRUE: rto (2 * rtt_) expires after the data drains
  Fid,             \* the flow's fid_
  NoRate           \* interval_ before any rate was received

ASSUME /\ NumPkts2 \in Nat \ {0} /\ Rates \subseteq Nat /\ Rates # {}
       /\ {FwdLoss, RevLoss, MaxOutRefs, MaxRetransmits} \subseteq Nat
       /\ QLimit \in Nat \ {0} /\ RtoAfterDrain \in BOOLEAN

States == {"INACT", "SYNSENT", "CONGEST", "RUNNING", "RUNNING_WREF",
           "FINSENT", "RETRANSMIT"}
Running == {"RUNNING", "RUNNING_WREF"}

FwdPkt == [type : {"SYN", "REF", "DATA", "FIN"}, seqno : Nat, rate : {-1, 0}]
RevPkt == [type : {"SYNACK", "REFACK", "ACK", "FINACK"}, seqno : Nat,
           rate : Rates \cup {0}, n : Nat]

(* Comparisons with the double numpkts_. *)
BeforeLast(k)  == 2 * k < NumPkts2 - 2        \* k < numpkts_ - 1
AllReceived(k) == 2 * k = NumPkts2            \* k == numpkts_

(* num_Pkts_to_retransmit_ = numpkts_ - acked: a double assigned to an   *)
(* int, truncated towards zero.                                           *)
ToRetransmit(acked) ==
  LET d == NumPkts2 - 2 * acked
  IN  IF d >= 0 THEN d \div 2 ELSE -((-d) \div 2)

(* Line 242: more retransmissions follow this one. *)
MoreToResend(k, total) == k < total - 1

VARIABLES
  RCP_state,                        \* the sender's state
  num_sent_, seqno_, numOutRefs_, interval_,
  num_dataPkts_acked_by_receiver_,
  num_Pkts_to_retransmit_, num_pkts_resent_, num_enter_retransmit_mode_,
  fid_,
  rcp_timer_, ref_timer_, rto_timer_,   \* pending or not
  rcv_state,                        \* the receiver's RCP_state
  num_dataPkts_received_,           \* the receiver's count
  flow_rate_,                       \* the router's advertised rate
  fwd, rev,                         \* the two links, FIFO
  fwd_lost, rev_lost,               \* drops so far
  syn_sent,                         \* the script has called sendfile
  exited                            \* exit(1) ended the simulation

sndVars == <<RCP_state, num_sent_, seqno_, numOutRefs_, interval_,
             num_dataPkts_acked_by_receiver_, num_Pkts_to_retransmit_,
             num_pkts_resent_, num_enter_retransmit_mode_, fid_,
             rcp_timer_, ref_timer_, rto_timer_>>
rcvVars == <<rcv_state, num_dataPkts_received_>>
vars == <<sndVars, rcvVars, flow_rate_, fwd, rev, fwd_lost, rev_lost,
          syn_sent, exited>>

(* What start(), timeout() and rate_change() may change. *)
runVars == <<RCP_state, ref_timer_, rcp_timer_, rto_timer_, seqno_,
             num_sent_, numOutRefs_, fwd, fwd_lost>>

TypeOK ==
  /\ RCP_state \in States /\ rcv_state \in {"INACT", "RUNNING"}
  /\ {num_sent_, seqno_, num_dataPkts_acked_by_receiver_,
      num_pkts_resent_, num_enter_retransmit_mode_,
      num_dataPkts_received_} \subseteq Nat
  /\ numOutRefs_ \in Nat            \* below 0 the agent exits (line 397)
  /\ num_Pkts_to_retransmit_ \in Int
  /\ interval_ \in Rates \cup {NoRate}
  /\ fid_ \in {Fid, 0}
  /\ {rcp_timer_, ref_timer_, rto_timer_, syn_sent, exited} \subseteq BOOLEAN
  /\ flow_rate_ \in Rates
  /\ fwd \in Seq(FwdPkt) /\ rev \in Seq(RevPkt)

(* The constructor (lines 81-96), the receiver likewise; the router's    *)
(* set-link-capacity has set flow_rate_.                                  *)
Init ==
  /\ RCP_state = "INACT" /\ num_sent_ = 0 /\ seqno_ = 0 /\ numOutRefs_ = 0
  /\ interval_ \in Rates \cup {NoRate}   \* never initialised
  /\ num_dataPkts_acked_by_receiver_ = 0 /\ num_Pkts_to_retransmit_ = 0
  /\ num_pkts_resent_ = 0 /\ num_enter_retransmit_mode_ = 0
  /\ fid_ = Fid
  /\ rcp_timer_ = FALSE /\ ref_timer_ = FALSE /\ rto_timer_ = FALSE
  /\ rcv_state = "INACT" /\ num_dataPkts_received_ = 0
  /\ flow_rate_ \in Rates
  /\ fwd = <<>> /\ rev = <<>> /\ fwd_lost = 0 /\ rev_lost = 0
  /\ syn_sent = FALSE /\ exited = FALSE

-----------------------------------------------------------------------------
(* The links *)

(* target_->recv(p) on the data path: the packet joins the bottleneck     *)
(* queue (RCPQueue::enque, rcp.cc 195-236, whose load statistics the      *)
(* model leaves out), or a DropTail queue full of other flows' packets    *)
(* drops it.                                                               *)
SendFwd(pk) ==
  \/ fwd' = Append(fwd, pk) /\ UNCHANGED fwd_lost
  \/ fwd_lost < FwdLoss /\ fwd_lost' = fwd_lost + 1 /\ UNCHANGED fwd

(* target_->recv(p) on the ack path. *)
SendRev(pk) ==
  \/ rev' = Append(rev, pk) /\ UNCHANGED rev_lost
  \/ rev_lost < RevLoss /\ rev_lost' = rev_lost + 1 /\ UNCHANGED rev

(* A timer paces the sender to its rate: it fires again only after the   *)
(* round trip has carried its earlier packets, so at most QLimit packets *)
(* are on the two links when one of the sender's timers sends.            *)
TimerMayFire == Len(fwd) + Len(rev) < QLimit

(* fill_in_feedback (rcp.cc 424-440), applied as the packet leaves the   *)
(* queue to SYN, REF and DATA packets (do_before_packet_departure,        *)
(* 239-258): a request below zero or above flow_rate_ is replaced by it. *)
FillInFeedback(pk) ==
  IF pk.type \in {"SYN", "REF", "DATA"} /\ (pk.rate < 0 \/ pk.rate > flow_rate_)
  THEN [pk EXCEPT !.rate = flow_rate_]
  ELSE pk

-----------------------------------------------------------------------------
(* Sending, shared by the timers and the packet handlers *)

(* The state and ref timer that timeout()'s running branch (lines 220-238) *)
(* leaves, entered in state st with the ref timer at ref: unchanged after *)
(* sendpkt(), FINSENT with the ref timer cancelled after sendlast().      *)
AfterSend(st, ref) ==
  IF BeforeLast(num_sent_) THEN [st |-> st, ref |-> ref]
  ELSE [st |-> "FINSENT", ref |-> FALSE]

(* The rest of that branch: sendpkt() (681-715) and rcp_timer_ again, or *)
(* sendlast() (717-733), rcp_timer_ cancelled and rto_timer_ set.         *)
SendNext ==
  LET last == ~BeforeLast(num_sent_) IN
  /\ SendFwd([type |-> IF last THEN "FIN" ELSE "DATA", seqno |-> seqno_,
              rate |-> IF last THEN 0 ELSE -1])
  /\ seqno_' = seqno_ + 1 /\ num_sent_' = num_sent_ + 1
  /\ rcp_timer_' = ~last
  /\ rto_timer_' = (last \/ rto_timer_)

(* start(), lines 117-147: RUNNING_WREF with the ref timer when the        *)
(* interval exceeds the minimum rtt (slow), RUNNING without it otherwise,  *)
(* then timeout().  refs is numOutRefs_ on entry.                         *)
Start(slow, refs) ==
  LET o == AfterSend(IF slow THEN "RUNNING_WREF" ELSE "RUNNING", slow) IN
  /\ RCP_state' = o.st /\ ref_timer_' = o.ref
  /\ SendNext
  /\ numOutRefs_' = refs

(* The REF of ref_timeout() (lines 274-300): it carries seqno_ and is     *)
(* counted in numOutRefs_.                                                *)
SendRef(refs) ==
  /\ refs < MaxOutRefs
  /\ SendFwd([type |-> "REF", seqno |-> seqno_, rate |-> -1])
  /\ numOutRefs_' = refs + 1

(* Mutant of RefNow: the REF sent without being counted. *)
RefNowUncounted(refs) ==
  /\ refs < MaxOutRefs
  /\ SendFwd([type |-> "REF", seqno |-> seqno_, rate |-> -1])
  /\ numOutRefs_' = refs

(* Line 640: entering REF mode late, rate_change() calls ref_timeout()    *)
(* to send a REF at once.                                                 *)
RefNow(refs) == SendRef(refs)

(* Entering or leaving REF mode (lines 631-650 and 662-676). *)
RefMode(st, ref, slow) ==
  IF slow /\ st # "RUNNING_WREF" THEN [st |-> "RUNNING_WREF", ref |-> TRUE]
  ELSE IF ~slow /\ st = "RUNNING_WREF" THEN [st |-> "RUNNING", ref |-> FALSE]
  ELSE [st |-> st, ref |-> ref]

(* rate_change(), lines 616-679, in a running state.  If the next send    *)
(* time is still ahead (late), rcp_timer_ is rescheduled and the REF mode *)
(* follows the interval; entering it may send a REF at once.  Otherwise   *)
(* timeout() sends now, and the REF mode is then set from the state that  *)
(* timeout() left, which may be FINSENT.                                  *)
RateChange(refs) ==
  IF RCP_state \notin Running
  THEN /\ numOutRefs_' = refs
       /\ UNCHANGED <<RCP_state, ref_timer_, rcp_timer_, rto_timer_, seqno_,
                      num_sent_, fwd, fwd_lost>>
  ELSE \E slow, late \in BOOLEAN :
    IF late
    THEN LET m == RefMode(RCP_state, ref_timer_, slow) IN
         /\ RCP_state' = m.st /\ ref_timer_' = m.ref /\ rcp_timer_' = TRUE
         /\ \/ slow /\ RCP_state # "RUNNING_WREF" /\ RefNow(refs)
            \/ numOutRefs_' = refs /\ UNCHANGED <<fwd, fwd_lost>>
         /\ UNCHANGED <<rto_timer_, seqno_, num_sent_>>
    ELSE LET o == AfterSend(RCP_state, ref_timer_)
             m == RefMode(o.st, o.ref, slow) IN
         /\ RCP_state' = m.st /\ ref_timer_' = m.ref
         /\ SendNext
         /\ numOutRefs_' = refs
-----------------------------------------------------------------------------
(* The sender's operations *)

(* stop() (149-155) and finish() (311-327): every timer cancelled, INACT, *)
(* and fid_ = 0.                                                          *)
Stop ==
  /\ rcp_timer_' = FALSE /\ ref_timer_' = FALSE /\ rto_timer_' = FALSE
  /\ fid_' = 0

(* sendfile(), lines 179-212, called once by the script: a SYN, SYNSENT, *)
(* and the ref timer set to resend it after SYN_DELAY.                    *)
SendFile ==
  /\ ~exited
  /\ ~syn_sent /\ RCP_state = "INACT"
  /\ SendFwd([type |-> "SYN", seqno |-> 0, rate |-> -1])
  /\ RCP_state' = "SYNSENT" /\ ref_timer_' = TRUE /\ syn_sent' = TRUE
  /\ UNCHANGED <<num_sent_, seqno_, numOutRefs_, interval_,
                 num_dataPkts_acked_by_receiver_, num_Pkts_to_retransmit_,
                 num_pkts_resent_, num_enter_retransmit_mode_, fid_,
                 rcp_timer_, rto_timer_, rcvVars, flow_rate_, rev, rev_lost,
                 exited>>

(* ref_timeout(), lines 271-305: while connecting, running or congested, *)
(* resend the SYN or send a counted REF, and rearm.                       *)
RefTimeout ==
  /\ ~exited
  /\ ref_timer_ /\ TimerMayFire
  /\ IF RCP_state \in {"SYNSENT", "RUNNING", "CONGEST", "RUNNING_WREF"}
     THEN /\ IF RCP_state = "SYNSENT"
             THEN /\ SendFwd([type |-> "SYN", seqno |-> seqno_, rate |-> -1])
                  /\ UNCHANGED numOutRefs_
             ELSE SendRef(numOutRefs_)
          /\ ref_timer_' = TRUE
     ELSE /\ ref_timer_' = FALSE
          /\ UNCHANGED <<numOutRefs_, fwd, fwd_lost>>
  /\ UNCHANGED <<RCP_state, num_sent_, seqno_, interval_,
                 num_dataPkts_acked_by_receiver_, num_Pkts_to_retransmit_,
                 num_pkts_resent_, num_enter_retransmit_mode_, fid_,
                 rcp_timer_, rto_timer_, rcvVars, flow_rate_, rev, rev_lost,
                 syn_sent, exited>>

(* sendpkt() in RETRANSMIT (681-715): a DATA packet, num_pkts_resent_++. *)
Resend ==
  /\ SendFwd([type |-> "DATA", seqno |-> seqno_, rate |-> -1])
  /\ seqno_' = seqno_ + 1 /\ num_pkts_resent_' = num_pkts_resent_ + 1

(* timeout(), lines 218-252, when rcp_timer_ expires: send the next     *)
(* packet while running; resend while retransmitting, arming rto_timer_ *)
(* after the last; in any other state nothing.                          *)
RcpTimeout ==
  /\ ~exited
  /\ rcp_timer_ /\ TimerMayFire
  /\ IF RCP_state \in Running
     THEN LET o == AfterSend(RCP_state, ref_timer_) IN
          /\ RCP_state' = o.st /\ ref_timer_' = o.ref
          /\ SendNext
          /\ UNCHANGED num_pkts_resent_
     ELSE IF RCP_state = "RETRANSMIT"
             /\ num_pkts_resent_ <= num_Pkts_to_retransmit_ - 1
     THEN /\ Resend
          /\ IF MoreToResend(num_pkts_resent_, num_Pkts_to_retransmit_)
             THEN /\ rcp_timer_' = TRUE
                  /\ UNCHANGED <<ref_timer_, rto_timer_>>
             ELSE /\ rcp_timer_' = FALSE /\ ref_timer_' = FALSE
                  /\ rto_timer_' = TRUE
          /\ UNCHANGED <<RCP_state, num_sent_>>
     ELSE /\ rcp_timer_' = FALSE
          /\ UNCHANGED <<RCP_state, ref_timer_, rto_timer_, seqno_, num_sent_,
                         num_pkts_resent_, fwd, fwd_lost>>
  /\ UNCHANGED <<numOutRefs_, interval_, num_dataPkts_acked_by_receiver_,
                 num_Pkts_to_retransmit_, num_enter_retransmit_mode_, fid_,
                 rcvVars, flow_rate_, rev, rev_lost, syn_sent, exited>>

(* rto_timer_ is armed for 2 * rtt_ after the last packet (lines 237,    *)
(* 249): by then the DATA and FIN packets sent and their acks have been  *)
(* delivered or lost, while REFs and REFACKs may still be on the links.  *)
DataDrained ==
  /\ \A i \in DOMAIN fwd : fwd[i].type \notin {"DATA", "FIN"}
  /\ \A i \in DOMAIN rev : rev[i].type \notin {"ACK", "FINACK"}

(* Mutant of RtoTimeout: rcp_timer_ is not rescheduled. *)
RtoTimeoutNoResched ==
  /\ ~exited
  /\ rto_timer_ /\ (RtoAfterDrain => DataDrained)
  /\ num_enter_retransmit_mode_ < MaxRetransmits
  /\ rto_timer_' = FALSE /\ RCP_state' = "RETRANSMIT"
  /\ num_enter_retransmit_mode_' = num_enter_retransmit_mode_ + 1
  /\ num_pkts_resent_' = 0
  /\ num_Pkts_to_retransmit_' = ToRetransmit(num_dataPkts_acked_by_receiver_)
  /\ UNCHANGED <<rcp_timer_, num_sent_, seqno_, numOutRefs_, interval_,
                 num_dataPkts_acked_by_receiver_, fid_, ref_timer_, rcvVars,
                 flow_rate_, fwd, rev, fwd_lost, rev_lost, syn_sent, exited>>

(* retrans_timeout(), lines 254-265: RETRANSMIT, and resend the packets  *)
(* the receiver's last count does not cover.                              *)
RtoTimeout ==
  /\ ~exited
  /\ rto_timer_ /\ (RtoAfterDrain => DataDrained)
  /\ num_enter_retransmit_mode_ < MaxRetransmits
  /\ rto_timer_' = FALSE /\ RCP_state' = "RETRANSMIT"
  /\ num_enter_retransmit_mode_' = num_enter_retransmit_mode_ + 1
  /\ num_pkts_resent_' = 0
  /\ num_Pkts_to_retransmit_' = ToRetransmit(num_dataPkts_acked_by_receiver_)
  /\ rcp_timer_' = (ToRetransmit(num_dataPkts_acked_by_receiver_) > 0
                    \/ rcp_timer_)
  /\ UNCHANGED <<num_sent_, seqno_, numOutRefs_, interval_,
                 num_dataPkts_acked_by_receiver_, fid_, ref_timer_, rcvVars,
                 flow_rate_, fwd, rev, fwd_lost, rev_lost, syn_sent, exited>>
-----------------------------------------------------------------------------
(* The sender's packet handlers, recv() lines 333-566 *)

(* Line 337: a packet other than a SYN is handled while the agent is     *)
(* active and the flow id matches.                                        *)
SndAccepts == RCP_state # "INACT" /\ fid_ = Fid

(* Lines 404-413 and 436-444: a positive rate that changes interval_     *)
(* restarts a congested sender, and otherwise calls rate_change().        *)
NewRate(r, refs) ==
  /\ interval_' = r
  /\ IF RCP_state = "CONGEST" THEN \E slow \in BOOLEAN : Start(slow, refs)
                              ELSE RateChange(refs)

(* The rest of the sender's variables, for the handlers below. *)
restSnd == <<num_Pkts_to_retransmit_, num_pkts_resent_,
             num_enter_retransmit_mode_>>

(* Case RCP_SYNACK, lines 341-376: a positive rate sets interval_ and     *)
(* starts a connecting sender; otherwise the sender quits with pause()    *)
(* (QUIT_PROB) or waits in CONGEST.                                       *)
RecvSynAck ==
  /\ ~exited
  /\ rev # <<>> /\ Head(rev).type = "SYNACK" /\ SndAccepts
  /\ rev' = Tail(rev)
  /\ LET r == Head(rev).rate IN
     IF r > 0
     THEN /\ interval_' = r
          /\ IF RCP_state = "SYNSENT"
             THEN \E slow \in BOOLEAN : Start(slow, numOutRefs_)
             ELSE UNCHANGED runVars
     ELSE /\ \/ /\ RCP_state' = "INACT"              \* pause()
                /\ rcp_timer_' = FALSE /\ ref_timer_' = FALSE
                /\ rto_timer_' = FALSE
             \/ /\ RCP_state' = "CONGEST"
                /\ UNCHANGED <<rcp_timer_, ref_timer_, rto_timer_>>
          /\ UNCHANGED <<interval_, seqno_, num_sent_, numOutRefs_, fwd,
                         fwd_lost>>
  /\ UNCHANGED <<num_dataPkts_acked_by_receiver_, restSnd, fid_, rcvVars,
                 flow_rate_, rev_lost, syn_sent, exited>>

(* Case RCP_REFACK, lines 378-422: a REFACK for a sent seqno uncounts    *)
(* its REF, and exit(1) ends the run below zero; a new positive rate is  *)
(* applied, a rate of zero stops sending and waits in CONGEST.           *)
RecvRefAck ==
  /\ ~exited
  /\ rev # <<>> /\ Head(rev).type = "REFACK" /\ SndAccepts
  /\ rev' = Tail(rev)
  /\ LET pk == Head(rev)
         refs == numOutRefs_ - 1 IN
     IF pk.seqno > seqno_
     THEN UNCHANGED <<runVars, interval_, exited>>
     ELSE IF refs < 0
     THEN /\ numOutRefs_' = refs /\ exited' = TRUE
          /\ UNCHANGED <<RCP_state, ref_timer_, rcp_timer_, rto_timer_,
                         seqno_, num_sent_, fwd, fwd_lost, interval_>>
     ELSE /\ UNCHANGED exited
          /\ IF pk.rate > 0
             THEN IF pk.rate # interval_
                  THEN NewRate(pk.rate, refs)
                  ELSE /\ numOutRefs_' = refs
                       /\ UNCHANGED <<RCP_state, ref_timer_, rcp_timer_,
                                      rto_timer_, seqno_, num_sent_, fwd,
                                      fwd_lost, interval_>>
             ELSE /\ numOutRefs_' = refs
                  /\ rcp_timer_' = FALSE /\ RCP_state' = "CONGEST"
                  /\ UNCHANGED <<ref_timer_, rto_timer_, seqno_, num_sent_,
                                 fwd, fwd_lost, interval_>>
  /\ UNCHANGED <<num_dataPkts_acked_by_receiver_, restSnd, fid_, rcvVars,
                 flow_rate_, rev_lost, syn_sent>>

(* Case RCP_ACK, lines 424-450: take the receiver's count; stop() when it *)
(* equals numpkts_; then apply the rate as for a REFACK (rate_change() of *)
(* a stopped sender does nothing, a rate of zero still sets CONGEST).    *)
RecvAck ==
  /\ ~exited
  /\ rev # <<>> /\ Head(rev).type = "ACK" /\ SndAccepts
  /\ rev' = Tail(rev)
  /\ LET pk == Head(rev) IN
     /\ num_dataPkts_acked_by_receiver_' = pk.n
     /\ IF AllReceived(pk.n)
        THEN /\ Stop
             /\ RCP_state' = IF pk.rate > 0 THEN "INACT" ELSE "CONGEST"
             /\ interval_' = IF pk.rate > 0 THEN pk.rate ELSE interval_
             /\ UNCHANGED <<seqno_, num_sent_, numOutRefs_, fwd, fwd_lost>>
        ELSE /\ UNCHANGED fid_
             /\ IF pk.rate > 0
                THEN IF pk.rate # interval_
                     THEN NewRate(pk.rate, numOutRefs_)
                     ELSE UNCHANGED <<runVars, interval_>>
                ELSE /\ RCP_state' = "CONGEST"
                     /\ UNCHANGED <<ref_timer_, rcp_timer_, rto_timer_,
                                    seqno_, num_sent_, numOutRefs_, fwd,
                                    fwd_lost, interval_>>
  /\ UNCHANGED <<restSnd, rcvVars, flow_rate_, rev_lost, syn_sent, exited>>

(* Case RCP_FINACK, lines 499-506: take the receiver's count and stop()  *)
(* when it equals numpkts_.                                               *)
RecvFinAck ==
  /\ ~exited
  /\ rev # <<>> /\ Head(rev).type = "FINACK" /\ SndAccepts
  /\ rev' = Tail(rev)
  /\ num_dataPkts_acked_by_receiver_' = Head(rev).n
  /\ IF AllReceived(Head(rev).n)
     THEN Stop /\ RCP_state' = "INACT"
     ELSE UNCHANGED <<rcp_timer_, ref_timer_, rto_timer_, fid_, RCP_state>>
  /\ UNCHANGED <<num_sent_, seqno_, numOutRefs_, interval_, restSnd,
                 rcvVars, flow_rate_, fwd, fwd_lost, rev_lost, syn_sent,
                 exited>>

(* Lines 337 and 565: a packet for an inactive sender (or another flow)  *)
(* is freed.                                                              *)
SndDiscard ==
  /\ ~exited
  /\ rev # <<>> /\ ~SndAccepts
  /\ rev' = Tail(rev)
  /\ UNCHANGED <<sndVars, rcvVars, flow_rate_, fwd, fwd_lost, rev_lost,
                 syn_sent, exited>>

-----------------------------------------------------------------------------
(* The receiver's packet handlers.  Each packet leaves the router with   *)
(* its rate stamped (FillInFeedback).  Line 337: a SYN is always handled, *)
(* any other packet once a SYN has made the receiver active; a packet     *)
(* other than a SYN leaves the sender only after a SYNACK, so the         *)
(* receiver never frees one.                                              *)

RcvHead == FillInFeedback(Head(fwd))

(* Mutant of Reply: set_RCP_numPkts_rcvd left out, so the reply carries  *)
(* no count.                                                                *)
ReplyNoCount(type, pk, n) == [type |-> type, seqno |-> pk.seqno,
                              rate |-> pk.rate]

(* The reply each case builds (lines 455-470, 479-494, 512-527, 535-550): *)
(* the request's seqno and rate, and the receiver's count.                *)
Reply(type, pk, n) == [type |-> type, seqno |-> pk.seqno, rate |-> pk.rate,
                       n |-> n]

(* Case RCP_SYN, lines 476-497: answer with a SYNACK and become active. *)
RecvSyn ==
  /\ ~exited
  /\ fwd # <<>> /\ Head(fwd).type = "SYN"
  /\ fwd' = Tail(fwd)
  /\ SendRev(Reply("SYNACK", RcvHead, num_dataPkts_received_))
  /\ rcv_state' = "RUNNING"
  /\ UNCHANGED <<sndVars, num_dataPkts_received_, flow_rate_, fwd_lost,
                 syn_sent, exited>>

(* Case RCP_REF, lines 508-528: answer with a REFACK. *)
RecvRef ==
  /\ ~exited
  /\ fwd # <<>> /\ Head(fwd).type = "REF" /\ rcv_state # "INACT"
  /\ fwd' = Tail(fwd)
  /\ SendRev(Reply("REFACK", RcvHead, num_dataPkts_received_))
  /\ UNCHANGED <<sndVars, rcvVars, flow_rate_, fwd_lost, syn_sent, exited>>

(* Case RCP_DATA, lines 530-551: count it and answer with an ACK. *)
RecvData ==
  /\ ~exited
  /\ fwd # <<>> /\ Head(fwd).type = "DATA" /\ rcv_state # "INACT"
  /\ fwd' = Tail(fwd)
  /\ num_dataPkts_received_' = num_dataPkts_received_ + 1
  /\ SendRev(Reply("ACK", RcvHead, num_dataPkts_received_ + 1))
  /\ UNCHANGED <<sndVars, rcv_state, flow_rate_, fwd_lost, syn_sent, exited>>

(* Case RCP_FIN, lines 452-473: the FIN rides on the last packet; count *)
(* it and answer with a FINACK.                                          *)
RecvFin ==
  /\ ~exited
  /\ fwd # <<>> /\ Head(fwd).type = "FIN" /\ rcv_state # "INACT"
  /\ fwd' = Tail(fwd)
  /\ num_dataPkts_received_' = num_dataPkts_received_ + 1
  /\ SendRev(Reply("FINACK", RcvHead, num_dataPkts_received_ + 1))
  /\ UNCHANGED <<sndVars, rcv_state, flow_rate_, fwd_lost, syn_sent, exited>>

-----------------------------------------------------------------------------
(* The router *)

(* queue_timeout(), rcp.cc 261-420: every Tq_ the control law computes a *)
(* new rate and clips it to [min_pprtt_ * 1000 / avg_rtt_, capacity];     *)
(* the model takes any of the rates the run allows.                       *)
QueueTimeout ==
  /\ ~exited
  /\ \E r \in Rates \ {flow_rate_} : flow_rate_' = r
  /\ UNCHANGED <<sndVars, rcvVars, fwd, rev, fwd_lost, rev_lost, syn_sent,
                 exited>>

(* Every step needs a running simulation: exit(1) ends it. *)
Next ==
  \/ SendFile \/ RefTimeout \/ RcpTimeout \/ RtoTimeout
  \/ RecvSynAck \/ RecvRefAck \/ RecvAck \/ RecvFinAck \/ SndDiscard
  \/ RecvSyn \/ RecvRef \/ RecvData \/ RecvFin
  \/ QueueTimeout

(* ns-2's scheduler runs every pending timer event, and a link delivers  *)
(* every packet it holds; the script calls sendfile.  A step that sends  *)
(* waits here while its link holds QLimit packets, which the real queue  *)
(* (far longer) never makes it do; the links drain infinitely often, so  *)
(* these steps are strongly fair.  rto_timer_, waiting for both links to *)
(* be empty, is strongly fair for the same reason.                        *)
Fairness ==
  /\ WF_vars(SendFile) /\ SF_vars(RefTimeout) /\ SF_vars(RcpTimeout)
  /\ SF_vars(RtoTimeout)
  /\ SF_vars(RecvSynAck) /\ SF_vars(RecvRefAck) /\ SF_vars(RecvAck)
  /\ WF_vars(RecvFinAck) /\ WF_vars(SndDiscard)
  /\ SF_vars(RecvSyn) /\ SF_vars(RecvRef) /\ SF_vars(RecvData)
  /\ SF_vars(RecvFin)

Spec == Init /\ [][Next]_vars /\ Fairness

-----------------------------------------------------------------------------
(* Properties *)

InFlight(ch, type) == Len(SelectSeq(ch, LAMBDA pk : pk.type = type))

(* The REF accounting of lines 293 and 382: numOutRefs_ is never below   *)
(* the REFs and REFACKs still in flight, so the exit(1) of line 397 for  *)
(* an extra REFACK cannot happen within a flow, whatever the timers, the *)
(* rate changes and the drops.                                            *)
RefsAccounted ==
  numOutRefs_ >= InFlight(fwd, "REF") + InFlight(rev, "REFACK")

(* The receiver counts each packet of the file once (lines 454 and 533): *)
(* its count never exceeds numpkts_, whatever the retransmissions (lines *)
(* 254-265) and rate changes resend.                                      *)
ReceiverNeverOvercounts == 2 * num_dataPkts_received_ <= NumPkts2

(* Once the script calls sendfile, the flow finishes: stop() runs and    *)
(* finish() reports done (line 322), through drops and retransmissions.  *)
FlowFinishes == <>(fid_ = 0)
=====
