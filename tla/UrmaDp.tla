------------------------------- MODULE UrmaDp -------------------------------
(***************************************************************************)
(* The data path program urma_dp.c of two guests.  In the probe loop each  *)
(* guest sends a numbered packet and looks for one of the peer; the first  *)
(* packet it finds ends the loop.  A benchmark may follow: BenchPkts       *)
(* packets, then "done" with the number sent, until the peer's "done" is   *)
(* found or the wait is over.  Sends do not block: one that fails is not   *)
(* repeated, except for "done".                                            *)
(*                                                                         *)
(* A raw socket beside the UDP socket gets a second copy of every packet.  *)
(* Both are kept as positions in the sequence of what arrived.             *)
(***************************************************************************)
EXTENDS Integers, Sequences, FiniteSets

CONSTANTS
  UrmaA, UrmaB,   \* the guests by role
  MaxSeq,         \* max_seq of the probe loop
  BenchPkts,      \* linqu_urma_dp_bench_pkts
  MaxDone,        \* how often "done" is sent before the wait is over
  MaxLoss,        \* packets that bench_max_loss_ppm lets be lost
  UrmaFaults      \* set-up and socket calls may fail

ASSUME UrmaAssumption ==
  /\ UrmaA # UrmaB
  /\ MaxSeq \in Nat \ {0} /\ BenchPkts \in Nat /\ MaxDone \in Nat \ {0}
  /\ MaxLoss \in Nat /\ UrmaFaults \in BOOLEAN

UrmaGuests == {UrmaA, UrmaB}
UrmaPeer(g) == IF g = UrmaA THEN UrmaB ELSE UrmaA

VARIABLES
  urma_pc,        \* guest -> where it is in main
  sent,           \* guest -> sends in the current loop (seq, i, dones)
  tx_ok,          \* guest -> benchmark packets that sendto has taken
  inbox,          \* guest -> the peer's packets, as they arrived
  udp_at, raw_at, \* guest -> packets read from the UDP and the raw socket
  bench,          \* bench_pkts, the same on both guests; 0 is the default
  rawfd,          \* guest -> the raw socket could be opened
  heard,          \* guest -> [rx: rx_ok, tx: peer_tx, done: peer_done]
  urma_disturbed  \* history: loss, failing call, wait given up, blind probe

urmaVars == <<urma_pc, sent, tx_ok, inbox, udp_at, raw_at, bench, rawfd, heard, urma_disturbed>>

-----------------------------------------------------------------------------

UrmaRunning(g) == urma_pc[g] \notin {"down", "passed", "failed"}

\* The packet reaches both sockets of a peer that has opened them.
Deliver(g, pkt) ==
  inbox' = [inbox EXCEPT ![UrmaPeer(g)] =
              IF UrmaRunning(UrmaPeer(g)) THEN Append(@, pkt) ELSE @]

\* sendto, with MSG_DONTWAIT: whether it takes the packet.
SendResults == IF UrmaFaults THEN BOOLEAN ELSE {TRUE}

Sendto(g, pkt, ok) ==
  /\ IF ok THEN Deliver(g, pkt) ELSE UNCHANGED inbox
  /\ urma_disturbed' = (urma_disturbed \/ ~ok)

Nothing == [rx |-> 0, tx |-> 0, done |-> FALSE]

UrmaInit ==
  /\ urma_pc = [g \in UrmaGuests |-> "down"]
  /\ sent = [g \in UrmaGuests |-> 0]
  /\ tx_ok = [g \in UrmaGuests |-> 0]
  /\ inbox = [g \in UrmaGuests |-> <<>>]
  /\ udp_at = [g \in UrmaGuests |-> 0]
  /\ raw_at = [g \in UrmaGuests |-> 0]
  /\ bench \in {0, BenchPkts}
  /\ rawfd \in [UrmaGuests -> BOOLEAN]
  /\ heard = [g \in UrmaGuests |-> Nothing]
  /\ urma_disturbed = FALSE

\* main up to the probe loop.
UrmaStart(g) ==
  /\ urma_pc[g] = "down"
  /\ urma_pc' = [urma_pc EXCEPT ![g] = "probe_tx"]
  /\ UNCHANGED <<sent, tx_ok, inbox, udp_at, raw_at, bench, rawfd, heard, urma_disturbed>>

\* A step of one guest: its new place, its new counter.
UrmaGo(g, to, count) ==
  /\ urma_pc' = [urma_pc EXCEPT ![g] = to]
  /\ sent' = [sent EXCEPT ![g] = count]

\* Leaving main closes both sockets.
UrmaExit(g, result) ==
  /\ UrmaGo(g, result, 0)
  /\ tx_ok' = [tx_ok EXCEPT ![g] = 0]
  /\ inbox' = [inbox EXCEPT ![g] = <<>>]
  /\ udp_at' = [udp_at EXCEPT ![g] = 0]
  /\ raw_at' = [raw_at EXCEPT ![g] = 0]
  /\ heard' = [heard EXCEPT ![g] = Nothing]
  /\ UNCHANGED <<bench, rawfd>>

\* wait_iface_ready, the addresses or the socket fail before the loop ...
UrmaStartFails(g) ==
  /\ urma_pc[g] = "down"
  /\ UrmaExit(g, "failed")
  /\ urma_disturbed' = TRUE

\* ... a receive call or the required rate after it.
UrmaFails(g) ==
  /\ UrmaFaults
  /\ UrmaRunning(g)
  /\ UrmaExit(g, "failed")
  /\ urma_disturbed' = TRUE

-----------------------------------------------------------------------------

\* try_recv_peer: the UDP socket first, the raw socket when that is empty.
FromUdp(g) == udp_at[g] < Len(inbox[g])
FromRaw(g) == rawfd[g] /\ raw_at[g] < Len(inbox[g])
Found(g)   == FromUdp(g) \/ FromRaw(g)

try_recv_peer(g) == inbox[g][IF FromUdp(g) THEN udp_at[g] + 1 ELSE raw_at[g] + 1]

Consume(g) ==
  /\ udp_at' = [udp_at EXCEPT ![g] = IF FromUdp(g) THEN @ + 1 ELSE @]
  /\ raw_at' = [raw_at EXCEPT ![g] = IF ~FromUdp(g) /\ FromRaw(g) THEN @ + 1 ELSE @]

\* bench_consume_rx: what the guest knows after a packet.
bench_consume_rx(h, pkt) ==
  CASE pkt.kind = "bench" -> [h EXCEPT !.rx = @ + 1]
    [] pkt.kind = "done"  -> [h EXCEPT !.done = TRUE, !.tx = pkt.value]
    [] OTHER              -> h

\* One pass of the probe loop sends ...
ProbeSend(g) ==
  /\ urma_pc[g] = "probe_tx"
  /\ sent[g] < MaxSeq
  /\ UrmaGo(g, "probe_rx", sent[g] + 1)
  /\ \E ok \in SendResults : Sendto(g, [kind |-> "probe", value |-> 0], ok)
  /\ UNCHANGED <<tx_ok, udp_at, raw_at, bench, rawfd, heard>>

\* The guest leaves the loop while the peer is still in it and has got nothing:
\* the peer may never hear of it.
Blind(g) == LET p == UrmaPeer(g) IN urma_pc[p] \in {"probe_tx", "probe_rx"} /\ ~Found(p)

\* ... and looks.
ProbeRecv(g) ==
  /\ urma_pc[g] = "probe_rx"
  /\ urma_disturbed' = (urma_disturbed \/ (Found(g) /\ Blind(g)))
  /\ IF Found(g) /\ bench = 0 THEN UrmaExit(g, "passed")
     ELSE /\ Consume(g)
          /\ IF Found(g) THEN UrmaGo(g, "bench_tx", 0) ELSE UrmaGo(g, "probe_tx", sent[g])
          /\ UNCHANGED <<tx_ok, inbox, bench, rawfd, heard>>

\* The loop ends without a packet: numbers used up, deadline, or alarm.
ProbeTimeout(g) ==
  /\ urma_pc[g] = "probe_tx"
  /\ UrmaExit(g, "failed")
  /\ urma_disturbed' = (urma_disturbed \/ urma_pc[UrmaPeer(g)] \in {"down", "probe_tx", "probe_rx"}
                                       \/ Found(g))

\* run_bench_phase: send a packet and look once for one.
BenchSend(g) ==
  /\ urma_pc[g] = "bench_tx"
  /\ sent[g] < bench
  /\ UrmaGo(g, "bench_tx", sent[g] + 1)
  /\ \E ok \in SendResults :
       /\ Sendto(g, [kind |-> "bench", value |-> 0], ok)
       /\ tx_ok' = [tx_ok EXCEPT ![g] = IF ok THEN @ + 1 ELSE @]
  /\ heard' = [heard EXCEPT ![g] = IF Found(g) THEN bench_consume_rx(@, try_recv_peer(g)) ELSE @]
  /\ Consume(g)
  /\ UNCHANGED <<bench, rawfd>>

\* All packets are out: "done" is sent, and again while nothing comes.
SendDone(g) ==
  /\ \/ urma_pc[g] = "bench_tx" /\ sent[g] = bench /\ UrmaGo(g, "drain", 1)
     \/ /\ urma_pc[g] = "drain" /\ ~Found(g)
        /\ sent[g] < MaxDone /\ UrmaGo(g, "drain", sent[g] + 1)
  /\ \E ok \in SendResults : Sendto(g, [kind |-> "done", value |-> tx_ok[g]], ok)
  /\ UNCHANGED <<tx_ok, udp_at, raw_at, bench, rawfd, heard>>

\* loss_pkts, with peer_tx as announced, or bench without an announcement.
LossPkts(h) ==
  LET peer_tx == IF h.done THEN h.tx ELSE bench
  IN  IF peer_tx > h.rx THEN peer_tx - h.rx ELSE 0

BenchVerdict(h) == IF LossPkts(h) > MaxLoss THEN "failed" ELSE "passed"

\* One look of the receiving loop; a packet after the peer's "done" ends it.
Drain(g) ==
  /\ urma_pc[g] = "drain"
  /\ Found(g)
  /\ LET h == bench_consume_rx(heard[g], try_recv_peer(g))
     IN  IF h.done THEN UrmaExit(g, BenchVerdict(h))
         ELSE /\ heard' = [heard EXCEPT ![g] = h]
              /\ Consume(g)
              /\ UNCHANGED <<urma_pc, sent, tx_ok, inbox, bench, rawfd>>
  /\ UNCHANGED urma_disturbed

\* bench_wait_ms is over, or the alarm, which also ends the sending without a
\* "done".
BenchTimeout(g) ==
  /\ urma_pc[g] \in {"bench_tx", "drain"}
  /\ UrmaExit(g, BenchVerdict(heard[g]))
  /\ urma_disturbed' = (urma_disturbed \/ urma_pc[g] = "bench_tx" \/ ~heard[g].done)

\* The network loses a packet that neither socket has read.
UrmaLose(g) ==
  /\ udp_at[g] < Len(inbox[g]) /\ raw_at[g] < Len(inbox[g])
  /\ inbox' = [inbox EXCEPT ![g] = SubSeq(@, 1, Len(@) - 1)]
  /\ urma_disturbed' = TRUE
  /\ UNCHANGED <<urma_pc, sent, tx_ok, udp_at, raw_at, bench, rawfd, heard>>

-----------------------------------------------------------------------------

UrmaProceed(g) == \/ ProbeSend(g) \/ ProbeRecv(g) \/ BenchSend(g) \/ SendDone(g)
                  \/ Drain(g)

UrmaClock(g) == ProbeTimeout(g) \/ BenchTimeout(g)

UrmaStep == \E g \in UrmaGuests :
  UrmaProceed(g) \/ UrmaClock(g) \/ UrmaFails(g) \/ UrmaLose(g)

UrmaNext == UrmaStep \/ \E g \in UrmaGuests : UrmaStart(g) \/ UrmaStartFails(g)

UrmaEnded(g) == urma_pc[g] \in {"passed", "failed"}

UrmaSpec == UrmaInit /\ [][UrmaNext]_urmaVars

\* A guest keeps running and its clock goes on.
UrmaFairness ==
  \A g \in UrmaGuests : WF_urmaVars(UrmaProceed(g)) /\ WF_urmaVars(UrmaClock(g))

-----------------------------------------------------------------------------

\* Each guest is at a point of main and has read no more than arrived.
UrmaTypeOK ==
  /\ urma_pc \in [UrmaGuests -> {"down", "probe_tx", "probe_rx", "bench_tx", "drain",
                                 "passed", "failed"}]
  /\ \A g \in UrmaGuests :
       /\ sent[g] \in Nat /\ tx_ok[g] \in 0 .. bench
       /\ udp_at[g] \in 0 .. Len(inbox[g]) /\ raw_at[g] \in 0 .. Len(inbox[g])
       /\ heard[g].rx \in Nat /\ heard[g].tx \in 0 .. bench
  /\ urma_disturbed \in BOOLEAN

\* rx_ok counts a benchmark packet at most once per socket that sees it, and
\* without the raw socket never more packets than the peer sent: the reported
\* loss is exact then, and understated by at most the raw copies otherwise.
RxWithinCopies ==
  \A g \in UrmaGuests :
    LET benched == Cardinality({i \in DOMAIN inbox[g] : inbox[g][i].kind = "bench"})
    IN  heard[g].rx <= (IF rawfd[g] THEN 2 * benched ELSE benched)

\* Both guests have passed, the benchmark with not one packet lost, unless a packet
\* was lost, a call failed, a wait was given up, or a guest left the probe loop
\* while the peer was in it without a packet.
UrmaPassedOrDisturbed ==
  urma_disturbed \/ \A g \in UrmaGuests : urma_pc[g] = "passed"

=============================================================================
