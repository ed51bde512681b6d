------------------------------- MODULE UbRdma -------------------------------
(***************************************************************************)
(* The RDMA program ub_rdma_demo.c of two guests.  Each sets up a          *)
(* completion queue, a jetty and a memory segment; they meet on the sync   *)
(* port, move to the data port, tell each other their jetty, import and    *)
(* bind it, and exchange one request and one reply over the bound jetties. *)
(* Each datagram is sent once; nothing is ever sent again.                 *)
(*                                                                         *)
(* The uburma device is external: it takes a posted send to the receive    *)
(* that the peer has posted and writes both completions, that of the       *)
(* sender after the delivery.                                              *)
(***************************************************************************)
EXTENDS Integers, Sequences

CONSTANTS
  RdmaInitiator, RdmaResponder,  \* the guests by their parsed role
  UnimportTries,                 \* attempts of the loop around UNIMPORT_JETTY
  RdmaFaults                     \* calls may fail, datagrams get lost or doubled

ASSUME RdmaAssumption ==
  /\ RdmaInitiator # RdmaResponder
  /\ UnimportTries \in Nat \ {0} /\ RdmaFaults \in BOOLEAN

RdmaGuests  == {RdmaInitiator, RdmaResponder}
RdmaPeer(g) == IF g = RdmaInitiator THEN RdmaResponder ELSE RdmaInitiator

\* What g_res keeps of steps 1 to 7, in the order of main.
Resources == <<"fd", "ummu_fd", "ctx", "ummu_tid", "token", "buffers", "jfc", "jfr", "jfs",
               "jetty", "seg">>

VARIABLES
  rdma_pc,        \* guest -> where it is in main
  acquired,       \* guest -> entries of Resources that are set up or skipped
  imported,       \* guests that hold the jetty of their peer (tjetty_imported)
  bound,          \* guests whose jetty is bound to it
  rdma_net,       \* datagrams under way or queued at a socket
  rq,             \* guests with a receive that no payload has filled
  wr,             \* guest -> the work request of its only send
  cq,             \* guest -> completions not consumed: cq_ci to the owner bit
  rx_buf,         \* guest -> contents of the receive buffer
  busy,           \* guest -> failed attempts of the unimport loop
  stalled,        \* history: guests that closed the device with a jetty imported
  rdma_disturbed  \* history: see RdmaPassedOrDisturbed

rdmaVars == <<rdma_pc, acquired, imported, bound, rdma_net, rq, wr, cq, rx_buf, busy, stalled,
              rdma_disturbed>>

-----------------------------------------------------------------------------

RdmaEnded(g)   == rdma_pc[g] \in {"passed", "failed", "proto", "skipped"}
RdmaRunning(g) == ~RdmaEnded(g) /\ rdma_pc[g] # "down"

\* The datagrams, by the socket that gets them.
Msg(g, tag)  == [tag |-> tag, from |-> g]
SyncTags     == {"SYNC_REQ", "SYNC_ACK"}
OnSyncPort(g) == rdma_pc[g] \in {"sync_tx", "sync_rx"}
OnDataPort(g) == rdma_pc[g] \in {"info_tx", "info_rx", "import", "bind", "post_recv", "ready_tx",
                                 "ready_rx", "post_send", "send_cqe", "recv_cqe"}
Listens(g, tag) == IF tag \in SyncTags THEN OnSyncPort(g) ELSE OnDataPort(g)

\* sendto: without a socket on the port the datagram vanishes.
Sent(g, tag) == IF Listens(RdmaPeer(g), tag) THEN {Msg(g, tag)} ELSE {}

\* What is left after a datagram was read: a duplicate may be.
RdmaTaken(m) == {rdma_net \ {m}} \cup (IF RdmaFaults THEN {rdma_net} ELSE {})

RdmaText(g) == IF g = RdmaInitiator THEN "req_msg" ELSE "reply_msg"

RdmaInit ==
  /\ rdma_pc = [g \in RdmaGuests |-> "down"]
  /\ acquired = [g \in RdmaGuests |-> 0]
  /\ imported = {} /\ bound = {} /\ rdma_net = {} /\ rq = {}
  /\ wr = [g \in RdmaGuests |-> "none"]
  /\ cq = [g \in RdmaGuests |-> <<>>]
  /\ rx_buf = [g \in RdmaGuests |-> ""]
  /\ busy = [g \in RdmaGuests |-> 0]
  /\ stalled = {} /\ rdma_disturbed = FALSE

\* A step that only moves on in main.
RdmaGo(g, to) == rdma_pc' = [rdma_pc EXCEPT ![g] = to]
Datapath      == <<rq, wr, cq, rx_buf>>
Handles       == <<acquired, imported, bound, busy, stalled>>

\* cleanup_resources and return: what is not freed one by one goes with the
\* device file, an imported jetty too.
RdmaExit(g, result) ==
  /\ RdmaGo(g, result)
  /\ acquired' = [acquired EXCEPT ![g] = 0]
  /\ stalled' = stalled \cup ({g} \cap imported)
  /\ imported' = imported \ {g}
  /\ bound' = bound \ {g}
  /\ rdma_net' = {m \in rdma_net : m.from = g}
  /\ rq' = rq \ {g}
  /\ cq' = [cq EXCEPT ![g] = <<>>]
  /\ UNCHANGED <<wr, rx_buf, busy>>

\* main up to the device discovery.
RdmaStart(g) ==
  /\ rdma_pc[g] = "down"
  /\ RdmaGo(g, "setup")
  /\ UNCHANGED <<Handles, Datapath, rdma_net, rdma_disturbed>>

\* Role, address or interface are missing.
RdmaStartFails(g) ==
  /\ rdma_pc[g] = "down"
  /\ RdmaExit(g, "failed")
  /\ rdma_disturbed' = TRUE

\* discover_uburma_device finds none: main returns 0, which init prints as a pass,
\* although nothing was exchanged, and the peer waits in vain.  "passed" is kept
\* for a main that has done its work.
RdmaSkip(g) ==
  /\ rdma_pc[g] = "setup" /\ acquired[g] = 0
  /\ RdmaExit(g, "skipped")
  /\ rdma_disturbed' = TRUE

\* The next resource of steps 1 to 7.  Only the standalone jfs is optional.
SetUpNext(g) ==
  /\ rdma_pc[g] = "setup" /\ acquired[g] < Len(Resources)
  /\ acquired' = [acquired EXCEPT ![g] = @ + 1]
  /\ UNCHANGED <<rdma_pc, imported, bound, busy, stalled, Datapath, rdma_net, rdma_disturbed>>

\* A step that fails ends the program, wherever it is.
RdmaFails(g) ==
  /\ RdmaFaults
  /\ RdmaRunning(g)
  /\ RdmaExit(g, "failed")
  /\ rdma_disturbed' = TRUE

-----------------------------------------------------------------------------

\* Step 8: the socket on the sync port ...
BindSync(g) ==
  /\ rdma_pc[g] = "setup" /\ acquired[g] = Len(Resources)
  /\ RdmaGo(g, IF g = RdmaInitiator THEN "sync_tx" ELSE "sync_rx")
  /\ UNCHANGED <<Handles, Datapath, rdma_net, rdma_disturbed>>

\* ... and later the one on the data port.  In between the guest has none.
Rebind(g) ==
  /\ rdma_pc[g] = "rebind"
  /\ RdmaGo(g, IF g = RdmaInitiator THEN "info_tx" ELSE "info_rx")
  /\ UNCHANGED <<Handles, Datapath, rdma_net, rdma_disturbed>>

\* The datagram of the initiator in each of the three exchanges.
Opening == [sync_tx |-> "SYNC_REQ", info_tx |-> "INFO", ready_tx |-> "READY"]
Awaits  == [sync_tx |-> "sync_rx", info_tx |-> "info_rx", ready_tx |-> "ready_rx"]

\* do_startup_sync, exchange_peer_info, sync_datapath_ready: the initiator sends.
\* The datagram is lost on a responder that does not have the socket yet.
Open ==
  LET pc == rdma_pc[RdmaInitiator] IN
  /\ pc \in DOMAIN Opening
  /\ RdmaGo(RdmaInitiator, Awaits[pc])
  /\ rdma_net' = rdma_net \cup Sent(RdmaInitiator, Opening[pc])
  /\ rdma_disturbed' = (rdma_disturbed \/ Sent(RdmaInitiator, Opening[pc]) = {})
  /\ UNCHANGED <<Handles, Datapath>>

\* What each guest accepts where it waits, and where it goes then.
Accepts(g) == CASE rdma_pc[g] = "sync_rx"  -> IF g = RdmaInitiator THEN "SYNC_ACK" ELSE "SYNC_REQ"
                [] rdma_pc[g] = "info_rx"  -> "INFO"
                [] rdma_pc[g] = "ready_rx" -> IF g = RdmaInitiator THEN "READY_ACK" ELSE "READY"
                [] OTHER                   -> "none"
Onward(g)  == CASE rdma_pc[g] = "sync_rx"  -> "rebind"
                [] rdma_pc[g] = "info_rx"  -> "import"
                [] rdma_pc[g] = "ready_rx" -> IF g = RdmaInitiator THEN "post_send" ELSE "recv_cqe"

\* Mutant: READY is answered by READY.
ReactionEchoed == [SYNC_REQ |-> "SYNC_ACK", INFO |-> "INFO", READY |-> "READY"]

\* The answer of the responder.
Reaction == [SYNC_REQ |-> "SYNC_ACK", INFO |-> "INFO", READY |-> "READY_ACK"]

\* Closing the sync socket drops what is queued there.
Queued(net, g, to) == IF to = "rebind" THEN {m \in net : m.from = g \/ m.tag \notin SyncTags}
                                       ELSE net

\* The datagram that is waited for: the responder answers it.
TakeMsg(g, m) ==
  /\ m.from = RdmaPeer(g) /\ m.tag = Accepts(g)
  /\ RdmaGo(g, Onward(g))
  /\ \E left \in RdmaTaken(m) :
       /\ rdma_net' = Queued(left, g, Onward(g))
                        \cup (IF g = RdmaResponder THEN Sent(g, Reaction[m.tag]) ELSE {})
       /\ rdma_disturbed' = (rdma_disturbed \/ m \in rdma_net')
  /\ UNCHANGED <<Handles, Datapath>>

\* sync_datapath_ready takes whatever comes first: -EPROTO.
Unexpected(g, m) ==
  /\ rdma_pc[g] = "ready_rx"
  /\ m.from = RdmaPeer(g) /\ m.tag # Accepts(g)
  /\ RdmaExit(g, "proto")
  /\ UNCHANGED rdma_disturbed

RdmaLose(m) ==
  /\ RdmaFaults
  /\ rdma_net' = rdma_net \ {m}
  /\ rdma_disturbed' = TRUE
  /\ UNCHANGED <<rdma_pc, Handles, Datapath>>

-----------------------------------------------------------------------------

ImportJetty(g) ==
  /\ rdma_pc[g] = "import"
  /\ RdmaGo(g, "bind")
  /\ imported' = imported \cup {g}
  /\ UNCHANGED <<acquired, bound, busy, stalled, Datapath, rdma_net, rdma_disturbed>>

\* Step 9.
BindJetty(g) ==
  /\ rdma_pc[g] = "bind"
  /\ RdmaGo(g, "post_recv")
  /\ bound' = bound \cup {g}
  /\ UNCHANGED <<acquired, imported, busy, stalled, Datapath, rdma_net, rdma_disturbed>>

\* Step 9.5: the receive is posted before the peer is told.
rdma_post_recv_one(g) ==
  /\ rdma_pc[g] = "post_recv"
  /\ RdmaGo(g, IF g = RdmaInitiator THEN "ready_tx" ELSE "ready_rx")
  /\ rq' = rq \cup {g}
  /\ UNCHANGED <<Handles, wr, cq, rx_buf, rdma_net, rdma_disturbed>>

rdma_post_send_one(g) ==
  /\ rdma_pc[g] = "post_send"
  /\ RdmaGo(g, "send_cqe")
  /\ wr' = [wr EXCEPT ![g] = "posted"]
  /\ UNCHANGED <<Handles, rq, cq, rx_buf, rdma_net, rdma_disturbed>>

\* A completion for a guest that still has its queue.
Completes(g, kind) == [cq EXCEPT ![g] = IF RdmaRunning(g) THEN Append(@, kind) ELSE @]

\* The device delivers the payload, or reports that the peer cannot take it.
DeviceDelivers(g) ==
  LET p == RdmaPeer(g)
      taken == p \in bound /\ p \in rq
  IN
  /\ wr[g] = "posted"
  /\ wr' = [wr EXCEPT ![g] = IF taken THEN "delivered" ELSE "done"]
  /\ rq' = IF taken THEN rq \ {p} ELSE rq
  /\ rx_buf' = IF taken THEN [rx_buf EXCEPT ![p] = RdmaText(g)] ELSE rx_buf
  /\ cq' = IF taken THEN Completes(p, "RECEIVE") ELSE Completes(g, "ERROR")
  /\ UNCHANGED <<rdma_pc, Handles, rdma_net, rdma_disturbed>>

\* The device completes the send.  The reply may have come before.
DeviceCompletes(g) ==
  /\ wr[g] = "delivered"
  /\ wr' = [wr EXCEPT ![g] = "done"]
  /\ cq' = Completes(g, "SEND")
  /\ UNCHANGED <<rdma_pc, Handles, rq, rx_buf, rdma_net, rdma_disturbed>>

Expects(g) == IF rdma_pc[g] = "send_cqe" THEN "SEND" ELSE "RECEIVE"

\* After the completion: the initiator sends first and receives last.
AfterCqe(g) == CASE rdma_pc[g] = "send_cqe" ->
                      IF g = RdmaInitiator THEN "recv_cqe" ELSE "unbind"
                 [] OTHER -> IF g = RdmaInitiator THEN "unbind" ELSE "post_send"

\* Closing the data socket at the end of step 9.5 drops what is queued there.
Closed(g, to) == IF to = "unbind" THEN {m \in rdma_net : m.from = g} ELSE rdma_net

\* rdma_wait_for_cqe returns; a payload that differs ends the program.
TakeCqe(g) ==
  /\ rdma_pc[g] \in {"send_cqe", "recv_cqe"}
  /\ cq[g] # <<>> /\ Head(cq[g]) = Expects(g)
  /\ IF rdma_pc[g] = "recv_cqe" /\ rx_buf[g] # RdmaText(RdmaPeer(g))
     THEN RdmaExit(g, "failed") /\ UNCHANGED rdma_disturbed
     ELSE /\ RdmaGo(g, AfterCqe(g))
          /\ cq' = [cq EXCEPT ![g] = Tail(@)]
          /\ rdma_net' = Closed(g, AfterCqe(g))
          /\ UNCHANGED <<Handles, rq, wr, rx_buf, rdma_disturbed>>

\* A completion of the other kind is consumed and forgotten: the reply that
\* arrives before the request is completed is never seen again.
DropCqe(g) ==
  /\ rdma_pc[g] \in {"send_cqe", "recv_cqe"}
  /\ cq[g] # <<>> /\ Head(cq[g]) \notin {Expects(g), "ERROR"}
  /\ cq' = [cq EXCEPT ![g] = Tail(@)]
  /\ rdma_disturbed' = TRUE
  /\ UNCHANGED <<rdma_pc, Handles, rq, wr, rx_buf, rdma_net>>

\* A completion with a status: -EIO.
ErrorCqe(g) ==
  /\ rdma_pc[g] \in {"send_cqe", "recv_cqe"}
  /\ cq[g] # <<>> /\ Head(cq[g]) = "ERROR"
  /\ RdmaExit(g, "failed")
  /\ UNCHANGED rdma_disturbed

\* Mutant: the jetty is imported no longer and still bound.
UnbindForgotten(g) ==
  /\ rdma_pc[g] = "unbind"
  /\ RdmaGo(g, "unimport")
  /\ UNCHANGED <<Handles, Datapath, rdma_net, rdma_disturbed>>

\* Step 10.
UnbindJetty(g) ==
  /\ rdma_pc[g] = "unbind"
  /\ RdmaGo(g, "unimport")
  /\ bound' = bound \ {g}
  /\ UNCHANGED <<acquired, imported, busy, stalled, Datapath, rdma_net, rdma_disturbed>>

\* EBUSY and EAGAIN are tried again, UnimportTries times in all.
UnimportJetty(g) ==
  /\ rdma_pc[g] = "unimport"
  /\ \/ /\ RdmaGo(g, "cleanup") /\ imported' = imported \ {g}
        /\ UNCHANGED <<busy, rdma_disturbed>>
     \/ /\ RdmaFaults
        /\ busy' = [busy EXCEPT ![g] = @ + 1]
        /\ RdmaGo(g, IF busy'[g] = UnimportTries THEN "busy" ELSE "unimport")
        /\ rdma_disturbed' = (rdma_disturbed \/ busy'[g] = UnimportTries)
        /\ UNCHANGED imported
  /\ UNCHANGED <<acquired, bound, stalled, Datapath, rdma_net>>

RdmaReturn(g) ==
  /\ rdma_pc[g] \in {"cleanup", "busy"}
  /\ RdmaExit(g, IF rdma_pc[g] = "cleanup" THEN "passed" ELSE "failed")
  /\ UNCHANGED rdma_disturbed

-----------------------------------------------------------------------------

RdmaWaits(g) == rdma_pc[g] \in {"sync_rx", "info_rx", "ready_rx", "send_cqe", "recv_cqe"}

\* A guest that waits has something to read, or will have it.
Readable(g)    == cq[g] # <<>> \/ \E m \in rdma_net : m.from = RdmaPeer(g)
RdmaHopeful(g) == \/ \E h \in RdmaGuests : ~RdmaEnded(h) /\ (~RdmaWaits(h) \/ Readable(h))
                  \/ \E h \in RdmaGuests : wr[h] \in {"posted", "delivered"}

\* The deadline of the wait.
RdmaTimeout(g) ==
  /\ RdmaWaits(g)
  /\ RdmaExit(g, "failed")
  /\ rdma_disturbed' = (rdma_disturbed \/ RdmaHopeful(g))

RdmaProceed(g) ==
  \/ SetUpNext(g) \/ BindSync(g) \/ Rebind(g) \/ (g = RdmaInitiator /\ Open)
  \/ ImportJetty(g) \/ BindJetty(g) \/ rdma_post_recv_one(g) \/ rdma_post_send_one(g)
  \/ TakeCqe(g) \/ DropCqe(g) \/ ErrorCqe(g)
  \/ UnbindJetty(g) \/ UnimportJetty(g) \/ RdmaReturn(g)

RdmaReceive(g) == \E m \in rdma_net : TakeMsg(g, m) \/ Unexpected(g, m)

Device(g) == DeviceDelivers(g) \/ DeviceCompletes(g)

RdmaStep ==
  \/ \E g \in RdmaGuests : \/ RdmaProceed(g) \/ RdmaReceive(g) \/ Device(g)
                           \/ RdmaSkip(g) \/ RdmaFails(g) \/ RdmaTimeout(g)
  \/ \E m \in rdma_net : RdmaLose(m)

RdmaNext == RdmaStep \/ \E g \in RdmaGuests : RdmaStart(g) \/ RdmaStartFails(g)

RdmaSpec == RdmaInit /\ [][RdmaNext]_rdmaVars

\* A guest keeps running and reads what arrives, its clock goes on, and the
\* device serves what is posted.
RdmaFairness ==
  \A g \in RdmaGuests : /\ WF_rdmaVars(RdmaProceed(g)) /\ WF_rdmaVars(RdmaReceive(g))
                        /\ WF_rdmaVars(RdmaTimeout(g)) /\ WF_rdmaVars(Device(g))

-----------------------------------------------------------------------------

\* Every guest is at a point of main with the handles that belong to it: it is
\* bound only to a jetty it has imported.
RdmaTypeOK ==
  /\ rdma_pc \in [RdmaGuests ->
       {"down", "setup", "sync_tx", "sync_rx", "rebind", "info_tx", "info_rx", "import", "bind",
        "post_recv", "ready_tx", "ready_rx", "post_send", "send_cqe", "recv_cqe", "unbind",
        "unimport", "cleanup", "busy", "passed", "failed", "proto", "skipped"}]
  /\ acquired \in [RdmaGuests -> 0 .. Len(Resources)]
  /\ bound \subseteq imported /\ imported \subseteq RdmaGuests
  /\ \A m \in rdma_net : Listens(RdmaPeer(m.from), m.tag)
  /\ wr \in [RdmaGuests -> {"none", "posted", "delivered", "done"}]
  /\ busy \in [RdmaGuests -> 0 .. UnimportTries]

\* The ready exchange does its work: a send is posted only when the peer has
\* its jetty bound and a receive waiting, and it finds them there unless the
\* peer has given up.
SendFindsReceive ==
  \A g \in RdmaGuests :
    wr[g] = "posted" => \/ RdmaPeer(g) \in bound /\ RdmaPeer(g) \in rq
                        \/ RdmaEnded(RdmaPeer(g))

\* info and ready share a socket, and sync_datapath_ready takes the first
\* datagram for its own: it never meets one of the exchange before, unless the
\* network doubled it.
ProtoOnlyIfDisturbed == \A g \in RdmaGuests : rdma_pc[g] = "proto" => rdma_disturbed

\* "explicit unbind + unimport to avoid fd-close stall": no guest that passes
\* closes its device with the peer's jetty imported, however often the device
\* was busy.
CleanPass == \A g \in RdmaGuests : rdma_pc[g] = "passed" => g \notin stalled

\* The initiator passes only with the reply, which the responder sends only
\* for the request; the responder passes only when its reply has arrived in the
\* buffer of the initiator, whether that is still looking for it or not.
PassIsAnExchange ==
  /\ rdma_pc[RdmaInitiator] = "passed" => rx_buf[RdmaResponder] = "req_msg"
  /\ "passed" \in {rdma_pc[g] : g \in RdmaGuests} => rx_buf[RdmaInitiator] = "reply_msg"

\* Both have passed, unless a call failed or the device is missing, a datagram was
\* lost or doubled or came before the socket of the peer was bound, the reply
\* overtook the completion of the request, or a wait was given up that could
\* have ended.
RdmaPassedOrDisturbed ==
  rdma_disturbed \/ \A g \in RdmaGuests : rdma_pc[g] = "passed"

=============================================================================
