--------------------------- MODULE GuestPrograms ----------------------------
(***************************************************************************)
(* The guests from power on to the end of init: it starts each program of  *)
(* the command line, waits for it and goes on to the next one; the         *)
(* programs of the guests talk to each other.  Only the processes of one   *)
(* program are running on a guest at a time, but the guests may be in      *)
(* different programs.                                                     *)
(*                                                                         *)
(* The binary that init calls linqu_ub_obmm_demo is the pool program,      *)
(* ub_obmm_pool_demo.c.                                                    *)
(***************************************************************************)
EXTENDS GuestInit, UrmaDp, UbChat, UbRpc, TcpEachServer, UbRdma, ObmmPool

CONSTANT
  NodeIndex   \* guest -> its index in the pool (resolve_pool_nodes)

\* A guest that boots has a role in every program.  The pool program may fail
\* to start and may be killed by init.
ASSUME GuestsAssumption ==
  /\ InitGuests \subseteq UrmaGuests /\ InitGuests \subseteq ChatGuests
  /\ InitGuests \subseteq RpcGuests /\ InitGuests \subseteq TcpGuests
  /\ InitGuests \subseteq RdmaGuests
  /\ NodeIndex \in [InitGuests -> Nodes]
  /\ LocalFaults

vars == <<initVars, urmaVars, chatVars, rpcVars, tcpVars, rdmaVars, poolVars>>

\* The variables of all programs but one.
OtherThan(p) ==
  /\ IF p = "urma_dp" THEN TRUE ELSE UNCHANGED urmaVars
  /\ IF p = "chat" THEN TRUE ELSE UNCHANGED chatVars
  /\ IF p = "rpc" THEN TRUE ELSE UNCHANGED rpcVars
  /\ IF p = "tcp" THEN TRUE ELSE UNCHANGED tcpVars
  /\ IF p = "rdma" THEN TRUE ELSE UNCHANGED rdmaVars
  /\ IF p = "obmm" THEN TRUE ELSE UNCHANGED poolVars

\* The run_..._probe function of each stage up to the exec.  A program that
\* does not find its interface, or cannot be executed, fails at once.
run_urma_dp_probe(g) ==
  /\ At(g, "urma_dp") /\ OtherThan("urma_dp")
  /\ (SetUpNetwork(g) /\ UrmaStart(g)) \/ (UNCHANGED initVars /\ UrmaStartFails(g))

run_ub_chat_probe(g) ==
  /\ At(g, "chat") /\ OtherThan("chat")
  /\ (SetUpNetwork(g) /\ ChatStart(g)) \/ (UNCHANGED initVars /\ ChatStartFails(g))

run_ub_rpc_demo_probe(g) ==
  /\ At(g, "rpc") /\ OtherThan("rpc")
  /\ (SetUpNetwork(g) /\ RpcStart(g)) \/ (UNCHANGED initVars /\ RpcStartFails(g))

run_ub_tcp_each_server_demo_probe(g) ==
  /\ At(g, "tcp") /\ OtherThan("tcp")
  /\ (SetUpNetwork(g) /\ TcpStart(g)) \/ (UNCHANGED initVars /\ TcpStartFails(g))

run_ub_rdma_demo_probe(g) ==
  /\ At(g, "rdma") /\ OtherThan("rdma")
  /\ (SetUpNetwork(g) /\ RdmaStart(g)) \/ (UNCHANGED initVars /\ RdmaStartFails(g))

run_obmm_demo_probe(g) ==
  /\ At(g, "obmm") /\ OtherThan("obmm")
  /\ \/ SetUpNetwork(g) /\ Start(NodeIndex[g])
     \/ UNCHANGED initVars /\ StartFails(NodeIndex[g])

Launch(g) == \/ run_urma_dp_probe(g) \/ run_ub_chat_probe(g) \/ run_ub_rpc_demo_probe(g)
             \/ run_ub_tcp_each_server_demo_probe(g) \/ run_ub_rdma_demo_probe(g)
             \/ run_obmm_demo_probe(g)

\* waitpid returns.
Waited(g) ==
  /\ \/ At(g, "urma_dp") /\ UrmaEnded(g)
     \/ At(g, "chat") /\ ChatEnded(g)
     \/ At(g, "rpc") /\ RpcEnded(g)
     \/ At(g, "tcp") /\ parent[g] \in TcpEnded
     \/ At(g, "rdma") /\ RdmaEnded(g)
     \/ At(g, "obmm") /\ pool_pc[NodeIndex[g]] \in Ended
  /\ Advance(g)
  /\ UNCHANGED <<cmdline, iface, addressed, upi, biz>>
  /\ OtherThan("none")

\* run_ub_rdma_demo_probe does not wait longer than a minute either.
KillRdma(g) ==
  /\ At(g, "rdma")
  /\ RdmaRunning(g)
  /\ RdmaExit(g, "failed")
  /\ rdma_disturbed' = TRUE
  /\ UNCHANGED initVars
  /\ OtherThan("rdma")

\* run_obmm_demo_probe kills a pool program that is still there after a minute.
KillObmm(g) ==
  /\ At(g, "obmm")
  /\ Kill(NodeIndex[g])
  /\ UNCHANGED initVars
  /\ OtherThan("obmm")

ProgramStep ==
  /\ UNCHANGED initVars
  /\ \/ UrmaStep /\ OtherThan("urma_dp")
     \/ ChatStep /\ OtherThan("chat")
     \/ RpcStep /\ OtherThan("rpc")
     \/ TcpStep /\ OtherThan("tcp")
     \/ RdmaStep /\ OtherThan("rdma")
     \/ PoolStep /\ OtherThan("obmm")

InitProceed(g) == \/ BootStep(g) /\ OtherThan("none")
                  \/ Launch(g)
                  \/ Waited(g)

Init == /\ BootInit /\ UrmaInit /\ ChatInit /\ RpcInit /\ TcpInit /\ RdmaInit /\ PoolInit
        /\ "urma_dp" \in cmdline \/ (bench = 0 /\ \A g \in UrmaGuests : ~rawfd[g])
        /\ "chat" \in cmdline \/ ~shared_socket

Next == \/ ProgramStep
        \/ \E g \in InitGuests : \/ InitProceed(g) \/ KillRdma(g) \/ KillObmm(g)
                                 \/ IfaceAppears(g) /\ OtherThan("none")
                                 \/ ProbeInterrupt(g) /\ OtherThan("none")

\* init is scheduled, and so are the programs; the interface may never appear,
\* nor the interrupt that a blocking probe waits for.
Spec == /\ Init /\ [][Next]_vars
        /\ \A g \in InitGuests : WF_vars(InitProceed(g))
        /\ UrmaFairness /\ ChatFairness /\ RpcFairness /\ TcpFairness /\ RdmaFairness
        /\ RunFairness

-----------------------------------------------------------------------------

\* A guest whose init is at one of its ends, or in a probe that waits for an
\* interrupt because the command line says so.
Finished(g) == AtRest(g) \/ (Blocking /\ At(g, "probe"))

\* init waits without a deadline for all programs but two, and every program
\* waits for its peer, which may be in another program, have failed, have been
\* killed or never have started: all the same each guest comes to the end that
\* its command line asks for, and stays there.
EveryGuestEnds == <>[](\A g \in InitGuests : Finished(g))

\* A program that nothing disturbs passes on both guests.  The pool program does
\* depend on when the peer starts it: a HELLO to a socket that is not open yet
\* counts as early.
UndisturbedPass ==
  <>(/\ "urma_dp" \in cmdline => UrmaPassedOrDisturbed
     /\ "chat" \in cmdline => ChatPassedOrDisturbed
     /\ "rpc" \in cmdline => RpcPassedOrDisturbed
     /\ "tcp" \in cmdline => TcpPassedOrDisturbed
     /\ "rdma" \in cmdline => RdmaPassedOrDisturbed
     /\ "obmm" \in cmdline => PassedOrEarly)

\* Every program of every guest is at one of its points.
GuestsTypeOK ==
  /\ InitTypeOK /\ UrmaTypeOK /\ ChatTypeOK /\ RpcTypeOK /\ TcpTypeOK /\ RdmaTypeOK
  /\ PoolTypeOK

\* What a guest whose program passes may conclude about its peer and about what
\* it leaves behind, in every program and whatever was lost, killed or failed.
\* The program's own pass is meant: init reports an RDMA program that found no
\* device and skipped its work as passed, too.
PassIsMeant ==
  /\ PassLeavesRegister
  /\ NoLonePass /\ PassIsMutual /\ BarrierHolds /\ PassIsAnExchange
  /\ CleanPass

\* While they run, the two ends of a program keep in step: neither takes a
\* message, a packet or a turn for one of another round, call or attempt.
PeersInStep ==
  /\ RxWithinCopies
  /\ LockStep /\ MismatchOnlyIfDisturbed
  /\ CountIsCalls /\ ResponsesFit
  /\ AckOnLiveAttempt
  /\ SendFindsReceive /\ ProtoOnlyIfDisturbed
  /\ SingleOwner /\ RoundsAfterImport

\* What the end of a program on one guest leaves there and means to the other:
\* a TCP parent leaves no server child behind.  A pool program that returns from
\* main holds no region.  One that passes does not withdraw a region that a
\* peer is still to read; one that fails or is killed may, but then no peer gets
\* past the round of a guest that is gone before its COMMIT, so that no peer
\* passes on a region that was withdrawn.
LeavesNothingBehind == NoOrphan /\ OnlyKillLeaves /\ ReadsExportedRegion /\ GoneOwnerStops

=============================================================================
