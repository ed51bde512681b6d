------------------------------ MODULE ObmmPool ------------------------------
(***************************************************************************)
(* The shared-pool program ub_obmm_pool_demo.c: N guests, one UDP socket   *)
(* each.  A guest exports a region, exchanges HELLO messages that carry    *)
(* the metadata of the regions, imports the region of every peer, meets    *)
(* the others at a READY barrier and plays N rounds.  In round r guest r   *)
(* writes its slot and sends a TURN to every peer; a peer verifies the    *)
(* slot through its import and answers with an ACK; with all ACKs in, the  *)
(* owner broadcasts a COMMIT that lets the peers go on.                    *)
(*                                                                         *)
(* The network is a set of datagrams.  A datagram to a guest whose socket  *)
(* is not open vanishes; it may be lost, duplicated or overtaken.  Every   *)
(* receive loop of the program takes datagrams off the socket and throws   *)
(* away the ones it is not waiting for.                                    *)
(*                                                                         *)
(* init runs this program and kills it after a minute; GuestPrograms       *)
(* composes the two.                                                       *)
(***************************************************************************)
EXTENDS Integers, FiniteSets

CONSTANTS
  NodeCount,      \* node_count
  Lossy,          \* datagrams may be lost
  Duplicating,    \* datagrams may be received more than once
  LocalFaults,    \* setup and import calls may fail, and init may kill the program
  Patient         \* a wait is given up only when its datagram cannot come any more

ASSUME PoolAssumption ==
  /\ NodeCount \in Nat \ {0}
  /\ Lossy \in BOOLEAN /\ Duplicating \in BOOLEAN
  /\ LocalFaults \in BOOLEAN /\ Patient \in BOOLEAN

Nodes == 0 .. NodeCount - 1

VARIABLES
  pool_pc,   \* where a guest is in main
  round,     \* round_idx of do_rounds; NodeCount once all rounds are over
  got_meta,  \* node -> peers whose HELLO it has
  ready,     \* node -> peers whose READY it has
  got_ack,   \* node -> peers whose ACK it has, while it owns the round
  exported,  \* nodes whose region is exported
  imports,   \* node -> regions it has imported
  slot,      \* nodes that have written their slot
  pool_net,  \* datagrams under way
  verified,  \* history: node -> slots it has verified
  early      \* history: a datagram was lost or discarded before its time, a
             \* wait given up before its time, a local call failed or
             \* a guest was killed

poolVars == <<pool_pc, round, got_meta, ready, got_ack, exported, imports, slot, pool_net,
              verified, early>>

-----------------------------------------------------------------------------

PoolMsg(type, src, dst, r) == [type |-> type, src |-> src, dst |-> dst, round |-> r]

PoolMessage == [type: {"HELLO", "READY", "TURN", "ACK", "COMMIT"},
                src: Nodes, dst: Nodes, round: Nodes]

\* "hello" and "ready" are the tops of the two exchange loops, where the loop
\* is left or sends; "hello_rx" and "ready_rx" their receiving halves.
Exchanging == {"hello", "hello_rx", "ready", "ready_rx"}
Waiting  == Exchanging \cup {"write", "turn", "verify", "commit", "acks"}
InRounds == {"write", "turn", "verify", "commit", "acks", "done"}
Gone     == {"failed", "killed"}
Ended    == {"done"} \cup Gone
PCs      == Waiting \cup {"down", "import"} \cup Ended

\* The guests whose socket is open.
Listening == {p \in Nodes : pool_pc[p] \notin {"down"} \cup Ended}

\* send_msg to a set of peers.
Send(type, src, dsts, r) == {PoolMsg(type, src, p, r) : p \in (dsts \cap Listening)}

Peers(n) == Nodes \ {n}

\* Where a guest goes at the top of round r of do_rounds.
RoundStart(n, r) == IF r = NodeCount THEN "done" ELSE IF r = n THEN "write" ELSE "turn"

PoolInit ==
  /\ pool_pc = [n \in Nodes |-> "down"]
  /\ round = [n \in Nodes |-> 0]
  /\ got_meta = [n \in Nodes |-> {}]
  /\ ready = [n \in Nodes |-> {}]
  /\ got_ack = [n \in Nodes |-> {}]
  /\ exported = {}
  /\ imports = [n \in Nodes |-> {}]
  /\ slot = {}
  /\ pool_net = {}
  /\ verified = [n \in Nodes |-> {}]
  /\ early = FALSE

-----------------------------------------------------------------------------

\* cleanup_slots and the close calls at the label out of main.
CleanUp(n) ==
  /\ exported' = exported \ {n}
  /\ imports' = [imports EXCEPT ![n] = {}]

\* Mutated Fail: a return that does not go through the label out.
FailWithoutCleanUp(n) ==
  /\ pool_pc' = [pool_pc EXCEPT ![n] = "failed"]
  /\ pool_net' = {m \in pool_net : m.dst # n}
  /\ UNCHANGED <<round, got_meta, ready, got_ack, exported, imports, slot, verified>>

Fail(n) ==
  /\ pool_pc' = [pool_pc EXCEPT ![n] = "failed"]
  /\ CleanUp(n)
  /\ pool_net' = {m \in pool_net : m.dst # n}
  /\ UNCHANGED <<round, got_meta, ready, got_ack, slot, verified>>

\* main up to the metadata exchange: socket, export and mapping.
Start(n) ==
  /\ pool_pc[n] = "down"
  /\ pool_pc' = [pool_pc EXCEPT ![n] = "hello"]
  /\ exported' = exported \cup {n}
  /\ got_meta' = [got_meta EXCEPT ![n] = {n}]
  /\ UNCHANGED <<round, ready, got_ack, imports, slot, pool_net, verified, early>>

StartFails(n) ==
  /\ LocalFaults
  /\ pool_pc[n] = "down"
  /\ Fail(n)
  /\ early' = TRUE

\* The sending half of broadcast_hello_until_all: a HELLO to every peer whose
\* own HELLO has not come.
HelloSend(n) ==
  /\ pool_pc[n] = "hello"
  /\ got_meta[n] # Nodes
  /\ pool_pc' = [pool_pc EXCEPT ![n] = "hello_rx"]
  /\ pool_net' = pool_net \cup Send("HELLO", n, Nodes \ got_meta[n], 0)
  /\ early' = (early \/ ~(Nodes \ got_meta[n] \subseteq Listening))
  /\ UNCHANGED <<round, got_meta, ready, got_ack, exported, imports, slot, verified>>

\* The socket is empty and the loop goes back to its top; what arrives while
\* it sleeps is for the next iteration.
LoopAgain(n) ==
  /\ pool_pc[n] \in {"hello_rx", "ready_rx"}
  /\ pool_pc' = [pool_pc EXCEPT ![n] = IF @ = "hello_rx" THEN "hello" ELSE "ready"]
  /\ UNCHANGED <<round, got_meta, ready, got_ack, exported, imports, slot, pool_net,
                 verified, early>>

HelloDone(n) ==
  /\ pool_pc[n] = "hello"
  /\ got_meta[n] = Nodes
  /\ pool_pc' = [pool_pc EXCEPT ![n] = "import"]
  /\ UNCHANGED <<round, got_meta, ready, got_ack, exported, imports, slot, pool_net,
                 verified, early>>

\* Mutated ImportAll: the loop over the nodes runs one too far.
ImportAllOneMore(n) ==
  /\ pool_pc[n] = "import"
  /\ pool_pc' = [pool_pc EXCEPT ![n] = "ready"]
  /\ imports' = [imports EXCEPT ![n] = (0 .. NodeCount) \ {n}]
  /\ ready' = [ready EXCEPT ![n] = {n}]
  /\ UNCHANGED <<round, got_meta, got_ack, exported, slot, pool_net, verified, early>>

\* import_all_peers, then the start of wait_until_everyone_ready.
ImportAll(n) ==
  /\ pool_pc[n] = "import"
  /\ pool_pc' = [pool_pc EXCEPT ![n] = "ready"]
  /\ imports' = [imports EXCEPT ![n] = Peers(n)]
  /\ ready' = [ready EXCEPT ![n] = {n}]
  /\ UNCHANGED <<round, got_meta, got_ack, exported, slot, pool_net, verified, early>>

ImportFails(n) ==
  /\ LocalFaults
  /\ pool_pc[n] = "import"
  /\ Fail(n)
  /\ early' = TRUE

\* The sending half of wait_until_everyone_ready.
ReadySend(n) ==
  /\ pool_pc[n] = "ready"
  /\ ready[n] # Nodes
  /\ pool_pc' = [pool_pc EXCEPT ![n] = "ready_rx"]
  /\ pool_net' = pool_net \cup Send("READY", n, Nodes \ ready[n], 0)
  /\ UNCHANGED <<round, got_meta, ready, got_ack, exported, imports, slot,
                 verified, early>>

\* Mutated ReadyDone: the count of READYs is off by one.
ReadyDoneOneShort(n) ==
  /\ pool_pc[n] = "ready"
  /\ Cardinality(ready[n]) >= NodeCount - 1
  /\ pool_pc' = [pool_pc EXCEPT ![n] = RoundStart(n, 0)]
  /\ UNCHANGED <<round, got_meta, ready, got_ack, exported, imports, slot, pool_net,
                 verified, early>>

ReadyDone(n) ==
  /\ pool_pc[n] = "ready"
  /\ ready[n] = Nodes
  /\ pool_pc' = [pool_pc EXCEPT ![n] = RoundStart(n, 0)]
  /\ UNCHANGED <<round, got_meta, ready, got_ack, exported, imports, slot, pool_net,
                 verified, early>>

\* The owner's half of a round up to the wait for ACKs: write_slot_payload,
\* the check of its own slot, send_round_turn to every peer.
OwnerWrite(n) ==
  /\ pool_pc[n] = "write"
  /\ pool_pc' = [pool_pc EXCEPT ![n] = "acks"]
  /\ slot' = slot \cup {n}
  /\ verified' = [verified EXCEPT ![n] = @ \cup {n}]
  /\ got_ack' = [got_ack EXCEPT ![n] = {}]
  /\ pool_net' = pool_net \cup Send("TURN", n, Peers(n), round[n])
  /\ UNCHANGED <<round, got_meta, ready, exported, imports, early>>

\* Leaving round r, and main with it after the last one.
LeaveRound(n, wire) ==
  LET next == RoundStart(n, round[n] + 1)
  IN  /\ round' = [round EXCEPT ![n] = @ + 1]
      /\ pool_pc' = [pool_pc EXCEPT ![n] = next]
      /\ \/ /\ next = "done"
            /\ CleanUp(n)
            /\ pool_net' = {m \in wire : m.dst # n}
         \/ /\ next # "done"
            /\ pool_net' = wire
            /\ UNCHANGED <<exported, imports>>

\* Mutated OwnerCommit: the count of ACKs is off by one.
OwnerCommitOneShort(n) ==
  /\ pool_pc[n] = "acks"
  /\ Cardinality(got_ack[n]) >= NodeCount - 2
  /\ LeaveRound(n, pool_net \cup Send("COMMIT", n, Peers(n), round[n]))
  /\ UNCHANGED <<got_meta, ready, got_ack, slot, verified, early>>

\* Mutated OwnerCommit: goes on without the broadcast.
OwnerCommitSilent(n) ==
  /\ pool_pc[n] = "acks"
  /\ got_ack[n] = Peers(n)
  /\ LeaveRound(n, pool_net)
  /\ UNCHANGED <<got_meta, ready, got_ack, slot, verified, early>>

\* wait_for_all_round_acks returns and broadcast_round_commit sends.  It sends
\* ten times; every peer waits for the COMMIT by then, so the copies after
\* the first one that arrives are thrown away, and one datagram stands for all.
OwnerCommit(n) ==
  /\ pool_pc[n] = "acks"
  /\ got_ack[n] = Peers(n)
  /\ LeaveRound(n, pool_net \cup Send("COMMIT", n, Peers(n), round[n]))
  /\ UNCHANGED <<got_meta, ready, got_ack, slot, verified, early>>

\* Mutated Verify: goes on to the next round without waiting for the COMMIT.
VerifyWithoutCommit(n) ==
  /\ pool_pc[n] = "verify"
  /\ round[n] \in slot
  /\ verified' = [verified EXCEPT ![n] = @ \cup {round[n]}]
  /\ LeaveRound(n, pool_net \cup Send("ACK", n, {round[n]}, round[n]))
  /\ UNCHANGED <<got_meta, ready, got_ack, slot, early>>

\* wait_for_slot_payload on the imported slot, then send_round_ack.  The
\* slot of a region that is no longer exported may or may not match.
Verify(n) ==
  /\ pool_pc[n] = "verify"
  /\ round[n] \in slot
  /\ pool_pc' = [pool_pc EXCEPT ![n] = "commit"]
  /\ verified' = [verified EXCEPT ![n] = @ \cup {round[n]}]
  /\ pool_net' = pool_net \cup Send("ACK", n, {round[n]}, round[n])
  /\ UNCHANGED <<round, got_meta, ready, got_ack, exported, imports, slot, early>>

-----------------------------------------------------------------------------

\* A datagram for a wait the guest has not come to yet.
AheadOf(n, m) ==
  \/ m.type = "READY" /\ pool_pc[n] = "hello_rx"
  \/ m.type = "TURN" /\ (pool_pc[n] \in Exchanging \/ m.round > round[n])

\* recv_msg: the datagram leaves the socket, or a copy of it stays.
Taken(m) == IF Duplicating THEN {pool_net, pool_net \ {m}} ELSE {pool_net \ {m}}

\* What the wait a guest is in accepts.
Wanted(n, m) ==
  CASE pool_pc[n] = "hello_rx" -> m.type = "HELLO"
    [] pool_pc[n] = "ready_rx" -> m.type = "READY"
    [] pool_pc[n] = "turn"   -> m = PoolMsg("TURN", round[n], n, round[n])
    [] pool_pc[n] = "commit" -> m = PoolMsg("COMMIT", round[n], n, round[n])
    [] pool_pc[n] = "acks"   -> m.type = "ACK" /\ m.round = round[n] /\ m.src # n
    [] OTHER            -> FALSE

RecvHello(n, m) ==
  /\ pool_pc[n] = "hello_rx" /\ Wanted(n, m)
  /\ got_meta' = [got_meta EXCEPT ![n] = @ \cup {m.src}]
  /\ pool_net' \in Taken(m)
  /\ UNCHANGED <<pool_pc, round, ready, got_ack, exported, imports, slot, verified, early>>

RecvReady(n, m) ==
  /\ pool_pc[n] = "ready_rx" /\ Wanted(n, m)
  /\ ready' = [ready EXCEPT ![n] = @ \cup {m.src}]
  /\ pool_net' \in Taken(m)
  /\ UNCHANGED <<pool_pc, round, got_meta, got_ack, exported, imports, slot, verified, early>>

RecvTurn(n, m) ==
  /\ pool_pc[n] = "turn" /\ Wanted(n, m)
  /\ pool_pc' = [pool_pc EXCEPT ![n] = "verify"]
  /\ pool_net' \in Taken(m)
  /\ UNCHANGED <<round, got_meta, ready, got_ack, exported, imports, slot,
                 verified, early>>

RecvRoundAck(n, m) ==
  /\ pool_pc[n] = "acks" /\ Wanted(n, m)
  /\ got_ack' = [got_ack EXCEPT ![n] = @ \cup {m.src}]
  /\ pool_net' \in Taken(m)
  /\ UNCHANGED <<pool_pc, round, got_meta, ready, exported, imports, slot, verified, early>>

RecvCommit(n, m) ==
  /\ pool_pc[n] = "commit" /\ Wanted(n, m)
  /\ \E left \in Taken(m) : LeaveRound(n, left)
  /\ UNCHANGED <<got_meta, ready, got_ack, slot, verified, early>>

\* The loops throw away what they do not wait for.
Discard(n, m) ==
  /\ pool_pc[n] \in {"hello_rx", "ready_rx", "turn", "commit", "acks"}
  /\ ~Wanted(n, m)
  /\ pool_net' = pool_net \ {m}
  /\ early' = (early \/ AheadOf(n, m))
  /\ UNCHANGED <<pool_pc, round, got_meta, ready, got_ack, exported, imports, slot, verified>>

Lose(m) ==
  /\ Lossy
  /\ pool_net' = pool_net \ {m}
  /\ early' = TRUE
  /\ UNCHANGED <<pool_pc, round, got_meta, ready, got_ack, exported, imports, slot, verified>>

-----------------------------------------------------------------------------

\* The datagrams a guest waits for can still come: each is under way or its
\* sender has not passed the place that sends it.
Hopeful(n) ==
  CASE pool_pc[n] \in {"hello", "hello_rx"} ->
         \A p \in Nodes \ got_meta[n] :
            \/ PoolMsg("HELLO", p, n, 0) \in pool_net
            \/ pool_pc[p] = "down"
            \/ pool_pc[p] \in {"hello", "hello_rx"} /\ n \notin got_meta[p]
    [] pool_pc[n] \in {"ready", "ready_rx"} ->
         \A p \in Nodes \ ready[n] :
            \/ PoolMsg("READY", p, n, 0) \in pool_net
            \/ pool_pc[p] \in {"down", "hello", "hello_rx", "import"}
            \/ pool_pc[p] \in {"ready", "ready_rx"} /\ n \notin ready[p]
    [] pool_pc[n] = "turn" ->
         LET owner == round[n]
         IN  \/ PoolMsg("TURN", owner, n, owner) \in pool_net
             \/ pool_pc[owner] \notin {"acks"} \cup Ended /\ round[owner] <= owner
             \/ pool_pc[owner] = "acks" /\ round[owner] < owner
    [] pool_pc[n] = "verify" -> round[n] \in slot
    [] pool_pc[n] = "commit" ->
         \/ PoolMsg("COMMIT", round[n], n, round[n]) \in pool_net
         \/ pool_pc[round[n]] = "acks" /\ round[round[n]] = round[n]
    [] pool_pc[n] = "acks" ->
         \A p \in Peers(n) \ got_ack[n] :
            \/ PoolMsg("ACK", p, n, n) \in pool_net
            \/ pool_pc[p] \notin Ended /\ round[p] < n
            \/ pool_pc[p] \in Exchanging \cup {"import", "turn", "verify"} /\ round[p] = n
    [] OTHER -> TRUE

\* A deadline of one of the waits, or the alarm of RUN_TIMEOUT_S.  "write"
\* counts as a wait: the owner waits for its own slot to match.
TimeoutExpires(n) ==
  /\ pool_pc[n] \in Waiting
  /\ Patient => ~Hopeful(n)
  /\ Fail(n)
  /\ early' = (early \/ Hopeful(n))

\* init's SIGKILL after 60 s, half the RUN_TIMEOUT_S of the program.  Nothing
\* runs cleanup_slots: what the guest exported or imported may stay so.  It may
\* be amid import_all_peers, or amid the ten copies of a COMMIT, that of the
\* last round included; a round whose COMMIT was sent is left.  A broadcast cut
\* short is a whole one of which the rest is lost.
Kill(n) ==
  /\ LocalFaults
  /\ pool_pc[n] \in Waiting \cup {"import"}
  /\ pool_pc' = [pool_pc EXCEPT ![n] = "killed"]
  /\ exported' \in {exported, exported \ {n}}
  /\ \E kept \in SUBSET (IF pool_pc[n] = "import" THEN Peers(n) ELSE imports[n]) :
       imports' = [imports EXCEPT ![n] = kept]
  /\ \/ /\ pool_net' = {m \in pool_net : m.dst # n}
        /\ UNCHANGED round
     \/ /\ pool_pc[n] = "acks" /\ got_ack[n] = Peers(n)
        /\ pool_net' = {m \in pool_net : m.dst # n} \cup Send("COMMIT", n, Peers(n), round[n])
        /\ round' = [round EXCEPT ![n] = @ + 1]
  /\ early' = TRUE
  /\ UNCHANGED <<got_meta, ready, got_ack, slot, verified>>

-----------------------------------------------------------------------------

\* What a guest that has been started does of its own accord.
Run(n) ==
  \/ HelloSend(n) \/ HelloDone(n) \/ ImportAll(n)
  \/ ReadySend(n) \/ ReadyDone(n) \/ LoopAgain(n)
  \/ OwnerWrite(n) \/ OwnerCommit(n) \/ Verify(n)

PoolAccept(n, m) == \/ RecvHello(n, m) \/ RecvReady(n, m) \/ RecvTurn(n, m)
                    \/ RecvRoundAck(n, m) \/ RecvCommit(n, m)

Receive(n) == \E m \in {x \in pool_net : x.dst = n} : PoolAccept(n, m) \/ Discard(n, m)

\* What happens to the guests that have been started, init's kill apart ...
PoolStep ==
  \/ \E n \in Nodes : Run(n) \/ Receive(n) \/ ImportFails(n) \/ TimeoutExpires(n)
  \/ \E m \in pool_net : Lose(m)

\* ... and what init does with the program.
Managed(n) == Start(n) \/ StartFails(n) \/ Kill(n)

PoolNext == PoolStep \/ \E n \in Nodes : Managed(n)

PoolSpec == PoolInit /\ [][PoolNext]_poolVars

\* The rounds alone, from the state in which every guest has come out of the
\* READY barrier and nothing is under way any more.
RoundsInit ==
  /\ pool_pc = [n \in Nodes |-> RoundStart(n, 0)]
  /\ round = [n \in Nodes |-> 0]
  /\ got_meta = [n \in Nodes |-> Nodes]
  /\ ready = [n \in Nodes |-> Nodes]
  /\ got_ack = [n \in Nodes |-> {}]
  /\ exported = Nodes
  /\ imports = [n \in Nodes |-> Peers(n)]
  /\ slot = {}
  /\ pool_net = {}
  /\ verified = [n \in Nodes |-> {}]
  /\ early = FALSE

RoundsSpec == RoundsInit /\ [][PoolNext]_poolVars

\* Every guest keeps running and looks at the clock.  A datagram under way
\* arrives, and every pass through a receive loop empties the socket: what a
\* loop comes back to wait for again and again, it receives.
RunFairness ==
  \A n \in Nodes :
    /\ WF_poolVars(Run(n))
    /\ WF_poolVars(TimeoutExpires(n))
    /\ \A p \in Peers(n) :
         SF_poolVars(\E m \in {x \in pool_net : x.dst = n /\ x.src = p} : PoolAccept(n, m))

\* Left to itself, the program is started on every guest.
PoolFairness == RunFairness /\ \A n \in Nodes : WF_poolVars(Start(n))

PoolFairSpec == PoolSpec /\ PoolFairness

FairRoundsSpec == RoundsSpec /\ PoolFairness

-----------------------------------------------------------------------------

\* Every guest of ub_obmm_pool_demo.c is at one of its program points, in a
\* round of do_rounds, and every datagram names two nodes and a round.
PoolTypeOK ==
  /\ pool_pc \in [Nodes -> PCs]
  /\ round \in [Nodes -> 0 .. NodeCount]
  /\ got_meta \in [Nodes -> SUBSET Nodes]
  /\ ready \in [Nodes -> SUBSET Nodes]
  /\ got_ack \in [Nodes -> SUBSET Nodes]
  /\ exported \subseteq Nodes
  /\ imports \in [Nodes -> SUBSET Nodes]
  /\ slot \subseteq Nodes
  /\ pool_net \subseteq PoolMessage
  /\ verified \in [Nodes -> SUBSET Nodes]
  /\ early \in BOOLEAN

\* README.md, obmm: "each node verifies shared visibility before the round
\* advances".  A guest that has left round r knows that every guest, failed
\* since or not, has verified the slot of r.
BarrierHolds ==
  \A n, p \in Nodes : \A r \in Nodes : r < round[n] => r \in verified[p]

\* The turn is exclusive: two guests never own a round at the same time.
SingleOwner ==
  \A n, p \in Nodes : pool_pc[n] = "acks" /\ pool_pc[p] = "acks" => n = p

\* Nobody plays a round before every guest has imported the whole pool,
\* unless that guest has given up since.
RoundsAfterImport ==
  \A n, p \in Nodes :
    pool_pc[n] \in InRounds => imports[p] = Peers(p) \/ pool_pc[p] \in Ended

\* A guest that passes takes its region out of the pool only when no peer is
\* still to read it; a slot under verification is therefore exported unless
\* its owner failed or was killed.  A guest that fails does withdraw its region
\* under its readers (cleanup_slots at the label out), and they find out by
\* their deadline.
ReadsExportedRegion ==
  \A n \in Nodes : pool_pc[n] = "verify" =>
    round[n] \in exported \/ pool_pc[round[n]] \in Gone

\* What a guest that fails or is killed before it has sent a COMMIT of its
\* round means for the others: nobody gets past that round, in particular
\* nobody passes, however many datagrams of it are still under way.
GoneOwnerStops ==
  \A r \in Nodes : pool_pc[r] \in Gone /\ round[r] <= r =>
    \A n \in Nodes : round[n] <= r

\* cleanup_slots is on every way out of main: a guest that ended other than by
\* init's kill holds no region exported or imported.
OnlyKillLeaves ==
  \A n \in Nodes : pool_pc[n] \in {"done", "failed"} => n \notin exported /\ imports[n] = {}

\* A step of guest n neither skips a round nor leaves one whose slot the
\* guest has not verified.
RoundStep(n) ==
  /\ round'[n] \in {round[n], round[n] + 1}
  /\ round'[n] # round[n] => round[n] \in verified[n]
  /\ verified'[n] # verified[n] => verified'[n] = 0 .. round[n]

RoundSteps == \A n \in Nodes : RoundStep(n)

\* Slots are verified in the order of the rounds, none skipped, and a guest
\* never goes back to an earlier round.
InOrder == [][RoundSteps]_poolVars

\* Every guest ends, by passing, by failing or by init's kill.
Termination == \A n \in Nodes : <>(pool_pc[n] \in Ended)

\* Every guest has passed, unless a call failed, a guest was killed, a wait was
\* given up while its datagram could still come, or a datagram was lost, sent
\* to a socket not open yet, or discarded by a loop before the wait it was
\* meant for.
PassedOrEarly == early \/ \A n \in Nodes : pool_pc[n] = "done"

PassUnlessEarly == <>PassedOrEarly

\* main returns on every guest, and with success unless something was early.
EveryNodeEnds == Termination /\ PassUnlessEarly

\* README.md, obmm: every node "completes the round-based pool touch/update
\* barrier".
EveryNodePasses == \A n \in Nodes : pool_pc[n] \notin Gone

=============================================================================
