--------------------------- MODULE ObmmPoolProofs ---------------------------
(***************************************************************************)
(* Proofs about ObmmPool for every number of guests, with datagrams that   *)
(* may be lost, duplicated and reordered, guests that may fail anywhere    *)
(* and timeouts that may strike at any time.                               *)
(***************************************************************************)
EXTENDS ObmmPool, TLAPS

\* The guests that hold an open socket and an exported region.
Up == {"hello", "hello_rx", "import", "ready", "ready_rx", "write", "turn",
       "verify", "commit", "acks"}

\* The guest has imported the whole pool, or is past needing it.
HasPool(p) == imports[p] = Peers(p) \/ pool_pc[p] \in Ended

\* The round counter agrees with the place in main.
RoundInv ==
  \A n \in Nodes :
    /\ pool_pc[n] \in {"down", "hello", "hello_rx", "import", "ready", "ready_rx"} => round[n] = 0
    /\ pool_pc[n] \in {"write", "acks"} => round[n] = n
    /\ pool_pc[n] \in {"turn", "verify", "commit"} => round[n] < NodeCount /\ round[n] # n
    /\ pool_pc[n] = "done" => round[n] = NodeCount

\* A guest has verified the slots of the rounds it has left, and the current
\* one when it waits for ACKs or for a COMMIT.
VerifiedInv ==
  \A n \in Nodes :
    /\ pool_pc[n] \in {"acks", "commit"} => verified[n] = 0 .. round[n]
    /\ pool_pc[n] \notin {"acks", "commit", "failed", "killed"} => verified[n] = 0 .. (round[n] - 1)
    /\ verified[n] \subseteq 0 .. round[n]

\* What a datagram under way says about its sender.
MessageInv ==
  \A m \in pool_net :
    /\ m.type = "READY" => HasPool(m.src)
    /\ m.type = "TURN" => m.src = m.round /\ m.src \in slot
    /\ m.type = "ACK" => m.round \in verified[m.src]
    /\ m.type = "COMMIT" => /\ m.src = m.round
                            /\ m.round < round[m.src]
                            /\ \A p \in Nodes : m.round \in verified[p]

\* The ACKs an owner has counted come from guests that verified its slot.
AckInv ==
  \A n \in Nodes : pool_pc[n] = "acks" => \A p \in got_ack[n] : n \in verified[p]

\* A round is left by its owner first.
OwnerLeavesFirst ==
  \A n, r \in Nodes : r < round[n] => r < round[r]

\* Regions are exported, and slots written, by guests that got that far.
RegionInv ==
  \A n \in Nodes :
    /\ pool_pc[n] \in Up => n \in exported
    /\ n \in exported => pool_pc[n] \in Up \cup {"killed"}
    /\ n \in slot => pool_pc[n] \notin {"down", "hello", "hello_rx", "import", "ready", "ready_rx"}
    /\ pool_pc[n] = "verify" => round[n] \in slot
    /\ pool_pc[n] \in {"down", "done", "failed"} => imports[n] = {}

PoolInv ==
  \A n \in Nodes :
    /\ pool_pc[n] \in {"ready", "ready_rx"} =>
         imports[n] = Peers(n) /\ \A p \in ready[n] : HasPool(p)
    /\ pool_pc[n] \in InRounds => \A p \in Nodes : HasPool(p)

IndInv ==
  /\ PoolTypeOK
  /\ RoundInv
  /\ VerifiedInv
  /\ MessageInv
  /\ AckInv
  /\ OwnerLeavesFirst
  /\ BarrierHolds
  /\ RegionInv
  /\ PoolInv

\* The steps by what they do to a guest that has not ended.
Proceed(n) == Run(n) \/ Start(n)

GiveUp(n) == StartFails(n) \/ ImportFails(n) \/ TimeoutExpires(n)

-----------------------------------------------------------------------------

\* Every step of the program is one of five kinds.
LEMMA Kinds ==
  PoolNext => \/ \E n \in Nodes : Proceed(n)
              \/ \E n \in Nodes : Receive(n)
              \/ \E n \in Nodes : GiveUp(n)
              \/ \E n \in Nodes : Kill(n)
              \/ \E m \in pool_net : Lose(m)
  BY DEF PoolNext, PoolStep, Managed, Proceed, GiveUp

\* Guests are numbered from 0 to NodeCount - 1.
LEMMA NodeFacts ==
  /\ 0 \in Nodes
  /\ \A n \in Nodes : n \in Nat /\ n < NodeCount /\ n \in 0 .. NodeCount
  /\ \A r \in 0 .. NodeCount : /\ r \in Nat
                               /\ (r < NodeCount) <=> (r \in Nodes)
                               /\ (r < NodeCount) <=> (r # NodeCount)
  /\ \A r \in Nodes : r + 1 \in 0 .. NodeCount
  BY PoolAssumption DEF Nodes

\* What a broadcast puts on the network.
LEMMA SendFacts ==
  ASSUME NEW type \in {"HELLO", "READY", "TURN", "ACK", "COMMIT"},
         NEW src \in Nodes, NEW dsts \in SUBSET Nodes, NEW r \in Nodes
  PROVE  /\ Send(type, src, dsts, r) \subseteq PoolMessage
         /\ \A m \in Send(type, src, dsts, r) :
              m.type = type /\ m.src = src /\ m.dst \in dsts /\ m.round = r
  BY DEF Send, PoolMsg, PoolMessage

\* IndInv holds before the guests start.
LEMMA InitIndInv == PoolInit => IndInv
<1> SUFFICES ASSUME PoolInit PROVE IndInv
  OBVIOUS
<1>1. PoolTypeOK
  BY NodeFacts DEF PoolInit, PoolTypeOK, PCs, Waiting, Exchanging
<1>2. RoundInv /\ VerifiedInv /\ MessageInv /\ AckInv
  BY NodeFacts DEF PoolInit, RoundInv, VerifiedInv, MessageInv, AckInv
<1>3. OwnerLeavesFirst /\ BarrierHolds
  BY NodeFacts DEF PoolInit, OwnerLeavesFirst, BarrierHolds
<1>4. RegionInv /\ PoolInv
  BY DEF PoolInit, RegionInv, PoolInv, Up, InRounds
<1> QED
  BY <1>1, <1>2, <1>3, <1>4 DEF IndInv

\* Types and the round counter are preserved by every step.
LEMMA TypeStep == PoolTypeOK /\ RoundInv /\ [PoolNext]_poolVars => PoolTypeOK' /\ RoundInv'
<1> SUFFICES ASSUME PoolTypeOK, RoundInv, [PoolNext]_poolVars PROVE PoolTypeOK' /\ RoundInv'
  OBVIOUS
<1> USE NodeFacts DEF PoolTypeOK, RoundInv, PCs, Waiting, Exchanging, Ended, Gone
<1>1. ASSUME NEW n \in Nodes, Proceed(n) PROVE PoolTypeOK' /\ RoundInv'
  <2>1. CASE Start(n)
    BY <2>1 DEF Start
  <2>2. CASE HelloSend(n)
    <3>1. Send("HELLO", n, Nodes \ got_meta[n], 0) \subseteq PoolMessage
      BY SendFacts
    <3> QED BY <3>1, <2>2 DEF HelloSend
  <2>3. CASE HelloDone(n)
    BY <2>3 DEF HelloDone
  <2>4. CASE ImportAll(n)
    BY <2>4 DEF ImportAll, Peers
  <2>5. CASE ReadySend(n)
    <3>1. Send("READY", n, Nodes \ ready[n], 0) \subseteq PoolMessage
      BY SendFacts
    <3> QED BY <3>1, <2>5 DEF ReadySend
  <2>6. CASE ReadyDone(n)
    BY <2>6 DEF ReadyDone, RoundStart
  <2>7. CASE LoopAgain(n)
    BY <2>7 DEF LoopAgain
  <2>8. CASE OwnerWrite(n)
    <3>1. Send("TURN", n, Peers(n), round[n]) \subseteq PoolMessage
      BY <2>8, SendFacts DEF OwnerWrite, Peers
    <3> QED BY <3>1, <2>8 DEF OwnerWrite
  <2>9. CASE OwnerCommit(n)
    <3>1. Send("COMMIT", n, Peers(n), round[n]) \subseteq PoolMessage
      BY <2>9, SendFacts DEF OwnerCommit, Peers
    <3>2. round[n] \in Nodes
      BY <2>9 DEF OwnerCommit
    <3> QED BY <3>1, <3>2, <2>9 DEF OwnerCommit, LeaveRound, CleanUp, RoundStart
  <2>10. CASE Verify(n)
    <3>1. Send("ACK", n, {round[n]}, round[n]) \subseteq PoolMessage
      BY <2>10, SendFacts DEF Verify
    <3>2. round[n] \in Nodes
      BY <2>10 DEF Verify
    <3> QED BY <3>1, <3>2, <2>10 DEF Verify
  <2> QED
    BY <1>1, <2>1, <2>2, <2>3, <2>4, <2>5, <2>6, <2>7, <2>8, <2>9, <2>10 DEF Proceed, Run
<1>2. ASSUME NEW n \in Nodes, NEW m \in pool_net, m.dst = n, PoolAccept(n, m)
      PROVE  PoolTypeOK' /\ RoundInv'
  <2>0. m.src \in Nodes /\ \A left \in Taken(m) : left \subseteq pool_net
    BY DEF PoolMessage, Taken
  <2>1. CASE RecvHello(n, m)
    BY <2>0, <2>1 DEF RecvHello
  <2>2. CASE RecvReady(n, m)
    BY <2>0, <2>2 DEF RecvReady
  <2>3. CASE RecvTurn(n, m)
    BY <2>0, <2>3 DEF RecvTurn
  <2>4. CASE RecvRoundAck(n, m)
    BY <2>0, <2>4 DEF RecvRoundAck
  <2>5. CASE RecvCommit(n, m)
    <3>1. PICK left \in Taken(m) : LeaveRound(n, left)
      BY <2>5 DEF RecvCommit
    <3>2. round[n] \in Nodes
      BY <2>5 DEF RecvCommit
    <3> QED BY <2>0, <2>5, <3>1, <3>2 DEF RecvCommit, LeaveRound, CleanUp, RoundStart
  <2> QED BY <1>2, <2>1, <2>2, <2>3, <2>4, <2>5 DEF PoolAccept
<1>3. ASSUME NEW n \in Nodes, NEW m \in pool_net, Discard(n, m) PROVE PoolTypeOK' /\ RoundInv'
  BY <1>3 DEF Discard
<1>4. ASSUME NEW n \in Nodes, Fail(n), early' \in BOOLEAN PROVE PoolTypeOK' /\ RoundInv'
  BY <1>4 DEF Fail, CleanUp
<1>5. ASSUME NEW n \in Nodes, GiveUp(n) PROVE PoolTypeOK' /\ RoundInv'
  BY <1>4, <1>5 DEF GiveUp, StartFails, ImportFails, TimeoutExpires
<1>6. ASSUME NEW m \in pool_net, Lose(m) PROVE PoolTypeOK' /\ RoundInv'
  BY <1>6 DEF Lose
<1>7. ASSUME NEW n \in Nodes, Kill(n) PROVE PoolTypeOK' /\ RoundInv'
  <2>1. /\ pool_pc' = [pool_pc EXCEPT ![n] = "killed"]
        /\ exported' \in {exported, exported \ {n}}
        /\ UNCHANGED <<got_meta, ready, got_ack, slot, verified>>
        /\ early' = TRUE
    BY <1>7 DEF Kill
  <2>2. imports' \in [Nodes -> SUBSET Nodes]
    BY <1>7 DEF Kill, Peers
  <2>3. pool_net' \subseteq PoolMessage /\ round' \in [Nodes -> 0 .. NodeCount]
        /\ \A p \in Nodes \ {n} : round'[p] = round[p]
    <3>1. CASE pool_net' \subseteq pool_net /\ UNCHANGED round
      BY <3>1
    <3>2. CASE pool_pc[n] = "acks"
      <4>1. Send("COMMIT", n, Peers(n), round[n]) \subseteq PoolMessage /\ round[n] = n
        BY <3>2, SendFacts DEF Peers
      <4> QED BY <1>7, <4>1 DEF Kill
    <3> QED BY <1>7, <3>1, <3>2 DEF Kill
  <2> QED BY <2>1, <2>2, <2>3
<1>8. CASE UNCHANGED poolVars
  BY <1>8 DEF poolVars
<1> QED
  BY <1>1, <1>2, <1>3, <1>5, <1>6, <1>7, <1>8, Kinds DEF Receive

\* What no step takes back.
LEMMA Monotone ==
  IndInv /\ [PoolNext]_poolVars =>
    \A p \in Nodes : /\ verified[p] \subseteq verified'[p]
                     /\ round[p] <= round'[p]
                     /\ p \in slot => p \in slot'
                     /\ HasPool(p) => HasPool(p)'
<1> SUFFICES ASSUME IndInv, [PoolNext]_poolVars, NEW p \in Nodes
             PROVE  /\ verified[p] \subseteq verified'[p]
                    /\ round[p] <= round'[p]
                    /\ p \in slot => p \in slot'
                    /\ HasPool(p) => HasPool(p)'
  OBVIOUS
<1> USE NodeFacts DEF IndInv, PoolTypeOK, HasPool, Ended, Gone
<1>1. ASSUME NEW n \in Nodes, Start(n) \/ HelloSend(n) \/ HelloDone(n) \/ ImportAll(n)
                              \/ ReadySend(n) \/ ReadyDone(n) \/ LoopAgain(n)
      PROVE  UNCHANGED <<verified, round, slot>> /\ (HasPool(p) => HasPool(p)')
  BY <1>1 DEF Start, HelloSend, HelloDone, ImportAll, ReadySend, ReadyDone, LoopAgain
<1>2. ASSUME NEW n \in Nodes, OwnerWrite(n) \/ Verify(n)
      PROVE  verified[p] \subseteq verified'[p] /\ slot \subseteq slot'
             /\ UNCHANGED round /\ (HasPool(p) => HasPool(p)')
  BY <1>2 DEF OwnerWrite, Verify
<1>3. ASSUME NEW n \in Nodes, NEW wire, pool_pc[n] \in {"acks", "commit"}, LeaveRound(n, wire)
      PROVE  round[p] <= round'[p] /\ (HasPool(p) => HasPool(p)')
  <2>1. round[p] <= round'[p]
    BY <1>3 DEF LeaveRound
  <2>2. CASE RoundStart(n, round[n] + 1) = "done"
    BY <1>3, <2>1, <2>2 DEF LeaveRound, CleanUp
  <2>3. CASE RoundStart(n, round[n] + 1) # "done"
    BY <1>3, <2>1, <2>3 DEF LeaveRound, RoundInv, RoundStart
  <2> QED
    BY <2>2, <2>3
<1>4. ASSUME NEW n \in Nodes, NEW m, RecvHello(n, m) \/ RecvReady(n, m) \/ RecvTurn(n, m)
                                     \/ RecvRoundAck(n, m) \/ Discard(n, m)
      PROVE  UNCHANGED <<verified, round, slot>> /\ (HasPool(p) => HasPool(p)')
  BY <1>4 DEF RecvHello, RecvReady, RecvTurn, RecvRoundAck, Discard
<1>5. ASSUME NEW n \in Nodes, Fail(n)
      PROVE  UNCHANGED <<verified, round, slot>> /\ (HasPool(p) => HasPool(p)')
  BY <1>5 DEF Fail, CleanUp
<1>6. CASE \E n \in Nodes : Proceed(n)
  BY <1>1, <1>2, <1>3, <1>6 DEF Proceed, Run, OwnerCommit
<1>7. CASE \E n \in Nodes : Receive(n)
  BY <1>3, <1>4, <1>7 DEF Receive, PoolAccept, RecvCommit
<1>8. CASE \E n \in Nodes : GiveUp(n)
  BY <1>5, <1>8 DEF GiveUp, StartFails, ImportFails, TimeoutExpires
<1>9. ASSUME NEW n \in Nodes, Kill(n)
      PROVE  UNCHANGED <<verified, slot>> /\ round[p] <= round'[p] /\ (HasPool(p) => HasPool(p)')
  <2>1. round[p] <= round'[p]
    BY <1>9 DEF Kill
  <2>2. p = n => pool_pc'[p] \in Ended
    BY <1>9 DEF Kill, Ended, Gone
  <2>3. p # n => pool_pc'[p] = pool_pc[p] /\ imports'[p] = imports[p]
    BY <1>9 DEF Kill
  <2>4. UNCHANGED <<verified, slot>>
    BY <1>9 DEF Kill
  <2> QED
    BY <2>1, <2>2, <2>3, <2>4
<1>10. CASE (\E m \in pool_net : Lose(m)) \/ UNCHANGED poolVars
  BY <1>10 DEF Lose, poolVars
<1> QED
  BY <1>6, <1>7, <1>8, <1>9, <1>10, Kinds

\* The invariants that speak of the network are preserved.  A datagram that
\* was under way keeps its meaning because nothing it relies on is taken
\* back; a new one is sent where its meaning holds.
LEMMA MessageStep == IndInv /\ [PoolNext]_poolVars => MessageInv'
<1> SUFFICES ASSUME IndInv, [PoolNext]_poolVars PROVE MessageInv'
  OBVIOUS
<1> DEFINE Good(m) ==
      /\ m.type = "READY" => HasPool(m.src)
      /\ m.type = "TURN" => m.src = m.round /\ m.src \in slot
      /\ m.type = "ACK" => m.round \in verified[m.src]
      /\ m.type = "COMMIT" => /\ m.src = m.round
                              /\ m.round < round[m.src]
                              /\ \A p \in Nodes : m.round \in verified[p]
<1>1. \A m \in pool_net : Good(m)'
  <2> SUFFICES ASSUME NEW m \in pool_net PROVE Good(m)'
    OBVIOUS
  <2>1. m.src \in Nodes /\ m.round \in Nodes /\ m \in PoolMessage
    BY DEF IndInv, PoolTypeOK, PoolMessage
  <2>2. PoolTypeOK' /\ PoolTypeOK
    BY TypeStep DEF IndInv
  <2> QED
    BY <2>1, <2>2, Monotone, NodeFacts DEF IndInv, MessageInv, PoolTypeOK
<1>2. SUFFICES ASSUME NEW m \in pool_net', m \notin pool_net PROVE Good(m)'
  BY <1>1 DEF MessageInv
<1> HIDE DEF Good
<1> USE NodeFacts DEF IndInv, PoolTypeOK
<1>3. ASSUME NEW n \in Nodes, Proceed(n) PROVE Good(m)'
  <2>1. CASE HelloSend(n)
    <3>1. m.type = "HELLO"
      BY <2>1, <1>2, SendFacts DEF HelloSend
    <3> QED BY <3>1 DEF Good
  <2>2. CASE ReadySend(n)
    <3>1. m.type = "READY" /\ m.src = n
      BY <2>2, <1>2, SendFacts DEF ReadySend
    <3>2. HasPool(n)'
      BY <2>2 DEF ReadySend, PoolInv, HasPool
    <3> QED BY <3>1, <3>2 DEF Good
  <2>3. CASE OwnerWrite(n)
    <3>1. m.type = "TURN" /\ m.src = n /\ m.round = round[n]
      BY <2>3, <1>2, SendFacts DEF OwnerWrite, RoundInv, Peers
    <3> QED BY <2>3, <3>1 DEF OwnerWrite, Good, RoundInv
  <2>4. CASE Verify(n)
    <3>1. m.type = "ACK" /\ m.src = n /\ m.round = round[n]
      BY <2>4, <1>2, SendFacts DEF Verify
    <3> QED BY <2>4, <3>1 DEF Verify, Good
  <2>5. CASE OwnerCommit(n)
    <3>1. m.type = "COMMIT" /\ m.src = n /\ m.round = n /\ round[n] = n
      BY <2>5, <1>2, SendFacts DEF OwnerCommit, LeaveRound, RoundInv, Peers
    <3>2. \A p \in Nodes : n \in verified[p]
      BY <2>5 DEF OwnerCommit, AckInv, VerifiedInv, RoundInv, Peers
    <3> QED BY <2>5, <3>1, <3>2 DEF OwnerCommit, LeaveRound, Good
  <2>6. CASE Start(n) \/ HelloDone(n) \/ ImportAll(n) \/ ReadyDone(n) \/ LoopAgain(n)
    BY <2>6, <1>2 DEF Start, HelloDone, ImportAll, ReadyDone, LoopAgain
  <2> QED
    BY <1>3, <2>1, <2>2, <2>3, <2>4, <2>5, <2>6 DEF Proceed, Run
<1>4. ASSUME NEW n \in Nodes, Receive(n) PROVE FALSE
  BY <1>2, <1>4 DEF Receive, PoolAccept, RecvHello, RecvReady, RecvTurn, RecvRoundAck, RecvCommit,
                    Discard, LeaveRound, Taken
<1>5. ASSUME NEW n \in Nodes, GiveUp(n) PROVE FALSE
  BY <1>2, <1>5 DEF GiveUp, StartFails, ImportFails, TimeoutExpires, Fail
<1>6. ASSUME NEW n \in Nodes, Kill(n) PROVE Good(m)'
  <2>1. /\ pool_pc[n] = "acks" /\ got_ack[n] = Peers(n)
        /\ round' = [round EXCEPT ![n] = @ + 1]
        /\ m \in Send("COMMIT", n, Peers(n), round[n])
    BY <1>2, <1>6 DEF Kill
  <2>2. m.type = "COMMIT" /\ m.src = n /\ m.round = n /\ round[n] = n
    BY <2>1, SendFacts DEF RoundInv, Peers
  <2>3. \A p \in Nodes : n \in verified[p]
    BY <2>1, <2>2 DEF AckInv, VerifiedInv, Peers
  <2> QED BY <1>6, <2>1, <2>2, <2>3 DEF Kill, Good
<1>7. CASE (\E x \in pool_net : Lose(x)) \/ UNCHANGED poolVars
  BY <1>2, <1>7 DEF Lose, poolVars
<1> QED
  BY <1>3, <1>4, <1>5, <1>6, <1>7, Kinds

\* A guest's verified slots follow its round counter.
LEMMA VerifiedStep == IndInv /\ [PoolNext]_poolVars => VerifiedInv'
<1> SUFFICES ASSUME IndInv, [PoolNext]_poolVars PROVE VerifiedInv'
  OBVIOUS
<1> USE NodeFacts DEF IndInv, PoolTypeOK
<1>0. ASSUME UNCHANGED <<round, verified>>, NEW n \in Nodes,
             pool_pc' = [pool_pc EXCEPT ![n] = pool_pc'[n]],
             pool_pc[n] \notin {"acks", "commit", "failed", "killed"},
             pool_pc'[n] \notin {"acks", "commit"}
      PROVE  VerifiedInv'
  BY <1>0 DEF VerifiedInv
<1>1. ASSUME NEW n \in Nodes, Start(n) \/ HelloSend(n) \/ HelloDone(n) \/ LoopAgain(n)
                              \/ ImportAll(n) \/ ReadySend(n) \/ ReadyDone(n)
      PROVE  VerifiedInv'
  <2>1. CASE ReadyDone(n)
    BY <1>0, <2>1 DEF ReadyDone, RoundStart
  <2>2. CASE ~ReadyDone(n)
    BY <1>0, <1>1, <2>2 DEF Start, HelloSend, HelloDone, LoopAgain, ImportAll, ReadySend
  <2> QED BY <2>1, <2>2
<1>2. ASSUME NEW n \in Nodes, NEW k \in Nodes, round[n] = k,
             pool_pc[n] \in {"write", "verify"}, pool_pc' = [pool_pc EXCEPT ![n] = pool_pc'[n]],
             pool_pc'[n] \in {"acks", "commit"}, UNCHANGED round,
             verified' = [verified EXCEPT ![n] = @ \cup {k}]
      PROVE  VerifiedInv'
  <2>1. verified[n] = 0 .. (k - 1) /\ k \in Nat
    BY <1>2 DEF VerifiedInv
  <2>2. verified'[n] = 0 .. k
    BY <1>2, <2>1
  <2>3. \A p \in Nodes \ {n} : /\ pool_pc'[p] = pool_pc[p]
                               /\ verified'[p] = verified[p] /\ round'[p] = round[p]
    BY <1>2
  <2>4. /\ pool_pc'[n] \in {"acks", "commit"}
        /\ round'[n] = k
    BY <1>2
  <2> QED
    BY <2>2, <2>3, <2>4 DEF VerifiedInv
<1>3. ASSUME NEW n \in Nodes, NEW wire, pool_pc[n] \in {"acks", "commit"}, LeaveRound(n, wire),
             UNCHANGED verified
      PROVE  VerifiedInv'
  <2>1. /\ round' = [round EXCEPT ![n] = round[n] + 1]
        /\ pool_pc' = [pool_pc EXCEPT ![n] = RoundStart(n, round[n] + 1)]
    BY <1>3 DEF LeaveRound
  <2>2. RoundStart(n, round[n] + 1) \notin {"acks", "commit"}
    BY DEF RoundStart
  <2>3. verified[n] = 0 .. round[n]
    BY <1>3 DEF VerifiedInv
  <2>4. round'[n] = round[n] + 1 /\ round[n] \in Nat
    BY <2>1
  <2>5. verified'[n] = 0 .. (round'[n] - 1) /\ verified'[n] \subseteq 0 .. round'[n]
    BY <1>3, <2>3, <2>4
  <2> QED
    BY <1>3, <2>1, <2>2, <2>5 DEF VerifiedInv
<1>4. ASSUME NEW n \in Nodes, NEW m, RecvHello(n, m) \/ RecvReady(n, m) \/ RecvTurn(n, m)
                                     \/ RecvRoundAck(n, m) \/ Discard(n, m)
      PROVE  VerifiedInv'
  BY <1>4 DEF RecvHello, RecvReady, RecvTurn, RecvRoundAck, Discard, VerifiedInv
<1>5. ASSUME NEW n \in Nodes, Fail(n) PROVE VerifiedInv'
  BY <1>5 DEF Fail, VerifiedInv
<1>6. ASSUME NEW n \in Nodes, OwnerWrite(n) \/ Verify(n) PROVE VerifiedInv'
  BY <1>2, <1>6 DEF OwnerWrite, Verify, RoundInv
<1>7. CASE \E n \in Nodes : Proceed(n)
  BY <1>1, <1>3, <1>6, <1>7 DEF Proceed, Run, OwnerCommit
<1>8. CASE \E n \in Nodes : Receive(n)
  BY <1>3, <1>4, <1>8 DEF Receive, PoolAccept, RecvCommit
<1>9. CASE \E n \in Nodes : GiveUp(n)
  BY <1>5, <1>9 DEF GiveUp, StartFails, ImportFails, TimeoutExpires
<1>10. ASSUME NEW n \in Nodes, Kill(n) PROVE VerifiedInv'
  <2>1. /\ pool_pc' = [pool_pc EXCEPT ![n] = "killed"]
        /\ round' = round \/ round' = [round EXCEPT ![n] = @ + 1]
        /\ UNCHANGED verified
    BY <1>10 DEF Kill
  <2>2. verified'[n] \subseteq 0 .. round'[n]
    BY <2>1 DEF VerifiedInv
  <2> QED
    BY <2>1, <2>2 DEF VerifiedInv
<1>11. CASE (\E m \in pool_net : Lose(m)) \/ UNCHANGED poolVars
  BY <1>11 DEF Lose, poolVars, VerifiedInv
<1> QED
  BY <1>7, <1>8, <1>9, <1>10, <1>11, Kinds

\* An owner counts an ACK only for its own round, and the sender had verified
\* the slot of that round.
LEMMA AckStep == IndInv /\ [PoolNext]_poolVars => AckInv'
<1> SUFFICES ASSUME IndInv, [PoolNext]_poolVars PROVE AckInv'
  OBVIOUS
<1>0. \A p \in Nodes : verified[p] \subseteq verified'[p]
  BY Monotone
<1> USE <1>0 DEF IndInv, PoolTypeOK
<1>1. ASSUME UNCHANGED got_ack, \A n \in Nodes : pool_pc'[n] = "acks" => pool_pc[n] = "acks"
      PROVE  AckInv'
  BY <1>1 DEF AckInv
<1>2. CASE \E n \in Nodes : Proceed(n)
  <2> PICK n \in Nodes : Proceed(n)
    BY <1>2
  <2>1. CASE OwnerWrite(n)
    BY <2>1 DEF OwnerWrite, AckInv
  <2>2. CASE ~OwnerWrite(n)
    BY <1>1, <2>2 DEF Proceed, Run, Start, HelloSend, HelloDone, LoopAgain, ImportAll, ReadySend,
                 ReadyDone, OwnerCommit, LeaveRound, RoundStart, Verify
  <2> QED BY <2>1, <2>2
<1>3. CASE \E n \in Nodes : Receive(n)
  <2> PICK n \in Nodes, m \in pool_net : m.dst = n /\ (PoolAccept(n, m) \/ Discard(n, m))
    BY <1>3 DEF Receive
  <2>1. CASE RecvRoundAck(n, m)
    <3>1. round[n] = n /\ m.type = "ACK" /\ m.round = n /\ m.src \in Nodes
      BY <2>1 DEF RecvRoundAck, Wanted, RoundInv, PoolMessage
    <3>2. n \in verified[m.src]
      BY <3>1 DEF MessageInv
    <3> QED BY <2>1, <3>1, <3>2 DEF RecvRoundAck, AckInv
  <2>2. CASE ~RecvRoundAck(n, m)
    BY <1>1, <2>2 DEF PoolAccept, RecvHello, RecvReady, RecvTurn, RecvCommit, LeaveRound,
                      RoundStart, Discard
  <2> QED BY <2>1, <2>2
<1>4. CASE \E n \in Nodes : GiveUp(n)
  BY <1>1, <1>4 DEF GiveUp, StartFails, ImportFails, TimeoutExpires, Fail
<1>5. CASE \E n \in Nodes : Kill(n)
  BY <1>1, <1>5 DEF Kill
<1>6. CASE (\E m \in pool_net : Lose(m)) \/ UNCHANGED poolVars
  BY <1>1, <1>6 DEF Lose, poolVars
<1> QED
  BY <1>2, <1>3, <1>4, <1>5, <1>6, Kinds

\* A guest verifies a slot only when its owner has sent the TURN for it.
LEMMA RegionStep == IndInv /\ [PoolNext]_poolVars => RegionInv'
<1> SUFFICES ASSUME IndInv, [PoolNext]_poolVars PROVE RegionInv'
  OBVIOUS
<1> USE DEF IndInv, PoolTypeOK, RegionInv, Up
<1>1. ASSUME NEW n \in Nodes, Start(n) \/ HelloSend(n) \/ HelloDone(n) \/ LoopAgain(n)
                              \/ ImportAll(n) \/ ReadySend(n)
      PROVE  RegionInv'
  BY <1>1 DEF Start, HelloSend, HelloDone, LoopAgain, ImportAll, ReadySend
<1>2. ASSUME NEW n \in Nodes, ReadyDone(n) PROVE RegionInv'
  BY <1>2, NodeFacts DEF ReadyDone, RoundStart
<1>3. ASSUME NEW n \in Nodes, OwnerWrite(n) \/ Verify(n) PROVE RegionInv'
  BY <1>3 DEF OwnerWrite, Verify
<1>4. ASSUME NEW n \in Nodes, NEW wire, pool_pc[n] \in {"acks", "commit"}, LeaveRound(n, wire),
             UNCHANGED slot
      PROVE  RegionInv'
  <2>1. CASE RoundStart(n, round[n] + 1) = "done"
    BY <1>4, <2>1 DEF LeaveRound, CleanUp
  <2>2. CASE RoundStart(n, round[n] + 1) # "done"
    BY <1>4, <2>2 DEF LeaveRound, RoundStart
  <2> QED
    BY <2>1, <2>2
<1>5. ASSUME NEW n \in Nodes, NEW m \in pool_net, RecvTurn(n, m) PROVE RegionInv'
  <2>1. round[n] \in slot
    BY <1>5 DEF RecvTurn, Wanted, PoolMsg, MessageInv
  <2> QED
    BY <1>5, <2>1 DEF RecvTurn
<1>6. ASSUME NEW n \in Nodes, NEW m, RecvHello(n, m) \/ RecvReady(n, m) \/ RecvRoundAck(n, m)
                                     \/ Discard(n, m)
      PROVE  RegionInv'
  BY <1>6 DEF RecvHello, RecvReady, RecvRoundAck, Discard
<1>7. ASSUME NEW n \in Nodes, Fail(n) PROVE RegionInv'
  BY <1>7 DEF Fail, CleanUp
<1>8. CASE \E n \in Nodes : Proceed(n)
  BY <1>1, <1>2, <1>3, <1>4, <1>8 DEF Proceed, Run, OwnerCommit
<1>9. CASE \E n \in Nodes : Receive(n)
  BY <1>4, <1>5, <1>6, <1>9 DEF Receive, PoolAccept, RecvCommit
<1>10. CASE \E n \in Nodes : GiveUp(n)
  BY <1>7, <1>10 DEF GiveUp, StartFails, ImportFails, TimeoutExpires
<1>11. ASSUME NEW n \in Nodes, Kill(n) PROVE RegionInv'
  <2>1. \A p \in Nodes \ {n} : /\ pool_pc'[p] = pool_pc[p] /\ imports'[p] = imports[p]
                               /\ round'[p] = round[p]
                               /\ p \in exported' <=> p \in exported
    BY <1>11 DEF Kill
  <2>2. pool_pc'[n] = "killed" /\ slot' = slot
    BY <1>11 DEF Kill
  <2>3. n \in slot => pool_pc[n] \notin {"down", "hello", "hello_rx", "import", "ready", "ready_rx"}
    OBVIOUS
  <2> QED
    BY <2>1, <2>2, <2>3
<1>12. CASE (\E m \in pool_net : Lose(m)) \/ UNCHANGED poolVars
  BY <1>12 DEF Lose, poolVars
<1> QED
  BY <1>8, <1>9, <1>10, <1>11, <1>12, Kinds

\* The READY barrier: who has everybody's READY knows that all have the pool.
LEMMA PoolInvStep == IndInv /\ [PoolNext]_poolVars => PoolInv'
<1> SUFFICES ASSUME IndInv, [PoolNext]_poolVars PROVE PoolInv'
  OBVIOUS
<1>0. \A p \in Nodes : HasPool(p) => HasPool(p)'
  BY Monotone
<1> USE <1>0 DEF IndInv, PoolTypeOK, InRounds
<1> DEFINE Exch == {"ready", "ready_rx"}
<1>1. ASSUME UNCHANGED ready,
             \A p \in Nodes : /\ pool_pc'[p] \in Exch =>
                                   pool_pc[p] \in Exch /\ imports'[p] = imports[p]
                              /\ pool_pc'[p] \in InRounds => pool_pc[p] \in InRounds
      PROVE  PoolInv'
  BY <1>1 DEF PoolInv
<1>2. CASE \E n \in Nodes : Proceed(n)
  <2> PICK n \in Nodes : Proceed(n)
    BY <1>2
  <2>1. CASE ImportAll(n)
    <3>1. HasPool(n)'
      BY <2>1 DEF ImportAll, HasPool
    <3> QED BY <2>1, <3>1 DEF ImportAll, PoolInv
  <2>2. CASE ReadyDone(n)
    <3>1. \A p \in Nodes : HasPool(p)
      BY <2>2 DEF ReadyDone, PoolInv
    <3> QED BY <2>2, <3>1 DEF ReadyDone, RoundStart, PoolInv
  <2>3. CASE OwnerCommit(n)
    BY <1>1, <2>3 DEF OwnerCommit, LeaveRound, RoundStart, CleanUp
  <2>4. CASE Start(n) \/ HelloSend(n) \/ HelloDone(n) \/ LoopAgain(n) \/ ReadySend(n)
             \/ OwnerWrite(n) \/ Verify(n)
    BY <1>1, <2>4 DEF Start, HelloSend, HelloDone, LoopAgain, ReadySend, OwnerWrite, Verify
  <2> QED BY <2>1, <2>2, <2>3, <2>4 DEF Proceed, Run
<1>3. CASE \E n \in Nodes : Receive(n)
  <2> PICK n \in Nodes, m \in pool_net : m.dst = n /\ (PoolAccept(n, m) \/ Discard(n, m))
    BY <1>3 DEF Receive
  <2>1. CASE RecvReady(n, m)
    <3>1. m.src \in Nodes /\ HasPool(m.src)
      BY <2>1 DEF RecvReady, Wanted, MessageInv, PoolMessage
    <3> QED BY <2>1, <3>1 DEF RecvReady, PoolInv
  <2>2. CASE RecvCommit(n, m)
    BY <1>1, <2>2 DEF RecvCommit, LeaveRound, RoundStart, CleanUp
  <2>3. CASE RecvHello(n, m) \/ RecvTurn(n, m) \/ RecvRoundAck(n, m) \/ Discard(n, m)
    BY <1>1, <2>3 DEF RecvHello, RecvTurn, RecvRoundAck, Discard
  <2> QED BY <2>1, <2>2, <2>3 DEF PoolAccept
<1>4. CASE \E n \in Nodes : GiveUp(n)
  BY <1>1, <1>4 DEF GiveUp, StartFails, ImportFails, TimeoutExpires, Fail, CleanUp
<1>5. CASE \E n \in Nodes : Kill(n)
  BY <1>1, <1>5 DEF Kill
<1>6. CASE (\E m \in pool_net : Lose(m)) \/ UNCHANGED poolVars
  BY <1>1, <1>6 DEF Lose, poolVars
<1> QED
  BY <1>2, <1>3, <1>4, <1>5, <1>6, Kinds

\* The barrier itself: a guest leaves a round either as its owner, with the
\* ACKs of all, or on a COMMIT, which its owner sent with the ACKs of all.
LEMMA BarrierStep == IndInv /\ [PoolNext]_poolVars => OwnerLeavesFirst' /\ BarrierHolds'
<1> SUFFICES ASSUME IndInv, [PoolNext]_poolVars PROVE OwnerLeavesFirst' /\ BarrierHolds'
  OBVIOUS
<1> USE NodeFacts DEF IndInv, PoolTypeOK
<1>0. PoolTypeOK' /\ \A p \in Nodes : verified[p] \subseteq verified'[p] /\ round[p] <= round'[p]
  BY TypeStep, Monotone
<1>1. CASE UNCHANGED round
  BY <1>0, <1>1 DEF OwnerLeavesFirst, BarrierHolds
<1>2. ASSUME NEW n \in Nodes, round[n] \in Nodes,
             round' = [round EXCEPT ![n] = round[n] + 1],
             round[n] < round'[round[n]],
             \A p \in Nodes : round[n] \in verified[p]
      PROVE  OwnerLeavesFirst' /\ BarrierHolds'
  <2>1. /\ \A p \in Nodes \ {n} : round'[p] = round[p]
        /\ round'[n] = round[n] + 1
    BY <1>2
  <2>2. \A p, r \in Nodes : r < round'[p] => r < round[p] \/ r = round[n]
    BY <2>1
  <2>3. \A r \in Nodes : r < round[r] => r < round'[r]
    BY <2>1
  <2>4. OwnerLeavesFirst'
    BY <1>2, <2>2, <2>3 DEF OwnerLeavesFirst
  <2>5. BarrierHolds'
    BY <1>0, <1>2, <2>2 DEF BarrierHolds
  <2> QED
    BY <2>4, <2>5
<1>3. ASSUME NEW n \in Nodes, OwnerCommit(n)
      PROVE  OwnerLeavesFirst' /\ BarrierHolds'
  <2>1. round[n] = n /\ \A p \in Nodes : n \in verified[p]
    BY <1>3 DEF OwnerCommit, RoundInv, AckInv, VerifiedInv, Peers
  <2>2. round' = [round EXCEPT ![n] = round[n] + 1]
    BY <1>3 DEF OwnerCommit, LeaveRound
  <2>3. round[n] < round'[round[n]]
    BY <2>1, <2>2
  <2> QED
    BY <1>2, <2>1, <2>2, <2>3
<1>4. ASSUME NEW n \in Nodes, NEW m \in pool_net, RecvCommit(n, m)
      PROVE  OwnerLeavesFirst' /\ BarrierHolds'
  <2>1. /\ round[n] \in Nodes /\ round[n] # n
        /\ round[n] < round[round[n]]
        /\ \A p \in Nodes : round[n] \in verified[p]
    BY <1>4 DEF RecvCommit, Wanted, PoolMsg, RoundInv, MessageInv
  <2>2. round' = [round EXCEPT ![n] = round[n] + 1]
    BY <1>4 DEF RecvCommit, LeaveRound
  <2>3. round[n] < round'[round[n]]
    BY <2>1, <2>2
  <2> QED
    BY <1>2, <2>1, <2>2, <2>3
<1>5. CASE \E n \in Nodes : Proceed(n)
  BY <1>1, <1>3, <1>5 DEF Proceed, Run, Start, HelloSend, HelloDone, ImportAll, ReadySend, ReadyDone,
                          LoopAgain, OwnerWrite, Verify
<1>6. CASE \E n \in Nodes : Receive(n)
  BY <1>1, <1>4, <1>6 DEF Receive, PoolAccept, RecvHello, RecvReady, RecvTurn, RecvRoundAck, Discard
<1>7. CASE \E n \in Nodes : GiveUp(n)
  BY <1>1, <1>7 DEF GiveUp, StartFails, ImportFails, TimeoutExpires, Fail
<1>8. ASSUME NEW n \in Nodes, Kill(n)
      PROVE  OwnerLeavesFirst' /\ BarrierHolds'
  <2>1. CASE pool_pc[n] = "acks" /\ got_ack[n] = Peers(n) /\ round' = [round EXCEPT ![n] = @ + 1]
    <3>1. round[n] = n /\ \A p \in Nodes : n \in verified[p]
      BY <2>1 DEF RoundInv, AckInv, VerifiedInv, Peers
    <3>2. round' = [round EXCEPT ![n] = round[n] + 1]
      BY <2>1
    <3>3. round[n] < round'[round[n]]
      BY <3>1, <3>2
    <3> QED
      BY <1>2, <3>1, <3>2, <3>3
  <2> QED
    BY <1>1, <1>8, <2>1 DEF Kill
<1>9. CASE (\E m \in pool_net : Lose(m)) \/ UNCHANGED poolVars
  BY <1>1, <1>9 DEF Lose, poolVars
<1> QED
  BY <1>5, <1>6, <1>7, <1>8, <1>9, Kinds

\* Every step of the program, and every start, kill and failure, preserves the
\* inductive invariant.
LEMMA PoolNextKeepsInv == IndInv /\ [PoolNext]_poolVars => IndInv'
  BY TypeStep, MessageStep, VerifiedStep, AckStep, RegionStep, PoolInvStep, BarrierStep DEF IndInv

\* The inductive invariant holds in every reachable state.
THEOREM PoolInvariant == PoolSpec => []IndInv
  BY InitIndInv, PoolNextKeepsInv, PTL DEF PoolSpec

\* Two guests never own a round at the same time: the later owner would have
\* left the earlier owner's round, which that owner leaves first.
LEMMA OneOwner == IndInv => SingleOwner
<1> SUFFICES ASSUME IndInv, NEW n \in Nodes, NEW p \in Nodes,
                    pool_pc[n] = "acks", pool_pc[p] = "acks"
             PROVE  n = p
  BY DEF SingleOwner
<1>1. round[n] = n /\ round[p] = p
  BY DEF IndInv, RoundInv
<1>2. ~(n < p) /\ ~(p < n)
  BY <1>1, NodeFacts DEF IndInv, OwnerLeavesFirst
<1>3. n \in Nat /\ p \in Nat
  BY NodeFacts
<1> QED
  BY <1>2, <1>3

\* The READY barrier keeps the rounds behind the imports.
LEMMA ImportsFirst == IndInv => RoundsAfterImport
  BY DEF IndInv, RoundsAfterImport, PoolInv, HasPool

\* The slot that a guest is verifying is in a region its owner has not
\* withdrawn, or the owner failed or was killed: an owner that passed has the
\* guest's ACK already.
LEMMA ReadsExported == IndInv => ReadsExportedRegion
<1> SUFFICES ASSUME IndInv, NEW n \in Nodes, pool_pc[n] = "verify", round[n] \notin exported
             PROVE  pool_pc[round[n]] \in Gone
  BY DEF ReadsExportedRegion
<1> DEFINE r == round[n]
<1>0. r \in Nodes /\ r \in slot
  BY NodeFacts DEF IndInv, PoolTypeOK, RoundInv, RegionInv
<1>1. r \notin verified[n]
  <2>1. verified[n] = 0 .. (r - 1)
    BY DEF IndInv, VerifiedInv
  <2>2. r \in Nat
    BY <1>0, NodeFacts
  <2> HIDE DEF r
  <2> QED BY <2>1, <2>2
<1>2. pool_pc[r] \in Ended
  BY <1>0 DEF IndInv, PoolTypeOK, RegionInv, Up, PCs, Waiting, Exchanging, Ended, Gone
<1>3. pool_pc[r] # "done"
  BY <1>0, <1>1, NodeFacts DEF IndInv, RoundInv, BarrierHolds
<1> QED
  BY <1>2, <1>3 DEF Ended

\* A round whose owner is gone before it sent a COMMIT is never left: whoever
\* left it did so after the owner.
LEMMA NobodyPastGone == IndInv => GoneOwnerStops
  BY NodeFacts DEF IndInv, PoolTypeOK, OwnerLeavesFirst, GoneOwnerStops

\* A guest that returned from main holds nothing of the pool.
LEMMA EndedHoldNothing == IndInv => OnlyKillLeaves
  BY DEF IndInv, RegionInv, OnlyKillLeaves, Up

\* Type correctness of the pool program's model.
THEOREM PoolTypesHold == PoolSpec => []PoolTypeOK
<1>1. IndInv => PoolTypeOK
  BY DEF IndInv
<1> QED
  BY PoolInvariant, <1>1, PTL

\* "each node verifies shared visibility before the round advances": for any
\* number of guests and any loss, duplication, reordering, failure and kill.
THEOREM BarrierCorrect == PoolSpec => []BarrierHolds
<1>1. IndInv => BarrierHolds
  BY DEF IndInv
<1> QED
  BY PoolInvariant, <1>1, PTL

\* The turn is exclusive: one guest at a time writes its slot and waits for ACKs.
THEOREM TurnIsExclusive == PoolSpec => []SingleOwner
  BY PoolInvariant, OneOwner, PTL

\* Nobody plays a round before every guest has imported the pool.
THEOREM PoolBeforeRounds == PoolSpec => []RoundsAfterImport
  BY PoolInvariant, ImportsFirst, PTL

\* A slot is verified through a region that is still exported, unless its
\* owner failed or was killed.
THEOREM ReadsAreSafe == PoolSpec => []ReadsExportedRegion
  BY PoolInvariant, ReadsExported, PTL

\* When a guest fails or is killed before the COMMIT of its round, nobody gets
\* past that round, whatever is still under way.
THEOREM GoneOwnerIsNoticed == PoolSpec => []GoneOwnerStops
  BY PoolInvariant, NobodyPastGone, PTL

\* do_rounds goes through the rounds in order: no step of any guest skips a
\* round, goes back, or leaves a round whose slot it has not verified.
THEOREM RoundsInOrder == PoolSpec => InOrder
<1>1. ASSUME IndInv, PoolNext PROVE \A p \in Nodes : RoundStep(p)
  <2> SUFFICES ASSUME NEW p \in Nodes PROVE RoundStep(p)
    OBVIOUS
  <2> USE <1>1, NodeFacts DEF IndInv, PoolTypeOK
  <2>1. CASE UNCHANGED <<round, verified>>
    BY <2>1 DEF RoundStep
  <2>2. ASSUME NEW n \in Nodes, NEW k \in Nodes, round[n] = k,
               pool_pc[n] \in {"write", "verify"}, UNCHANGED round,
               verified' = [verified EXCEPT ![n] = @ \cup {k}]
        PROVE  RoundStep(p)
    <3>1. verified[n] = 0 .. (k - 1) /\ k \in Nat
      BY <2>2 DEF VerifiedInv
    <3>2. verified'[n] = 0 .. k
      BY <2>2, <3>1
    <3>3. p # n => verified'[p] = verified[p]
      BY <2>2
    <3> QED
      BY <2>2, <3>2, <3>3 DEF RoundStep
  <2>3. ASSUME NEW n \in Nodes, NEW wire, pool_pc[n] \in {"acks", "commit"}, LeaveRound(n, wire),
               UNCHANGED verified
        PROVE  RoundStep(p)
    <3>1. round' = [round EXCEPT ![n] = round[n] + 1]
      BY <2>3 DEF LeaveRound
    <3>2. verified[n] = 0 .. round[n] /\ round[n] \in Nat
      BY <2>3 DEF VerifiedInv
    <3>3. round[n] \in verified[n]
      BY <3>2
    <3> QED
      BY <2>3, <3>1, <3>3 DEF RoundStep
  <2>4. ASSUME NEW n \in Nodes, OwnerWrite(n) \/ Verify(n) PROVE RoundStep(p)
    BY <2>2, <2>4 DEF OwnerWrite, Verify, RoundInv
  <2>5. CASE \E n \in Nodes : Proceed(n)
    BY <2>1, <2>3, <2>4, <2>5 DEF Proceed, Run, Start, HelloSend, HelloDone, ImportAll, ReadySend,
                                  ReadyDone, LoopAgain, OwnerCommit
  <2>6. CASE \E n \in Nodes : Receive(n)
    BY <2>1, <2>3, <2>6 DEF Receive, PoolAccept, RecvHello, RecvReady, RecvTurn, RecvRoundAck,
                            RecvCommit, Discard
  <2>7. CASE \E n \in Nodes : GiveUp(n)
    BY <2>1, <2>7 DEF GiveUp, StartFails, ImportFails, TimeoutExpires, Fail
  <2>8. ASSUME NEW n \in Nodes, Kill(n) PROVE RoundStep(p)
    <3>1. CASE pool_pc[n] = "acks" /\ round' = [round EXCEPT ![n] = @ + 1] /\ UNCHANGED verified
      <4>1. verified[n] = 0 .. round[n] /\ round[n] \in Nat
        BY <3>1 DEF VerifiedInv
      <4>2. round[n] \in verified[n]
        BY <4>1
      <4> QED BY <3>1, <4>2 DEF RoundStep
    <3> QED
      BY <2>1, <2>8, <3>1 DEF Kill
  <2>9. CASE \E m \in pool_net : Lose(m)
    BY <2>1, <2>9 DEF Lose
  <2> QED
    BY <2>5, <2>6, <2>7, <2>8, <2>9, Kinds
<1>2. IndInv /\ [PoolNext]_poolVars => [RoundSteps]_poolVars
  BY <1>1 DEF RoundSteps
<1> QED
  BY PoolInvariant, <1>2, PTL DEF PoolSpec, InOrder
=============================================================================
