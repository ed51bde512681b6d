------------------------ MODULE GuestProgramsProofs -------------------------
(***************************************************************************)
(* Proofs about the two guests as a whole.  First the programs that have   *)
(* no module of proofs of their own: urma_dp.c and init itself.  Then the  *)
(* composition: every step of the guests is, for each program, a step of   *)
(* that program, its end by init's kill, or no step at all, so that the    *)
(* inductive invariant of each program holds whatever the guests run       *)
(* before, after and beside it.                                            *)
(***************************************************************************)
EXTENDS GuestPrograms, GuestPairProofs, ObmmPoolProofs

-----------------------------------------------------------------------------
(* urma_dp.c *)

UrmaPCs == {"down", "probe_tx", "probe_rx", "bench_tx", "drain", "passed", "failed"}

Heard == [rx : Nat, tx : 0 .. bench, done : BOOLEAN]

Packets == [kind : {"probe", "bench", "done"}, value : 0 .. bench]

UrmaTypes ==
  /\ urma_pc \in [UrmaGuests -> UrmaPCs]
  /\ sent \in [UrmaGuests -> Nat] /\ tx_ok \in [UrmaGuests -> Nat]
  /\ inbox \in [UrmaGuests -> Seq(Packets)]
  /\ udp_at \in [UrmaGuests -> Nat] /\ raw_at \in [UrmaGuests -> Nat]
  /\ bench \in Nat
  /\ rawfd \in [UrmaGuests -> BOOLEAN]
  /\ heard \in [UrmaGuests -> Heard]
  /\ urma_disturbed \in BOOLEAN

\* The benchmark packets among the first n of a sequence.
Benched(s, n) == {i \in 1 .. n : s[i].kind = "bench"}

\* What a socket has read arrived, a raw socket that is not there has read
\* nothing, and rx_ok counts no packet that neither socket has read.
UrmaReads(g) ==
  /\ udp_at[g] <= Len(inbox[g]) /\ raw_at[g] <= Len(inbox[g])
  /\ ~rawfd[g] => raw_at[g] = 0
  /\ heard[g].rx <= Cardinality(Benched(inbox[g], udp_at[g]))
                      + Cardinality(Benched(inbox[g], raw_at[g]))

\* tx_ok counts benchmark packets: none before the benchmark, then no more than
\* sends, and no more than there are in it.
UrmaSends(g) ==
  /\ urma_pc[g] \notin {"bench_tx", "drain"} => tx_ok[g] = 0
  /\ urma_pc[g] = "bench_tx" => tx_ok[g] <= sent[g] /\ sent[g] <= bench
  /\ tx_ok[g] <= bench

UrmaInv == UrmaTypes /\ \A g \in UrmaGuests : UrmaReads(g) /\ UrmaSends(g)

\* There are two guests, each the peer of the other.
LEMMA UrmaPeers == \A g \in UrmaGuests : /\ UrmaPeer(g) \in UrmaGuests /\ UrmaPeer(g) # g
                                         /\ \A h \in UrmaGuests : h = g \/ h = UrmaPeer(g)
  BY UrmaAssumption DEF UrmaGuests, UrmaPeer

\* How many benchmark packets have been read, as a socket reads on ...
LEMMA BenchedNext ==
  ASSUME NEW s, NEW n \in Nat
  PROVE  /\ Cardinality(Benched(s, n)) \in Nat
         /\ Cardinality(Benched(s, n + 1)) =
              IF s[n + 1].kind = "bench" THEN Cardinality(Benched(s, n)) + 1
                                         ELSE Cardinality(Benched(s, n))
<1>1. IsFiniteSet(Benched(s, n)) /\ n + 1 \notin Benched(s, n)
  <2>1. IsFiniteSet(1 .. n)
    BY FS_Interval
  <2>2. Benched(s, n) \in SUBSET (1 .. n) /\ n + 1 \notin Benched(s, n)
    BY DEF Benched
  <2> QED BY <2>1, <2>2, FS_Subset
<1>2. CASE s[n + 1].kind = "bench"
  <2>1. Benched(s, n + 1) = Benched(s, n) \cup {n + 1}
    BY <1>2 DEF Benched
  <2> QED BY <1>1, <1>2, <2>1, FS_AddElement, FS_CardinalityType
<1>3. CASE s[n + 1].kind # "bench"
  <2>1. Benched(s, n + 1) = Benched(s, n)
    BY <1>3 DEF Benched
  <2> QED BY <1>1, <1>3, <2>1, FS_CardinalityType
<1> QED BY <1>2, <1>3

\* ... and up to where the sequence ends.
LEMMA BenchedUpTo ==
  ASSUME NEW s, NEW n \in Nat, NEW m \in Nat, n <= m
  PROVE  /\ Cardinality(Benched(s, n)) \in Nat /\ Cardinality(Benched(s, m)) \in Nat
         /\ Cardinality(Benched(s, n)) <= Cardinality(Benched(s, m))
<1>1. IsFiniteSet(Benched(s, m))
  <2>1. IsFiniteSet(1 .. m)
    BY FS_Interval
  <2>2. Benched(s, m) \in SUBSET (1 .. m)
    BY DEF Benched
  <2> QED BY <2>1, <2>2, FS_Subset
<1>2. Benched(s, n) \in SUBSET Benched(s, m)
  BY DEF Benched
<1>3. Cardinality(Benched(s, n)) <= Cardinality(Benched(s, m))
  BY <1>1, <1>2, FS_Subset
<1> QED BY <1>3, BenchedNext

\* Before power-on UrmaInv holds: no packet was sent or read.
LEMMA InitUrmaInv == UrmaInit => UrmaInv
<1> SUFFICES ASSUME UrmaInit PROVE UrmaInv
  OBVIOUS
<1>1. /\ << >> \in Seq(Packets) /\ Len(<< >>) = 0 /\ Nothing \in Heard /\ Nothing.rx = 0
      /\ bench \in Nat
  BY UrmaAssumption, EmptySeq DEF UrmaInit, Nothing, Heard
<1>2. UrmaTypes
  BY <1>1 DEF UrmaInit, UrmaTypes, UrmaPCs
<1>3. ASSUME NEW g \in UrmaGuests PROVE UrmaReads(g)
  BY <1>1, BenchedNext, 0 \in Nat DEF UrmaInit, UrmaReads
<1>4. ASSUME NEW g \in UrmaGuests PROVE UrmaSends(g)
  BY <1>1 DEF UrmaInit, UrmaSends
<1> QED BY <1>2, <1>3, <1>4 DEF UrmaInv

\* What bench_consume_rx makes of a packet.
LEMMA ConsumedRx ==
  ASSUME bench \in Nat, NEW h \in Heard, NEW pkt \in Packets
  PROVE  /\ bench_consume_rx(h, pkt) \in Heard
         /\ bench_consume_rx(h, pkt).rx = IF pkt.kind = "bench" THEN h.rx + 1 ELSE h.rx
<1>1. CASE pkt.kind = "bench"
  BY <1>1 DEF bench_consume_rx, Heard, Packets
<1>2. CASE pkt.kind = "done"
  BY <1>2 DEF bench_consume_rx, Heard, Packets
<1>3. CASE pkt.kind = "probe"
  BY <1>3 DEF bench_consume_rx, Heard, Packets
<1> QED BY <1>1, <1>2, <1>3 DEF Packets

\* try_recv_peer: a packet it finds was not read by that socket before.
LEMMA ConsumeReads ==
  ASSUME UrmaInv, NEW g \in UrmaGuests, Consume(g)
  PROVE  /\ udp_at' \in [UrmaGuests -> Nat] /\ raw_at' \in [UrmaGuests -> Nat]
         /\ \A h \in UrmaGuests : h # g => udp_at'[h] = udp_at[h] /\ raw_at'[h] = raw_at[h]
         /\ udp_at'[g] <= Len(inbox[g]) /\ raw_at'[g] <= Len(inbox[g])
         /\ ~rawfd[g] => raw_at'[g] = 0
         /\ Found(g) => try_recv_peer(g) \in Packets
         /\ Cardinality(Benched(inbox[g], udp_at'[g]))
              + Cardinality(Benched(inbox[g], raw_at'[g]))
            >= heard[g].rx + IF Found(g) /\ try_recv_peer(g).kind = "bench" THEN 1 ELSE 0
<1>1. /\ udp_at[g] \in Nat /\ raw_at[g] \in Nat /\ inbox[g] \in Seq(Packets)
      /\ udp_at[g] <= Len(inbox[g]) /\ raw_at[g] <= Len(inbox[g]) /\ Len(inbox[g]) \in Nat
      /\ ~rawfd[g] => raw_at[g] = 0
      /\ heard[g] \in Heard
      /\ heard[g].rx <= Cardinality(Benched(inbox[g], udp_at[g]))
                          + Cardinality(Benched(inbox[g], raw_at[g]))
  BY LenProperties DEF UrmaInv, UrmaTypes, UrmaReads
<1>2. heard[g].rx \in Nat
  BY <1>1 DEF Heard
<1>3. /\ Cardinality(Benched(inbox[g], udp_at[g])) \in Nat
      /\ Cardinality(Benched(inbox[g], raw_at[g])) \in Nat
  BY <1>1, BenchedNext
<1>4. /\ udp_at' \in [UrmaGuests -> Nat] /\ raw_at' \in [UrmaGuests -> Nat]
      /\ \A h \in UrmaGuests : h # g => udp_at'[h] = udp_at[h] /\ raw_at'[h] = raw_at[h]
      /\ udp_at'[g] = IF FromUdp(g) THEN udp_at[g] + 1 ELSE udp_at[g]
      /\ raw_at'[g] = IF ~FromUdp(g) /\ FromRaw(g) THEN raw_at[g] + 1 ELSE raw_at[g]
  BY DEF Consume, UrmaInv, UrmaTypes
<1>5. CASE FromUdp(g)
  <2>1. udp_at'[g] = udp_at[g] + 1 /\ raw_at'[g] = raw_at[g] /\ Found(g)
        /\ try_recv_peer(g) = inbox[g][udp_at[g] + 1] /\ udp_at[g] + 1 \in 1 .. Len(inbox[g])
    BY <1>1, <1>4, <1>5 DEF Found, try_recv_peer, FromUdp
  <2>2. try_recv_peer(g) \in Packets
    BY <1>1, <2>1, ElementOfSeq
  <2>3. Cardinality(Benched(inbox[g], udp_at'[g])) =
          IF try_recv_peer(g).kind = "bench" THEN Cardinality(Benched(inbox[g], udp_at[g])) + 1
                                             ELSE Cardinality(Benched(inbox[g], udp_at[g]))
    <3>1. Cardinality(Benched(inbox[g], udp_at[g] + 1)) =
            IF inbox[g][udp_at[g] + 1].kind = "bench"
            THEN Cardinality(Benched(inbox[g], udp_at[g])) + 1
            ELSE Cardinality(Benched(inbox[g], udp_at[g]))
      BY <1>1, BenchedNext
    <3> QED BY <2>1, <3>1
  <2> QED BY <1>1, <1>2, <1>3, <1>4, <2>1, <2>2, <2>3
<1>6. CASE ~FromUdp(g) /\ FromRaw(g)
  <2>1. udp_at'[g] = udp_at[g] /\ raw_at'[g] = raw_at[g] + 1 /\ Found(g) /\ rawfd[g]
        /\ try_recv_peer(g) = inbox[g][raw_at[g] + 1] /\ raw_at[g] + 1 \in 1 .. Len(inbox[g])
    BY <1>1, <1>4, <1>6 DEF Found, try_recv_peer, FromRaw
  <2>2. try_recv_peer(g) \in Packets
    BY <1>1, <2>1, ElementOfSeq
  <2>3. Cardinality(Benched(inbox[g], raw_at'[g])) =
          IF try_recv_peer(g).kind = "bench" THEN Cardinality(Benched(inbox[g], raw_at[g])) + 1
                                             ELSE Cardinality(Benched(inbox[g], raw_at[g]))
    <3>1. Cardinality(Benched(inbox[g], raw_at[g] + 1)) =
            IF inbox[g][raw_at[g] + 1].kind = "bench"
            THEN Cardinality(Benched(inbox[g], raw_at[g])) + 1
            ELSE Cardinality(Benched(inbox[g], raw_at[g]))
      BY <1>1, BenchedNext
    <3> QED BY <2>1, <3>1
  <2> QED BY <1>1, <1>2, <1>3, <1>4, <2>1, <2>2, <2>3
<1>7. CASE ~FromUdp(g) /\ ~FromRaw(g)
  BY <1>1, <1>2, <1>3, <1>4, <1>7 DEF Found
<1> QED BY <1>5, <1>6, <1>7

\* A packet that arrives, or is lost unread, changes nothing of what was read.
LEMMA DeliverReads ==
  ASSUME UrmaInv, NEW g \in UrmaGuests, NEW pkt \in Packets, Deliver(g, pkt)
  PROVE  /\ inbox' \in [UrmaGuests -> Seq(Packets)] /\ inbox'[g] = inbox[g]
         /\ \A h \in UrmaGuests :
              /\ Len(inbox'[h]) \in Nat /\ Len(inbox'[h]) >= Len(inbox[h])
              /\ \A n \in Nat : n <= Len(inbox[h]) => Benched(inbox'[h], n) = Benched(inbox[h], n)
<1> DEFINE p == UrmaPeer(g)
<1>1. p \in UrmaGuests /\ p # g /\ \A h \in UrmaGuests : h = g \/ h = p
  BY UrmaPeers
<1>2. /\ \A h \in UrmaGuests : inbox[h] \in Seq(Packets) /\ Len(inbox[h]) \in Nat
      /\ inbox \in [UrmaGuests -> Seq(Packets)]
  BY LenProperties DEF UrmaInv, UrmaTypes
<1>3. inbox' = [inbox EXCEPT ![p] = IF UrmaRunning(p) THEN Append(inbox[p], pkt) ELSE inbox[p]]
  BY DEF Deliver
<1> HIDE DEF p
<1>4. /\ Append(inbox[p], pkt) \in Seq(Packets)
      /\ Len(Append(inbox[p], pkt)) = Len(inbox[p]) + 1
      /\ \A i \in 1 .. Len(inbox[p]) : Append(inbox[p], pkt)[i] = inbox[p][i]
  BY <1>1, <1>2, AppendProperties
<1>5. \A n \in Nat : n <= Len(inbox[p]) => Benched(Append(inbox[p], pkt), n) = Benched(inbox[p], n)
  BY <1>1, <1>2, <1>4 DEF Benched
<1>6. inbox' \in [UrmaGuests -> Seq(Packets)] /\ inbox'[g] = inbox[g]
  BY <1>1, <1>2, <1>3, <1>4
<1>7. inbox'[p] = Append(inbox[p], pkt) \/ inbox'[p] = inbox[p]
  BY <1>1, <1>2, <1>3
<1>8. /\ Len(inbox'[p]) \in Nat /\ Len(inbox'[p]) >= Len(inbox[p])
      /\ \A n \in Nat : n <= Len(inbox[p]) => Benched(inbox'[p], n) = Benched(inbox[p], n)
  <2>1. CASE inbox'[p] = Append(inbox[p], pkt)
    BY <1>1, <1>2, <1>4, <1>5, <2>1
  <2>2. CASE inbox'[p] = inbox[p]
    <3>1. Len(inbox[p]) \in Nat
      BY <1>1, <1>2
    <3> QED BY <2>2, <3>1
  <2> QED BY <1>7, <2>1, <2>2
<1>9. /\ Len(inbox'[g]) \in Nat /\ Len(inbox'[g]) >= Len(inbox[g])
      /\ \A n \in Nat : n <= Len(inbox[g]) => Benched(inbox'[g], n) = Benched(inbox[g], n)
  <2>1. Len(inbox[g]) \in Nat
    BY <1>2
  <2> QED BY <1>6, <2>1
<1>10. ASSUME NEW h \in UrmaGuests
       PROVE  /\ Len(inbox'[h]) \in Nat /\ Len(inbox'[h]) >= Len(inbox[h])
              /\ \A n \in Nat : n <= Len(inbox[h]) =>
                                  Benched(inbox'[h], n) = Benched(inbox[h], n)
  <2>1. CASE h = g
    BY <1>9, <2>1
  <2>2. CASE h = p
    BY <1>8, <2>2
  <2> QED BY <1>1, <2>1, <2>2
<1> QED BY <1>6, <1>10

\* Leaving main forgets what was read.
LEMMA UrmaExitKeepsInv ==
  ASSUME UrmaInv, NEW g \in UrmaGuests, NEW result \in {"passed", "failed"},
         UrmaExit(g, result), urma_disturbed' \in BOOLEAN
  PROVE  UrmaInv'
<1>1. /\ << >> \in Seq(Packets) /\ Len(<< >>) = 0 /\ Nothing \in Heard /\ Nothing.rx = 0
      /\ bench \in Nat /\ bench' = bench
  BY EmptySeq DEF UrmaInv, UrmaTypes, UrmaExit, Nothing, Heard
<1>2. Packets' = Packets /\ Heard' = Heard
  BY <1>1 DEF Packets, Heard
<1>3. UrmaTypes'
  BY <1>1, <1>2 DEF UrmaInv, UrmaTypes, UrmaExit, UrmaGo, UrmaPCs
<1>4. /\ inbox'[g] = << >> /\ udp_at'[g] = 0 /\ raw_at'[g] = 0 /\ heard'[g].rx = 0
      /\ \A h \in UrmaGuests : h # g => /\ inbox'[h] = inbox[h] /\ heard'[h] = heard[h]
                                        /\ udp_at'[h] = udp_at[h] /\ raw_at'[h] = raw_at[h]
      /\ rawfd' = rawfd
  BY <1>1 DEF UrmaInv, UrmaTypes, UrmaExit
<1>5. UrmaReads(g)'
  <2>1. Cardinality(Benched(<< >>, 0)) \in Nat
    BY BenchedNext, 0 \in Nat
  <2> QED BY <1>1, <1>4, <2>1 DEF UrmaReads
<1>6. ASSUME NEW h \in UrmaGuests, h # g PROVE UrmaReads(h)'
  BY <1>4, <1>6 DEF UrmaInv, UrmaReads
<1>7. ASSUME NEW h \in UrmaGuests PROVE UrmaSends(h)'
  BY <1>1 DEF UrmaInv, UrmaTypes, UrmaSends, UrmaExit, UrmaGo
<1> QED BY <1>3, <1>5, <1>6, <1>7 DEF UrmaInv

\* A step of the probe loop, of the benchmark or of the wait for its end: the
\* guest may send a packet, and may read one and count it.
LEMMA UrmaLoopKeepsInv ==
  ASSUME UrmaInv, NEW g \in UrmaGuests, NEW to \in UrmaPCs, NEW count \in Nat,
         UrmaGo(g, to, count),
         UNCHANGED inbox \/ \E pkt \in Packets : Deliver(g, pkt),
         \/ UNCHANGED <<udp_at, raw_at, heard>>
         \/ Consume(g) /\ UNCHANGED heard
         \/ /\ Consume(g)
            /\ heard' = [heard EXCEPT ![g] = IF Found(g)
                                             THEN bench_consume_rx(heard[g], try_recv_peer(g))
                                             ELSE heard[g]],
         UNCHANGED <<bench, rawfd>>, urma_disturbed' \in BOOLEAN,
         \E ok \in Nat : tx_ok' = [tx_ok EXCEPT ![g] = ok], UrmaSends(g)'
  PROVE  UrmaInv'
<1>1. /\ inbox' \in [UrmaGuests -> Seq(Packets)] /\ inbox'[g] = inbox[g]
      /\ \A h \in UrmaGuests :
           /\ Len(inbox[h]) \in Nat /\ Len(inbox'[h]) \in Nat /\ Len(inbox'[h]) >= Len(inbox[h])
           /\ \A n \in Nat : n <= Len(inbox[h]) => Benched(inbox'[h], n) = Benched(inbox[h], n)
  <2>0. inbox \in [UrmaGuests -> Seq(Packets)] /\ \A h \in UrmaGuests : Len(inbox[h]) \in Nat
    BY LenProperties DEF UrmaInv, UrmaTypes
  <2>1. CASE UNCHANGED inbox
    BY <2>0, <2>1
  <2>2. CASE \E pkt \in Packets : Deliver(g, pkt)
    BY <2>0, <2>2, DeliverReads
  <2> QED BY <2>1, <2>2
<1>2. /\ bench \in Nat /\ heard \in [UrmaGuests -> Heard] /\ heard[g] \in Heard
      /\ heard[g].rx \in Nat
      /\ udp_at \in [UrmaGuests -> Nat] /\ raw_at \in [UrmaGuests -> Nat]
      /\ udp_at[g] <= Len(inbox[g]) /\ raw_at[g] <= Len(inbox[g])
      /\ ~rawfd[g] => raw_at[g] = 0
      /\ heard[g].rx <= Cardinality(Benched(inbox[g], udp_at[g]))
                          + Cardinality(Benched(inbox[g], raw_at[g]))
  BY DEF UrmaInv, UrmaTypes, UrmaReads, Heard
<1>3. /\ heard' \in [UrmaGuests -> Heard]
      /\ udp_at' \in [UrmaGuests -> Nat] /\ raw_at' \in [UrmaGuests -> Nat]
      /\ udp_at'[g] <= Len(inbox[g]) /\ raw_at'[g] <= Len(inbox[g])
      /\ ~rawfd[g] => raw_at'[g] = 0
      /\ heard'[g].rx <= Cardinality(Benched(inbox[g], udp_at'[g]))
                           + Cardinality(Benched(inbox[g], raw_at'[g]))
      /\ \A h \in UrmaGuests : h # g => /\ udp_at'[h] = udp_at[h] /\ raw_at'[h] = raw_at[h]
                                        /\ heard'[h] = heard[h]
  <2>1. CASE UNCHANGED <<udp_at, raw_at, heard>>
    BY <1>2, <2>1
  <2>2. CASE Consume(g)
    <3>1. /\ udp_at' \in [UrmaGuests -> Nat] /\ raw_at' \in [UrmaGuests -> Nat]
          /\ \A h \in UrmaGuests : h # g => udp_at'[h] = udp_at[h] /\ raw_at'[h] = raw_at[h]
          /\ udp_at'[g] <= Len(inbox[g]) /\ raw_at'[g] <= Len(inbox[g])
          /\ ~rawfd[g] => raw_at'[g] = 0
          /\ Found(g) => try_recv_peer(g) \in Packets
      BY <2>2, ConsumeReads
    <3> DEFINE read == Cardinality(Benched(inbox[g], udp_at'[g]))
                         + Cardinality(Benched(inbox[g], raw_at'[g]))
    <3>2. read >= heard[g].rx + IF Found(g) /\ try_recv_peer(g).kind = "bench" THEN 1 ELSE 0
      BY <2>2, ConsumeReads
    <3>3. read \in Nat
      BY <3>1, BenchedNext
    <3> HIDE DEF read
    <3>4. CASE UNCHANGED heard
      <4>1. heard'[g].rx <= read
        BY <1>2, <3>2, <3>3, <3>4
      <4> QED BY <1>2, <3>1, <3>4, <4>1 DEF read
    <3>5. CASE heard' = [heard EXCEPT ![g] = IF Found(g)
                                             THEN bench_consume_rx(heard[g], try_recv_peer(g))
                                             ELSE heard[g]]
      <4>1. CASE Found(g)
        <5>1. /\ bench_consume_rx(heard[g], try_recv_peer(g)) \in Heard
              /\ bench_consume_rx(heard[g], try_recv_peer(g)).rx =
                   IF try_recv_peer(g).kind = "bench" THEN heard[g].rx + 1 ELSE heard[g].rx
          BY <1>2, <3>1, <4>1, ConsumedRx
        <5>2. /\ heard' \in [UrmaGuests -> Heard]
              /\ heard'[g] = bench_consume_rx(heard[g], try_recv_peer(g))
              /\ \A h \in UrmaGuests : h # g => heard'[h] = heard[h]
          BY <1>2, <3>5, <4>1, <5>1
        <5>3. heard'[g].rx <= read
          BY <1>2, <3>2, <3>3, <4>1, <5>1, <5>2
        <5> QED BY <3>1, <5>2, <5>3 DEF read
      <4>2. CASE ~Found(g)
        <5>1. heard' \in [UrmaGuests -> Heard] /\ \A h \in UrmaGuests : heard'[h] = heard[h]
          BY <1>2, <3>5, <4>2
        <5>2. heard'[g].rx <= read
          BY <1>2, <3>2, <3>3, <4>2, <5>1
        <5> QED BY <3>1, <5>1, <5>2 DEF read
      <4> QED BY <4>1, <4>2
    <3> QED BY <2>2, <3>4, <3>5
  <2> QED BY <2>1, <2>2
<1>4. Packets' = Packets /\ Heard' = Heard
  BY DEF Packets, Heard
<1>5. UrmaTypes'
  <2>1. tx_ok' \in [UrmaGuests -> Nat]
    BY DEF UrmaInv, UrmaTypes
  <2>2. urma_pc' \in [UrmaGuests -> UrmaPCs] /\ sent' \in [UrmaGuests -> Nat]
    BY DEF UrmaInv, UrmaTypes, UrmaGo
  <2>3. bench' \in Nat /\ rawfd' \in [UrmaGuests -> BOOLEAN] /\ urma_disturbed' \in BOOLEAN
    BY DEF UrmaInv, UrmaTypes
  <2> QED BY <1>1, <1>3, <1>4, <2>1, <2>2, <2>3 DEF UrmaTypes
<1>6. UrmaReads(g)'
  BY <1>1, <1>3 DEF UrmaReads
<1>7. ASSUME NEW h \in UrmaGuests, h # g PROVE UrmaReads(h)'
  <2>1. /\ udp_at[h] \in Nat /\ raw_at[h] \in Nat
        /\ udp_at[h] <= Len(inbox[h]) /\ raw_at[h] <= Len(inbox[h])
        /\ ~rawfd[h] => raw_at[h] = 0
        /\ heard[h].rx <= Cardinality(Benched(inbox[h], udp_at[h]))
                            + Cardinality(Benched(inbox[h], raw_at[h]))
    BY DEF UrmaInv, UrmaTypes, UrmaReads
  <2>2. /\ Benched(inbox'[h], udp_at[h]) = Benched(inbox[h], udp_at[h])
        /\ Benched(inbox'[h], raw_at[h]) = Benched(inbox[h], raw_at[h])
        /\ udp_at[h] <= Len(inbox'[h]) /\ raw_at[h] <= Len(inbox'[h])
    BY <1>1, <2>1
  <2> QED BY <1>3, <1>7, <2>1, <2>2 DEF UrmaReads
<1>8. ASSUME NEW h \in UrmaGuests, h # g PROVE UrmaSends(h)'
  BY <1>8 DEF UrmaInv, UrmaTypes, UrmaSends, UrmaGo
<1> QED BY <1>5, <1>6, <1>7, <1>8 DEF UrmaInv

\* What is lost is the last packet, and no socket has read it.
LEMMA UrmaLoseKeepsInv ==
  ASSUME UrmaInv, NEW g \in UrmaGuests, UrmaLose(g)
  PROVE  UrmaInv'
<1> DEFINE left == SubSeq(inbox[g], 1, Len(inbox[g]) - 1)
<1>1. /\ inbox[g] \in Seq(Packets) /\ Len(inbox[g]) \in Nat /\ inbox[g] # << >>
      /\ udp_at[g] \in Nat /\ raw_at[g] \in Nat
      /\ udp_at[g] <= Len(inbox[g]) - 1 /\ raw_at[g] <= Len(inbox[g]) - 1
  BY LenProperties, EmptySeq DEF UrmaInv, UrmaTypes, UrmaLose
<1>2. /\ left \in Seq(Packets) /\ Len(left) = Len(inbox[g]) - 1
      /\ \A i \in 1 .. Len(inbox[g]) - 1 : left[i] = inbox[g][i]
  BY <1>1, SubSeqProperties
<1> HIDE DEF left
<1>3. /\ inbox' \in [UrmaGuests -> Seq(Packets)] /\ inbox'[g] = left
      /\ \A h \in UrmaGuests : h # g => inbox'[h] = inbox[h]
      /\ UNCHANGED <<urma_pc, sent, tx_ok, udp_at, raw_at, bench, rawfd, heard>>
      /\ urma_disturbed' = TRUE
  BY <1>2 DEF UrmaInv, UrmaTypes, UrmaLose, left
<1>4. Packets' = Packets /\ Heard' = Heard
  BY <1>3 DEF Packets, Heard
<1>5. UrmaTypes'
  BY <1>3, <1>4 DEF UrmaInv, UrmaTypes
<1>6. UrmaReads(g)'
  <2>1. ASSUME NEW n \in Nat, n <= Len(inbox[g]) - 1 PROVE Benched(left, n) = Benched(inbox[g], n)
    <3>1. \A i \in 1 .. n : left[i] = inbox[g][i]
      BY <1>1, <1>2, <2>1
    <3> QED BY <3>1 DEF Benched
  <2> QED BY <1>1, <1>2, <1>3, <2>1 DEF UrmaInv, UrmaReads
<1>7. ASSUME NEW h \in UrmaGuests, h # g PROVE UrmaReads(h)'
  BY <1>3, <1>7 DEF UrmaInv, UrmaReads
<1>8. ASSUME NEW h \in UrmaGuests PROVE UrmaSends(h)'
  BY <1>3 DEF UrmaInv, UrmaSends
<1> QED BY <1>5, <1>6, <1>7, <1>8 DEF UrmaInv

\* A step of urma_dp or of the network keeps UrmaInv.
LEMMA UrmaStepKeepsInv == UrmaInv /\ (UrmaNext \/ UNCHANGED urmaVars) => UrmaInv'
<1> SUFFICES ASSUME UrmaInv, UrmaNext \/ UNCHANGED urmaVars PROVE UrmaInv'
  OBVIOUS
<1>0. /\ bench \in Nat /\ urma_disturbed \in BOOLEAN
      /\ \A g \in UrmaGuests : /\ sent[g] \in Nat /\ urma_pc[g] \in UrmaPCs
                              /\ tx_ok[g] \in Nat /\ tx_ok[g] <= bench
      /\ urma_pc \in [UrmaGuests -> UrmaPCs] /\ sent \in [UrmaGuests -> Nat]
      /\ tx_ok \in [UrmaGuests -> Nat]
  BY DEF UrmaInv, UrmaTypes, UrmaSends
<1>1. \A k \in {"probe", "bench"} : [kind |-> k, value |-> 0] \in Packets
  BY <1>0 DEF Packets
<1>2. ASSUME NEW g \in UrmaGuests PROVE [kind |-> "done", value |-> tx_ok[g]] \in Packets
  BY <1>0 DEF Packets
<1>13. ASSUME NEW g \in UrmaGuests, NEW pkt \in Packets, NEW ok \in SendResults,
             Sendto(g, pkt, ok)
      PROVE  /\ UNCHANGED inbox \/ \E x \in Packets : Deliver(g, x)
             /\ urma_disturbed' \in BOOLEAN
  BY <1>13 DEF Sendto
<1>14. ASSUME NEW g \in UrmaGuests, UNCHANGED tx_ok
      PROVE  \E ok \in Nat : tx_ok' = [tx_ok EXCEPT ![g] = ok]
  <2>1. tx_ok' = [tx_ok EXCEPT ![g] = tx_ok[g]]
    BY <1>0, <1>14
  <2> QED BY <1>0, <2>1
<1>3. ASSUME NEW g \in UrmaGuests, UrmaStart(g) PROVE UrmaInv'
  <2>1. UrmaGo(g, "probe_tx", sent[g]) /\ UNCHANGED tx_ok
    BY <1>0, <1>3 DEF UrmaStart, UrmaGo
  <2>2. UrmaSends(g)'
    BY <1>0, <1>3 DEF UrmaStart, UrmaInv, UrmaSends
  <2>3. \E ok \in Nat : tx_ok' = [tx_ok EXCEPT ![g] = ok]
    BY <1>14, <2>1
  <2> QED BY <1>0, <1>3, <2>1, <2>2, <2>3, UrmaLoopKeepsInv DEF UrmaStart, UrmaPCs
<1>4. ASSUME NEW g \in UrmaGuests, UrmaStartFails(g) \/ UrmaFails(g) PROVE UrmaInv'
  BY <1>4, UrmaExitKeepsInv DEF UrmaStartFails, UrmaFails
<1>5. ASSUME NEW g \in UrmaGuests, ProbeSend(g) PROVE UrmaInv'
  <2>1. /\ UrmaGo(g, "probe_rx", sent[g] + 1) /\ sent[g] + 1 \in Nat /\ "probe_rx" \in UrmaPCs
        /\ UNCHANGED <<udp_at, raw_at, heard, bench, rawfd, tx_ok>>
    BY <1>0, <1>5 DEF ProbeSend, UrmaPCs
  <2>2. PICK ok \in SendResults : Sendto(g, [kind |-> "probe", value |-> 0], ok)
    BY <1>5 DEF ProbeSend
  <2>3. UrmaSends(g)'
    BY <1>0, <1>5, <2>1 DEF ProbeSend, UrmaGo, UrmaInv, UrmaSends
  <2>4. /\ UNCHANGED inbox \/ \E x \in Packets : Deliver(g, x)
        /\ urma_disturbed' \in BOOLEAN
    BY <1>1, <1>13, <2>2
  <2>5. \E n \in Nat : tx_ok' = [tx_ok EXCEPT ![g] = n]
    BY <1>14, <2>1
  <2> QED BY <2>1, <2>3, <2>4, <2>5, UrmaLoopKeepsInv
<1>6. ASSUME NEW g \in UrmaGuests, ProbeRecv(g) PROVE UrmaInv'
  <2>0. urma_disturbed' \in BOOLEAN
    BY <1>6 DEF ProbeRecv
  <2>1. CASE Found(g) /\ bench = 0
    BY <1>6, <2>0, <2>1, UrmaExitKeepsInv DEF ProbeRecv
  <2>2. CASE ~(Found(g) /\ bench = 0)
    <3>1. PICK to \in {"bench_tx", "probe_tx"}, count \in Nat : UrmaGo(g, to, count)
      BY <1>0, <1>6, <2>2 DEF ProbeRecv
    <3>2. Consume(g) /\ UNCHANGED <<tx_ok, inbox, bench, rawfd, heard>>
      BY <1>6, <2>2 DEF ProbeRecv
    <3>3. /\ urma_pc'[g] \in {"bench_tx", "probe_tx"} /\ tx_ok[g] = 0 /\ tx_ok'[g] = 0
          /\ urma_pc'[g] = "bench_tx" => sent'[g] = 0
      BY <1>0, <1>6, <2>2, <3>2 DEF ProbeRecv, UrmaGo, UrmaInv, UrmaSends
    <3>4. UrmaSends(g)'
      BY <1>0, <3>2, <3>3 DEF UrmaSends
    <3>5. \E n \in Nat : tx_ok' = [tx_ok EXCEPT ![g] = n]
      BY <1>14, <3>2
    <3> QED BY <2>0, <3>1, <3>2, <3>4, <3>5, UrmaLoopKeepsInv DEF UrmaPCs
  <2> QED BY <2>1, <2>2
<1>7. ASSUME NEW g \in UrmaGuests, ProbeTimeout(g) \/ BenchTimeout(g) PROVE UrmaInv'
  <2>1. urma_disturbed' \in BOOLEAN
    BY <1>7 DEF ProbeTimeout, BenchTimeout
  <2>2. PICK result \in {"passed", "failed"} : UrmaExit(g, result)
    BY <1>7 DEF ProbeTimeout, BenchTimeout, BenchVerdict
  <2> QED BY <2>1, <2>2, UrmaExitKeepsInv
<1>8. ASSUME NEW g \in UrmaGuests, BenchSend(g) PROVE UrmaInv'
  <2>1. UrmaGo(g, "bench_tx", sent[g] + 1) /\ sent[g] + 1 \in Nat /\ "bench_tx" \in UrmaPCs
    BY <1>0, <1>8 DEF BenchSend, UrmaPCs
  <2>2. /\ Consume(g)
        /\ heard' = [heard EXCEPT ![g] = IF Found(g)
                                         THEN bench_consume_rx(heard[g], try_recv_peer(g))
                                         ELSE heard[g]]
    BY <1>8 DEF BenchSend
  <2>3. PICK ok \in SendResults : /\ Sendto(g, [kind |-> "bench", value |-> 0], ok)
                                  /\ tx_ok' = [tx_ok EXCEPT ![g] = IF ok THEN @ + 1 ELSE @]
    BY <1>8 DEF BenchSend
  <2>4. /\ UNCHANGED inbox \/ \E x \in Packets : Deliver(g, x)
        /\ urma_disturbed' \in BOOLEAN
    BY <1>1, <1>13, <2>3
  <2>5. UNCHANGED <<bench, rawfd>>
    BY <1>8 DEF BenchSend
  <2>6. PICK n \in {tx_ok[g], tx_ok[g] + 1} : tx_ok' = [tx_ok EXCEPT ![g] = n]
    BY <1>0, <2>3
  <2>7. UrmaSends(g)'
    <3>1. /\ urma_pc[g] = "bench_tx" /\ sent[g] < bench /\ tx_ok[g] <= sent[g]
          /\ urma_pc'[g] = "bench_tx" /\ sent'[g] = sent[g] + 1 /\ bench' = bench
      BY <1>0, <1>8, <2>1, <2>5 DEF BenchSend, UrmaGo, UrmaInv, UrmaSends
    <3>2. tx_ok'[g] \in {tx_ok[g], tx_ok[g] + 1}
      BY <1>0, <2>6
    <3> QED BY <1>0, <3>1, <3>2 DEF UrmaSends
  <2>8. n \in Nat
    BY <1>0
  <2> QED BY <2>1, <2>2, <2>4, <2>5, <2>6, <2>7, <2>8, UrmaLoopKeepsInv
<1>9. ASSUME NEW g \in UrmaGuests, SendDone(g) PROVE UrmaInv'
  <2>1. PICK count \in Nat : UrmaGo(g, "drain", count)
    BY <1>0, <1>9 DEF SendDone
  <2>2. PICK ok \in SendResults : Sendto(g, [kind |-> "done", value |-> tx_ok[g]], ok)
    BY <1>9 DEF SendDone
  <2>3. /\ UNCHANGED inbox \/ \E x \in Packets : Deliver(g, x)
        /\ urma_disturbed' \in BOOLEAN
    BY <1>2, <1>13, <2>2
  <2>4. UNCHANGED <<udp_at, raw_at, heard, bench, rawfd, tx_ok>> /\ "drain" \in UrmaPCs
    BY <1>9 DEF SendDone, UrmaPCs
  <2>5. UrmaSends(g)'
    BY <1>0, <2>1, <2>4 DEF UrmaGo, UrmaSends
  <2>6. \E n \in Nat : tx_ok' = [tx_ok EXCEPT ![g] = n]
    BY <1>14, <2>4
  <2> QED BY <2>1, <2>3, <2>4, <2>5, <2>6, UrmaLoopKeepsInv
<1>10. ASSUME NEW g \in UrmaGuests, Drain(g) PROVE UrmaInv'
  <2> DEFINE h == bench_consume_rx(heard[g], try_recv_peer(g))
  <2>0. Found(g) /\ urma_disturbed' \in BOOLEAN
    BY <1>0, <1>10 DEF Drain
  <2>1. CASE h.done
    <3>1. PICK result \in {"passed", "failed"} : UrmaExit(g, result)
      BY <1>10, <2>1 DEF Drain, BenchVerdict
    <3> QED BY <2>0, <3>1, UrmaExitKeepsInv
  <2>2. CASE ~h.done
    <3>1. /\ heard' = [heard EXCEPT ![g] = h] /\ Consume(g)
          /\ UNCHANGED <<urma_pc, sent, tx_ok, inbox, bench, rawfd>>
      BY <1>10, <2>2 DEF Drain
    <3>2. UrmaGo(g, urma_pc[g], sent[g])
      BY <1>0, <3>1 DEF UrmaGo
    <3>3. heard' = [heard EXCEPT ![g] = IF Found(g)
                                        THEN bench_consume_rx(heard[g], try_recv_peer(g))
                                        ELSE heard[g]]
      BY <2>0, <3>1
    <3>4. UrmaSends(g)' /\ \E n \in Nat : tx_ok' = [tx_ok EXCEPT ![g] = n]
      BY <1>14, <3>1 DEF UrmaInv, UrmaSends
    <3> QED BY <1>0, <2>0, <3>1, <3>2, <3>3, <3>4, UrmaLoopKeepsInv
  <2> QED BY <2>1, <2>2
<1>11. ASSUME NEW g \in UrmaGuests, UrmaLose(g) PROVE UrmaInv'
  BY <1>11, UrmaLoseKeepsInv
<1>12. CASE UNCHANGED urmaVars
  BY <1>12 DEF urmaVars, UrmaInv, UrmaTypes, UrmaReads, UrmaSends, Packets, Heard
<1> QED BY <1>3, <1>4, <1>5, <1>6, <1>7, <1>8, <1>9, <1>10, <1>11, <1>12
        DEF UrmaNext, UrmaStep, UrmaProceed, UrmaClock

\* rx_ok stays within the packets read, by UrmaInv.
LEMMA UrmaInvGivesSafety == UrmaInv => UrmaTypeOK /\ RxWithinCopies
<1> SUFFICES ASSUME UrmaInv PROVE UrmaTypeOK /\ RxWithinCopies
  OBVIOUS
<1>1. ASSUME NEW g \in UrmaGuests
      PROVE  /\ udp_at[g] \in Nat /\ raw_at[g] \in Nat /\ Len(inbox[g]) \in Nat
             /\ DOMAIN inbox[g] = 1 .. Len(inbox[g])
             /\ udp_at[g] <= Len(inbox[g]) /\ raw_at[g] <= Len(inbox[g])
             /\ heard[g] \in Heard /\ heard[g].rx \in Nat /\ heard[g].tx \in 0 .. bench
             /\ tx_ok[g] \in 0 .. bench
  BY LenProperties DEF UrmaInv, UrmaTypes, UrmaReads, UrmaSends, Heard
<1>2. UrmaTypeOK
  BY <1>1 DEF UrmaInv, UrmaTypes, UrmaTypeOK, UrmaPCs
<1>3. ASSUME NEW g \in UrmaGuests
      PROVE  LET benched == Cardinality({i \in DOMAIN inbox[g] : inbox[g][i].kind = "bench"})
             IN  heard[g].rx <= (IF rawfd[g] THEN 2 * benched ELSE benched)
  <2> DEFINE all == Cardinality(Benched(inbox[g], Len(inbox[g])))
             udp == Cardinality(Benched(inbox[g], udp_at[g]))
             raw == Cardinality(Benched(inbox[g], raw_at[g]))
  <2>1. all \in Nat /\ udp \in Nat /\ raw \in Nat /\ udp <= all /\ raw <= all
    BY <1>1, BenchedUpTo
  <2>2. ~rawfd[g] => raw = 0
    <3>1. Benched(inbox[g], 0) = {}
      BY DEF Benched
    <3> QED BY <3>1, FS_EmptySet DEF UrmaInv, UrmaReads
  <2>3. heard[g].rx <= udp + raw
    BY DEF UrmaInv, UrmaReads
  <2>4. Cardinality({i \in DOMAIN inbox[g] : inbox[g][i].kind = "bench"}) = all
    BY <1>1 DEF Benched
  <2> HIDE DEF all, udp, raw
  <2> QED BY <1>1, <2>1, <2>2, <2>3, <2>4
<1> QED BY <1>2, <1>3 DEF RxWithinCopies

-----------------------------------------------------------------------------
(* init.c *)

\* The points of the payload check, and those within an entry of cases[].
BizCasePoints == {"read", "write", "after", "restore", "check"}
BizPoints     == BizCasePoints \cup {"link", "verdict", "skipped", "failed", "passed"}

BootTypes ==
  /\ cmdline \in Boots
  /\ boot \in [InitGuests -> 1 .. 14]
  /\ \A g \in InitGuests : \/ Stages[boot[g]] \in Always \cup cmdline
                           \/ boot[g] = 14 /\ "run_demo" \in cmdline
  /\ addressed \subseteq iface /\ iface \subseteq InitGuests
  /\ upi \in [InitGuests -> 0 .. BizCases]
  /\ biz \in [InitGuests -> [at : BizPoints, case : Nat, before : 0 .. BizCases,
                             errors : BOOLEAN]]

\* Without an error so far the register holds the value it was found with
\* between two entries, and the value to put back is that one within an entry.
BizKeeps(g) ==
  /\ biz[g].at \in BizCasePoints => biz[g].case \in 1 .. BizCases
  /\ biz[g].at = "link" => biz[g].case = 1
  /\ ~biz[g].errors /\ biz[g].at \in {"link", "read", "verdict"} => upi[g] = 0
  /\ ~biz[g].errors /\ biz[g].at \in {"write", "after", "restore", "check"} => biz[g].before = 0
  /\ biz[g].at = "passed" => upi[g] = 0

BootInv == BootTypes /\ \A g \in InitGuests : BizKeeps(g)

\* main begins with the drivers and ends with power-off; the demo flow is apart.
LEMMA StagesAre ==
  /\ Len(Stages) = 14
  /\ Stages[1] = "drivers" /\ Stages[13] = "off" /\ Stages[14] = "demo_flow"
  BY DEF Stages

\* A stage that is not the last has a next one that main does not skip.
LEMMA NextStageIs ==
  ASSUME NEW i \in 1 .. 14, Stages[i] \notin {"off", "demo_flow"}
  PROVE  NextStage(i) \in 1 .. 14 /\ Stages[NextStage(i)] \in Always \cup cmdline
<1> DEFINE S == {j \in i + 1 .. Len(Stages) : Stages[j] \in Always \cup cmdline}
<1>1. i \in 1 .. 12
  BY StagesAre
<1>2. 13 \in S /\ S \subseteq 1 .. 14
  BY <1>1, StagesAre DEF Always
<1>3. NextStage(i) = Min(S)
  BY DEF NextStage
<1>4. \E x \in S : \A y \in S : x =< y
  <2> HIDE DEF S
  <2> SUFFICES ASSUME \A x \in S : \E y \in S : y < x PROVE FALSE
    BY <1>2
  <2>1. 1 \notin S
    BY <1>2
  <2>2. 2 \notin S /\ 3 \notin S
    BY <1>2, <2>1
  <2>3. 4 \notin S /\ 5 \notin S
    BY <1>2, <2>1, <2>2
  <2>4. 6 \notin S /\ 7 \notin S
    BY <1>2, <2>1, <2>2, <2>3
  <2>5. 8 \notin S /\ 9 \notin S
    BY <1>2, <2>1, <2>2, <2>3, <2>4
  <2>6. 10 \notin S /\ 11 \notin S
    BY <1>2, <2>1, <2>2, <2>3, <2>4, <2>5
  <2>7. 12 \notin S
    BY <1>2, <2>1, <2>2, <2>3, <2>4, <2>5, <2>6
  <2> QED BY <1>2, <2>1, <2>2, <2>3, <2>4, <2>5, <2>6, <2>7
<1>5. Min(S) \in S
  <2> HIDE DEF S
  <2> QED BY <1>4 DEF Min
<1> QED BY <1>2, <1>3, <1>5

\* BootInv holds at power-on.
LEMMA InitBootInv == BootInit => BootInv
<1> SUFFICES ASSUME BootInit PROVE BootInv
  OBVIOUS
<1>1. BootTypes
  BY StagesAre, InitAssumption DEF BootInit, BootTypes, BizPoints, Always
<1>2. ASSUME NEW g \in InitGuests PROVE BizKeeps(g)
  BY DEF BootInit, BizKeeps, BizCasePoints
<1> QED BY <1>1, <1>2 DEF BootInv

\* main goes on to its next stage; the payload check is over or not begun.
LEMMA AdvanceKeepsInv ==
  ASSUME BootInv, NEW g \in InitGuests, ~At(g, "off"), ~At(g, "demo_flow"), Advance(g),
         UNCHANGED <<cmdline, upi, biz>>,
         addressed' \subseteq iface', iface' \subseteq InitGuests
  PROVE  BootInv'
<1>1. boot \in [InitGuests -> 1 .. 14] /\ boot[g] \in 1 .. 14
  BY DEF BootInv, BootTypes
<1>2. NextStage(boot[g]) \in 1 .. 14 /\ Stages[NextStage(boot[g])] \in Always \cup cmdline
  BY <1>1, NextStageIs DEF At
<1>3. /\ boot' \in [InitGuests -> 1 .. 14] /\ boot'[g] = NextStage(boot[g])
      /\ \A h \in InitGuests : h # g => boot'[h] = boot[h]
  BY <1>1, <1>2 DEF Advance
<1>4. \A h \in InitGuests : \/ Stages[boot'[h]] \in Always \cup cmdline'
                            \/ boot'[h] = 14 /\ "run_demo" \in cmdline'
  BY <1>2, <1>3 DEF BootInv, BootTypes
<1>5. BootTypes'
  BY <1>3, <1>4 DEF BootInv, BootTypes
<1>6. \A h \in InitGuests : BizKeeps(h)'
  BY DEF BootInv, BizKeeps
<1> QED BY <1>5, <1>6 DEF BootInv

\* A step of the payload check.
LEMMA BizGoKeepsInv ==
  ASSUME BootInv, NEW g \in InitGuests, NEW b, BizGo(g, b),
         b \in [at : BizPoints, case : Nat, before : 0 .. BizCases, errors : BOOLEAN],
         NEW value \in 0 .. BizCases, upi' = [upi EXCEPT ![g] = value],
         b.at \in BizCasePoints => b.case \in 1 .. BizCases,
         b.at = "link" => b.case = 1,
         ~b.errors /\ b.at \in {"link", "read", "verdict"} => value = 0,
         ~b.errors /\ b.at \in {"write", "after", "restore", "check"} => b.before = 0,
         b.at = "passed" => value = 0
  PROVE  BootInv'
<1>1. /\ biz' \in [InitGuests -> [at : BizPoints, case : Nat, before : 0 .. BizCases,
                                 errors : BOOLEAN]]
      /\ upi' \in [InitGuests -> 0 .. BizCases]
      /\ biz'[g] = b /\ upi'[g] = value
      /\ \A h \in InitGuests : h # g => biz'[h] = biz[h] /\ upi'[h] = upi[h]
  BY DEF BootInv, BootTypes, BizGo
<1>2. BootTypes'
  BY <1>1 DEF BootInv, BootTypes, BizGo
<1>3. BizKeeps(g)'
  BY <1>1 DEF BizKeeps
<1>4. ASSUME NEW h \in InitGuests, h # g PROVE BizKeeps(h)'
  BY <1>1, <1>4 DEF BootInv, BizKeeps
<1> QED BY <1>2, <1>3, <1>4 DEF BootInv

\* An entry of cases[] ends: without an error the register is as it was found.
LEMMA NextCaseKeepsInv ==
  ASSUME BootInv, NEW g \in InitGuests, biz[g].at \in BizCasePoints, NEW error \in BOOLEAN,
         BizGo(g, NextCase(biz[g], error)),
         NEW value \in 0 .. BizCases, upi' = [upi EXCEPT ![g] = value],
         ~error /\ ~biz[g].errors => value = 0
  PROVE  BootInv'
<1> DEFINE b == NextCase(biz[g], error)
<1>1. /\ biz[g] \in [at : BizPoints, case : Nat, before : 0 .. BizCases, errors : BOOLEAN]
      /\ biz[g].case \in 1 .. BizCases
  BY DEF BootInv, BootTypes, BizKeeps
<1>2. b.at = IF biz[g].case < BizCases THEN "read" ELSE "verdict"
  BY <1>1 DEF NextCase
<1>3. b.case = biz[g].case + 1
  BY <1>1 DEF NextCase
<1>4. b.errors \in BOOLEAN /\ (~b.errors => ~biz[g].errors /\ ~error)
  BY <1>1 DEF NextCase
<1>5. b \in [at : BizPoints, case : Nat, before : 0 .. BizCases, errors : BOOLEAN]
  <2> DEFINE at == IF biz[g].case < BizCases THEN "read" ELSE "verdict"
             case == biz[g].case + 1
             errors == biz[g].errors \/ error
  <2>1. at \in BizPoints /\ case \in Nat /\ errors \in BOOLEAN
    BY <1>1 DEF BizPoints, BizCasePoints
  <2>2. b = [biz[g] EXCEPT !.case = case, !.errors = errors, !.at = at]
    BY <1>1 DEF NextCase
  <2> HIDE DEF at, case, errors, b
  <2> QED BY <1>1, <2>1, <2>2
<1>6. b.at \in {"read", "verdict"} /\ (b.at = "read" => b.case \in 1 .. BizCases)
  BY <1>1, <1>2, <1>3, InitAssumption
<1>7. ~b.errors => value = 0
  BY <1>4
<1> HIDE DEF b
<1>8. BizGo(g, b)
  BY DEF b
<1> QED BY <1>5, <1>6, <1>7, <1>8, BizGoKeepsInv DEF BizCasePoints

\* A step of the business test keeps BootInv.
LEMMA BizStepKeepsInv ==
  ASSUME BootInv, NEW g \in InitGuests,
         \/ BizOpen(g) \/ BizRead(g) \/ BizWrite(g) \/ BizAfter(g) \/ BizRestore(g)
         \/ BizCheck(g) \/ BizVerdict(g)
  PROVE  BootInv'
<1>0. /\ biz[g] \in [at : BizPoints, case : Nat, before : 0 .. BizCases, errors : BOOLEAN]
      /\ biz[g].before \in 0 .. BizCases /\ biz[g].errors \in BOOLEAN /\ biz[g].case \in Nat
      /\ upi \in [InitGuests -> 0 .. BizCases] /\ upi[g] \in 0 .. BizCases
      /\ BizKeeps(g)
  BY DEF BootInv, BootTypes
<1>1. UNCHANGED upi => upi' = [upi EXCEPT ![g] = upi[g]]
  BY <1>0
<1>2. ASSUME NEW to \in BizPoints, BizGo(g, [biz[g] EXCEPT !.at = to]),
             NEW value \in 0 .. BizCases, upi' = [upi EXCEPT ![g] = value],
             to \in BizCasePoints => biz[g].case \in 1 .. BizCases, to # "link",
             ~biz[g].errors /\ to \in {"read", "verdict"} => value = 0,
             ~biz[g].errors /\ to \in {"write", "after", "restore", "check"} => biz[g].before = 0,
             to = "passed" => value = 0
      PROVE  BootInv'
  <2> DEFINE b == [biz[g] EXCEPT !.at = to]
  <2>1. /\ b \in [at : BizPoints, case : Nat, before : 0 .. BizCases, errors : BOOLEAN]
        /\ b.at = to /\ b.case = biz[g].case /\ b.before = biz[g].before
        /\ b.errors = biz[g].errors
    BY <1>0
  <2>2. BizGo(g, b)
    BY <1>2
  <2> HIDE DEF b
  <2> QED BY <1>2, <2>1, <2>2, BizGoKeepsInv
<1>3. CASE BizOpen(g)
  <2>1. biz[g].at = "link" /\ biz[g].case = 1 /\ (~biz[g].errors => upi[g] = 0)
        /\ upi' = [upi EXCEPT ![g] = upi[g]]
    BY <1>0, <1>1, <1>3 DEF BizOpen, BizAt, BizKeeps
  <2>2. CASE BizGo(g, [biz[g] EXCEPT !.at = "verdict", !.errors = TRUE])
    <3> DEFINE b == [biz[g] EXCEPT !.at = "verdict", !.errors = TRUE]
    <3>1. /\ b \in [at : BizPoints, case : Nat, before : 0 .. BizCases, errors : BOOLEAN]
          /\ b.at = "verdict" /\ b.errors
      BY <1>0 DEF BizPoints, BizCasePoints
    <3>2. BizGo(g, b)
      BY <2>2
    <3> HIDE DEF b
    <3> QED BY <1>0, <2>1, <3>1, <3>2, BizGoKeepsInv DEF BizCasePoints
  <2>3. CASE \E to \in {"skipped", "failed"} : BizGo(g, [biz[g] EXCEPT !.at = to])
    <3>1. PICK to \in {"skipped", "failed"} : BizGo(g, [biz[g] EXCEPT !.at = to])
      BY <2>3
    <3> QED BY <1>0, <1>2, <2>1, <3>1 DEF BizPoints, BizCasePoints
  <2>4. CASE BizGo(g, [biz[g] EXCEPT !.at = IF BizCases > 0 THEN "read" ELSE "verdict"])
    <3>1. PICK to \in {"read", "verdict"} : /\ BizGo(g, [biz[g] EXCEPT !.at = to])
                                            /\ to = "read" => BizCases > 0
      BY <2>4
    <3>2. to = "read" => biz[g].case \in 1 .. BizCases
      BY <2>1, <3>1, InitAssumption
    <3>3. to \in BizPoints /\ (to \in BizCasePoints => to = "read")
      BY DEF BizPoints, BizCasePoints
    <3> QED BY <1>0, <1>2, <2>1, <3>1, <3>2, <3>3
  <2> QED BY <1>3, <2>2, <2>3, <2>4 DEF BizOpen
<1>4. CASE BizRead(g)
  <2>1. /\ biz[g].at = "read" /\ biz[g].at \in BizCasePoints /\ biz[g].case \in 1 .. BizCases
        /\ ~biz[g].errors => upi[g] = 0
        /\ upi' = [upi EXCEPT ![g] = upi[g]]
    BY <1>0, <1>1, <1>4 DEF BizRead, BizAt, BizKeeps, BizCasePoints
  <2>2. CASE BizGo(g, [biz[g] EXCEPT !.at = "write", !.before = upi[g]])
    <3> DEFINE b == [biz[g] EXCEPT !.at = "write", !.before = upi[g]]
    <3>1. /\ b \in [at : BizPoints, case : Nat, before : 0 .. BizCases, errors : BOOLEAN]
          /\ b.at = "write" /\ b.errors = biz[g].errors /\ b.before = upi[g]
          /\ b.case = biz[g].case
      BY <1>0 DEF BizPoints, BizCasePoints
    <3>2. BizGo(g, b)
      BY <2>2
    <3> HIDE DEF b
    <3> QED BY <1>0, <2>1, <3>1, <3>2, BizGoKeepsInv
  <2>3. CASE BizGo(g, NextCase(biz[g], TRUE))
    BY <1>0, <2>1, <2>3, NextCaseKeepsInv
  <2> QED BY <1>4, <2>2, <2>3 DEF BizRead
<1>5. CASE BizWrite(g)
  <2>1. /\ biz[g].at = "write" /\ biz[g].at \in BizCasePoints /\ biz[g].case \in 1 .. BizCases
        /\ ~biz[g].errors => biz[g].before = 0
    BY <1>0, <1>5 DEF BizWrite, BizAt, BizKeeps, BizCasePoints
  <2>2. PICK ok \in BOOLEAN :
          /\ Poke(g, biz[g].case, ok)
          /\ BizGo(g, IF ok THEN [biz[g] EXCEPT !.at = "after"] ELSE NextCase(biz[g], TRUE))
    BY <1>5 DEF BizWrite
  <2>3. PICK value \in 0 .. BizCases : upi' = [upi EXCEPT ![g] = value]
    BY <1>0, <1>1, <2>1, <2>2 DEF Poke
  <2>4. CASE ok
    <3>1. BizGo(g, [biz[g] EXCEPT !.at = "after"]) /\ "after" \in BizPoints
      BY <2>2, <2>4 DEF BizPoints, BizCasePoints
    <3> QED BY <1>2, <2>1, <2>3, <3>1
  <2>5. CASE ~ok
    BY <2>1, <2>2, <2>3, <2>5, NextCaseKeepsInv
  <2> QED BY <2>4, <2>5
<1>6. CASE BizAfter(g)
  <2>1. /\ biz[g].at = "after" /\ biz[g].at \in BizCasePoints /\ biz[g].case \in 1 .. BizCases
        /\ ~biz[g].errors => biz[g].before = 0
    BY <1>0, <1>6 DEF BizAfter, BizAt, BizKeeps, BizCasePoints
  <2>2. CASE /\ BizGo(g, [biz[g] EXCEPT !.at = "restore", !.errors = @ \/ upi[g] # biz[g].case])
             /\ UNCHANGED upi
    <3> DEFINE b == [biz[g] EXCEPT !.at = "restore", !.errors = @ \/ upi[g] # biz[g].case]
    <3>1. /\ b \in [at : BizPoints, case : Nat, before : 0 .. BizCases, errors : BOOLEAN]
          /\ b.at = "restore" /\ (~b.errors => ~biz[g].errors) /\ b.before = biz[g].before
          /\ b.case = biz[g].case
      BY <1>0 DEF BizPoints, BizCasePoints
    <3>2. BizGo(g, b) /\ upi' = [upi EXCEPT ![g] = upi[g]]
      BY <1>1, <2>2
    <3> HIDE DEF b
    <3> QED BY <1>0, <2>1, <3>1, <3>2, BizGoKeepsInv
  <2>3. CASE \E ok \in BOOLEAN : /\ Poke(g, biz[g].before, ok)
                                 /\ BizGo(g, NextCase(biz[g], TRUE))
    <3>1. PICK value \in 0 .. BizCases : upi' = [upi EXCEPT ![g] = value]
      BY <1>0, <1>1, <2>3 DEF Poke
    <3> QED BY <2>1, <2>3, <3>1, NextCaseKeepsInv
  <2> QED BY <1>6, <2>2, <2>3 DEF BizAfter
<1>7. CASE BizRestore(g)
  <2>1. /\ biz[g].at = "restore" /\ biz[g].at \in BizCasePoints /\ biz[g].case \in 1 .. BizCases
        /\ ~biz[g].errors => biz[g].before = 0
    BY <1>0, <1>7 DEF BizRestore, BizAt, BizKeeps, BizCasePoints
  <2>2. PICK ok \in BOOLEAN :
          /\ Poke(g, biz[g].before, ok)
          /\ BizGo(g, IF ok THEN [biz[g] EXCEPT !.at = "check"] ELSE NextCase(biz[g], TRUE))
    BY <1>7 DEF BizRestore
  <2>3. PICK value \in 0 .. BizCases : upi' = [upi EXCEPT ![g] = value]
    BY <1>0, <1>1, <2>2 DEF Poke
  <2>4. CASE ok
    <3>1. BizGo(g, [biz[g] EXCEPT !.at = "check"]) /\ "check" \in BizPoints
      BY <2>2, <2>4 DEF BizPoints, BizCasePoints
    <3> QED BY <1>2, <2>1, <2>3, <3>1
  <2>5. CASE ~ok
    BY <2>1, <2>2, <2>3, <2>5, NextCaseKeepsInv
  <2> QED BY <2>4, <2>5
<1>8. CASE BizCheck(g)
  <2>1. /\ biz[g].at = "check" /\ biz[g].at \in BizCasePoints /\ biz[g].case \in 1 .. BizCases
        /\ ~biz[g].errors => biz[g].before = 0
        /\ upi' = [upi EXCEPT ![g] = upi[g]]
    BY <1>0, <1>1, <1>8 DEF BizCheck, BizAt, BizKeeps, BizCasePoints
  <2>2. PICK error \in BOOLEAN : /\ BizGo(g, NextCase(biz[g], error))
                                 /\ ~error => upi[g] = biz[g].before
    BY <1>8 DEF BizCheck
  <2> QED BY <1>0, <2>1, <2>2, NextCaseKeepsInv
<1>9. CASE BizVerdict(g)
  <2>1. /\ biz[g].at = "verdict" /\ (~biz[g].errors => upi[g] = 0)
        /\ upi' = [upi EXCEPT ![g] = upi[g]]
    BY <1>0, <1>1, <1>9 DEF BizVerdict, BizAt, BizKeeps
  <2>2. PICK to \in {"passed", "failed"} : /\ BizGo(g, [biz[g] EXCEPT !.at = to])
                                           /\ to = "passed" => ~biz[g].errors
    BY <1>9 DEF BizVerdict
  <2> QED BY <1>0, <1>2, <2>1, <2>2 DEF BizPoints, BizCasePoints
<1> QED BY <1>3, <1>4, <1>5, <1>6, <1>7, <1>8, <1>9

\* init goes on to the next stage after a program has ended.
StageOver(g) == /\ ~At(g, "off") /\ ~At(g, "demo_flow") /\ Advance(g)
                /\ UNCHANGED <<cmdline, iface, addressed, upi, biz>>

BootMoves == \E g \in InitGuests :
              \/ BootStep(g) \/ IfaceAppears(g) \/ ProbeInterrupt(g)
              \/ SetUpNetwork(g) \/ StageOver(g)

\* A step of init keeps BootInv.
LEMMA BootStepKeepsInv == BootInv /\ (BootMoves \/ UNCHANGED initVars) => BootInv'
<1> SUFFICES ASSUME BootInv, BootMoves \/ UNCHANGED initVars PROVE BootInv'
  OBVIOUS
<1>0. addressed \subseteq iface /\ iface \subseteq InitGuests
  BY DEF BootInv, BootTypes
<1>1. ASSUME NEW g \in InitGuests,
             \/ BootDrivers(g) \/ ConfigureNetwork(g) \/ BizReturn(g) \/ RunProbe(g)
             \/ StageOver(g)
      PROVE  BootInv'
  <2>1. /\ ~At(g, "off") /\ ~At(g, "demo_flow") /\ Advance(g)
        /\ UNCHANGED <<cmdline, iface, upi, biz>>
    BY <1>1 DEF BootDrivers, ConfigureNetwork, BizReturn, RunProbe, StageOver, At
  <2>2. addressed' \subseteq iface'
    BY <1>0, <1>1 DEF BootDrivers, ConfigureNetwork, BizReturn, RunProbe, StageOver
  <2> QED BY <1>0, <2>1, <2>2, AdvanceKeepsInv
<1>2. ASSUME NEW g \in InitGuests, IfaceAppears(g) \/ SetUpNetwork(g) PROVE BootInv'
  <2>1. UNCHANGED <<cmdline, boot, upi, biz>>
    BY <1>2 DEF IfaceAppears, SetUpNetwork
  <2>2. addressed' \subseteq iface' /\ iface' \subseteq InitGuests
    BY <1>0, <1>2 DEF IfaceAppears, SetUpNetwork
  <2> QED BY <2>1, <2>2 DEF BootInv, BootTypes, BizKeeps
<1>3. ASSUME NEW g \in InitGuests, BizStep(g), ~BizReturn(g) PROVE BootInv'
  BY <1>3, BizStepKeepsInv DEF BizStep
<1>4. CASE UNCHANGED initVars
  BY <1>4 DEF initVars, BootInv, BootTypes, BizKeeps
<1>5. ASSUME NEW g \in InitGuests, EnterDemoFlow(g) PROVE BootInv'
  <2>1. CASE Advance(g)
    BY <1>0, <1>5, <2>1, AdvanceKeepsInv DEF EnterDemoFlow, At
  <2>2. CASE boot' = [boot EXCEPT ![g] = Len(Stages)]
    <3>1. boot \in [InitGuests -> 1 .. 14] /\ boot[g] \in 1 .. 14
      BY DEF BootInv, BootTypes
    <3>2. /\ boot' \in [InitGuests -> 1 .. 14] /\ boot'[g] = 14
          /\ \A h \in InitGuests : h # g => boot'[h] = boot[h]
      BY <2>2, <3>1, StagesAre
    <3>3. "run_demo" \in cmdline
      <4>1. boot[g] # 14
        BY <1>5, StagesAre DEF EnterDemoFlow, At
      <4> QED BY <1>5, <4>1 DEF EnterDemoFlow, At, BootInv, BootTypes, Always
    <3>4. \A h \in InitGuests : \/ Stages[boot'[h]] \in Always \cup cmdline'
                                \/ boot'[h] = 14 /\ "run_demo" \in cmdline'
      BY <1>5, <3>2, <3>3 DEF EnterDemoFlow, BootInv, BootTypes
    <3>5. BootTypes'
      BY <1>5, <3>2, <3>4 DEF EnterDemoFlow, BootInv, BootTypes
    <3>6. \A h \in InitGuests : BizKeeps(h)'
      BY <1>5 DEF EnterDemoFlow, BootInv, BizKeeps
    <3> QED BY <3>5, <3>6 DEF BootInv
  <2> QED BY <1>5, <2>1, <2>2 DEF EnterDemoFlow
<1> QED BY <1>1, <1>2, <1>3, <1>4, <1>5 DEF BootMoves, BootStep, ProbeInterrupt

\* A passed business test has left the register as it was, by BootInv.
LEMMA BootInvGivesSafety == BootInv => InitTypeOK /\ PassLeavesRegister
  BY StagesAre DEF BootInv, BootTypes, BizKeeps, InitTypeOK, PassLeavesRegister, At

-----------------------------------------------------------------------------
(* The guests *)

GuestsInv == /\ BootInv /\ UrmaInv /\ ChatInv /\ RpcInv /\ TcpInv /\ RdmaInv /\ IndInv

\* What a step of the guests is for each of the programs.
UrmaMoves == UrmaNext \/ UNCHANGED urmaVars
ChatMoves == ChatNext \/ UNCHANGED chatVars
RpcMoves == RpcNext \/ UNCHANGED rpcVars
TcpMoves == TcpNext \/ UNCHANGED tcpVars
RdmaMoves == RdmaNext \/ (\E g \in RdmaGuests : RdmaKill(g)) \/ UNCHANGED rdmaVars
PoolMoves == PoolNext \/ UNCHANGED poolVars

ProgramMoves == UrmaMoves /\ ChatMoves /\ RpcMoves /\ TcpMoves /\ RdmaMoves /\ PoolMoves

\* When one program moves and the others stay, each program moves or stays.
LEMMA OthersStay ==
  /\ OtherThan("none") => ProgramMoves
  /\ OtherThan("urma_dp") /\ UrmaMoves => ProgramMoves
  /\ OtherThan("chat") /\ ChatMoves => ProgramMoves
  /\ OtherThan("rpc") /\ RpcMoves => ProgramMoves
  /\ OtherThan("tcp") /\ TcpMoves => ProgramMoves
  /\ OtherThan("rdma") /\ RdmaMoves => ProgramMoves
  /\ OtherThan("obmm") /\ PoolMoves => ProgramMoves
  BY DEF OtherThan, ProgramMoves, UrmaMoves, ChatMoves, RpcMoves, TcpMoves, RdmaMoves, PoolMoves

\* Every step of the guests is a step of init or none, and a step, the end or
\* no step of each program.
LEMMA StepOfEach == Next \/ UNCHANGED vars => (BootMoves \/ UNCHANGED initVars) /\ ProgramMoves
<1> SUFFICES ASSUME Next \/ UNCHANGED vars
             PROVE  (BootMoves \/ UNCHANGED initVars) /\ ProgramMoves
  OBVIOUS
<1>1. CASE ProgramStep
  BY <1>1, OthersStay DEF ProgramStep, UrmaMoves, ChatMoves, RpcMoves, TcpMoves, RdmaMoves,
                          PoolMoves, UrmaNext, ChatNext, RpcNext, TcpNext, RdmaNext, PoolNext
<1>2. ASSUME NEW g \in InitGuests, Launch(g)
      PROVE  (BootMoves \/ UNCHANGED initVars) /\ ProgramMoves
  <2>0. /\ g \in UrmaGuests /\ g \in ChatGuests /\ g \in RpcGuests /\ g \in TcpGuests
        /\ g \in RdmaGuests /\ NodeIndex[g] \in Nodes
    BY GuestsAssumption
  <2>1. CASE run_urma_dp_probe(g)
    BY <2>0, <2>1, OthersStay DEF run_urma_dp_probe, UrmaMoves, UrmaNext, BootMoves
  <2>2. CASE run_ub_chat_probe(g)
    BY <2>0, <2>2, OthersStay DEF run_ub_chat_probe, ChatMoves, ChatNext, BootMoves
  <2>3. CASE run_ub_rpc_demo_probe(g)
    BY <2>0, <2>3, OthersStay DEF run_ub_rpc_demo_probe, RpcMoves, RpcNext, BootMoves
  <2>4. CASE run_ub_tcp_each_server_demo_probe(g)
    BY <2>0, <2>4, OthersStay
       DEF run_ub_tcp_each_server_demo_probe, TcpMoves, TcpNext, BootMoves
  <2>5. CASE run_ub_rdma_demo_probe(g)
    BY <2>0, <2>5, OthersStay DEF run_ub_rdma_demo_probe, RdmaMoves, RdmaNext, BootMoves
  <2>6. CASE run_obmm_demo_probe(g)
    BY <2>0, <2>6, OthersStay
       DEF run_obmm_demo_probe, PoolMoves, PoolNext, Managed, BootMoves
  <2> QED BY <1>2, <2>1, <2>2, <2>3, <2>4, <2>5, <2>6 DEF Launch
<1>3. ASSUME NEW g \in InitGuests, Waited(g) PROVE BootMoves /\ ProgramMoves
  <2>1. ~At(g, "off") /\ ~At(g, "demo_flow") /\ OtherThan("none") /\ StageOver(g)
    BY <1>3 DEF Waited, At, StageOver
  <2> QED BY <2>1, OthersStay DEF BootMoves
<1>4. ASSUME NEW g \in InitGuests, BootStep(g) \/ IfaceAppears(g) \/ ProbeInterrupt(g),
             OtherThan("none")
      PROVE  BootMoves /\ ProgramMoves
  BY <1>4, OthersStay DEF BootMoves
<1>5. ASSUME NEW g \in InitGuests, KillRdma(g) PROVE UNCHANGED initVars /\ ProgramMoves
  <2>1. g \in RdmaGuests
    BY GuestsAssumption
  <2> QED BY <1>5, <2>1, OthersStay DEF KillRdma, RdmaKill, RdmaMoves
<1>6. ASSUME NEW g \in InitGuests, KillObmm(g) PROVE UNCHANGED initVars /\ ProgramMoves
  <2>1. NodeIndex[g] \in Nodes /\ LocalFaults
    BY GuestsAssumption
  <2> QED BY <1>6, <2>1, OthersStay DEF KillObmm, PoolMoves, PoolNext, Managed
<1>7. CASE UNCHANGED vars
  BY <1>7 DEF vars, ProgramMoves, UrmaMoves, ChatMoves, RpcMoves, TcpMoves, RdmaMoves, PoolMoves
<1> QED BY <1>1, <1>2, <1>3, <1>4, <1>5, <1>6, <1>7 DEF Next, InitProceed

\* The invariants of all programs hold at power-on.
LEMMA InitGuestsInv == Init => GuestsInv
  BY InitBootInv, InitUrmaInv, InitChatInv, InitRpcInv, InitTcpInv, InitRdmaInv, InitIndInv
     DEF Init, GuestsInv

\* A step of the guests keeps the invariants of all programs.
LEMMA StepKeepsGuestsInv == GuestsInv /\ [Next]_vars => GuestsInv'
<1> SUFFICES ASSUME GuestsInv, [Next]_vars PROVE GuestsInv'
  OBVIOUS
<1>1. (BootMoves \/ UNCHANGED initVars) /\ ProgramMoves
  BY StepOfEach
<1>2. BootInv'
  BY <1>1, BootStepKeepsInv DEF GuestsInv
<1>3. UrmaInv'
  BY <1>1, UrmaStepKeepsInv DEF GuestsInv, ProgramMoves, UrmaMoves
<1>4. ChatInv'
  BY <1>1, ChatStepKeepsInv DEF GuestsInv, ProgramMoves, ChatMoves
<1>5. RpcInv'
  BY <1>1, RpcStepKeepsInv DEF GuestsInv, ProgramMoves, RpcMoves
<1>6. TcpInv'
  BY <1>1, TcpStepKeepsInv DEF GuestsInv, ProgramMoves, TcpMoves
<1>7. RdmaInv'
  BY <1>1, RdmaStepKeepsInv DEF GuestsInv, ProgramMoves, RdmaMoves
<1>8. IndInv'
  BY <1>1, PoolNextKeepsInv DEF GuestsInv, ProgramMoves, PoolMoves
<1> QED BY <1>2, <1>3, <1>4, <1>5, <1>6, <1>7, <1>8 DEF GuestsInv

\* The invariants of all programs hold while init starts, waits for and kills
\* them one after the other on both guests.
THEOREM GuestsInvariant == Spec => []GuestsInv
  BY InitGuestsInv, StepKeepsGuestsInv, PTL DEF Spec

\* Every program of every guest is at one of its points, has read no more than
\* arrived, and init is at a stage that the command line asks for.
THEOREM GuestsTypes == Spec => []GuestsTypeOK
<1>1. GuestsInv => GuestsTypeOK
  BY BootInvGivesSafety, UrmaInvGivesSafety, ChatInvGivesSafety, RpcInvGivesSafety,
     TcpInvGivesSafety, RdmaInvGivesSafety DEF GuestsInv, GuestsTypeOK, IndInv
<1> QED BY GuestsInvariant, <1>1, PTL

\* What a guest that reports "pass" may conclude: the register of the remote
\* device is restored, the peer has taken part in the chat, the TCP exchange
\* and the RDMA exchange, every node has come to the barriers of the pool, and
\* the RDMA device was not closed with the peer's jetty imported.
THEOREM GuestsPassIsMeant == Spec => []PassIsMeant
<1>1. GuestsInv => PassIsMeant
  BY BootInvGivesSafety, ChatInvGivesSafety, TcpInvGivesSafety, RdmaInvGivesSafety
     DEF GuestsInv, PassIsMeant, IndInv
<1> QED BY GuestsInvariant, <1>1, PTL

\* The two ends of a program stay in the same round, call, attempt or turn,
\* whatever is lost, repeated or given up; in the pool one node at a time is the
\* owner, and only after all have imported.
THEOREM GuestsPeersInStep == Spec => []PeersInStep
<1>1. GuestsInv => PeersInStep
  BY UrmaInvGivesSafety, ChatInvGivesSafety, RpcInvGivesSafety, TcpInvGivesSafety,
     RdmaInvGivesSafety, OneOwner, ImportsFirst DEF GuestsInv, PeersInStep
<1> QED BY GuestsInvariant, <1>1, PTL

\* A parent that ends leaves no server child behind.  A node that fails or is
\* killed before its COMMIT stops the others at its round, so that none passes
\* on a region that went with it; no node that passes withdraws a region before
\* its last read; only a kill leaves regions behind.
THEOREM GuestsLeaveNothing == Spec => []LeavesNothingBehind
<1>1. GuestsInv => LeavesNothingBehind
  BY TcpInvGivesSafety, EndedHoldNothing, ReadsExported, NobodyPastGone
     DEF GuestsInv, LeavesNothingBehind
<1> QED BY GuestsInvariant, <1>1, PTL

\* Booting, running other programs and powering off included, the RPC programs
\* of the guests implement RpcService.
THEOREM GuestsImplementRpcService == Spec => ImplementsRpcService
<1>1. Init => Service!Init
  BY DEF Init, RpcInit, Service!Init
<1>2. GuestsInv /\ [Next]_vars => [Service!Next]_<<executed, outcome>>
  BY StepOfEach, RpcStepKeepsInv DEF GuestsInv, ProgramMoves, RpcMoves
<1> QED BY GuestsInvariant, <1>1, <1>2, PTL DEF Spec, ImplementsRpcService, Service!Spec

=============================================================================
