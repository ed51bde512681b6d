-------------------------- MODULE GuestPairProofs ---------------------------
(***************************************************************************)
(* Proofs about the programs of the guests, each on its own: ub_obmm_demo, *)
(* ub_tcp_each_server_demo, ub_chat, ub_rpc_demo and ub_rdma_demo, for     *)
(* every number of attempts, rounds, clients and calls, with any datagram  *)
(* lost or doubled, any wait given up, any call failing and, where init    *)
(* does so, any program killed.                                            *)
(***************************************************************************)
EXTENDS ObmmDemo, TcpEachServer, UbChat, UbRpc, UbRdma,
        FiniteSetTheorems, SequenceTheorems, TLAPS

-----------------------------------------------------------------------------
(***************************************************************************)
(* ub_obmm_demo.c                                                          *)
(***************************************************************************)

ObmmPCs == {"down", "meta_tx", "wait_ok", "verify_b", "wait_unimport", "meta_rx", "wait_a",
            "verify_a", "wait_wb", "passed", "failed"}

\* Every hand-over orders what it follows before what comes next.
ObmmOrder ==
  /\ "META" \in obmm_net => obmm_pc[Exporter] # "down"
  /\ "WRITE_A_DONE" \in obmm_net => obmm_pc[Exporter] \notin {"down", "meta_tx"}
  /\ "UNIMPORT_OK" \in obmm_net => obmm_pc[Importer] = "passed"
  /\ obmm_pc[Importer] \in {"verify_a", "wait_wb", "passed"} =>
       obmm_pc[Exporter] \notin {"down", "meta_tx"}

\* The region is there while the exporter runs; who holds it mapped is in the
\* middle of its turns.
ObmmRegion ==
  /\ obmm_pc[Exporter] \in {"meta_tx", "wait_ok", "verify_b", "wait_unimport"} =>
       region # "gone"
  /\ Importer \in mapped => /\ obmm_pc[Importer] \in {"wait_a", "verify_a", "wait_wb"}
                            /\ obmm_pc[Exporter] # "down"

\* The exporter sees B only in its turn, B is the last payload, and only an
\* exporter that has seen it says so.
ObmmSeen ==
  /\ view[Exporter] = "B" => /\ region \in {"B", "gone"}
                             /\ obmm_pc[Exporter] \notin {"down", "meta_tx"}
  /\ "WRITEBACK_OK" \in obmm_net \/ obmm_pc[Importer] = "passed" => view[Exporter] = "B"

ObmmInv ==
  /\ obmm_pc \in [ObmmGuests -> ObmmPCs]
  /\ ObmmTypeOK
  /\ ObmmOrder
  /\ ObmmRegion
  /\ ObmmSeen
  /\ TurnsDoNotOverlap
  /\ PassIsVerified

\* There are two guests, one exporter and one importer.
LEMMA ObmmRoles == /\ Exporter \in ObmmGuests /\ Importer \in ObmmGuests
                   /\ Exporter # Importer
                   /\ \A g \in ObmmGuests : g = Exporter \/ g = Importer
  BY ObmmAssumption DEF ObmmGuests

\* Before power-on ObmmInv holds: nothing is exported or under way.
LEMMA InitObmmInv == ObmmInit => ObmmInv
<1> SUFFICES ASSUME ObmmInit PROVE ObmmInv
  OBVIOUS
<1>1. /\ obmm_pc \in [ObmmGuests -> ObmmPCs] /\ obmm_pc[Exporter] = "down"
      /\ obmm_pc[Importer] = "down" /\ view \in [ObmmGuests -> {"zero", "A", "B"}]
      /\ view[Exporter] = "zero"
  BY ObmmRoles DEF ObmmInit, ObmmPCs
<1> QED
  BY <1>1 DEF ObmmInit, ObmmInv, ObmmTypeOK, ObmmOrder, ObmmRegion,
              TurnsDoNotOverlap, PassIsVerified, ObmmSeen

\* A step of one guest leaves the other where it is.
LEMMA ObmmMove ==
  ASSUME ObmmInv, NEW g \in ObmmGuests, NEW to \in ObmmPCs,
         obmm_pc' = [obmm_pc EXCEPT ![g] = to]
  PROVE  /\ obmm_pc' \in [ObmmGuests -> ObmmPCs]
         /\ obmm_pc'[g] = to
         /\ \A h \in ObmmGuests : h # g => obmm_pc'[h] = obmm_pc[h]
  BY DEF ObmmInv

\* A payload is seen by its writer.
LEMMA ObmmStamp ==
  ASSUME ObmmInv, NEW g \in ObmmGuests, NEW payload \in {"zero", "A", "B"},
         stamp_payload(g, payload)
  PROVE  /\ region' \in {region, payload} /\ (region' = "gone" <=> region = "gone")
         /\ view' \in [ObmmGuests -> {"zero", "A", "B"}] /\ view'[g] = payload
         /\ \A h \in ObmmGuests : h # g => view'[h] = view[h]
  BY DEF stamp_payload, ObmmInv, ObmmTypeOK

\* The end of a guest, however it comes, leaves the order of the turns intact.
LEMMA ObmmEndKeepsInv ==
  ASSUME ObmmInv, NEW g \in ObmmGuests, obmm_pc[g] # "passed",
         obmm_pc' = [obmm_pc EXCEPT ![g] = "failed"], mapped' = mapped \ {g},
         region' = IF g = Exporter THEN "gone" ELSE region,
         obmm_net' \subseteq obmm_net, UNCHANGED view, obmm_disturbed' \in BOOLEAN
  PROVE  ObmmInv'
<1>1. /\ obmm_pc' \in [ObmmGuests -> ObmmPCs] /\ obmm_pc'[g] = "failed"
      /\ \A h \in ObmmGuests : h # g => obmm_pc'[h] = obmm_pc[h]
  BY ObmmMove DEF ObmmPCs
<1>2. CASE g = Exporter
  BY <1>1, <1>2, ObmmRoles DEF ObmmInv, ObmmTypeOK, ObmmOrder, ObmmRegion,
                               TurnsDoNotOverlap, PassIsVerified, ObmmSeen
<1>3. CASE g = Importer
  BY <1>1, <1>3, ObmmRoles DEF ObmmInv, ObmmTypeOK, ObmmOrder, ObmmRegion,
                               TurnsDoNotOverlap, PassIsVerified, ObmmSeen
<1> QED BY <1>2, <1>3, ObmmRoles

\* A step of the program keeps ObmmInv.
LEMMA ObmmStepKeepsInv ==
  ObmmInv /\ (ObmmNext \/ UNCHANGED obmmVars) => ObmmInv'
<1> SUFFICES ASSUME ObmmInv, ObmmNext \/ UNCHANGED obmmVars PROVE ObmmInv'
  OBVIOUS
<1> USE ObmmRoles
<1> USE DEF ObmmPCs
<1>a. \A g \in ObmmGuests : ObmmHopeful(g) \in BOOLEAN
  BY DEF ObmmHopeful
<1>b. ASSUME NEW m, NEW g \in ObmmGuests PROVE send_msg(g, m) \subseteq {m}
  BY DEF send_msg
<1>c. \A g \in ObmmGuests :
        /\ Gets(g, "IMPORT_READY") => obmm_pc[g] = "meta_tx"
        /\ Gets(g, "IMPORT_OK") => obmm_pc[g] = "wait_ok"
        /\ Gets(g, "UNIMPORT_OK") => obmm_pc[g] = "wait_unimport" /\ "UNIMPORT_OK" \in obmm_net
        /\ Gets(g, "META") => obmm_pc[g] = "meta_rx" /\ "META" \in obmm_net
        /\ Gets(g, "WRITE_A_DONE") => obmm_pc[g] = "wait_a" /\ "WRITE_A_DONE" \in obmm_net
        /\ Gets(g, "WRITEBACK_OK") => obmm_pc[g] = "wait_wb" /\ "WRITEBACK_OK" \in obmm_net
  BY DEF Gets, AwaitedAt, ObmmWaiting
<1>1. CASE SendMeta
  <2>1. obmm_net' \subseteq obmm_net \cup {"META"}
    BY <1>1, <1>b DEF SendMeta
  <2> QED
    BY <1>1, <2>1 DEF SendMeta, ObmmInv, ObmmTypeOK, ObmmOrder, ObmmRegion,
                      TurnsDoNotOverlap, PassIsVerified, ObmmSeen, ToImporter
<1>2. CASE TakeImportReady
  <2>1. /\ obmm_pc[Exporter] = "meta_tx" /\ obmm_pc'[Exporter] = "wait_ok"
        /\ obmm_pc'[Importer] = obmm_pc[Importer] /\ obmm_pc' \in [ObmmGuests -> ObmmPCs]
    BY <1>2, <1>c, ObmmMove DEF TakeImportReady
  <2>2. /\ region' \in {region, "A"} /\ (region' = "gone" <=> region = "gone")
        /\ view' \in [ObmmGuests -> {"zero", "A", "B"}] /\ view'[Exporter] = "A"
    BY <1>2, ObmmStamp DEF TakeImportReady
  <2>3. obmm_net' \subseteq obmm_net \cup {"WRITE_A_DONE"} /\ UNCHANGED <<mapped, obmm_disturbed>>
    BY <1>2, <1>b DEF TakeImportReady
  <2> QED
    BY <2>1, <2>2, <2>3 DEF ObmmInv, ObmmTypeOK, ObmmOrder, ObmmRegion, TurnsDoNotOverlap,
                            PassIsVerified, ObmmSeen, ToImporter
<1>3. CASE VerifyB
  <2>1. /\ obmm_pc[Exporter] = "verify_b" /\ obmm_pc'[Exporter] = "wait_unimport"
        /\ obmm_pc'[Importer] = obmm_pc[Importer] /\ obmm_pc' \in [ObmmGuests -> ObmmPCs]
    BY <1>3, ObmmMove DEF VerifyB
  <2>2. /\ obmm_net' \subseteq obmm_net \cup {"WRITEBACK_OK"}
        /\ UNCHANGED <<region, view, mapped, obmm_disturbed>> /\ view[Exporter] = "B"
    BY <1>3, <1>b DEF VerifyB
  <2> QED
    BY <2>1, <2>2 DEF ObmmInv, ObmmTypeOK, ObmmOrder, ObmmRegion, TurnsDoNotOverlap,
                      PassIsVerified, ObmmSeen, ToImporter
<1>4. CASE TakeUnimport
  <2>1. /\ "UNIMPORT_OK" \in obmm_net /\ obmm_pc'[Exporter] = "passed"
        /\ obmm_pc'[Importer] = obmm_pc[Importer] /\ obmm_pc' \in [ObmmGuests -> ObmmPCs]
    BY <1>4, <1>c, ObmmMove DEF TakeUnimport, ObmmExit
  <2>2. /\ obmm_net' \subseteq obmm_net /\ region' = "gone" /\ mapped' = mapped \ {Exporter}
        /\ UNCHANGED <<view, obmm_disturbed>>
    BY <1>4 DEF TakeUnimport, ObmmExit
  <2> QED
    BY <2>1, <2>2 DEF ObmmInv, ObmmTypeOK, ObmmOrder, ObmmRegion, TurnsDoNotOverlap,
                      PassIsVerified, ObmmSeen
<1>5. CASE TakeMeta
  <2>1. /\ "META" \in obmm_net /\ obmm_pc[Importer] = "meta_rx" /\ obmm_pc'[Importer] = "wait_a"
        /\ obmm_pc'[Exporter] = obmm_pc[Exporter] /\ obmm_pc' \in [ObmmGuests -> ObmmPCs]
    BY <1>5, <1>c, ObmmMove DEF TakeMeta
  <2>2. /\ obmm_net' \subseteq obmm_net \cup {"IMPORT_READY"} /\ mapped' = mapped \cup {Importer}
        /\ UNCHANGED <<region, view, obmm_disturbed>>
    BY <1>5, <1>b DEF TakeMeta
  <2> QED
    BY <2>1, <2>2 DEF ObmmInv, ObmmTypeOK, ObmmOrder, ObmmRegion, TurnsDoNotOverlap,
                      PassIsVerified, ObmmSeen, ToExporter
<1>6. CASE VerifyA
  <2>1. /\ obmm_pc[Importer] = "verify_a" /\ obmm_pc'[Importer] = "wait_wb"
        /\ obmm_pc'[Exporter] = obmm_pc[Exporter] /\ obmm_pc' \in [ObmmGuests -> ObmmPCs]
    BY <1>6, ObmmMove DEF VerifyA
  <2>2. /\ region' \in {region, "B"} /\ (region' = "gone" <=> region = "gone")
        /\ view' \in [ObmmGuests -> {"zero", "A", "B"}] /\ view'[Exporter] = view[Exporter]
    BY <1>6, ObmmStamp DEF VerifyA
  <2>3. obmm_net' \subseteq obmm_net \cup {"IMPORT_OK"} /\ UNCHANGED <<mapped, obmm_disturbed>>
    BY <1>6, <1>b DEF VerifyA
  <2> QED
    BY <2>1, <2>2, <2>3 DEF ObmmInv, ObmmTypeOK, ObmmOrder, ObmmRegion, TurnsDoNotOverlap,
                            PassIsVerified, ObmmSeen, ToExporter
<1>7. CASE TakeWriteback
  <2>1. /\ obmm_pc[Importer] = "wait_wb" /\ "WRITEBACK_OK" \in obmm_net
        /\ obmm_pc'[Importer] = "passed"
        /\ obmm_pc'[Exporter] = obmm_pc[Exporter] /\ obmm_pc' \in [ObmmGuests -> ObmmPCs]
    BY <1>7, <1>c, ObmmMove DEF TakeWriteback, ObmmExit
  <2>2. /\ obmm_net' \subseteq obmm_net \cup {"UNIMPORT_OK"} /\ mapped' = mapped \ {Importer}
        /\ UNCHANGED <<region, view, obmm_disturbed>>
    BY <1>7, <1>b DEF TakeWriteback, ObmmExit
  <2> QED
    BY <2>1, <2>2 DEF ObmmInv, ObmmTypeOK, ObmmOrder, ObmmRegion, TurnsDoNotOverlap,
                      PassIsVerified, ObmmSeen, ToExporter
<1>8. ASSUME NEW g \in ObmmGuests, TakeHandOver(g) PROVE ObmmInv'
  <2>0. obmm_net' \subseteq obmm_net /\ UNCHANGED <<region, view, mapped, obmm_disturbed>>
    BY <1>8 DEF TakeHandOver
  <2>1. CASE g = Exporter
    <3>1. /\ obmm_pc[Exporter] = "wait_ok" /\ obmm_pc'[Exporter] = "verify_b"
          /\ obmm_pc'[Importer] = obmm_pc[Importer] /\ obmm_pc' \in [ObmmGuests -> ObmmPCs]
      BY <1>8, <2>1, <1>c, ObmmMove DEF TakeHandOver, ObmmInv, ObmmTypeOK
    <3> QED
      BY <2>0, <3>1 DEF ObmmInv, ObmmTypeOK, ObmmOrder, ObmmRegion, TurnsDoNotOverlap,
                        PassIsVerified, ObmmSeen
  <2>2. CASE g = Importer
    <3>1. /\ obmm_pc[Importer] = "wait_a" /\ "WRITE_A_DONE" \in obmm_net
          /\ obmm_pc'[Importer] = "verify_a"
          /\ obmm_pc'[Exporter] = obmm_pc[Exporter] /\ obmm_pc' \in [ObmmGuests -> ObmmPCs]
      BY <1>8, <2>2, <1>c, ObmmMove DEF TakeHandOver, ObmmInv, ObmmTypeOK
    <3> QED
      BY <2>0, <3>1 DEF ObmmInv, ObmmTypeOK, ObmmOrder, ObmmRegion, TurnsDoNotOverlap,
                        PassIsVerified, ObmmSeen
  <2> QED BY <2>1, <2>2
<1>9. ASSUME NEW g \in ObmmGuests, Spread(g) PROVE ObmmInv'
  BY <1>9 DEF Spread, ObmmInv, ObmmTypeOK, ObmmOrder, ObmmRegion,
               TurnsDoNotOverlap, PassIsVerified, ObmmSeen
<1>10. ASSUME NEW g \in ObmmGuests,
              ObmmTimeout(g) \/ ObmmFails(g) \/ ObmmStartFails(g)
       PROVE  ObmmInv'
  <2>1. /\ obmm_pc' = [obmm_pc EXCEPT ![g] = "failed"]
        /\ mapped' = mapped \ {g}
        /\ region' = IF g = Exporter THEN "gone" ELSE region
        /\ obmm_net' \subseteq obmm_net /\ UNCHANGED view
    BY <1>10 DEF ObmmTimeout, ObmmFails, ObmmStartFails, ObmmExit
  <2>2. obmm_disturbed' \in BOOLEAN
    BY <1>a, <1>10 DEF ObmmTimeout, ObmmFails, ObmmStartFails, ObmmInv, ObmmTypeOK
  <2>3. obmm_pc[g] # "passed"
    BY <1>10 DEF ObmmTimeout, ObmmFails, ObmmStartFails, ObmmRunning, ObmmWaiting,
                 AwaitedAt
  <2> QED BY <2>1, <2>2, <2>3, ObmmEndKeepsInv
<1>11. ASSUME NEW m \in obmm_net, ObmmLose(m) \/ \E g \in ObmmGuests : ObmmDiscard(g, m)
       PROVE  ObmmInv'
  BY <1>11 DEF ObmmDiscard, ObmmLose, ObmmInv, ObmmTypeOK, ObmmOrder, ObmmRegion,
               TurnsDoNotOverlap, PassIsVerified, ObmmSeen
<1>12. ASSUME NEW g \in ObmmGuests, ObmmStart(g) PROVE ObmmInv'
  <2>0. obmm_pc[g] = "down" /\ UNCHANGED <<obmm_net, view, obmm_disturbed>>
    BY <1>12 DEF ObmmStart
  <2>1. CASE g = Exporter
    <3>1. /\ obmm_pc'[Exporter] = "meta_tx" /\ obmm_pc'[Importer] = obmm_pc[Importer]
          /\ obmm_pc' \in [ObmmGuests -> ObmmPCs]
          /\ region' = "zero" /\ mapped' = mapped \cup {Exporter}
      BY <1>12, <2>1, ObmmMove DEF ObmmStart
    <3> QED
      BY <2>0, <2>1, <3>1 DEF ObmmInv, ObmmTypeOK, ObmmOrder, ObmmRegion, TurnsDoNotOverlap,
                        PassIsVerified, ObmmSeen
  <2>2. CASE g = Importer
    <3>1. /\ obmm_pc'[Importer] = "meta_rx" /\ obmm_pc'[Exporter] = obmm_pc[Exporter]
          /\ obmm_pc' \in [ObmmGuests -> ObmmPCs] /\ UNCHANGED <<region, mapped>>
      BY <1>12, <2>2, ObmmMove DEF ObmmStart
    <3> QED
      BY <2>0, <2>2, <3>1 DEF ObmmInv, ObmmTypeOK, ObmmOrder, ObmmRegion, TurnsDoNotOverlap,
                        PassIsVerified, ObmmSeen
  <2> QED BY <2>1, <2>2
<1>13. CASE UNCHANGED obmmVars
  BY <1>13 DEF obmmVars, ObmmInv, ObmmTypeOK, ObmmOrder, ObmmRegion,
               TurnsDoNotOverlap, PassIsVerified, ObmmSeen
<1> QED
  BY <1>1, <1>2, <1>3, <1>4, <1>5, <1>6, <1>7, <1>8, <1>9, <1>10, <1>11, <1>12, <1>13
     DEF ObmmNext, ObmmStep, ObmmTake

\* The safety properties of the OBMM program follow from ObmmInv.
LEMMA ObmmInvGivesSafety ==
  ObmmInv => ObmmTypeOK /\ RegionIsPassedOn
<1> SUFFICES ASSUME ObmmInv PROVE ExportOutlivesImport
  BY DEF ObmmInv, RegionIsPassedOn
<1> QED
  BY DEF ObmmInv, ObmmTypeOK, ObmmRegion, PassIsVerified, ExportOutlivesImport

\* ub_obmm_demo on its own: a guest that has left has nothing mapped, a passing
\* exporter's region outlives its import, the guests never write at the same
\* time, and a pass says what the peer has seen.
THEOREM ObmmSafety ==
  ObmmSpec => [](ObmmTypeOK /\ RegionIsPassedOn)
<1>1. ObmmInv /\ [ObmmNext]_obmmVars => ObmmInv'
  BY ObmmStepKeepsInv
<1> QED
  BY InitObmmInv, <1>1, ObmmInvGivesSafety, PTL DEF ObmmSpec

-----------------------------------------------------------------------------
(***************************************************************************)
(* ub_tcp_each_server_demo.c                                               *)
(***************************************************************************)

\* How far parent and child have to be for a line, an acknowledgement and a
\* verdict; a line is sent on the last attempt of its guest.
TcpProgress ==
  \A g \in TcpGuests :
    /\ g \in line => parent[g] \in {"ack", "reap", "passed", "failed"}
    /\ g \in ack => child[TcpPeer(g)] = "ok"
    /\ child[g] = "ok" => TcpPeer(g) \in ack
    /\ parent[g] \in {"reap", "passed"} => g \in ack
    /\ parent[g] = "passed" => child[g] = "ok"
    /\ parent[g] = "down" => child[g] = "none"

TcpInv ==
  /\ TcpTypeOK
  /\ queue \in [TcpGuests -> Seq(1 .. MaxAttempts)]
  /\ TcpProgress
  /\ NoOrphan
  /\ AckOnLiveAttempt

\* Each of the two guests is the peer of the other.
LEMMA TcpPeers == \A g \in TcpGuests : /\ TcpPeer(g) \in TcpGuests /\ TcpPeer(g) # g
                                       /\ TcpPeer(TcpPeer(g)) = g
                                       /\ \A h \in TcpGuests : h = g \/ h = TcpPeer(g)
  BY TcpAssumption DEF TcpGuests, TcpPeer

TcpParents  == {"down", "connect", "established", "ack", "reap"} \cup TcpEnded
TcpChildren == {"none", "accept", "recv"} \cup ChildEnded

\* Before power-on TcpInv holds: there is no process and no connection.
LEMMA InitTcpInv == TcpInit => TcpInv
<1> SUFFICES ASSUME TcpInit PROVE TcpInv
  OBVIOUS
<1>1. queue \in [TcpGuests -> Seq(1 .. MaxAttempts)] /\ 1 \in 1 .. MaxAttempts
  BY TcpAssumption DEF TcpInit
<1>2. TcpTypeOK
  <2>1. /\ attempt \in [TcpGuests -> 1 .. MaxAttempts]
        /\ accepted \in [TcpGuests -> 0 .. MaxAttempts]
    BY <1>1, TcpAssumption DEF TcpInit
  <2>2. /\ \A g \in TcpGuests : queue[g] \in Seq(1 .. MaxAttempts)
        /\ line \subseteq TcpGuests /\ ack \subseteq TcpGuests /\ tcp_disturbed \in BOOLEAN
    BY <1>1 DEF TcpInit
  <2>3. /\ parent \in [TcpGuests -> {"down", "connect", "established", "ack", "reap"} \cup TcpEnded]
        /\ child \in [TcpGuests -> {"none", "accept", "recv"} \cup ChildEnded]
    BY DEF TcpInit
  <2> QED BY <2>1, <2>2, <2>3 DEF TcpTypeOK
<1>3. /\ \A g \in TcpGuests : parent[g] = "down" /\ child[g] = "none"
      /\ line = {} /\ ack = {}
  BY DEF TcpInit
<1>4. TcpProgress /\ NoOrphan /\ AckOnLiveAttempt
  BY <1>3, TcpPeers DEF TcpProgress, NoOrphan, AckOnLiveAttempt, Listener, TcpEnded
<1> QED BY <1>1, <1>2, <1>4 DEF TcpInv

\* A step of one guest's parent or child leaves the other guest where it is.
LEMMA TcpMove ==
  ASSUME TcpInv, NEW g \in TcpGuests, NEW p \in TcpParents, NEW c \in TcpChildren,
         parent' = [parent EXCEPT ![g] = p], child' = [child EXCEPT ![g] = c]
  PROVE  /\ parent' \in [TcpGuests -> TcpParents] /\ child' \in [TcpGuests -> TcpChildren]
         /\ parent'[g] = p /\ child'[g] = c
         /\ \A h \in TcpGuests : h # g => parent'[h] = parent[h] /\ child'[h] = child[h]
  BY DEF TcpInv, TcpTypeOK, TcpParents, TcpChildren

\* Where the two processes of a guest can be.
LEMMA TcpPoints ==
  ASSUME TcpInv, NEW g \in TcpGuests
  PROVE  /\ parent[g] \in TcpParents /\ child[g] \in TcpChildren
         /\ parent = [parent EXCEPT ![g] = parent[g]]
         /\ child = [child EXCEPT ![g] = child[g]]
  BY DEF TcpInv, TcpTypeOK, TcpParents, TcpChildren

\* A step of the parent that sends nothing and stays on its attempt.
LEMMA TcpParentKeepsInv ==
  ASSUME TcpInv, NEW g \in TcpGuests, NEW p \in TcpParents, NEW c \in TcpChildren,
         parent' = [parent EXCEPT ![g] = p], child' = [child EXCEPT ![g] = c],
         tcp_disturbed' \in BOOLEAN, UNCHANGED <<attempt, queue, accepted, line, ack>>,
         c = "ok" <=> child[g] = "ok",
         g \in line => p \in {"ack", "reap", "passed", "failed"},
         p \in {"reap", "passed"} => g \in ack,
         p = "passed" => c = "ok",
         p # "down",
         p \in TcpEnded => c \notin {"accept", "recv"}
  PROVE  TcpInv'
<1>1. /\ parent' \in [TcpGuests -> TcpParents] /\ child' \in [TcpGuests -> TcpChildren]
      /\ parent'[g] = p /\ child'[g] = c
      /\ \A h \in TcpGuests : h # g => parent'[h] = parent[h] /\ child'[h] = child[h]
  BY TcpMove
<1>2. TcpTypeOK' /\ queue' \in [TcpGuests -> Seq(1 .. MaxAttempts)]
  BY <1>1 DEF TcpInv, TcpTypeOK, TcpParents, TcpChildren
<1>3. TcpProgress'
  BY <1>1, TcpPeers DEF TcpInv, TcpProgress
<1>4. NoOrphan'
  BY <1>1 DEF TcpInv, NoOrphan, Listener
<1>5. AckOnLiveAttempt'
  BY TcpPeers DEF TcpInv, AckOnLiveAttempt
<1> QED BY <1>2, <1>3, <1>4, <1>5 DEF TcpInv

\* A step of client, server child or network keeps TcpInv.
LEMMA TcpStepKeepsInv == TcpInv /\ (TcpNext \/ UNCHANGED tcpVars) => TcpInv'
<1> SUFFICES ASSUME TcpInv, TcpNext \/ UNCHANGED tcpVars PROVE TcpInv'
  OBVIOUS
<1> USE TcpPeers
<1>t. tcp_disturbed \in BOOLEAN
  BY DEF TcpInv, TcpTypeOK
<1>1. ASSUME NEW g \in TcpGuests,
             \/ TcpFails(g) \/ TcpStartFails(g) \/ ConnectTimeout(g) \/ AckTimeout(g)
      PROVE  TcpInv'
  <2>1. PICK disturbs \in BOOLEAN : ParentFails(g, disturbs)
    BY <1>1 DEF TcpFails, TcpStartFails, ConnectTimeout, AckTimeout, NoAck
  <2>2. parent[g] \in {"down", "connect", "established", "ack"}
    BY <1>1 DEF TcpFails, TcpStartFails, ConnectTimeout, AckTimeout
  <2> DEFINE c == IF child[g] \in {"accept", "recv"} THEN "exit1" ELSE child[g]
  <2>3. c \in TcpChildren /\ "failed" \in TcpParents /\ (c = "ok" <=> child[g] = "ok")
        /\ c \notin {"accept", "recv"}
    BY TcpPoints DEF TcpParents, TcpChildren, TcpEnded, ChildEnded
  <2>4. /\ parent' = [parent EXCEPT ![g] = "failed"] /\ child' = [child EXCEPT ![g] = c]
        /\ tcp_disturbed' \in BOOLEAN /\ UNCHANGED <<attempt, queue, accepted, line, ack>>
    BY <2>1, <1>t DEF ParentFails
  <2> HIDE DEF c
  <2> QED BY <2>3, <2>4, TcpParentKeepsInv
<1>2. ASSUME NEW g \in TcpGuests, TcpStart(g) PROVE TcpInv'
  <2>1. "connect" \in TcpParents /\ "accept" \in TcpChildren /\ child[g] = "none" /\ g \notin line
    BY <1>2 DEF TcpStart, TcpInv, TcpProgress, TcpParents, TcpChildren
  <2> QED
    BY <1>2, <1>t, <2>1, TcpParentKeepsInv DEF TcpStart, TcpEnded
<1>3. ASSUME NEW g \in TcpGuests, RecvAck(g) PROVE TcpInv'
  <2>1. "reap" \in TcpParents /\ child[g] \in TcpChildren /\ child = [child EXCEPT ![g] = child[g]]
    BY TcpPoints DEF TcpParents
  <2> QED
    BY <1>3, <1>t, <2>1, TcpParentKeepsInv DEF RecvAck, TcpEnded
<1>4. ASSUME NEW g \in TcpGuests, ReapChild(g) PROVE TcpInv'
  <2>1. /\ {"passed", "failed"} \subseteq TcpParents /\ child[g] \in TcpChildren
        /\ child = [child EXCEPT ![g] = child[g]]
    BY TcpPoints DEF TcpParents, TcpEnded
  <2>2. g \in ack
    BY <1>4 DEF ReapChild, TcpInv, TcpProgress
  <2>3. /\ UNCHANGED <<child, attempt, queue, accepted, line, ack, tcp_disturbed>>
        /\ child[g] \in {"ok", "exit1"}
        /\ child[g] = "ok" => parent' = [parent EXCEPT ![g] = "passed"]
        /\ child[g] # "ok" => parent' = [parent EXCEPT ![g] = "failed"]
    BY <1>4 DEF ReapChild, ChildEnded
  <2>4. CASE child[g] = "ok"
    BY <1>t, <2>1, <2>2, <2>3, <2>4, TcpParentKeepsInv
  <2>5. CASE child[g] # "ok"
    BY <1>t, <2>1, <2>2, <2>3, <2>5, TcpParentKeepsInv
  <2> QED BY <2>4, <2>5
<1>5. ASSUME NEW g \in TcpGuests, Establish(g) PROVE TcpInv'
  <2>1. "established" \in TcpParents /\ child[g] \in TcpChildren
        /\ child = [child EXCEPT ![g] = child[g]]
    BY TcpPoints DEF TcpParents
  <2>2. /\ parent' \in [TcpGuests -> TcpParents] /\ UNCHANGED child
        /\ parent'[g] = "established" /\ parent[g] = "connect"
        /\ \A h \in TcpGuests : h # g => parent'[h] = parent[h]
        /\ UNCHANGED <<attempt, accepted, line, ack, tcp_disturbed>>
    BY <1>5, <2>1, TcpMove DEF Establish
  <2>3. /\ queue[TcpPeer(g)] \in Seq(1 .. MaxAttempts) /\ attempt[g] \in 1 .. MaxAttempts
    BY DEF TcpInv, TcpTypeOK
  <2>4. Append(queue[TcpPeer(g)], attempt[g]) \in Seq(1 .. MaxAttempts)
    BY <2>3, AppendProperties
  <2>5. queue' \in [TcpGuests -> Seq(1 .. MaxAttempts)]
    BY <1>5, <2>4 DEF Establish, TcpInv
  <2>6. TcpTypeOK'
    BY <2>2, <2>5 DEF TcpInv, TcpTypeOK, TcpParents
  <2> QED
    BY <2>2, <2>5, <2>6 DEF TcpInv, TcpProgress, NoOrphan, Listener, TcpEnded, AckOnLiveAttempt
<1>6. ASSUME NEW g \in TcpGuests, Retry(g) PROVE TcpInv'
  <2>1. "connect" \in TcpParents /\ child[g] \in TcpChildren
        /\ child = [child EXCEPT ![g] = child[g]]
    BY TcpPoints DEF TcpParents
  <2>2. /\ parent' \in [TcpGuests -> TcpParents] /\ UNCHANGED child
        /\ parent'[g] = "connect" /\ parent[g] \in {"connect", "established"}
        /\ \A h \in TcpGuests : h # g => parent'[h] = parent[h]
        /\ UNCHANGED <<queue, accepted, line, ack>>
    BY <1>6, <2>1, TcpMove DEF Retry
  <2>3. /\ attempt' \in [TcpGuests -> 1 .. MaxAttempts]
        /\ \A h \in TcpGuests : h # g => attempt'[h] = attempt[h]
        /\ tcp_disturbed' \in BOOLEAN
    BY <1>6, <1>t, TcpAssumption DEF Retry, TcpInv, TcpTypeOK
  <2>4. g \notin line /\ g \notin ack
    BY <2>2 DEF TcpInv, TcpProgress, AckOnLiveAttempt
  <2>5. TcpTypeOK'
    BY <2>2, <2>3 DEF TcpInv, TcpTypeOK, TcpParents
  <2>6. TcpProgress'
    BY <2>2, <2>4 DEF TcpInv, TcpProgress
  <2>7. AckOnLiveAttempt'
    BY <2>2, <2>3, <2>4 DEF TcpInv, AckOnLiveAttempt
  <2>8. NoOrphan'
    BY <2>2 DEF TcpInv, NoOrphan, Listener, TcpEnded
  <2> QED
    BY <2>2, <2>5, <2>6, <2>7, <2>8 DEF TcpInv
<1>7. ASSUME NEW g \in TcpGuests, SendLine(g) PROVE TcpInv'
  <2>1. "ack" \in TcpParents /\ child[g] \in TcpChildren
        /\ child = [child EXCEPT ![g] = child[g]]
    BY TcpPoints DEF TcpParents
  <2>2. /\ parent' \in [TcpGuests -> TcpParents] /\ UNCHANGED child
        /\ parent'[g] = "ack" /\ parent[g] = "established"
        /\ \A h \in TcpGuests : h # g => parent'[h] = parent[h]
        /\ line' = line \cup {g}
        /\ UNCHANGED <<attempt, queue, accepted, ack, tcp_disturbed>>
    BY <1>7, <2>1, TcpMove DEF SendLine
  <2> QED
    BY <2>2 DEF TcpInv, TcpTypeOK, TcpParents, TcpProgress, NoOrphan, Listener, TcpEnded,
                AckOnLiveAttempt
<1>8. ASSUME NEW g \in TcpGuests, Accept(g) PROVE TcpInv'
  <2>1. "recv" \in TcpChildren /\ parent[g] \in TcpParents
        /\ parent = [parent EXCEPT ![g] = parent[g]]
    BY TcpPoints DEF TcpChildren
  <2>2. /\ child' \in [TcpGuests -> TcpChildren] /\ UNCHANGED parent
        /\ child'[g] = "recv" /\ child[g] = "accept"
        /\ \A h \in TcpGuests : h # g => child'[h] = child[h]
        /\ UNCHANGED <<attempt, line, ack, tcp_disturbed>>
    BY <1>8, <2>1, TcpMove DEF Accept
  <2>3. queue[g] \in Seq(1 .. MaxAttempts) /\ queue[g] # << >>
    BY <1>8 DEF Accept, TcpInv
  <2>4. Head(queue[g]) \in 1 .. MaxAttempts /\ Tail(queue[g]) \in Seq(1 .. MaxAttempts)
    BY <2>3, HeadTailProperties
  <2>5. queue' \in [TcpGuests -> Seq(1 .. MaxAttempts)]
    BY <1>8, <2>4 DEF Accept, TcpInv
  <2>6. /\ accepted' \in [TcpGuests -> 0 .. MaxAttempts]
        /\ \A h \in TcpGuests : h # g => accepted'[h] = accepted[h]
    BY <1>8, <2>4, TcpAssumption DEF Accept, TcpInv, TcpTypeOK
  <2>7. TcpPeer(g) \notin ack /\ parent[g] \notin {"down", "passed"}
    BY <2>2 DEF TcpInv, TcpProgress
  <2>8. TcpTypeOK'
    BY <2>2, <2>5, <2>6 DEF TcpInv, TcpTypeOK, TcpChildren
  <2>9. TcpProgress'
    <3> SUFFICES ASSUME NEW h \in TcpGuests
                 PROVE  /\ h \in line => parent[h] \in {"ack", "reap", "passed", "failed"}
                        /\ h \in ack => child'[TcpPeer(h)] = "ok"
                        /\ child'[h] = "ok" => TcpPeer(h) \in ack
                        /\ parent[h] \in {"reap", "passed"} => h \in ack
                        /\ parent[h] = "passed" => child'[h] = "ok"
                        /\ parent[h] = "down" => child'[h] = "none"
      BY <2>2 DEF TcpProgress
    <3>1. h \in ack => TcpPeer(h) # g
      BY <2>7
    <3> QED BY <2>2, <2>7, <3>1 DEF TcpInv, TcpProgress
  <2>10. NoOrphan'
    BY <2>2 DEF TcpInv, NoOrphan, Listener
  <2>11. AckOnLiveAttempt'
    BY <2>2, <2>6, <2>7 DEF TcpInv, AckOnLiveAttempt
  <2> QED
    BY <2>5, <2>8, <2>9, <2>10, <2>11 DEF TcpInv
<1>9. ASSUME NEW g \in TcpGuests, Serve(g) PROVE TcpInv'
  <2>1. "ok" \in TcpChildren /\ parent[g] \in TcpParents
        /\ parent = [parent EXCEPT ![g] = parent[g]]
    BY TcpPoints DEF TcpChildren, ChildEnded
  <2>2. /\ child' \in [TcpGuests -> TcpChildren] /\ UNCHANGED parent
        /\ child'[g] = "ok" /\ child[g] = "recv"
        /\ \A h \in TcpGuests : h # g => child'[h] = child[h]
        /\ ack' = ack \cup {TcpPeer(g)}
        /\ accepted[g] = attempt[TcpPeer(g)] /\ TcpPeer(g) \in line
        /\ UNCHANGED <<attempt, queue, accepted, line, tcp_disturbed>>
    BY <1>9, <2>1, TcpMove DEF Serve
  <2>3. TcpTypeOK'
    BY <2>2 DEF TcpInv, TcpTypeOK, TcpChildren
  <2>4. TcpProgress'
    BY <2>2 DEF TcpInv, TcpProgress
  <2>5. NoOrphan' /\ AckOnLiveAttempt'
    BY <2>2 DEF TcpInv, NoOrphan, Listener, AckOnLiveAttempt
  <2> QED
    BY <2>2, <2>3, <2>4, <2>5 DEF TcpInv
<1>10. ASSUME NEW g \in TcpGuests, UnexpectedEof(g) \/ ChildTimeout(g) PROVE TcpInv'
  <2>1. "exit1" \in TcpChildren /\ parent[g] \in TcpParents
        /\ parent = [parent EXCEPT ![g] = parent[g]]
    BY TcpPoints DEF TcpChildren, ChildEnded
  <2>2. /\ child[g] \in {"accept", "recv"} /\ child' = [child EXCEPT ![g] = "exit1"]
        /\ UNCHANGED <<parent, attempt, queue, accepted, line, ack>>
    BY <1>10 DEF UnexpectedEof, ChildTimeout, Listener
  <2>3. tcp_disturbed' \in BOOLEAN
    BY <1>10, <1>t DEF UnexpectedEof, ChildTimeout, ClientComing
  <2>4. /\ parent[g] # "down" /\ parent[g] # "passed"
        /\ g \in line => parent[g] \in {"ack", "reap", "passed", "failed"}
        /\ parent[g] \in {"reap", "passed"} => g \in ack
    BY <2>2 DEF TcpInv, TcpProgress
  <2> QED
    BY <2>1, <2>2, <2>3, <2>4, TcpParentKeepsInv
<1>11. CASE UNCHANGED tcpVars
  BY <1>11 DEF tcpVars, TcpInv, TcpTypeOK, TcpProgress, NoOrphan, Listener, AckOnLiveAttempt
<1> QED
  BY <1>1, <1>2, <1>3, <1>4, <1>5, <1>6, <1>7, <1>8, <1>9, <1>10, <1>11
     DEF TcpNext, TcpStep, ParentProceed, ChildProceed, TcpClock

\* The safety properties of the TCP program follow from TcpInv.
LEMMA TcpInvGivesSafety ==
  TcpInv => TcpTypeOK /\ PassIsMutual /\ NoOrphan /\ AckOnLiveAttempt
<1> SUFFICES ASSUME TcpInv PROVE PassIsMutual
  BY DEF TcpInv
<1> QED
  BY TcpPeers DEF TcpInv, TcpProgress, PassIsMutual

\* ub_tcp_each_server_demo on its own: a pass is a statement about both
\* directions, no server child outlives its parent, and an acknowledgement
\* never goes to an abandoned attempt.
THEOREM TcpSafety == TcpSpec => [](PassIsMutual /\ NoOrphan /\ AckOnLiveAttempt)
<1>1. TcpInv /\ [TcpNext]_tcpVars => TcpInv'
  BY TcpStepKeepsInv
<1> QED
  BY InitTcpInv, <1>1, TcpInvGivesSafety, PTL DEF TcpSpec

-----------------------------------------------------------------------------
(***************************************************************************)
(* ub_chat.c                                                               *)
(***************************************************************************)

ChatPCs  == {"down", "sync", "send", "wait", "passed", "failed", "mismatch"}
NotYet   == {"down", "sync", "send"}   \* the greeting of the round is still to come

\* A greeting under way is of a round the initiator has reached, a reply of one
\* the responder has counted; undisturbed, both are of the current round.
ChatWire ==
  \A m \in chat_net :
    /\ m.role \in ChatGuests /\ m.seq \in 0 .. ChatRounds - 1
    /\ m.tag = "CHAT" => m = ChatMsg(m.role, m.seq)
    /\ m.tag = "CHAT" /\ m.role = Initiator =>
         /\ m.seq <= chat_round[Initiator]
         /\ m.seq = chat_round[Initiator] => chat_pc[Initiator] \notin NotYet
         /\ ~chat_disturbed => /\ m.seq = chat_round[Responder]
                               /\ chat_round[Initiator] = chat_round[Responder]
    /\ m.tag = "CHAT" /\ m.role = Responder =>
         /\ m.seq < chat_round[Responder]
         /\ ~chat_disturbed => /\ m.seq = chat_round[Initiator]
                               /\ chat_round[Responder] = chat_round[Initiator] + 1

ChatRoundsInStep ==
  /\ chat_round[Responder] \in {chat_round[Initiator], chat_round[Initiator] + 1}
  /\ chat_round[Responder] > chat_round[Initiator] => chat_pc[Initiator] \notin NotYet
  /\ chat_pc[Initiator] = "passed" => chat_round[Initiator] = ChatRounds

ChatInv ==
  /\ chat_pc \in [ChatGuests -> ChatPCs]
  /\ chat_round \in [ChatGuests -> 0 .. ChatRounds]
  /\ shared_socket \in BOOLEAN /\ chat_disturbed \in BOOLEAN
  /\ ChatWire
  /\ ChatRoundsInStep
  /\ MismatchOnlyIfDisturbed

\* There are two guests, and each is the other of the other.
LEMMA ChatRoles == /\ Initiator \in ChatGuests /\ Responder \in ChatGuests
                   /\ Initiator # Responder
                   /\ \A g \in ChatGuests : g = Initiator \/ g = Responder
                   /\ Other(Initiator) = Responder /\ Other(Responder) = Initiator
  BY ChatAssumption DEF ChatGuests, Other

\* What the datagrams of the chat programs carry.
LEMMA ChatMsgFields ==
  /\ \A g, i : /\ ChatMsg(g, i).tag = "CHAT" /\ ChatMsg(g, i).role = g
               /\ ChatMsg(g, i).seq = i /\ ChatMsg(g, i).text = Text(g)
  /\ \A g : SyncMsg(g).tag # "CHAT" /\ SyncMsg(g).role = g /\ SyncMsg(g).seq = 0
  BY DEF ChatMsg, SyncMsg

\* Before power-on ChatInv holds: no datagram is under way.
LEMMA InitChatInv == ChatInit => ChatInv
<1> SUFFICES ASSUME ChatInit PROVE ChatInv
  OBVIOUS
<1>1. /\ chat_pc \in [ChatGuests -> ChatPCs] /\ \A g \in ChatGuests : chat_pc[g] = "down"
      /\ chat_round \in [ChatGuests -> 0 .. ChatRounds]
      /\ \A g \in ChatGuests : chat_round[g] = 0
  BY ChatAssumption DEF ChatInit, ChatPCs
<1>2. ChatRoundsInStep /\ MismatchOnlyIfDisturbed
  BY <1>1, ChatRoles DEF ChatRoundsInStep, MismatchOnlyIfDisturbed
<1> QED
  BY <1>1, <1>2 DEF ChatInit, ChatInv, ChatWire

\* A step that sends no greeting and no reply and counts no round.
LEMMA ChatPointKeepsInv ==
  ASSUME ChatInv, NEW g \in ChatGuests, NEW to \in ChatPCs,
         chat_pc' = [chat_pc EXCEPT ![g] = to],
         chat_net' \subseteq chat_net \cup {SyncMsg(Initiator), SyncMsg(Responder)},
         UNCHANGED <<chat_round, shared_socket>>,
         chat_disturbed' \in BOOLEAN, chat_disturbed => chat_disturbed',
         g = Initiator /\ to \in NotYet => chat_pc[g] \in NotYet,
         g = Initiator /\ to = "passed" => chat_round[g] = ChatRounds,
         to = "mismatch" => chat_disturbed'
  PROVE  ChatInv'
<1> USE ChatRoles
<1>1. /\ chat_pc' \in [ChatGuests -> ChatPCs] /\ chat_pc'[g] = to
      /\ \A h \in ChatGuests : h # g => chat_pc'[h] = chat_pc[h]
  BY DEF ChatInv
<1>2. chat_pc'[Initiator] \in NotYet => chat_pc[Initiator] \in NotYet
  BY <1>1
<1>3. chat_pc'[Initiator] = "passed" => chat_round[Initiator] = ChatRounds
  BY <1>1 DEF ChatInv, ChatRoundsInStep
<1>4. ChatRoundsInStep'
  BY <1>2, <1>3 DEF ChatInv, ChatRoundsInStep
<1>5. MismatchOnlyIfDisturbed'
  BY <1>1 DEF ChatInv, MismatchOnlyIfDisturbed
<1>6. ChatWire'
  <2> SUFFICES ASSUME NEW m \in chat_net'
               PROVE  /\ m.role \in ChatGuests /\ m.seq \in 0 .. ChatRounds - 1
                      /\ m.tag = "CHAT" => m = ChatMsg(m.role, m.seq)
                      /\ m.tag = "CHAT" /\ m.role = Initiator =>
                           /\ m.seq <= chat_round[Initiator]
                           /\ m.seq = chat_round[Initiator] => chat_pc'[Initiator] \notin NotYet
                           /\ ~chat_disturbed' => /\ m.seq = chat_round[Responder]
                                                  /\ chat_round[Initiator] = chat_round[Responder]
                      /\ m.tag = "CHAT" /\ m.role = Responder =>
                           /\ m.seq < chat_round[Responder]
                           /\ ~chat_disturbed' =>
                                /\ m.seq = chat_round[Initiator]
                                /\ chat_round[Responder] = chat_round[Initiator] + 1
    BY DEF ChatWire
  <2>1. CASE m \in chat_net
    BY <1>2, <2>1 DEF ChatInv, ChatWire
  <2>2. CASE m \in {SyncMsg(Initiator), SyncMsg(Responder)}
    BY <2>2, ChatMsgFields, ChatAssumption
  <2> QED BY <2>1, <2>2
<1> QED
  BY <1>1, <1>4, <1>5, <1>6 DEF ChatInv

\* A step of either program or of the network keeps ChatInv.
LEMMA ChatStepKeepsInv == ChatInv /\ (ChatNext \/ UNCHANGED chatVars) => ChatInv'
<1> SUFFICES ASSUME ChatInv, ChatNext \/ UNCHANGED chatVars PROVE ChatInv'
  OBVIOUS
<1> USE ChatRoles
<1>t. /\ chat_disturbed \in BOOLEAN
      /\ \A g \in ChatGuests : chat_pc[g] \in ChatPCs /\ chat_pc = [chat_pc EXCEPT ![g] = chat_pc[g]]
  BY DEF ChatInv
<1>s. \A g \in ChatGuests : ChatSend(g, SyncMsg(g)) \subseteq chat_net \cup {SyncMsg(g)}
  BY DEF ChatSend
<1>c. ASSUME NEW m \in chat_net, NEW n \in ChatTaken(m) PROVE n \subseteq chat_net
  BY <1>c DEF ChatTaken
<1>d. ASSUME NEW g \in ChatGuests, NEW m \in chat_net, Mismatch(g, m) PROVE chat_disturbed
  BY <1>d DEF Mismatch, Fits, ChatInv, ChatWire, ChatMsg
<1>1. ASSUME NEW g \in ChatGuests, ChatStart(g) \/ ChatStartFails(g) \/ ChatDone(g) \/ ChatTimeout(g)
      PROVE  ChatInv'
  <2>1. chat_net' \subseteq chat_net /\ UNCHANGED <<chat_round, shared_socket>>
    BY <1>1 DEF ChatStart, ChatStartFails, ChatDone, ChatTimeout, ChatExit
  <2>2. chat_disturbed' \in BOOLEAN /\ (chat_disturbed => chat_disturbed')
    BY <1>1, <1>t DEF ChatStart, ChatStartFails, ChatDone, ChatTimeout
  <2>3. \E to \in {"sync", "failed", "passed"} :
          /\ chat_pc' = [chat_pc EXCEPT ![g] = to]
          /\ to = "sync" => chat_pc[g] = "down"
          /\ to = "passed" => chat_round[g] = ChatRounds
    BY <1>1 DEF ChatStart, ChatStartFails, ChatDone, ChatTimeout, ChatExit
  <2>4. PICK to \in {"sync", "failed", "passed"} :
          /\ chat_pc' = [chat_pc EXCEPT ![g] = to]
          /\ to = "sync" => chat_pc[g] = "down"
          /\ to = "passed" => chat_round[g] = ChatRounds
    BY <2>3
  <2>5. /\ to \in ChatPCs /\ to # "mismatch" /\ (to \in NotYet => to = "sync") /\ "down" \in NotYet
    BY DEF ChatPCs, NotYet
  <2> QED BY <2>1, <2>2, <2>4, <2>5, ChatPointKeepsInv
<1>2. ASSUME NEW g \in ChatGuests, NEW m \in chat_net, Mismatch(g, m) PROVE ChatInv'
  <2>1. "mismatch" \in ChatPCs /\ "mismatch" \notin NotYet
    BY DEF ChatPCs, NotYet
  <2> QED
    BY <1>2, <1>d, <1>t, <2>1, ChatPointKeepsInv DEF Mismatch, ChatExit
<1>3. ASSUME NEW m \in chat_net, NEW g \in ChatGuests, ChatLose(m) \/ IgnoreControl(g, m)
      PROVE  ChatInv'
  <2>1. /\ chat_pc' = [chat_pc EXCEPT ![g] = chat_pc[g]] /\ chat_net' \subseteq chat_net
        /\ UNCHANGED <<chat_pc, chat_round, shared_socket>>
        /\ chat_disturbed' \in BOOLEAN /\ (chat_disturbed => chat_disturbed')
    BY <1>3, <1>t DEF ChatLose, IgnoreControl
  <2>2. /\ chat_pc[g] = "mismatch" => chat_disturbed
        /\ g = Initiator /\ chat_pc[g] = "passed" => chat_round[g] = ChatRounds
    BY DEF ChatInv, MismatchOnlyIfDisturbed, ChatRoundsInStep
  <2> QED BY <1>t, <2>1, <2>2, ChatPointKeepsInv
<1>4. CASE SyncRequest
  <2>1. /\ chat_pc' = [chat_pc EXCEPT ![Initiator] = chat_pc[Initiator]]
        /\ chat_pc[Initiator] = "sync"
        /\ chat_net' \subseteq chat_net \cup {SyncMsg(Initiator)}
        /\ UNCHANGED <<chat_round, shared_socket, chat_disturbed>>
    BY <1>4, <1>t, <1>s DEF SyncRequest
  <2> QED BY <1>t, <2>1, ChatPointKeepsInv
<1>5. ASSUME NEW m \in chat_net, SyncComplete(m) PROVE ChatInv'
  <2>1. "send" \in ChatPCs /\ "sync" \in NotYet
    BY DEF ChatPCs, NotYet
  <2> QED BY <1>5, <1>c, <1>t, <2>1, ChatPointKeepsInv DEF SyncComplete
<1>6. ASSUME NEW m \in chat_net, SyncAnswer(m) PROVE ChatInv'
  <2>1. "wait" \in ChatPCs
    BY DEF ChatPCs
  <2>2. PICK left \in ChatTaken(m) :
          chat_net' = left \cup (ChatSend(Responder, SyncMsg(Responder)) \ chat_net)
    BY <1>6 DEF SyncAnswer
  <2>3. chat_net' \subseteq chat_net \cup {SyncMsg(Initiator), SyncMsg(Responder)}
    BY <2>2, <1>c, <1>s
  <2> QED BY <1>6, <1>t, <2>1, <2>3, ChatPointKeepsInv DEF SyncAnswer
<1> DEFINE rI == chat_round[Initiator]
           rR == chat_round[Responder]
<1>r. rI \in 0 .. ChatRounds /\ rR \in 0 .. ChatRounds /\ ChatRounds \in Nat
  BY ChatAssumption DEF ChatInv
<1>7. CASE Greet
  <2>1. /\ chat_pc' \in [ChatGuests -> ChatPCs] /\ chat_pc'[Initiator] = "wait"
        /\ chat_pc[Initiator] = "send" /\ chat_pc'[Responder] = chat_pc[Responder]
        /\ rI < ChatRounds
        /\ UNCHANGED <<chat_round, shared_socket, chat_disturbed>>
    BY <1>7 DEF Greet, ChatInv, ChatPCs
  <2>2. chat_net' \subseteq chat_net \cup {ChatMsg(Initiator, rI)}
    BY <1>7 DEF Greet, ChatSend
  <2>3. rR = rI
    BY <2>1, <1>r DEF ChatInv, ChatRoundsInStep, NotYet
  <2>4. ChatRoundsInStep' /\ MismatchOnlyIfDisturbed'
    BY <2>1, <2>3 DEF ChatInv, ChatRoundsInStep, MismatchOnlyIfDisturbed, NotYet
  <2>5. ASSUME NEW m \in chat_net'
        PROVE  /\ m.role \in ChatGuests /\ m.seq \in 0 .. ChatRounds - 1
               /\ m.tag = "CHAT" => m = ChatMsg(m.role, m.seq)
               /\ m.tag = "CHAT" /\ m.role = Initiator =>
                    /\ m.seq <= rI
                    /\ ~chat_disturbed => m.seq = rR
               /\ m.tag = "CHAT" /\ m.role = Responder => m.seq < rR /\ chat_disturbed
    <3>1. CASE m \in chat_net
      BY <1>r, <1>t, <2>3, <3>1 DEF ChatInv, ChatWire
    <3>2. CASE m = ChatMsg(Initiator, rI)
      BY <1>r, <2>1, <2>3, <3>2, ChatMsgFields
    <3> QED BY <2>2, <3>1, <3>2
  <2>6. ChatWire'
    BY <2>1, <2>3, <2>5 DEF ChatWire, NotYet
  <2> QED BY <2>1, <2>4, <2>6 DEF ChatInv
<1>8. ASSUME NEW m \in chat_net, TakeReply(m) PROVE ChatInv'
  <2>1. /\ chat_pc' \in [ChatGuests -> ChatPCs] /\ chat_pc'[Initiator] = "send"
        /\ chat_pc'[Responder] = chat_pc[Responder] /\ UNCHANGED shared_socket
        /\ m.tag = "CHAT" /\ m.role = Responder /\ m.seq = rI
    BY <1>8 DEF TakeReply, Fits, ChatInv, ChatPCs
  <2>2. /\ rR = rI + 1 /\ m = ChatMsg(Responder, rI)
    BY <1>r, <2>1 DEF ChatInv, ChatWire, ChatRoundsInStep
  <2>3. /\ chat_round' \in [ChatGuests -> 0 .. ChatRounds]
        /\ chat_round'[Initiator] = rI + 1 /\ chat_round'[Responder] = rR
    BY <1>8, <1>r, <2>2 DEF TakeReply, ChatInv
  <2>4. /\ chat_net' \subseteq chat_net /\ chat_disturbed' \in BOOLEAN
        /\ chat_disturbed => chat_disturbed'
        /\ ~chat_disturbed' => m \notin chat_net'
    BY <1>8, <1>t, <1>c DEF TakeReply
  <2>5. ASSUME NEW n \in chat_net'
        PROVE  /\ n.role \in ChatGuests /\ n.seq \in 0 .. ChatRounds - 1
               /\ n.tag = "CHAT" => n = ChatMsg(n.role, n.seq)
               /\ n.tag = "CHAT" /\ n.role = Initiator => n.seq < rI + 1 /\ chat_disturbed'
               /\ n.tag = "CHAT" /\ n.role = Responder => n.seq < rR /\ chat_disturbed'
    <3>1. n \in chat_net
      BY <2>4
    <3>2. /\ n.role \in ChatGuests /\ n.seq \in 0 .. ChatRounds - 1
          /\ n.tag = "CHAT" => n = ChatMsg(n.role, n.seq)
          /\ n.tag = "CHAT" /\ n.role = Initiator =>
               n.seq <= rI /\ (~chat_disturbed => rI = rR)
          /\ n.tag = "CHAT" /\ n.role = Responder =>
               n.seq < rR /\ (~chat_disturbed => n.seq = rI)
      BY <3>1 DEF ChatInv, ChatWire
    <3> QED BY <1>r, <2>2, <2>4, <3>2
  <2>6. ChatWire'
    BY <1>r, <2>2, <2>3, <2>4, <2>5 DEF ChatWire
  <2>7. ChatRoundsInStep'
    BY <1>r, <2>1, <2>2, <2>3 DEF ChatRoundsInStep
  <2>8. MismatchOnlyIfDisturbed'
    BY <2>1, <2>4 DEF ChatInv, MismatchOnlyIfDisturbed
  <2> QED BY <2>1, <2>3, <2>4, <2>6, <2>7, <2>8 DEF ChatInv
<1>9. ASSUME NEW m \in chat_net, Reply(m) PROVE ChatInv'
  <2>1. /\ UNCHANGED <<chat_pc, shared_socket>>
        /\ m.tag = "CHAT" /\ m.role = Initiator /\ m.seq = rR /\ rR < ChatRounds
    BY <1>9 DEF Reply, Fits
  <2>2. /\ rR = rI /\ m = ChatMsg(Initiator, rR) /\ chat_pc[Initiator] \notin NotYet
    <3>1. /\ m.seq <= rI /\ (m.seq = rI => chat_pc[Initiator] \notin NotYet)
          /\ m = ChatMsg(Initiator, rR) /\ rR \in {rI, rI + 1}
      BY <2>1 DEF ChatInv, ChatWire, ChatRoundsInStep
    <3> QED BY <1>r, <2>1, <3>1
  <2>3. /\ chat_round' \in [ChatGuests -> 0 .. ChatRounds]
        /\ chat_round'[Initiator] = rI /\ chat_round'[Responder] = rR + 1
    BY <1>9, <1>r, <2>1 DEF Reply, ChatInv
  <2>4. PICK left \in ChatTaken(m) :
          /\ chat_net' = left \cup (ChatSend(Responder, ChatMsg(Responder, m.seq)) \ chat_net)
          /\ chat_disturbed' = (chat_disturbed \/ m \in left)
    BY <1>9 DEF Reply
  <2>5. ChatMsg(Responder, rR) # m
    BY <2>1, ChatMsgFields
  <2>6. /\ chat_net' \subseteq chat_net \cup {ChatMsg(Responder, rR)}
        /\ chat_disturbed' \in BOOLEAN /\ (chat_disturbed => chat_disturbed')
        /\ ~chat_disturbed' => m \notin chat_net'
    <3>1. left \subseteq chat_net
      BY <1>c
    <3>2. ChatSend(Responder, ChatMsg(Responder, m.seq)) \subseteq chat_net \cup {ChatMsg(Responder, rR)}
      BY <2>1 DEF ChatSend
    <3> QED BY <1>t, <2>4, <2>5, <3>1, <3>2
  <2>7. ASSUME NEW n \in chat_net'
        PROVE  /\ n.role \in ChatGuests /\ n.seq \in 0 .. ChatRounds - 1
               /\ n.tag = "CHAT" => n = ChatMsg(n.role, n.seq)
               /\ n.tag = "CHAT" /\ n.role = Initiator => n.seq <= rI /\ chat_disturbed'
               /\ n.tag = "CHAT" /\ n.role = Responder =>
                    n.seq < rR + 1 /\ (~chat_disturbed' => n.seq = rI)
    <3>1. CASE n \in chat_net
      <4>1. /\ n.role \in ChatGuests /\ n.seq \in 0 .. ChatRounds - 1
            /\ n.tag = "CHAT" => n = ChatMsg(n.role, n.seq)
            /\ n.tag = "CHAT" /\ n.role = Initiator =>
                 n.seq <= rI /\ (~chat_disturbed => n.seq = rR)
            /\ n.tag = "CHAT" /\ n.role = Responder =>
                 n.seq < rR /\ (~chat_disturbed => rR = rI + 1)
        BY <3>1 DEF ChatInv, ChatWire
      <4> QED BY <1>r, <2>2, <2>6, <4>1
    <3>2. CASE n = ChatMsg(Responder, rR)
      BY <1>r, <2>1, <2>2, <3>2, ChatMsgFields
    <3> QED BY <2>6, <3>1, <3>2
  <2>8. ChatWire'
    BY <1>r, <2>1, <2>2, <2>3, <2>6, <2>7 DEF ChatWire
  <2>9. ChatRoundsInStep'
    <3>1. chat_pc[Initiator] = "passed" => rI = ChatRounds
      BY DEF ChatInv, ChatRoundsInStep
    <3> QED BY <1>r, <2>1, <2>2, <2>3, <3>1 DEF ChatRoundsInStep
  <2>10. MismatchOnlyIfDisturbed'
    BY <2>1, <2>6 DEF ChatInv, MismatchOnlyIfDisturbed
  <2> QED BY <2>1, <2>3, <2>6, <2>8, <2>9, <2>10 DEF ChatInv
<1>10. CASE UNCHANGED chatVars
  BY <1>10 DEF chatVars, ChatInv, ChatWire, ChatRoundsInStep, MismatchOnlyIfDisturbed
<1> QED
  BY <1>1, <1>2, <1>3, <1>4, <1>5, <1>6, <1>7, <1>8, <1>9, <1>10
     DEF ChatNext, ChatStep, ChatProceed, ChatReceive

\* The safety properties of the chat programs follow from ChatInv.
LEMMA ChatInvGivesSafety ==
  ChatInv => ChatTypeOK /\ LockStep /\ NoLonePass /\ MismatchOnlyIfDisturbed
<1> SUFFICES ASSUME ChatInv PROVE ChatTypeOK /\ LockStep /\ NoLonePass
  BY DEF ChatInv
<1>1. /\ chat_round[Initiator] \in 0 .. ChatRounds /\ chat_round[Responder] \in 0 .. ChatRounds
      /\ ChatRounds \in Nat
  BY ChatRoles, ChatAssumption DEF ChatInv
<1>2. ChatTypeOK
  BY DEF ChatInv, ChatWire, ChatTypeOK, ChatPCs
<1>3. LockStep /\ NoLonePass
  BY <1>1 DEF ChatInv, ChatRoundsInStep, LockStep, NoLonePass, NotYet
<1> QED BY <1>2, <1>3

\* ub_chat on its own: the guests talk in lock step, the initiator never
\* passes alone, and a number out of order takes a duplicated or lost datagram.
THEOREM ChatSafety == ChatSpec => [](LockStep /\ NoLonePass /\ MismatchOnlyIfDisturbed)
<1>1. ChatInv /\ [ChatNext]_chatVars => ChatInv'
  BY ChatStepKeepsInv
<1> QED
  BY InitChatInv, <1>1, ChatInvGivesSafety, PTL DEF ChatSpec

-----------------------------------------------------------------------------
(***************************************************************************)
(* ub_rpc_demo.c: its types, what its count and its responses mean, and that*)
(* it implements RpcService.                                               *)
(***************************************************************************)

\* The client's script has a length.
LEMMA ScriptLength == Len(Script) \in Nat
  BY ScriptAssumption, LenProperties, Zenon

Unfixed  == {"STATUS", "MEMINFO"}   \* operations without a fixed answer
RpcPCs   == {"down", "serve", "send", "recv", "passed", "failed"}
CallOf(m) == <<m.client, m.msg_id>>

\* An answer is the one the client expects, if it expects a fixed one.
Fitting(m) == Script[m.msg_id] \notin Unfixed => m.payload = Expected(m.client, m.msg_id)

\* A request carries the operation and the payload of its call; a response
\* answers an executed call.
RpcWire ==
  \A m \in rpc_net :
    /\ CallOf(m) \in Calls /\ m.type \in {"RPC", "RPC_RSP"}
    /\ m.type = "RPC" => /\ m.op = Script[m.msg_id]
                         /\ m.payload = Payload(m.client, m.msg_id)
    /\ m.type = "RPC_RSP" => CallOf(m) \in executed /\ Fitting(m)

\* The table holds executed calls with fitting answers; while it has room it
\* holds every executed call, and the count is their number.
RpcTable ==
  /\ \A e \in seen : /\ CallOf(e) \in executed
                     /\ e.op = Script[e.msg_id] /\ Fitting(e)
  /\ IsFiniteSet(seen) /\ Cardinality(seen) <= MaxSeen
  /\ IsFiniteSet(executed) /\ executed \subseteq Calls
  /\ rpc_count \in Nat /\ rpc_count >= Cardinality(executed)
  /\ Cardinality(seen) < MaxSeen =>
       /\ rpc_count = Cardinality(executed)
       /\ \A x \in executed : \E e \in seen : CallOf(e) = x

\* A client has settled exactly the calls before the one it is in; while it
\* waits for a response it is in a call and has attempts left.
RpcCalls ==
  \A c \in RpcClients :
    /\ \A i \in CallIds : outcome[c][i] = "open" <=> i >= call[c]
    /\ rpc_pc[c] = "recv" => call[c] \in CallIds /\ retries[c] < MaxRetries

RpcTypes ==
  /\ rpc_pc \in [RpcGuests -> RpcPCs]
  /\ call \in [RpcClients -> 1 .. Len(Script) + 1]
  /\ retries \in [RpcClients -> 0 .. MaxRetries]
  /\ alarm \subseteq RpcGuests
  /\ outcome \in [RpcClients -> [CallIds -> {"open", "ok", "failed"}]]
  /\ disturbed \in BOOLEAN

RpcInv == RpcTypes /\ RpcWire /\ RpcTable /\ RpcCalls

\* Before power-on RpcInv holds: nothing was called or executed.
LEMMA InitRpcInv == RpcInit => RpcInv
<1> SUFFICES ASSUME RpcInit PROVE RpcInv
  OBVIOUS
<1>1. RpcTypes
  <2>1. 1 \in 1 .. Len(Script) + 1 /\ 0 \in 0 .. MaxRetries
    BY RpcAssumption, ScriptLength
  <2>2. /\ call \in [RpcClients -> 1 .. Len(Script) + 1]
        /\ retries \in [RpcClients -> 0 .. MaxRetries]
    BY <2>1 DEF RpcInit
  <2>3. /\ rpc_pc \in [RpcGuests -> RpcPCs] /\ alarm \subseteq RpcGuests
        /\ outcome \in [RpcClients -> [CallIds -> {"open", "ok", "failed"}]]
        /\ disturbed \in BOOLEAN
    BY DEF RpcInit, RpcPCs
  <2> QED BY <2>2, <2>3 DEF RpcTypes
<1>2. RpcWire
  BY DEF RpcInit, RpcWire
<1>3. RpcTable
  BY RpcAssumption, FS_EmptySet DEF RpcInit, RpcTable
<1>4. RpcCalls
  BY ScriptLength DEF RpcInit, RpcCalls, CallIds, RpcGuests
<1> QED BY <1>1, <1>2, <1>3, <1>4 DEF RpcInv

\* A step of one guest leaves the others where they are.
LEMMA RpcMove ==
  ASSUME RpcInv, NEW g \in RpcGuests, NEW to \in RpcPCs,
         rpc_pc' = [rpc_pc EXCEPT ![g] = to]
  PROVE  /\ rpc_pc' \in [RpcGuests -> RpcPCs] /\ rpc_pc'[g] = to
         /\ \A h \in RpcGuests : h # g => rpc_pc'[h] = rpc_pc[h]
  BY DEF RpcInv, RpcTypes

\* A step that sends no more than datagrams that fit, executes nothing, and
\* stays in its call.
LEMMA RpcPointKeepsInv ==
  ASSUME RpcInv, NEW g \in RpcGuests, NEW to \in RpcPCs,
         rpc_pc' = [rpc_pc EXCEPT ![g] = to],
         to = "recv" /\ g \in RpcClients => call[g] \in CallIds /\ retries[g] < MaxRetries,
         alarm' \subseteq RpcGuests, disturbed' \in BOOLEAN,
         \A m \in rpc_net' \ rpc_net :
           /\ CallOf(m) \in Calls /\ m.type = "RPC"
           /\ m.op = Script[m.msg_id] /\ m.payload = Payload(m.client, m.msg_id),
         UNCHANGED <<call, retries, seen, rpc_count, outcome, executed>>
  PROVE  RpcInv'
<1>1. /\ rpc_pc' \in [RpcGuests -> RpcPCs] /\ rpc_pc'[g] = to
      /\ \A h \in RpcGuests : h # g => rpc_pc'[h] = rpc_pc[h]
  BY RpcMove
<1>2. RpcTypes'
  BY <1>1 DEF RpcInv, RpcTypes
<1>3. RpcWire'
  <2> SUFFICES ASSUME NEW m \in rpc_net'
               PROVE  /\ CallOf(m) \in Calls /\ m.type \in {"RPC", "RPC_RSP"}
                      /\ m.type = "RPC" => /\ m.op = Script[m.msg_id]
                                           /\ m.payload = Payload(m.client, m.msg_id)
                      /\ m.type = "RPC_RSP" => CallOf(m) \in executed /\ Fitting(m)
    BY DEF RpcWire
  <2>1. CASE m \in rpc_net
    BY <2>1 DEF RpcInv, RpcWire
  <2>2. CASE m \notin rpc_net
    BY <2>2
  <2> QED BY <2>1, <2>2
<1>4. RpcTable'
  BY DEF RpcInv, RpcTable
<1>5. RpcCalls'
  BY <1>1 DEF RpcInv, RpcCalls, RpcGuests
<1> QED BY <1>2, <1>3, <1>4, <1>5 DEF RpcInv

\* A client settles the call it is in.
LEMMA SettleKeepsInv ==
  ASSUME RpcInv, NEW c \in RpcClients, NEW result \in {"ok", "failed"},
         call[c] \in CallIds, Settle(c, result),
         rpc_net' \subseteq rpc_net, disturbed' \in BOOLEAN,
         UNCHANGED <<alarm, seen, rpc_count, executed>>
  PROVE  /\ RpcInv'
         /\ outcome' = [outcome EXCEPT ![c][call[c]] = result]
         /\ Service!Open(c, call[c])
<1> USE ScriptLength, RpcAssumption
<1>1. /\ rpc_pc' \in [RpcGuests -> RpcPCs] /\ rpc_pc'[c] = "send"
      /\ \A h \in RpcGuests : h # c => rpc_pc'[h] = rpc_pc[h]
  BY RpcMove DEF Settle, RpcGuests, RpcPCs
<1>2. /\ call' \in [RpcClients -> 1 .. Len(Script) + 1] /\ call'[c] = call[c] + 1
      /\ retries' \in [RpcClients -> 0 .. MaxRetries]
      /\ \A d \in RpcClients : d # c => call'[d] = call[d] /\ retries'[d] = retries[d]
  BY DEF Settle, RpcInv, RpcTypes, CallIds
<1>3. /\ outcome' \in [RpcClients -> [CallIds -> {"open", "ok", "failed"}]]
      /\ \A i \in CallIds : outcome'[c][i] = IF i = call[c] THEN result ELSE outcome[c][i]
      /\ \A d \in RpcClients : d # c => outcome'[d] = outcome[d]
  BY DEF Settle, RpcInv, RpcTypes
<1>4. RpcTypes'
  BY <1>1, <1>2, <1>3 DEF RpcInv, RpcTypes
<1>5. RpcWire'
  BY DEF RpcInv, RpcWire
<1>6. RpcTable'
  BY DEF RpcInv, RpcTable
<1>7. RpcCalls'
  <2> SUFFICES ASSUME NEW d \in RpcClients
               PROVE  /\ \A i \in CallIds : outcome'[d][i] = "open" <=> i >= call'[d]
                      /\ rpc_pc'[d] = "recv" => call'[d] \in CallIds /\ retries'[d] < MaxRetries
    BY DEF RpcCalls
  <2>1. CASE d = c
    <3>1. \A i \in CallIds : outcome[c][i] = "open" <=> i >= call[c]
      BY DEF RpcInv, RpcCalls
    <3>2. \A i \in CallIds : outcome'[c][i] = "open" <=> i >= call[c] + 1
      BY <1>3, <3>1 DEF CallIds
    <3> QED BY <1>1, <1>2, <2>1, <3>2
  <2>2. CASE d # c
    <3>1. /\ \A i \in CallIds : outcome[d][i] = "open" <=> i >= call[d]
          /\ rpc_pc[d] = "recv" => call[d] \in CallIds /\ retries[d] < MaxRetries
      BY DEF RpcInv, RpcCalls
    <3>2. /\ outcome'[d] = outcome[d] /\ call'[d] = call[d] /\ retries'[d] = retries[d]
          /\ rpc_pc'[d] = rpc_pc[d]
      BY <1>1, <1>2, <1>3, <2>2 DEF RpcGuests
    <3> QED BY <3>1, <3>2
  <2> QED BY <2>1, <2>2
<1>8. Service!Open(c, call[c])
  BY DEF RpcInv, RpcCalls, Service!Open, CallIds
<1> QED BY <1>4, <1>5, <1>6, <1>7, <1>8 DEF RpcInv, Settle

\* Whether a response fits depends on call and payload alone.
LEMMA FittingFields ==
  ASSUME NEW m, NEW n, m.client = n.client, m.msg_id = n.msg_id, m.payload = n.payload,
         Fitting(n)
  PROVE  Fitting(m)
  BY DEF Fitting

\* The server receives a request: it answers with what the table holds, or
\* executes the call and enters it.
LEMMA HandleKeepsInv ==
  ASSUME RpcInv, NEW req \in rpc_net, ServerHandle(req)
  PROVE  RpcInv' /\ [Service!Next]_<<executed, outcome>>
<1> DEFINE duplicate == SeenEntries(req) # {}
           payload   == IF duplicate THEN (CHOOSE e \in SeenEntries(req) : TRUE).payload
                        ELSE Evaluate(req.op, req.payload, rpc_count)
           entry     == [client |-> req.client, msg_id |-> req.msg_id, op |-> req.op,
                         payload |-> payload]
           rsp       == rpc_build_response(req, payload)
           x         == <<req.client, req.msg_id>>
<1> USE RpcAssumption
<1>r. /\ x \in Calls /\ req.op = Script[req.msg_id]
      /\ req.payload = Payload(req.client, req.msg_id)
  BY DEF ServerHandle, IsRequest, RpcInv, RpcWire, CallOf
<1>f. Script[req.msg_id] \notin Unfixed => payload = Expected(req.client, req.msg_id)
  <2>1. CASE duplicate
    <3> DEFINE e == CHOOSE e \in SeenEntries(req) : TRUE
    <3>1. e \in SeenEntries(req)
      BY <2>1
    <3>2. e \in seen /\ e.msg_id = req.msg_id /\ e.client = req.client
      BY <3>1 DEF SeenEntries
    <3>3. Fitting(e) /\ payload = e.payload
      BY <2>1, <3>2 DEF RpcInv, RpcTable
    <3> HIDE DEF e
    <3> QED BY <3>2, <3>3 DEF Fitting
  <2>2. CASE ~duplicate
    BY <1>r, <2>2 DEF Expected, Evaluate, Unfixed
  <2> QED BY <2>1, <2>2
<1>1. rpc_pc' \in [RpcGuests -> RpcPCs] /\ \A c \in RpcClients : rpc_pc'[c] = rpc_pc[c]
  BY DEF ServerHandle, RpcInv, RpcTypes, RpcPCs, RpcGuests
<1>2. UNCHANGED <<call, retries, alarm, outcome, disturbed>>
  BY DEF ServerHandle
<1>3. RpcTypes' /\ RpcCalls'
  BY <1>1, <1>2 DEF RpcInv, RpcTypes, RpcCalls
<1>4. rpc_net' \subseteq rpc_net \cup {rsp}
  BY DEF ServerHandle, RpcSend
<1>5. /\ duplicate => UNCHANGED <<seen, executed, rpc_count>>
      /\ ~duplicate => /\ seen' = Remember(entry) /\ executed' = executed \cup {x}
                       /\ rpc_count' = rpc_count + 1
  BY DEF ServerHandle
<1>6. x \in executed'
  <2>1. CASE duplicate
    <3>1. PICK e \in SeenEntries(req) : TRUE
      BY <2>1
    <3> QED BY <1>5, <2>1, <3>1 DEF SeenEntries, RpcInv, RpcTable, CallOf
  <2> QED BY <1>5, <2>1
<1> HIDE DEF payload
<1>7. /\ CallOf(rsp) = x /\ rsp.type = "RPC_RSP" /\ Fitting(rsp)
      /\ CallOf(entry) = x /\ Fitting(entry) /\ entry.op = req.op /\ entry.msg_id = req.msg_id
  BY <1>f DEF CallOf, rpc_build_response, Fitting
<1> HIDE DEF rsp, entry, duplicate
<1>8. RpcWire'
  <2> SUFFICES ASSUME NEW m \in rpc_net'
               PROVE  /\ CallOf(m) \in Calls /\ m.type \in {"RPC", "RPC_RSP"}
                      /\ m.type = "RPC" => /\ m.op = Script[m.msg_id]
                                           /\ m.payload = Payload(m.client, m.msg_id)
                      /\ m.type = "RPC_RSP" => CallOf(m) \in executed' /\ Fitting(m)
    BY DEF RpcWire
  <2>1. CASE m \in rpc_net
    BY <1>5, <2>1 DEF RpcInv, RpcWire
  <2>2. CASE m = rsp
    BY <1>r, <1>6, <1>7, <2>2
  <2> QED BY <1>4, <2>1, <2>2
<1>9. RpcTable'
  <2>1. CASE duplicate
    BY <1>5, <2>1 DEF RpcInv, RpcTable
  <2>2. CASE ~duplicate
    <3>0. /\ IsFiniteSet(seen) /\ IsFiniteSet(executed) /\ rpc_count \in Nat
          /\ Cardinality(seen) \in Nat /\ Cardinality(executed) \in Nat
          /\ Cardinality(seen) <= MaxSeen /\ rpc_count >= Cardinality(executed)
      BY FS_CardinalityType DEF RpcInv, RpcTable
    <3>1. /\ IsFiniteSet(executed') /\ executed' \subseteq Calls
          /\ Cardinality(executed') = IF x \in executed THEN Cardinality(executed)
                                      ELSE Cardinality(executed) + 1
      <4>1. executed' = executed \cup {x} /\ x \in Calls /\ executed \subseteq Calls
        BY <1>5, <1>r, <2>2 DEF RpcInv, RpcTable
      <4> HIDE DEF x
      <4> QED BY <3>0, <4>1, FS_AddElement
    <3>2. seen' \subseteq seen \cup {entry}
      BY <1>5, <2>2 DEF Remember
    <3>3. \A e \in seen' : CallOf(e) \in executed' /\ e.op = Script[e.msg_id] /\ Fitting(e)
      <4> SUFFICES ASSUME NEW e \in seen'
                   PROVE  CallOf(e) \in executed' /\ e.op = Script[e.msg_id] /\ Fitting(e)
        OBVIOUS
      <4>1. CASE e \in seen
        BY <1>5, <4>1 DEF RpcInv, RpcTable
      <4>2. CASE e = entry
        BY <1>6, <1>7, <1>r, <4>2
      <4> QED BY <3>2, <4>1, <4>2
    <3>4. CASE Cardinality(seen) >= MaxSeen
      <4>1. seen' = seen /\ ~(Cardinality(seen') < MaxSeen)
        BY <1>5, <2>2, <3>0, <3>4 DEF Remember
      <4> QED BY <1>5, <2>2, <3>0, <3>1, <3>3, <4>1 DEF RpcTable
    <3>5. CASE Cardinality(seen) < MaxSeen
      <4>1. seen' = seen \cup {entry}
        BY <1>5, <2>2, <3>0, <3>5 DEF Remember
      <4>2. \A e \in seen : CallOf(e) # x
        <5> SUFFICES ASSUME NEW e \in seen, CallOf(e) = x PROVE FALSE
          OBVIOUS
        <5>1. e.client = req.client /\ e.msg_id = req.msg_id /\ e.op = Script[e.msg_id]
          BY DEF CallOf, RpcInv, RpcTable
        <5>2. e \in SeenEntries(req)
          BY <5>1, <1>r DEF SeenEntries
        <5> QED BY <5>2, <2>2 DEF duplicate
      <4>3. x \notin executed /\ entry \notin seen
        BY <3>5, <4>2, <1>7 DEF RpcInv, RpcTable
      <4>4. IsFiniteSet(seen') /\ Cardinality(seen') = Cardinality(seen) + 1
        BY <3>0, <4>1, <4>3, FS_AddElement
      <4>5. rpc_count' = Cardinality(executed')
        BY <1>5, <2>2, <3>1, <3>5, <4>3 DEF RpcInv, RpcTable
      <4>6. \A y \in executed' : \E e \in seen' : CallOf(e) = y
        BY <1>5, <1>7, <2>2, <3>5, <4>1 DEF RpcInv, RpcTable
      <4>7. rpc_count' \in Nat /\ Cardinality(seen') <= MaxSeen
        BY <1>5, <2>2, <3>0, <3>5, <4>4
      <4> QED BY <3>1, <3>3, <4>4, <4>5, <4>6, <4>7 DEF RpcTable
    <3> QED BY <3>0, <3>4, <3>5
  <2> QED BY <2>1, <2>2
<1>10. [Service!Next]_<<executed, outcome>>
  <2>1. CASE duplicate
    BY <1>2, <1>5, <2>1
  <2>2. CASE ~duplicate
    <3>1. req.client \in RpcClients /\ req.msg_id \in CallIds
      BY <1>r DEF Calls
    <3>2. Service!Execute(req.client, req.msg_id)
      BY <1>2, <1>5, <2>2 DEF Service!Execute
    <3> QED BY <3>1, <3>2 DEF Service!Next
  <2> QED BY <2>1, <2>2
<1> QED BY <1>3, <1>8, <1>9, <1>10 DEF RpcInv

\* A step of clients, server or network keeps RpcInv and is one of RpcService.
LEMMA RpcStepKeepsInv ==
  RpcInv /\ (RpcNext \/ UNCHANGED rpcVars) => RpcInv' /\ [Service!Next]_<<executed, outcome>>
<1> SUFFICES ASSUME RpcInv, RpcNext \/ UNCHANGED rpcVars
             PROVE  RpcInv' /\ [Service!Next]_<<executed, outcome>>
  OBVIOUS
<1> USE RpcAssumption
<1>t. /\ disturbed \in BOOLEAN /\ alarm \subseteq RpcGuests
      /\ \A g \in RpcGuests : rpc_pc[g] \in RpcPCs /\ rpc_pc = [rpc_pc EXCEPT ![g] = rpc_pc[g]]
  BY DEF RpcInv, RpcTypes
<1>g. /\ RpcServer \in RpcGuests /\ RpcServer \notin RpcClients
      /\ \A c \in RpcClients : c \in RpcGuests /\ c # RpcServer
      /\ \A g \in RpcGuests : g = RpcServer \/ g \in RpcClients
  BY DEF RpcGuests
<1>p. RpcPCs = {"down", "serve", "send", "recv", "passed", "failed"}
  BY DEF RpcPCs
<1>1. ASSUME NEW g \in RpcGuests, RpcStart(g) \/ RpcStartFails(g)
      PROVE  RpcInv' /\ UNCHANGED <<executed, outcome>>
  <2>1. PICK to \in {"serve", "send", "failed"} : rpc_pc' = [rpc_pc EXCEPT ![g] = to]
    BY <1>1 DEF RpcStart, RpcStartFails
  <2>2. /\ UNCHANGED <<call, retries, alarm, seen, rpc_count, rpc_net, outcome, executed>>
        /\ disturbed' \in BOOLEAN
    BY <1>1, <1>t DEF RpcStart, RpcStartFails
  <2> QED BY <1>t, <1>p, <2>1, <2>2, RpcPointKeepsInv
<1>2. ASSUME NEW m \in rpc_net, ServerHandle(m)
      PROVE  RpcInv' /\ [Service!Next]_<<executed, outcome>>
  BY <1>2, HandleKeepsInv
<1>3. ASSUME ServerFails, disturbed' \in BOOLEAN
      PROVE  RpcInv' /\ UNCHANGED <<executed, outcome>>
  BY <1>3, <1>t, <1>g, <1>p, RpcPointKeepsInv DEF ServerFails
<1>4. ASSUME NEW c \in RpcClients, ClientSend(c)
      PROVE  RpcInv' /\ UNCHANGED <<executed, outcome>>
  <2> DEFINE req == rpc_build_request(c)
  <2>1. rpc_net' \subseteq rpc_net \cup {req}
    BY <1>4 DEF ClientSend, RpcSend
  <2>2. /\ CallOf(req) \in Calls /\ req.type = "RPC" /\ req.op = Script[req.msg_id]
        /\ req.payload = Payload(req.client, req.msg_id)
    BY <1>4 DEF ClientSend, rpc_build_request, CallOf, Calls
  <2>3. /\ disturbed' \in BOOLEAN /\ UNCHANGED <<call, retries, alarm, seen, rpc_count, outcome, executed>>
        /\ rpc_pc' = [rpc_pc EXCEPT ![c] = "recv"]
        /\ call[c] \in CallIds /\ retries[c] < MaxRetries
    BY <1>4, <1>t DEF ClientSend
  <2> HIDE DEF req
  <2> QED BY <1>t, <1>g, <1>p, <2>1, <2>2, <2>3, RpcPointKeepsInv
\* An attempt is used up.
<1>5. ASSUME NEW c \in RpcClients, rpc_pc[c] = "recv",
             rpc_pc' = [rpc_pc EXCEPT ![c] = "send"],
             retries' = [retries EXCEPT ![c] = @ + 1], rpc_net' \subseteq rpc_net,
             disturbed' \in BOOLEAN, UNCHANGED <<call, alarm, seen, rpc_count, outcome, executed>>
      PROVE  RpcInv' /\ UNCHANGED <<executed, outcome>>
  <2>1. /\ rpc_pc' \in [RpcGuests -> RpcPCs] /\ rpc_pc'[c] = "send"
        /\ \A h \in RpcGuests : h # c => rpc_pc'[h] = rpc_pc[h]
    BY <1>5, <1>g, <1>p, RpcMove
  <2>2. retries[c] < MaxRetries
    BY <1>5 DEF RpcInv, RpcCalls
  <2>3. /\ retries' \in [RpcClients -> 0 .. MaxRetries]
        /\ \A d \in RpcClients : d # c => retries'[d] = retries[d]
    BY <1>5, <2>2 DEF RpcInv, RpcTypes
  <2>4. RpcTypes'
    BY <1>5, <2>1, <2>3 DEF RpcInv, RpcTypes
  <2>5. RpcWire'
    BY <1>5 DEF RpcInv, RpcWire
  <2>6. RpcTable'
    BY <1>5 DEF RpcInv, RpcTable
  <2>7. RpcCalls'
    BY <1>5, <1>g, <2>1, <2>3 DEF RpcInv, RpcCalls
  <2> QED BY <1>5, <2>4, <2>5, <2>6, <2>7 DEF RpcInv
<1>6. ASSUME NEW c \in RpcClients, ClientTimeout(c)
      PROVE  RpcInv' /\ UNCHANGED <<executed, outcome>>
  BY <1>6, <1>5, <1>t DEF ClientTimeout
<1>7. ASSUME NEW c \in RpcClients, NEW rsp \in rpc_net, ClientRecv(c, rsp)
      PROVE  RpcInv' /\ [Service!Next]_<<executed, outcome>>
  <2>1. CASE rsp.msg_id # call[c]
    BY <1>7, <1>5, <1>t, <2>1 DEF ClientRecv
  <2>2. CASE rsp.msg_id = call[c]
    <3>1. PICK result \in {"ok", "failed"} : Settle(c, result)
      BY <1>7, <2>2 DEF ClientRecv
    <3>2. /\ rpc_net' \subseteq rpc_net /\ UNCHANGED <<alarm, seen, rpc_count, executed, disturbed>>
          /\ rpc_pc[c] = "recv"
      BY <1>7 DEF ClientRecv
    <3>3. call[c] \in CallIds
      BY <3>2 DEF RpcInv, RpcCalls
    <3>4. /\ RpcInv' /\ outcome' = [outcome EXCEPT ![c][call[c]] = result]
          /\ Service!Open(c, call[c])
      BY <1>t, <3>1, <3>2, <3>3, SettleKeepsInv
    <3>5. <<c, call[c]>> \in executed
      BY <1>7, <2>2 DEF ClientRecv, IsResponse, RpcInv, RpcWire, CallOf
    <3>6. Service!Answer(c, call[c]) \/ Service!GiveUp(c, call[c])
      BY <3>2, <3>4, <3>5 DEF Service!Answer, Service!GiveUp
    <3> QED BY <3>3, <3>4, <3>6 DEF Service!Next
  <2> QED BY <2>1, <2>2
<1>8. ASSUME NEW c \in RpcClients, ClientFails(c), disturbed' \in BOOLEAN
      PROVE  RpcInv' /\ [Service!Next]_<<executed, outcome>>
  <2>1. /\ Settle(c, "failed") /\ call[c] \in CallIds
        /\ UNCHANGED <<alarm, seen, rpc_count, rpc_net, executed>>
    BY <1>8 DEF ClientFails
  <2>2. /\ RpcInv' /\ outcome' = [outcome EXCEPT ![c][call[c]] = "failed"]
        /\ Service!Open(c, call[c])
    BY <1>8, <2>1, SettleKeepsInv
  <2>3. Service!GiveUp(c, call[c])
    BY <2>1, <2>2 DEF Service!GiveUp
  <2> QED BY <2>1, <2>2, <2>3 DEF Service!Next
<1>9. ASSUME NEW c \in RpcClients, ClientDone(c)
      PROVE  RpcInv' /\ UNCHANGED <<executed, outcome>>
  <2>1. PICK to \in {"passed", "failed"} : rpc_pc' = [rpc_pc EXCEPT ![c] = to]
    BY <1>9 DEF ClientDone
  <2>2. /\ rpc_net' \subseteq rpc_net
        /\ UNCHANGED <<call, retries, alarm, seen, rpc_count, outcome, executed, disturbed>>
    BY <1>9 DEF ClientDone
  <2> QED BY <1>t, <1>g, <1>p, <2>1, <2>2, RpcPointKeepsInv
<1>10. ASSUME NEW g \in RpcGuests,
              RpcAlarm(g) \/ (\E m \in rpc_net : RpcLose(m)) \/ UNCHANGED rpcVars
       PROVE  RpcInv' /\ UNCHANGED <<executed, outcome>>
  <2>1. /\ rpc_pc' = rpc_pc /\ rpc_net' \subseteq rpc_net
        /\ alarm' \subseteq RpcGuests /\ disturbed' \in BOOLEAN
        /\ UNCHANGED <<call, retries, seen, rpc_count, outcome, executed>>
    BY <1>10, <1>t DEF RpcAlarm, RpcLose, rpcVars
  <2>2. rpc_pc[g] = "recv" /\ g \in RpcClients => call[g] \in CallIds /\ retries[g] < MaxRetries
    BY DEF RpcInv, RpcCalls
  <2> QED BY <1>t, <2>1, <2>2, RpcPointKeepsInv
<1>11. ASSUME NEW g \in RpcGuests, RpcProceed(g) \/ RpcFault(g)
       PROVE  RpcInv' /\ [Service!Next]_<<executed, outcome>>
  <2>1. CASE g = RpcServer
    BY <1>11, <2>1, <1>2, <1>3, <1>t DEF RpcProceed, RpcFault, ServerTimeout
  <2>2. CASE g \in RpcClients
    BY <1>11, <2>2, <1>g, <1>4, <1>6, <1>7, <1>8, <1>9, <1>t
       DEF RpcProceed, RpcFault, ClientGivesUp
  <2> QED BY <1>g, <2>1, <2>2
<1> QED
  BY <1>g, <1>1, <1>10, <1>11 DEF RpcNext, RpcStep

\* The safety properties of the RPC programs follow from RpcInv.
LEMMA RpcInvGivesSafety == RpcInv => RpcTypeOK /\ CountIsCalls /\ ResponsesFit
<1> SUFFICES ASSUME RpcInv PROVE RpcTypeOK /\ CountIsCalls /\ ResponsesFit
  OBVIOUS
<1>1. RpcTypeOK
  <2>1. \A e \in seen : <<e.client, e.msg_id>> \in Calls
    BY DEF RpcInv, RpcTable, CallOf
  <2>2. \A m \in rpc_net : <<m.client, m.msg_id>> \in Calls /\ m.type \in {"RPC", "RPC_RSP"}
    BY DEF RpcInv, RpcWire, CallOf
  <2> QED
    BY <2>1, <2>2 DEF RpcInv, RpcTypes, RpcPCs, RpcTable, RpcTypeOK
<1>2. CountIsCalls
  <2>1. /\ Cardinality(seen) \in Nat /\ Cardinality(executed) \in Nat /\ rpc_count \in Nat
        /\ Cardinality(seen) <= MaxSeen /\ rpc_count >= Cardinality(executed)
        /\ Cardinality(seen) < MaxSeen => rpc_count = Cardinality(executed)
    BY FS_CardinalityType DEF RpcInv, RpcTable
  <2> QED BY <2>1, RpcAssumption DEF CountIsCalls
<1>3. ResponsesFit
  BY DEF RpcInv, RpcWire, Fitting, Unfixed, ResponsesFit
<1> QED BY <1>1, <1>2, <1>3

\* ub_rpc_demo on its own: the count of the server is the number of executed
\* calls until its table is full, and a response fits the call it names.
THEOREM RpcSafety == RpcSpec => [](CountIsCalls /\ ResponsesFit)
<1>1. RpcInv /\ [RpcNext]_rpcVars => RpcInv'
  BY RpcStepKeepsInv
<1> QED
  BY InitRpcInv, <1>1, RpcInvGivesSafety, PTL DEF RpcSpec

\* Resends, repeated requests, late responses, alarms and the early leave of
\* the server are invisible: the program implements RpcService.
THEOREM RpcImplementsService == RpcSpec => ImplementsRpcService
<1>1. RpcInit => Service!Init
  BY DEF RpcInit, Service!Init
<1>2. RpcInv /\ [RpcNext]_rpcVars => RpcInv' /\ [Service!Next]_<<executed, outcome>>
  BY RpcStepKeepsInv
<1> QED
  BY InitRpcInv, <1>1, <1>2, PTL DEF RpcSpec, ImplementsRpcService, Service!Spec

-----------------------------------------------------------------------------
(***************************************************************************)
(* ub_rdma_demo.c                                                          *)
(***************************************************************************)

\* run_ub_rdma_demo_probe kills the program.
RdmaKill(g) ==
  /\ RdmaRunning(g)
  /\ RdmaExit(g, "failed")
  /\ rdma_disturbed' = TRUE

EndPCs     == {"passed", "failed", "proto", "skipped"}
BeforeInfo == {"down", "setup", "sync_tx", "sync_rx", "rebind", "info_tx"}
Meeting    == {"import", "bind", "post_recv"}
Exchange   == {"ready_tx", "ready_rx", "post_send", "send_cqe", "recv_cqe"}
Leaving    == {"unbind", "unimport", "cleanup", "busy"}
RdmaPCs    == BeforeInfo \cup {"info_rx"} \cup Meeting \cup Exchange \cup Leaving \cup EndPCs

\* The completions that can be there: a payload that has arrived is completed
\* for its receiver and its sender.
Completions(g) ==
  {"ERROR"} \cup (IF rx_buf[g] # "" THEN {"RECEIVE"} ELSE {})
            \cup (IF rx_buf[RdmaPeer(g)] # "" THEN {"SEND"} ELSE {})

RdmaTypes ==
  /\ rdma_pc \in [RdmaGuests -> RdmaPCs]
  /\ rdma_pc[RdmaResponder] \notin {"sync_tx", "info_tx", "ready_tx"}
  /\ acquired \in [RdmaGuests -> 0 .. Len(Resources)]
  /\ wr \in [RdmaGuests -> {"none", "posted", "delivered", "done"}]
  /\ busy \in [RdmaGuests -> 0 .. UnimportTries]
  /\ rx_buf \in [RdmaGuests -> {"", "req_msg", "reply_msg"}]
  /\ cq \in [RdmaGuests -> Seq({"SEND", "RECEIVE", "ERROR"})]
  /\ rdma_disturbed \in BOOLEAN

\* What a guest holds is what its point of main says.
RdmaHandles ==
  /\ imported \subseteq RdmaGuests /\ bound \subseteq RdmaGuests
  /\ \A g \in RdmaGuests :
       /\ g \in imported <=> rdma_pc[g] \in {"bind", "post_recv", "unbind", "unimport", "busy"}
                                              \cup Exchange
       /\ g \in bound <=> rdma_pc[g] \in {"post_recv", "unbind"} \cup Exchange
       /\ g \in stalled => rdma_pc[g] \in EndPCs \ {"passed"}
       /\ busy[g] = UnimportTries => rdma_pc[g] \in {"busy"} \cup EndPCs

\* A datagram is there only for an open socket, with a tag its sender uses.
RdmaWire ==
  \A m \in rdma_net :
    /\ m.from \in RdmaGuests /\ m = Msg(m.from, m.tag)
    /\ Listens(RdmaPeer(m.from), m.tag)
    /\ m.from = RdmaInitiator => m.tag \in {"SYNC_REQ", "INFO", "READY"}
    /\ m.from = RdmaResponder => m.tag \in {"SYNC_ACK", "INFO", "READY_ACK"}

\* The INFO exchange is over on both sides before either waits for READY,
\* unless a datagram was doubled.
RdmaInfo ==
  /\ rdma_pc[RdmaResponder] \in Meeting \cup Exchange \cup Leaving =>
       rdma_pc[RdmaInitiator] \notin BeforeInfo
  /\ Msg(RdmaInitiator, "INFO") \in rdma_net =>
       /\ rdma_pc[RdmaInitiator] \notin BeforeInfo
       /\ ~rdma_disturbed =>
            /\ rdma_pc[RdmaResponder] = "info_rx"
            /\ rdma_pc[RdmaInitiator] \notin Meeting \cup Exchange \cup Leaving
  /\ Msg(RdmaResponder, "INFO") \in rdma_net =>
       /\ rdma_pc[RdmaResponder] \in Meeting \cup Exchange \cup Leaving \cup EndPCs
       /\ ~rdma_disturbed => rdma_pc[RdmaInitiator] = "info_rx"
  /\ ProtoOnlyIfDisturbed

\* The initiator sends after the responder was ready, the responder after it
\* has the request.
RdmaTurns ==
  /\ (\/ Msg(RdmaResponder, "READY_ACK") \in rdma_net
      \/ rdma_pc[RdmaInitiator] = "post_send"
      \/ wr[RdmaInitiator] # "none") =>
       rdma_pc[RdmaResponder] \in {"recv_cqe", "post_send", "send_cqe"} \cup Leaving \cup EndPCs
  /\ wr[RdmaInitiator] # "none" =>
       rdma_pc[RdmaInitiator] \in {"send_cqe", "recv_cqe"} \cup Leaving \cup EndPCs
  /\ wr[RdmaResponder] # "none" =>
       /\ rdma_pc[RdmaResponder] \in {"send_cqe"} \cup Leaving \cup EndPCs
       /\ rx_buf[RdmaResponder] # ""
  /\ rdma_pc[RdmaResponder] \in {"post_send", "send_cqe"} => rx_buf[RdmaResponder] # ""
  /\ rdma_pc[RdmaInitiator] \in Leaving \cup {"passed"} => rx_buf[RdmaInitiator] # ""
  /\ rdma_pc[RdmaResponder] \in Leaving \cup {"passed"} =>
       rx_buf[RdmaResponder] # "" /\ rx_buf[RdmaInitiator] # ""

\* A payload in a buffer was sent, and while none is there the receive waits.
RdmaPayload ==
  \A g \in RdmaGuests :
    /\ rx_buf[g] \in {"", RdmaText(RdmaPeer(g))}
    /\ rx_buf[g] # "" => wr[RdmaPeer(g)] \in {"delivered", "done"}
    /\ wr[RdmaPeer(g)] = "delivered" => rx_buf[g] # ""
    /\ rdma_pc[g] \in Exchange /\ rx_buf[g] = "" => g \in rq
    /\ cq[g] \in Seq(Completions(g))

RdmaInv ==
  RdmaTypes /\ RdmaHandles /\ RdmaWire /\ RdmaInfo /\ RdmaTurns /\ RdmaPayload

\* There are two guests, initiator and responder, with their payloads.
LEMMA RdmaRoles ==
  /\ RdmaInitiator \in RdmaGuests /\ RdmaResponder \in RdmaGuests
  /\ RdmaInitiator # RdmaResponder
  /\ \A g \in RdmaGuests : g = RdmaInitiator \/ g = RdmaResponder
  /\ RdmaPeer(RdmaInitiator) = RdmaResponder /\ RdmaPeer(RdmaResponder) = RdmaInitiator
  /\ RdmaText(RdmaInitiator) = "req_msg" /\ RdmaText(RdmaResponder) = "reply_msg"
  BY RdmaAssumption DEF RdmaGuests, RdmaPeer, RdmaText

\* What a sync datagram carries.
LEMMA MsgFields == \A g, t : Msg(g, t).from = g /\ Msg(g, t).tag = t
  BY DEF Msg

\* No message of Wire is confused with another one.
LEMMA WireMember ==
  ASSUME RdmaInv, NEW m \in rdma_net
  PROVE  /\ m.from \in RdmaGuests /\ m = Msg(m.from, m.tag)
         /\ Listens(RdmaPeer(m.from), m.tag)
         /\ m.from = RdmaInitiator => m.tag \in {"SYNC_REQ", "INFO", "READY"}
         /\ m.from = RdmaResponder => m.tag \in {"SYNC_ACK", "INFO", "READY_ACK"}
  BY DEF RdmaInv, RdmaWire

\* main acquires eleven resources.
LEMMA ResourcesLength == Len(Resources) = 11
  BY DEF Resources

\* Before power-on RdmaInv holds: nothing held, nothing under way.
LEMMA InitRdmaInv == RdmaInit => RdmaInv
<1> SUFFICES ASSUME RdmaInit PROVE RdmaInv
  OBVIOUS
<1> USE RdmaRoles, RdmaAssumption
<1>1. /\ \A g \in RdmaGuests : /\ rdma_pc[g] = "down" /\ wr[g] = "none" /\ rx_buf[g] = ""
                               /\ busy[g] = 0 /\ cq[g] = << >>
      /\ imported = {} /\ bound = {} /\ rdma_net = {} /\ stalled = {}
  BY DEF RdmaInit
<1>2. RdmaTypes
  <2>1. 0 \in 0 .. Len(Resources) /\ 0 \in 0 .. UnimportTries
    BY ResourcesLength
  <2>2. /\ acquired \in [RdmaGuests -> 0 .. Len(Resources)]
        /\ busy \in [RdmaGuests -> 0 .. UnimportTries]
    BY <2>1 DEF RdmaInit
  <2>3. /\ rdma_pc \in [RdmaGuests -> RdmaPCs]
        /\ wr \in [RdmaGuests -> {"none", "posted", "delivered", "done"}]
        /\ rx_buf \in [RdmaGuests -> {"", "req_msg", "reply_msg"}]
        /\ rdma_disturbed \in BOOLEAN
    BY DEF RdmaInit, RdmaPCs, BeforeInfo
  <2>4. cq \in [RdmaGuests -> Seq({"SEND", "RECEIVE", "ERROR"})]
    BY EmptySeq DEF RdmaInit
  <2> QED BY <1>1, <2>2, <2>3, <2>4 DEF RdmaTypes
<1>3. RdmaHandles
  BY <1>1 DEF RdmaHandles, Exchange
<1>4. RdmaWire /\ RdmaInfo
  BY <1>1 DEF RdmaWire, RdmaInfo, ProtoOnlyIfDisturbed, Meeting, Exchange, Leaving
<1>5. RdmaTurns
  BY <1>1 DEF RdmaTurns, Leaving
<1>6. RdmaPayload
  <2>1. \A g \in RdmaGuests : cq[g] \in Seq(Completions(g))
    BY <1>1, EmptySeq
  <2> QED BY <1>1, <2>1 DEF RdmaPayload, Exchange
<1> QED BY <1>2, <1>3, <1>4, <1>5, <1>6 DEF RdmaInv

\* A step of one guest leaves the other where it is.
LEMMA RdmaMove ==
  ASSUME RdmaInv, NEW g \in RdmaGuests, NEW to \in RdmaPCs, RdmaGo(g, to)
  PROVE  /\ rdma_pc' \in [RdmaGuests -> RdmaPCs] /\ rdma_pc'[g] = to
         /\ \A h \in RdmaGuests : h # g => rdma_pc'[h] = rdma_pc[h]
  BY DEF RdmaGo, RdmaInv, RdmaTypes

\* Leaving main, from wherever it is.
LEMMA RdmaExitKeepsInv ==
  ASSUME RdmaInv, NEW g \in RdmaGuests, NEW result \in EndPCs, RdmaExit(g, result),
         rdma_disturbed' \in BOOLEAN, rdma_disturbed => rdma_disturbed',
         result = "passed" => rdma_pc[g] = "cleanup",
         result = "proto" => rdma_disturbed'
  PROVE  RdmaInv'
<1> USE RdmaRoles
<1>0. result \in RdmaPCs
  BY DEF RdmaPCs
<1>1. /\ rdma_pc' \in [RdmaGuests -> RdmaPCs] /\ rdma_pc'[g] = result
      /\ \A h \in RdmaGuests : h # g => rdma_pc'[h] = rdma_pc[h]
  BY <1>0, RdmaMove DEF RdmaExit
<1>2. /\ cq' \in [RdmaGuests -> Seq({"SEND", "RECEIVE", "ERROR"})] /\ cq'[g] = << >>
      /\ \A h \in RdmaGuests : h # g => cq'[h] = cq[h]
      /\ acquired' \in [RdmaGuests -> 0 .. Len(Resources)]
      /\ UNCHANGED <<wr, rx_buf, busy>>
  <2>1. /\ << >> \in Seq({"SEND", "RECEIVE", "ERROR"}) /\ 0 \in 0 .. Len(Resources)
    BY ResourcesLength, EmptySeq
  <2>2. /\ cq \in [RdmaGuests -> Seq({"SEND", "RECEIVE", "ERROR"})]
        /\ cq' = [cq EXCEPT ![g] = << >>]
        /\ acquired \in [RdmaGuests -> 0 .. Len(Resources)]
        /\ acquired' = [acquired EXCEPT ![g] = 0] /\ UNCHANGED <<wr, rx_buf, busy>>
    BY DEF RdmaExit, RdmaInv, RdmaTypes
  <2> QED BY <2>1, <2>2
<1>3. /\ rq' = rq \ {g} /\ imported' = imported \ {g} /\ bound' = bound \ {g}
      /\ stalled' = stalled \cup ({g} \cap imported)
      /\ rdma_net' = {m \in rdma_net : m.from = g}
  BY DEF RdmaExit
<1>4. RdmaTypes'
  BY <1>1, <1>2 DEF RdmaInv, RdmaTypes, EndPCs
<1>5. RdmaHandles'
  BY <1>1, <1>2, <1>3 DEF RdmaInv, RdmaHandles, EndPCs, Exchange
<1>6. RdmaWire'
  BY <1>1, <1>3 DEF RdmaInv, RdmaWire, Listens, OnSyncPort, OnDataPort
<1>7. RdmaInfo'
  <2>1. ProtoOnlyIfDisturbed'
    BY <1>1 DEF RdmaInv, RdmaInfo, ProtoOnlyIfDisturbed
  <2>2. \A t : Msg(RdmaPeer(g), t) \notin rdma_net'
    BY <1>3, MsgFields
  <2>3. CASE g = RdmaInitiator
    BY <1>1, <1>3, <2>1, <2>2, <2>3
       DEF RdmaInv, RdmaInfo, EndPCs, BeforeInfo, Meeting, Exchange, Leaving
  <2>4. CASE g = RdmaResponder
    BY <1>1, <1>3, <2>1, <2>2, <2>4
       DEF RdmaInv, RdmaInfo, EndPCs, BeforeInfo, Meeting, Exchange, Leaving
  <2> QED BY <2>3, <2>4
<1>8. RdmaTurns'
  <2>1. rdma_net' \subseteq rdma_net
    BY <1>3
  <2>2. CASE g = RdmaInitiator
    BY <1>1, <1>2, <2>1, <2>2 DEF RdmaInv, RdmaTurns, EndPCs, Leaving
  <2>3. CASE g = RdmaResponder
    BY <1>1, <1>2, <2>1, <2>3 DEF RdmaInv, RdmaTurns, EndPCs, Leaving
  <2> QED BY <2>2, <2>3
<1>9. RdmaPayload'
  <2>1. \A h \in RdmaGuests : Completions(h)' = Completions(h)
    BY <1>2 DEF Completions
  <2>2. \A h \in RdmaGuests : cq'[h] \in Seq(Completions(h)')
    <3>1. ASSUME NEW h \in RdmaGuests PROVE << >> \in Seq(Completions(h))
      BY EmptySeq
    <3> QED BY <1>2, <2>1, <3>1 DEF RdmaInv, RdmaPayload
  <2>3. rdma_pc'[g] \notin Exchange
    BY <1>1 DEF EndPCs, Exchange
  <2> QED BY <1>1, <1>2, <1>3, <2>2, <2>3 DEF RdmaInv, RdmaPayload
<1> QED BY <1>4, <1>5, <1>6, <1>7, <1>8, <1>9 DEF RdmaInv

QuietMoves ==
  {<<"down", "setup">>, <<"setup", "setup">>, <<"setup", "sync_tx">>, <<"setup", "sync_rx">>,
   <<"rebind", "info_tx">>, <<"rebind", "info_rx">>, <<"import", "bind">>,
   <<"bind", "post_recv">>, <<"unbind", "unimport">>, <<"unimport", "unimport">>,
   <<"unimport", "cleanup">>, <<"unimport", "busy">>}

\* A step between two points of main that neither sends nor receives.
LEMMA QuietMoveKeepsTalk ==
  ASSUME RdmaInv, NEW g \in RdmaGuests, NEW to \in RdmaPCs, RdmaGo(g, to),
         <<rdma_pc[g], to>> \in QuietMoves,
         UNCHANGED <<rdma_net, rq, wr, cq, rx_buf>>,
         rdma_disturbed' \in BOOLEAN, rdma_disturbed => rdma_disturbed'
  PROVE  RdmaWire' /\ RdmaInfo' /\ RdmaTurns' /\ RdmaPayload'
<1> USE RdmaRoles
<1>1. /\ rdma_pc' \in [RdmaGuests -> RdmaPCs] /\ rdma_pc'[g] = to
      /\ \A h \in RdmaGuests : h # g => rdma_pc'[h] = rdma_pc[h]
  BY RdmaMove
<1>2. /\ rdma_pc[g] \in BeforeInfo => to \in BeforeInfo \cup {"info_rx"}
      /\ rdma_pc[g] \in Meeting <=> to \in Meeting
      /\ rdma_pc[g] \in Leaving <=> to \in Leaving
      /\ rdma_pc[g] \notin {"info_rx", "proto", "passed"} \cup Exchange
      /\ to \notin EndPCs \cup Exchange /\ rdma_pc[g] \notin EndPCs
      /\ rdma_pc[g] \in {"sync_tx", "sync_rx"} => to \in {"sync_tx", "sync_rx"}
      /\ OnDataPort(g) <=> rdma_pc[g] \in Meeting
      /\ rdma_pc[g] \in Meeting => OnDataPort(g)'
  BY <1>1 DEF QuietMoves, BeforeInfo, Meeting, Leaving, Exchange, EndPCs, OnDataPort
<1>3. RdmaWire'
  <2>1. \A h \in RdmaGuests : /\ OnSyncPort(h) => OnSyncPort(h)'
                              /\ OnDataPort(h) => OnDataPort(h)'
    BY <1>1, <1>2 DEF OnSyncPort, OnDataPort
  <2> SUFFICES ASSUME NEW m \in rdma_net
               PROVE  /\ m.from \in RdmaGuests /\ m = Msg(m.from, m.tag)
                      /\ Listens(RdmaPeer(m.from), m.tag)'
                      /\ m.from = RdmaInitiator => m.tag \in {"SYNC_REQ", "INFO", "READY"}
                      /\ m.from = RdmaResponder => m.tag \in {"SYNC_ACK", "INFO", "READY_ACK"}
    BY DEF RdmaWire
  <2> QED BY <2>1, WireMember DEF Listens
<1>4. ASSUME g = RdmaInitiator, Msg(RdmaResponder, "INFO") \in rdma_net PROVE rdma_disturbed
  BY <1>2, <1>4 DEF RdmaInv, RdmaInfo
<1>5. ASSUME g = RdmaResponder, Msg(RdmaInitiator, "INFO") \in rdma_net PROVE rdma_disturbed
  BY <1>2, <1>5 DEF RdmaInv, RdmaInfo
<1>6. RdmaInfo'
  <2>1. ProtoOnlyIfDisturbed'
    BY <1>1, <1>2 DEF RdmaInv, RdmaInfo, ProtoOnlyIfDisturbed, EndPCs
  <2>2. CASE g = RdmaInitiator
    <3>1. /\ rdma_pc'[RdmaInitiator] \in BeforeInfo => rdma_pc[RdmaInitiator] \in BeforeInfo
          /\ rdma_pc'[RdmaResponder] = rdma_pc[RdmaResponder]
          /\ rdma_pc'[RdmaInitiator] \in Meeting \cup Exchange \cup Leaving =>
               rdma_pc[RdmaInitiator] \in Meeting \cup Exchange \cup Leaving
      BY <1>1, <1>2, <2>2 DEF QuietMoves, BeforeInfo
    <3> QED BY <1>4, <2>1, <2>2, <3>1 DEF RdmaInv, RdmaInfo
  <2>3. CASE g = RdmaResponder
    <3>1. /\ rdma_pc'[RdmaInitiator] = rdma_pc[RdmaInitiator]
          /\ rdma_pc'[RdmaResponder] \in Meeting \cup Exchange \cup Leaving <=>
               rdma_pc[RdmaResponder] \in Meeting \cup Exchange \cup Leaving
          /\ rdma_pc[RdmaResponder] \notin EndPCs
      BY <1>1, <1>2, <2>3
    <3> QED BY <1>5, <2>1, <2>3, <3>1 DEF RdmaInv, RdmaInfo
  <2> QED BY <2>2, <2>3
<1>7. RdmaTurns'
  <2>1. CASE g = RdmaInitiator
    BY <1>1, <1>2, <2>1 DEF RdmaInv, RdmaTurns, Exchange, EndPCs
  <2>2. CASE g = RdmaResponder
    BY <1>1, <1>2, <2>2 DEF RdmaInv, RdmaTurns, Exchange, EndPCs
  <2> QED BY <2>1, <2>2
<1>8. RdmaPayload'
  <2>1. \A h \in RdmaGuests : Completions(h)' = Completions(h)
    BY DEF Completions
  <2> QED BY <1>1, <1>2, <2>1 DEF RdmaInv, RdmaPayload
<1> QED BY <1>3, <1>6, <1>7, <1>8

\* The steps of main between the exchanges.
LEMMA QuietStepKeepsInv ==
  ASSUME RdmaInv, NEW g \in RdmaGuests,
         \/ RdmaStart(g) \/ SetUpNext(g) \/ BindSync(g) \/ Rebind(g) \/ ImportJetty(g)
         \/ BindJetty(g) \/ UnbindJetty(g) \/ UnimportJetty(g)
  PROVE  RdmaInv'
<1> USE RdmaRoles, RdmaAssumption
<1>0. /\ rdma_disturbed \in BOOLEAN /\ rdma_pc \in [RdmaGuests -> RdmaPCs]
      /\ rdma_pc = [rdma_pc EXCEPT ![g] = rdma_pc[g]]
  BY DEF RdmaInv, RdmaTypes
<1>1. PICK to \in RdmaPCs :
        /\ RdmaGo(g, to) /\ <<rdma_pc[g], to>> \in QuietMoves
        /\ g = RdmaResponder => to \notin {"sync_tx", "info_tx", "ready_tx"}
  <2>1. CASE SetUpNext(g)
    <3>1. RdmaGo(g, "setup") /\ rdma_pc[g] = "setup"
      BY <1>0, <2>1 DEF SetUpNext, RdmaGo
    <3> QED BY <3>1 DEF QuietMoves, RdmaPCs, BeforeInfo
  <2>2. CASE UnimportJetty(g)
    BY <2>2 DEF UnimportJetty, QuietMoves, RdmaPCs, Leaving
  <2>3. CASE \/ RdmaStart(g) \/ BindSync(g) \/ Rebind(g) \/ ImportJetty(g)
             \/ BindJetty(g) \/ UnbindJetty(g)
    BY <2>3 DEF RdmaStart, BindSync, Rebind, ImportJetty, BindJetty, UnbindJetty,
                QuietMoves, RdmaPCs, BeforeInfo, Meeting, Leaving
  <2> QED BY <2>1, <2>2, <2>3
<1>2. /\ UNCHANGED <<rdma_net, rq, wr, cq, rx_buf, stalled>>
      /\ rdma_disturbed' \in BOOLEAN /\ (rdma_disturbed => rdma_disturbed')
  <2>1. UNCHANGED <<rdma_net, rq, wr, cq, rx_buf, stalled>>
    BY DEF RdmaStart, SetUpNext, BindSync, Rebind, ImportJetty, BindJetty, UnbindJetty,
           UnimportJetty, Handles, Datapath
  <2>2. CASE UnimportJetty(g)
    BY <1>0, <2>1, <2>2 DEF UnimportJetty
  <2>3. CASE ~UnimportJetty(g)
    BY <1>0, <2>1, <2>3 DEF RdmaStart, SetUpNext, BindSync, Rebind, ImportJetty, BindJetty,
                            UnbindJetty
  <2> QED BY <2>2, <2>3
<1>3. RdmaWire' /\ RdmaInfo' /\ RdmaTurns' /\ RdmaPayload'
  BY <1>1, <1>2, QuietMoveKeepsTalk
<1>4. /\ rdma_pc' \in [RdmaGuests -> RdmaPCs] /\ rdma_pc'[g] = to
      /\ \A h \in RdmaGuests : h # g => rdma_pc'[h] = rdma_pc[h]
  BY <1>1, RdmaMove
<1>5. acquired' \in [RdmaGuests -> 0 .. Len(Resources)]
  <2>1. CASE SetUpNext(g)
    <3>1. /\ acquired \in [RdmaGuests -> 0 .. 11] /\ acquired[g] < 11
          /\ acquired' = [acquired EXCEPT ![g] = acquired[g] + 1]
      BY <2>1, ResourcesLength DEF SetUpNext, RdmaInv, RdmaTypes
    <3>2. acquired' \in [RdmaGuests -> 0 .. 11]
      BY <3>1
    <3> QED BY <3>2, ResourcesLength
  <2>2. CASE ~SetUpNext(g)
    BY <2>2 DEF RdmaStart, BindSync, Rebind, ImportJetty, BindJetty, UnbindJetty,
                UnimportJetty, Handles, RdmaInv, RdmaTypes
  <2> QED BY <2>1, <2>2
<1>6. /\ busy' \in [RdmaGuests -> 0 .. UnimportTries]
      /\ \A h \in RdmaGuests : busy'[h] = UnimportTries => rdma_pc'[h] \in {"busy"} \cup EndPCs
  <2>1. CASE UNCHANGED busy
    <3>1. busy[g] # UnimportTries
      BY <1>1 DEF RdmaInv, RdmaHandles, QuietMoves, EndPCs
    <3> QED BY <1>4, <2>1, <3>1 DEF RdmaInv, RdmaTypes, RdmaHandles
  <2>2. CASE UnimportJetty(g) /\ busy' # busy
    <3>1. /\ rdma_pc[g] = "unimport" /\ busy' = [busy EXCEPT ![g] = @ + 1]
          /\ RdmaGo(g, IF busy'[g] = UnimportTries THEN "busy" ELSE "unimport")
      BY <2>2 DEF UnimportJetty
    <3>2. busy \in [RdmaGuests -> 0 .. UnimportTries] /\ busy[g] # UnimportTries
      BY <3>1 DEF RdmaInv, RdmaTypes, RdmaHandles, EndPCs
    <3>3. /\ busy' \in [RdmaGuests -> 0 .. UnimportTries]
          /\ \A h \in RdmaGuests : h # g => busy'[h] = busy[h]
      BY <3>1, <3>2
    <3>4. busy'[g] = UnimportTries => rdma_pc'[g] = "busy"
      BY <1>0, <3>1 DEF RdmaGo
    <3> QED BY <1>4, <3>3, <3>4 DEF RdmaInv, RdmaHandles
  <2>3. UNCHANGED busy \/ (UnimportJetty(g) /\ busy' # busy)
    BY DEF RdmaStart, SetUpNext, BindSync, Rebind, ImportJetty, BindJetty, UnbindJetty, Handles
  <2> QED BY <2>1, <2>2, <2>3
<1>7. RdmaTypes'
  <2>1. rdma_pc'[RdmaResponder] \notin {"sync_tx", "info_tx", "ready_tx"}
    BY <1>1, <1>4 DEF RdmaInv, RdmaTypes
  <2> QED BY <1>2, <1>4, <1>5, <1>6, <2>1 DEF RdmaInv, RdmaTypes
<1>8. /\ imported' \subseteq RdmaGuests /\ bound' \subseteq RdmaGuests
      /\ \A h \in RdmaGuests : h # g => /\ h \in imported' <=> h \in imported
                                        /\ h \in bound' <=> h \in bound
      /\ g \in imported' <=> to \in {"bind", "post_recv", "unbind", "unimport", "busy"}
      /\ g \in bound' <=> to \in {"post_recv", "unbind"}
  <2> USE DEF RdmaInv, RdmaHandles, RdmaGo, Exchange, Handles
  <2>p. rdma_pc'[g] = to
    BY <1>4
  <2>1. CASE RdmaStart(g) \/ SetUpNext(g) \/ BindSync(g) \/ Rebind(g)
    BY <1>0, <2>p, <2>1 DEF RdmaStart, SetUpNext, BindSync, Rebind
  <2>2. CASE ImportJetty(g) \/ BindJetty(g) \/ UnbindJetty(g)
    BY <1>0, <2>p, <2>2 DEF ImportJetty, BindJetty, UnbindJetty
  <2>3. CASE UnimportJetty(g)
    BY <1>0, <2>p, <2>3 DEF UnimportJetty
  <2> QED BY <2>1, <2>2, <2>3
<1>9. RdmaHandles'
  <2>1. to \notin Exchange /\ rdma_pc[g] \notin EndPCs
    BY <1>1 DEF QuietMoves, Exchange, EndPCs
  <2> QED BY <1>2, <1>4, <1>6, <1>8, <2>1 DEF RdmaInv, RdmaHandles
<1> QED BY <1>3, <1>7, <1>9 DEF RdmaInv

\* The handles stay what the point of main says when it changes within a class.
LEMMA SameHandles ==
  ASSUME RdmaInv, NEW g \in RdmaGuests, NEW to \in RdmaPCs, RdmaGo(g, to),
         UNCHANGED <<acquired, imported, bound, busy, stalled>>,
         to \notin EndPCs /\ rdma_pc[g] \notin {"busy"} \cup EndPCs,
         to \in {"bind", "post_recv", "unbind", "unimport", "busy"} \cup Exchange <=>
           rdma_pc[g] \in {"bind", "post_recv", "unbind", "unimport", "busy"} \cup Exchange,
         to \in {"post_recv", "unbind"} \cup Exchange <=>
           rdma_pc[g] \in {"post_recv", "unbind"} \cup Exchange
  PROVE  RdmaHandles'
<1>1. /\ rdma_pc'[g] = to /\ \A h \in RdmaGuests : h # g => rdma_pc'[h] = rdma_pc[h]
  BY RdmaMove
<1> QED BY <1>1 DEF RdmaInv, RdmaHandles

\* Messages under way stay there or are taken, and those that are sent find
\* their socket.
LEMMA SentKeepsWire ==
  ASSUME RdmaInv, NEW g \in RdmaGuests, NEW tag, NEW left, left \subseteq rdma_net,
         rdma_net' \subseteq left \cup Sent(g, tag),
         g = RdmaInitiator => tag \in {"SYNC_REQ", "INFO", "READY"},
         g = RdmaResponder => tag \in {"SYNC_ACK", "INFO", "READY_ACK"},
         \A h \in RdmaGuests : h # g => rdma_pc'[h] = rdma_pc[h],
         \A n \in left : n.from # g => Listens(g, n.tag)'
  PROVE  RdmaWire'
<1> USE RdmaRoles
<1> SUFFICES ASSUME NEW n \in rdma_net'
             PROVE  /\ n.from \in RdmaGuests /\ n = Msg(n.from, n.tag)
                    /\ Listens(RdmaPeer(n.from), n.tag)'
                    /\ n.from = RdmaInitiator => n.tag \in {"SYNC_REQ", "INFO", "READY"}
                    /\ n.from = RdmaResponder => n.tag \in {"SYNC_ACK", "INFO", "READY_ACK"}
  BY DEF RdmaWire
<1>0. \A t : Listens(RdmaPeer(g), t)' <=> Listens(RdmaPeer(g), t)
  BY DEF Listens, OnSyncPort, OnDataPort
<1>1. CASE n \in left
  <2>1. /\ n.from \in RdmaGuests /\ n = Msg(n.from, n.tag) /\ Listens(RdmaPeer(n.from), n.tag)
        /\ n.from = RdmaInitiator => n.tag \in {"SYNC_REQ", "INFO", "READY"}
        /\ n.from = RdmaResponder => n.tag \in {"SYNC_ACK", "INFO", "READY_ACK"}
    BY <1>1, WireMember
  <2>2. CASE n.from = g
    BY <1>0, <2>1, <2>2
  <2>3. CASE n.from # g
    <3>1. RdmaPeer(n.from) = g
      BY <2>1, <2>3
    <3> QED BY <1>1, <2>1, <2>3, <3>1
  <2> QED BY <2>2, <2>3
<1>2. CASE n \in Sent(g, tag)
  <2>1. n = Msg(g, tag) /\ Listens(RdmaPeer(g), tag)
    BY <1>2 DEF Sent
  <2>2. n.from = g /\ n.tag = tag
    BY <2>1, MsgFields
  <2> QED BY <1>0, <2>1, <2>2
<1> QED BY <1>1, <1>2

\* Nothing of the data path changes.
LEMMA SamePayload ==
  ASSUME RdmaInv, NEW g \in RdmaGuests, NEW to \in RdmaPCs, RdmaGo(g, to),
         UNCHANGED <<rq, wr, cq, rx_buf>>, to \in Exchange => rdma_pc[g] \in Exchange
  PROVE  RdmaPayload'
<1>1. /\ rdma_pc'[g] = to /\ \A h \in RdmaGuests : h # g => rdma_pc'[h] = rdma_pc[h]
  BY RdmaMove
<1>2. \A h \in RdmaGuests : Completions(h)' = Completions(h)
  BY DEF Completions
<1> QED BY <1>1, <1>2 DEF RdmaInv, RdmaPayload

\* A sync datagram of the initiator, lost or not, keeps RdmaInv.
LEMMA OpenKeepsInv ==
  ASSUME RdmaInv, Open
  PROVE  RdmaInv'
<1> USE RdmaRoles
<1> DEFINE g == RdmaInitiator
<1>0. rdma_disturbed \in BOOLEAN
  BY DEF RdmaInv, RdmaTypes
<1>1. PICK tag, to :
        /\ <<rdma_pc[g], tag, to>> \in {<<"sync_tx", "SYNC_REQ", "sync_rx">>,
                                        <<"info_tx", "INFO", "info_rx">>,
                                        <<"ready_tx", "READY", "ready_rx">>}
        /\ RdmaGo(g, to)
        /\ rdma_net' = rdma_net \cup Sent(g, tag)
        /\ rdma_disturbed' = (rdma_disturbed \/ Sent(g, tag) = {})
  BY DEF Open, Opening, Awaits
<1>2. UNCHANGED <<acquired, imported, bound, busy, stalled, rq, wr, cq, rx_buf>>
  BY DEF Open, Handles, Datapath
<1>3. to \in RdmaPCs
  BY <1>1 DEF RdmaPCs, BeforeInfo, Exchange
<1>4. /\ rdma_pc' \in [RdmaGuests -> RdmaPCs] /\ rdma_pc'[g] = to
      /\ rdma_pc'[RdmaResponder] = rdma_pc[RdmaResponder]
      /\ \A h \in RdmaGuests : h # g => rdma_pc'[h] = rdma_pc[h]
  BY <1>1, <1>3, RdmaMove
<1>5. rdma_disturbed' \in BOOLEAN /\ (rdma_disturbed => rdma_disturbed')
  BY <1>0, <1>1
<1>6. RdmaTypes'
  BY <1>2, <1>4, <1>5 DEF RdmaInv, RdmaTypes
<1>7. RdmaHandles'
  <2>1. /\ to \notin EndPCs /\ rdma_pc[g] \notin {"busy"} \cup EndPCs
        /\ to \in {"bind", "post_recv", "unbind", "unimport", "busy"} \cup Exchange <=>
             rdma_pc[g] \in {"bind", "post_recv", "unbind", "unimport", "busy"} \cup Exchange
        /\ to \in {"post_recv", "unbind"} \cup Exchange <=>
             rdma_pc[g] \in {"post_recv", "unbind"} \cup Exchange
    BY <1>1 DEF EndPCs, Exchange
  <2> QED BY <1>1, <1>2, <1>3, <2>1, SameHandles
<1>8. RdmaWire'
  <2>1. \A n \in rdma_net : n.from # g => Listens(g, n.tag)'
    <3> SUFFICES ASSUME NEW n \in rdma_net, n.from # g PROVE Listens(g, n.tag)'
      OBVIOUS
    <3>1. Listens(g, n.tag)
      BY WireMember
    <3> QED BY <1>1, <1>4, <3>1 DEF Listens, OnSyncPort, OnDataPort
  <2>2. tag \in {"SYNC_REQ", "INFO", "READY"}
    BY <1>1
  <2> QED BY <1>1, <1>4, <2>1, <2>2, SentKeepsWire
<1>9. RdmaInfo'
  <2>1. ProtoOnlyIfDisturbed'
    BY <1>1, <1>4, <1>5 DEF RdmaInv, RdmaInfo, ProtoOnlyIfDisturbed
  <2>2. Msg(RdmaResponder, "INFO") \in rdma_net' => Msg(RdmaResponder, "INFO") \in rdma_net
    BY <1>1, MsgFields DEF Sent
  <2>3. Msg(g, "INFO") \in rdma_net' \ rdma_net => tag = "INFO" /\ OnDataPort(RdmaResponder)
    BY <1>1, MsgFields DEF Sent, Listens, SyncTags
  <2>4. CASE tag = "INFO"
    <3>1. rdma_pc[g] = "info_tx" /\ to = "info_rx"
      BY <1>1, <2>4
    <3>2. OnDataPort(RdmaResponder) => rdma_pc[RdmaResponder] = "info_rx"
      BY <3>1 DEF RdmaInv, RdmaTypes, RdmaInfo, BeforeInfo, Meeting, Exchange, OnDataPort
    <3> QED
      BY <1>4, <1>5, <2>1, <2>2, <2>3, <3>1, <3>2
         DEF RdmaInv, RdmaInfo, BeforeInfo, Meeting, Exchange, Leaving
  <2>5. CASE tag # "INFO"
    BY <1>1, <1>4, <1>5, <2>1, <2>2, <2>3, <2>5
       DEF RdmaInv, RdmaInfo, BeforeInfo, Meeting, Exchange, Leaving
  <2> QED BY <2>4, <2>5
<1>10. RdmaTurns'
  <2>1. Msg(RdmaResponder, "READY_ACK") \in rdma_net' => Msg(RdmaResponder, "READY_ACK") \in rdma_net
    BY <1>1, MsgFields DEF Sent
  <2> QED BY <1>1, <1>2, <1>4, <2>1 DEF RdmaInv, RdmaTurns, Leaving, EndPCs
<1>11. RdmaPayload'
  <2>1. to \in Exchange => rdma_pc[g] \in Exchange
    BY <1>1 DEF Exchange
  <2> QED BY <1>1, <1>2, <1>3, <2>1, SamePayload
<1> QED BY <1>6, <1>7, <1>8, <1>9, <1>10, <1>11 DEF RdmaInv

\* Where a guest takes a datagram, which one, and where it goes on.
LEMMA TakeCases ==
  ASSUME RdmaInv, NEW g \in RdmaGuests, NEW m \in rdma_net, TakeMsg(g, m)
  PROVE  /\ m = Msg(RdmaPeer(g), m.tag) /\ m.tag = Accepts(g)
         /\ g = RdmaInitiator =>
              <<rdma_pc[g], m.tag, Onward(g)>> \in {<<"sync_rx", "SYNC_ACK", "rebind">>,
                                                    <<"info_rx", "INFO", "import">>,
                                                    <<"ready_rx", "READY_ACK", "post_send">>}
         /\ g = RdmaResponder =>
              <<rdma_pc[g], m.tag, Onward(g), Reaction[m.tag]>> \in
                {<<"sync_rx", "SYNC_REQ", "rebind", "SYNC_ACK">>,
                 <<"info_rx", "INFO", "import", "INFO">>,
                 <<"ready_rx", "READY", "recv_cqe", "READY_ACK">>}
<1> USE RdmaRoles
<1>1. /\ m.from = RdmaPeer(g) /\ m.tag = Accepts(g) /\ m = Msg(RdmaPeer(g), m.tag)
      /\ m.tag \in {"SYNC_REQ", "SYNC_ACK", "INFO", "READY", "READY_ACK"}
  BY WireMember DEF TakeMsg
<1>2. rdma_pc[g] \in {"sync_rx", "info_rx", "ready_rx"}
  BY <1>1 DEF Accepts
<1>3. CASE rdma_pc[g] = "sync_rx"
  BY <1>1, <1>3 DEF Accepts, Onward, Reaction
<1>4. CASE rdma_pc[g] = "info_rx"
  BY <1>1, <1>4 DEF Accepts, Onward, Reaction
<1>5. CASE rdma_pc[g] = "ready_rx"
  BY <1>1, <1>5 DEF Accepts, Onward, Reaction
<1> QED BY <1>1, <1>2, <1>3, <1>4, <1>5

\* Receiving a sync datagram keeps RdmaInv.
LEMMA TakeMsgKeepsInv ==
  ASSUME RdmaInv, NEW g \in RdmaGuests, NEW m \in rdma_net, TakeMsg(g, m)
  PROVE  RdmaInv'
<1> USE RdmaRoles
<1>0. rdma_disturbed \in BOOLEAN
  BY DEF RdmaInv, RdmaTypes
<1>1. PICK tag, to, reply :
        /\ m = Msg(RdmaPeer(g), tag) /\ RdmaGo(g, to)
        /\ g = RdmaInitiator =>
             <<rdma_pc[g], tag, to, reply>> \in {<<"sync_rx", "SYNC_ACK", "rebind", "SYNC_REQ">>,
                                                 <<"info_rx", "INFO", "import", "INFO">>,
                                                 <<"ready_rx", "READY_ACK", "post_send", "READY">>}
        /\ g = RdmaResponder =>
             <<rdma_pc[g], tag, to, reply>> \in {<<"sync_rx", "SYNC_REQ", "rebind", "SYNC_ACK">>,
                                                 <<"info_rx", "INFO", "import", "INFO">>,
                                                 <<"ready_rx", "READY", "recv_cqe", "READY_ACK">>}
        /\ \E left \in RdmaTaken(m) :
             /\ rdma_net' = Queued(left, g, to)
                              \cup (IF g = RdmaResponder THEN Sent(g, reply) ELSE {})
             /\ rdma_disturbed' = (rdma_disturbed \/ m \in rdma_net')
  <2>0. /\ m = Msg(RdmaPeer(g), m.tag) /\ RdmaGo(g, Onward(g))
        /\ \E left \in RdmaTaken(m) :
             /\ rdma_net' = Queued(left, g, Onward(g))
                              \cup (IF g = RdmaResponder THEN Sent(g, Reaction[m.tag]) ELSE {})
             /\ rdma_disturbed' = (rdma_disturbed \/ m \in rdma_net')
    BY TakeCases DEF TakeMsg
  <2>1. CASE g = RdmaInitiator
    <3>1. \E reply :
            <<rdma_pc[g], m.tag, Onward(g), reply>> \in
              {<<"sync_rx", "SYNC_ACK", "rebind", "SYNC_REQ">>,
               <<"info_rx", "INFO", "import", "INFO">>,
               <<"ready_rx", "READY_ACK", "post_send", "READY">>}
      BY <2>1, TakeCases
    <3> QED BY <2>0, <2>1, <3>1
  <2>2. CASE g = RdmaResponder
    <3>1. <<rdma_pc[g], m.tag, Onward(g), Reaction[m.tag]>> \in
            {<<"sync_rx", "SYNC_REQ", "rebind", "SYNC_ACK">>,
             <<"info_rx", "INFO", "import", "INFO">>,
             <<"ready_rx", "READY", "recv_cqe", "READY_ACK">>}
      BY <2>2, TakeCases
    <3> QED BY <2>0, <2>2, <3>1
  <2> QED BY <2>1, <2>2
<1>2. UNCHANGED <<acquired, imported, bound, busy, stalled, rq, wr, cq, rx_buf>>
  BY DEF TakeMsg, Handles, Datapath
<1>3. to \in RdmaPCs
  BY <1>1 DEF RdmaPCs, BeforeInfo, Meeting, Exchange
<1>4. /\ rdma_pc' \in [RdmaGuests -> RdmaPCs] /\ rdma_pc'[g] = to
      /\ \A h \in RdmaGuests : h # g => rdma_pc'[h] = rdma_pc[h]
  BY <1>1, <1>3, RdmaMove
<1>5. PICK left \in RdmaTaken(m) :
        /\ rdma_net' = Queued(left, g, to) \cup (IF g = RdmaResponder THEN Sent(g, reply) ELSE {})
        /\ rdma_disturbed' = (rdma_disturbed \/ m \in rdma_net')
  BY <1>1
<1>6. /\ rdma_disturbed' \in BOOLEAN /\ (rdma_disturbed => rdma_disturbed')
      /\ ~rdma_disturbed' => m \notin rdma_net'
  BY <1>0, <1>5
<1>7. /\ Queued(left, g, to) \subseteq rdma_net
      /\ rdma_net' \subseteq Queued(left, g, to) \cup Sent(g, reply)
      /\ g = RdmaInitiator => rdma_net' \subseteq rdma_net
  BY <1>5 DEF RdmaTaken, Queued
<1>8. RdmaTypes'
  <2>1. g = RdmaResponder => to \notin {"sync_tx", "info_tx", "ready_tx"}
    BY <1>1
  <2>2. rdma_pc'[RdmaResponder] \notin {"sync_tx", "info_tx", "ready_tx"}
    BY <1>4, <2>1 DEF RdmaInv, RdmaTypes
  <2> QED BY <1>2, <1>4, <1>6, <2>2 DEF RdmaInv, RdmaTypes
<1>9. RdmaHandles'
  <2>1. /\ to \notin EndPCs /\ rdma_pc[g] \notin {"busy"} \cup EndPCs
        /\ to \in {"bind", "post_recv", "unbind", "unimport", "busy"} \cup Exchange <=>
             rdma_pc[g] \in {"bind", "post_recv", "unbind", "unimport", "busy"} \cup Exchange
        /\ to \in {"post_recv", "unbind"} \cup Exchange <=>
             rdma_pc[g] \in {"post_recv", "unbind"} \cup Exchange
    BY <1>1 DEF EndPCs, Exchange
  <2> QED BY <1>1, <1>2, <1>3, <2>1, SameHandles
<1>10. RdmaWire'
  <2>1. \A n \in Queued(left, g, to) : n.from # g => Listens(g, n.tag)'
    <3> SUFFICES ASSUME NEW n \in Queued(left, g, to), n.from # g PROVE Listens(g, n.tag)'
      OBVIOUS
    <3>1. n.from \in RdmaGuests /\ Listens(RdmaPeer(n.from), n.tag)
      BY <1>7, WireMember
    <3>2. Listens(g, n.tag)
      BY <3>1
    <3>3. CASE to = "rebind"
      <4>1. n.tag \notin SyncTags /\ rdma_pc[g] = "sync_rx"
        BY <1>1, <3>3 DEF Queued
      <4> QED BY <3>2, <4>1 DEF Listens, OnDataPort
    <3>4. CASE to # "rebind"
      <4>1. ~OnSyncPort(g) /\ OnDataPort(g)'
        BY <1>1, <1>4, <3>4 DEF OnSyncPort, OnDataPort
      <4> QED BY <3>2, <4>1 DEF Listens
    <3> QED BY <3>3, <3>4
  <2>2. /\ g = RdmaInitiator => reply \in {"SYNC_REQ", "INFO", "READY"}
        /\ g = RdmaResponder => reply \in {"SYNC_ACK", "INFO", "READY_ACK"}
    BY <1>1
  <2> QED BY <1>4, <1>7, <2>1, <2>2, SentKeepsWire
<1>11. RdmaInfo'
  <2>1. ProtoOnlyIfDisturbed'
    BY <1>1, <1>4, <1>6 DEF RdmaInv, RdmaInfo, ProtoOnlyIfDisturbed
  <2>2. CASE g = RdmaInitiator
    <3>1. /\ rdma_net' \subseteq rdma_net
          /\ rdma_pc'[RdmaResponder] = rdma_pc[RdmaResponder]
          /\ rdma_pc'[RdmaInitiator] = to
      BY <1>4, <1>7, <2>2
    <3>2. CASE to = "import"
      <4>1. m = Msg(RdmaResponder, "INFO") /\ rdma_pc[RdmaInitiator] = "info_rx"
        BY <1>1, <2>2, <3>2
      <4> QED
        BY <1>6, <2>1, <3>1, <3>2, <4>1
           DEF RdmaInv, RdmaInfo, BeforeInfo, Meeting, Exchange, Leaving, EndPCs
    <3>3. CASE to # "import"
      <4>1. <<rdma_pc[RdmaInitiator], to>> \in {<<"sync_rx", "rebind">>, <<"ready_rx", "post_send">>}
        BY <1>1, <2>2, <3>3
      <4> QED
        BY <1>6, <2>1, <3>1, <4>1
           DEF RdmaInv, RdmaInfo, BeforeInfo, Meeting, Exchange, Leaving
    <3> QED BY <3>2, <3>3
  <2>3. CASE g = RdmaResponder
    <3>1. /\ rdma_pc'[RdmaResponder] = to
          /\ rdma_pc'[RdmaInitiator] = rdma_pc[RdmaInitiator]
      BY <1>4, <2>3
    <3>2. Msg(RdmaInitiator, "INFO") \in rdma_net' => Msg(RdmaInitiator, "INFO") \in rdma_net
      BY <1>7, <2>3, MsgFields DEF Sent
    <3>3. Msg(RdmaResponder, "INFO") \in rdma_net' \ rdma_net =>
            reply = "INFO" /\ OnDataPort(RdmaInitiator)
      BY <1>7, <2>3, MsgFields DEF Sent, Listens, SyncTags
    <3>4. CASE to = "import"
      <4>1. m = Msg(RdmaInitiator, "INFO") /\ rdma_pc[RdmaResponder] = "info_rx"
        BY <1>1, <2>3, <3>4
      <4>2. /\ rdma_pc[RdmaInitiator] \notin BeforeInfo
            /\ ~rdma_disturbed => rdma_pc[RdmaInitiator] \notin Meeting \cup Exchange \cup Leaving
            /\ Msg(RdmaResponder, "INFO") \notin rdma_net
        BY <4>1 DEF RdmaInv, RdmaInfo, Meeting, Exchange, Leaving, EndPCs
      <4>3. ~rdma_disturbed /\ OnDataPort(RdmaInitiator) => rdma_pc[RdmaInitiator] = "info_rx"
        BY <4>2 DEF OnDataPort, BeforeInfo, Meeting, Exchange
      <4> QED
        BY <1>6, <2>1, <3>1, <3>2, <3>3, <3>4, <4>1, <4>2, <4>3 DEF RdmaInfo, Meeting
    <3>5. CASE to # "import"
      <4>1. /\ <<rdma_pc[RdmaResponder], to>> \in {<<"sync_rx", "rebind">>, <<"ready_rx", "recv_cqe">>}
            /\ reply # "INFO"
        BY <1>1, <2>3, <3>5
      <4> QED
        BY <1>6, <2>1, <3>1, <3>2, <3>3, <4>1
           DEF RdmaInv, RdmaInfo, Meeting, Exchange, Leaving, EndPCs
    <3> QED BY <3>4, <3>5
  <2> QED BY <2>2, <2>3
<1>12. RdmaTurns'
  <2>1. CASE g = RdmaInitiator
    <3>1. /\ rdma_net' \subseteq rdma_net /\ rdma_pc'[RdmaResponder] = rdma_pc[RdmaResponder]
          /\ rdma_pc'[RdmaInitiator] = to
          /\ rdma_pc[RdmaInitiator] \in {"sync_rx", "info_rx", "ready_rx"}
          /\ to \in {"rebind", "import", "post_send"}
          /\ to = "post_send" => Msg(RdmaResponder, "READY_ACK") \in rdma_net
      BY <1>1, <1>4, <1>7, <2>1
    <3> QED BY <1>2, <3>1 DEF RdmaInv, RdmaTurns, Leaving, EndPCs
  <2>2. CASE g = RdmaResponder
    <3>1. /\ rdma_pc'[RdmaResponder] = to /\ rdma_pc'[RdmaInitiator] = rdma_pc[RdmaInitiator]
          /\ rdma_pc[RdmaResponder] \in {"sync_rx", "info_rx", "ready_rx"}
          /\ to \in {"rebind", "import", "recv_cqe"}
          /\ reply = "READY_ACK" => to = "recv_cqe"
      BY <1>1, <1>4, <2>2
    <3>2. Msg(RdmaResponder, "READY_ACK") \in rdma_net' \ rdma_net => reply = "READY_ACK"
      BY <1>7, <2>2, MsgFields DEF Sent
    <3> QED BY <1>2, <3>1, <3>2 DEF RdmaInv, RdmaTurns, Leaving, EndPCs
  <2> QED BY <2>1, <2>2
<1>13. RdmaPayload'
  <2>1. to \in Exchange => rdma_pc[g] \in Exchange
    BY <1>1 DEF Exchange
  <2> QED BY <1>1, <1>2, <1>3, <2>1, SamePayload
<1> QED BY <1>8, <1>9, <1>10, <1>11, <1>12, <1>13 DEF RdmaInv

\* Losing a sync datagram keeps RdmaInv.
LEMMA LoseKeepsInv ==
  ASSUME RdmaInv, NEW m \in rdma_net, RdmaLose(m)
  PROVE  RdmaInv'
<1>1. /\ rdma_net' \subseteq rdma_net /\ rdma_disturbed' = TRUE
      /\ UNCHANGED <<rdma_pc, acquired, imported, bound, busy, stalled, rq, wr, cq, rx_buf>>
  BY DEF RdmaLose, Handles, Datapath
<1>2. RdmaTypes' /\ RdmaHandles'
  BY <1>1 DEF RdmaInv, RdmaTypes, RdmaHandles
<1>3. RdmaWire'
  BY <1>1 DEF RdmaInv, RdmaWire, Listens, OnSyncPort, OnDataPort
<1>4. RdmaInfo'
  BY <1>1 DEF RdmaInv, RdmaInfo, ProtoOnlyIfDisturbed
<1>5. RdmaTurns'
  BY <1>1 DEF RdmaInv, RdmaTurns
<1>6. RdmaPayload'
  BY <1>1 DEF RdmaInv, RdmaPayload, Completions
<1> QED BY <1>2, <1>3, <1>4, <1>5, <1>6 DEF RdmaInv

\* A move within the exchange of payloads leaves the sockets and what was said
\* on them alone.
LEMMA ExchangeKeepsTalk ==
  ASSUME RdmaInv, NEW g \in RdmaGuests, NEW to \in RdmaPCs, RdmaGo(g, to),
         rdma_pc[g] \in {"post_recv"} \cup Exchange,
         \/ to \in Exchange /\ rdma_net' = rdma_net
         \/ to = "unbind" /\ rdma_net' = {m \in rdma_net : m.from = g},
         UNCHANGED rdma_disturbed
  PROVE  RdmaWire' /\ RdmaInfo'
<1> USE RdmaRoles
<1>1. /\ rdma_pc'[g] = to /\ \A h \in RdmaGuests : h # g => rdma_pc'[h] = rdma_pc[h]
  BY RdmaMove
<1>2. rdma_net' \subseteq rdma_net
  OBVIOUS
<1>3. RdmaWire'
  <2> SUFFICES ASSUME NEW n \in rdma_net'
               PROVE  /\ n.from \in RdmaGuests /\ n = Msg(n.from, n.tag)
                      /\ Listens(RdmaPeer(n.from), n.tag)'
                      /\ n.from = RdmaInitiator => n.tag \in {"SYNC_REQ", "INFO", "READY"}
                      /\ n.from = RdmaResponder => n.tag \in {"SYNC_ACK", "INFO", "READY_ACK"}
    BY DEF RdmaWire
  <2>1. /\ n.from \in RdmaGuests /\ n = Msg(n.from, n.tag) /\ Listens(RdmaPeer(n.from), n.tag)
        /\ n.from = RdmaInitiator => n.tag \in {"SYNC_REQ", "INFO", "READY"}
        /\ n.from = RdmaResponder => n.tag \in {"SYNC_ACK", "INFO", "READY_ACK"}
    BY <1>2, WireMember
  <2>2. CASE n.from = g
    BY <1>1, <2>1, <2>2 DEF Listens, OnSyncPort, OnDataPort
  <2>3. CASE n.from # g
    <3>1. RdmaPeer(n.from) = g /\ to \in Exchange
      BY <2>1, <2>3
    <3>2. ~OnSyncPort(g) /\ OnDataPort(g)'
      BY <1>1, <3>1 DEF OnSyncPort, OnDataPort, Exchange
    <3> QED BY <2>1, <3>1, <3>2 DEF Listens
  <2> QED BY <2>2, <2>3
<1>4. RdmaInfo'
  <2>0. /\ to \in Exchange \cup Leaving /\ to \notin EndPCs \cup BeforeInfo
        /\ rdma_pc[g] \in Meeting \cup Exchange /\ rdma_pc[g] \notin BeforeInfo \cup {"info_rx"}
    BY DEF Exchange, Leaving, EndPCs, BeforeInfo, Meeting
  <2>1. ProtoOnlyIfDisturbed'
    BY <1>1, <2>0 DEF RdmaInv, RdmaInfo, ProtoOnlyIfDisturbed, EndPCs
  <2>2. CASE g = RdmaInitiator
    BY <1>1, <1>2, <2>0, <2>1, <2>2 DEF RdmaInv, RdmaInfo
  <2>3. CASE g = RdmaResponder
    BY <1>1, <1>2, <2>0, <2>1, <2>3 DEF RdmaInv, RdmaInfo
  <2> QED BY <2>2, <2>3
<1> QED BY <1>3, <1>4

\* Posting the receive keeps RdmaInv.
LEMMA PostRecvKeepsInv ==
  ASSUME RdmaInv, NEW g \in RdmaGuests, rdma_post_recv_one(g)
  PROVE  RdmaInv'
<1> USE RdmaRoles
<1>1. PICK to \in {"ready_tx", "ready_rx"} : RdmaGo(g, to) /\ (g = RdmaResponder => to = "ready_rx")
  BY DEF rdma_post_recv_one
<1>2. /\ rdma_pc[g] = "post_recv" /\ rq' = rq \cup {g}
      /\ UNCHANGED <<acquired, imported, bound, busy, stalled, wr, cq, rx_buf, rdma_net, rdma_disturbed>>
  BY DEF rdma_post_recv_one, Handles
<1>3. to \in RdmaPCs /\ to \in Exchange
  BY DEF RdmaPCs, Exchange
<1>4. /\ rdma_pc' \in [RdmaGuests -> RdmaPCs] /\ rdma_pc'[g] = to
      /\ \A h \in RdmaGuests : h # g => rdma_pc'[h] = rdma_pc[h]
  BY <1>1, <1>3, RdmaMove
<1>5. RdmaWire' /\ RdmaInfo'
  BY <1>1, <1>2, <1>3, ExchangeKeepsTalk
<1>6. RdmaTypes'
  <2>1. rdma_pc'[RdmaResponder] \notin {"sync_tx", "info_tx", "ready_tx"}
    BY <1>1, <1>4 DEF RdmaInv, RdmaTypes
  <2> QED BY <1>2, <1>4, <2>1 DEF RdmaInv, RdmaTypes
<1>7. RdmaHandles'
  BY <1>1, <1>2, <1>3, SameHandles DEF EndPCs
<1>8. RdmaTurns'
  <2>1. CASE g = RdmaInitiator
    BY <1>2, <1>4, <2>1 DEF RdmaInv, RdmaTurns, Leaving, EndPCs
  <2>2. CASE g = RdmaResponder
    BY <1>2, <1>4, <2>2 DEF RdmaInv, RdmaTurns, Leaving, EndPCs
  <2> QED BY <2>1, <2>2
<1>9. RdmaPayload'
  <2>1. \A h \in RdmaGuests : Completions(h)' = Completions(h)
    BY <1>2 DEF Completions
  <2> QED BY <1>2, <1>4, <2>1 DEF RdmaInv, RdmaPayload
<1> QED BY <1>5, <1>6, <1>7, <1>8, <1>9 DEF RdmaInv

\* Posting the send keeps RdmaInv.
LEMMA PostSendKeepsInv ==
  ASSUME RdmaInv, NEW g \in RdmaGuests, rdma_post_send_one(g)
  PROVE  RdmaInv'
<1> USE RdmaRoles
<1>1. /\ rdma_pc[g] = "post_send" /\ RdmaGo(g, "send_cqe")
      /\ UNCHANGED <<acquired, imported, bound, busy, stalled, rq, cq, rx_buf, rdma_net, rdma_disturbed>>
  BY DEF rdma_post_send_one, Handles
<1>2. /\ wr' \in [RdmaGuests -> {"none", "posted", "delivered", "done"}] /\ wr'[g] = "posted"
      /\ \A h \in RdmaGuests : h # g => wr'[h] = wr[h]
  BY DEF rdma_post_send_one, RdmaInv, RdmaTypes
<1>3. "send_cqe" \in RdmaPCs /\ "send_cqe" \in Exchange /\ "post_send" \in Exchange
  BY DEF RdmaPCs, Exchange
<1>4. /\ rdma_pc' \in [RdmaGuests -> RdmaPCs] /\ rdma_pc'[g] = "send_cqe"
      /\ \A h \in RdmaGuests : h # g => rdma_pc'[h] = rdma_pc[h]
  BY <1>1, <1>3, RdmaMove
<1>5. RdmaWire' /\ RdmaInfo'
  BY <1>1, <1>3, ExchangeKeepsTalk
<1>6. RdmaTypes'
  BY <1>1, <1>2, <1>4 DEF RdmaInv, RdmaTypes
<1>7. RdmaHandles'
  BY <1>1, <1>3, SameHandles DEF EndPCs
<1>8. RdmaTurns'
  <2>1. CASE g = RdmaInitiator
    BY <1>1, <1>2, <1>4, <2>1 DEF RdmaInv, RdmaTurns, Leaving, EndPCs
  <2>2. CASE g = RdmaResponder
    BY <1>1, <1>2, <1>4, <2>2 DEF RdmaInv, RdmaTurns, Leaving, EndPCs
  <2> QED BY <2>1, <2>2
<1>9. RdmaPayload'
  <2>1. \A h \in RdmaGuests : Completions(h)' = Completions(h)
    BY <1>1 DEF Completions
  <2>2. wr[g] = "none"
    BY <1>1 DEF RdmaInv, RdmaTypes, RdmaTurns, Leaving, EndPCs
  <2> QED BY <1>1, <1>2, <1>3, <1>4, <2>1, <2>2 DEF RdmaInv, RdmaPayload
<1> QED BY <1>5, <1>6, <1>7, <1>8, <1>9 DEF RdmaInv

\* A sequence over S is one over every larger set.
LEMMA SeqOfMore ==
  ASSUME NEW S, NEW T, S \subseteq T, NEW s \in Seq(S)
  PROVE  s \in Seq(T)
<1>1. /\ Len(s) \in Nat /\ DOMAIN s = 1 .. Len(s) /\ \A i \in 1 .. Len(s) : s[i] \in S
      /\ s = [i \in 1 .. Len(s) |-> s[i]]
  BY LenProperties, ElementOfSeq
<1> QED BY <1>1

\* A completion is appended to the queue of a guest that still has one.
LEMMA CompletesOne ==
  ASSUME RdmaInv, NEW g \in RdmaGuests, NEW kind \in {"SEND", "RECEIVE", "ERROR"},
         cq' = Completes(g, kind)
  PROVE  /\ cq' \in [RdmaGuests -> Seq({"SEND", "RECEIVE", "ERROR"})]
         /\ \A h \in RdmaGuests : h # g => cq'[h] = cq[h]
         /\ cq'[g] = cq[g] \/ cq'[g] = Append(cq[g], kind)
<1>1. cq \in [RdmaGuests -> Seq({"SEND", "RECEIVE", "ERROR"})]
  BY DEF RdmaInv, RdmaTypes
<1>2. Append(cq[g], kind) \in Seq({"SEND", "RECEIVE", "ERROR"})
  BY <1>1, AppendProperties
<1> QED BY <1>1, <1>2 DEF Completes

\* The device moving a payload keeps RdmaInv.
LEMMA DeviceKeepsInv ==
  ASSUME RdmaInv, NEW g \in RdmaGuests, Device(g)
  PROVE  RdmaInv'
<1> USE RdmaRoles
<1> DEFINE p == RdmaPeer(g)
<1>p. p \in RdmaGuests /\ p # g /\ RdmaPeer(p) = g /\ \A h \in RdmaGuests : h = g \/ h = p
  OBVIOUS
<1>1. UNCHANGED <<rdma_pc, acquired, imported, bound, busy, stalled, rdma_net, rdma_disturbed>>
  BY DEF Device, DeviceDelivers, DeviceCompletes, Handles
<1>2. RdmaHandles' /\ RdmaWire' /\ RdmaInfo'
  BY <1>1 DEF RdmaInv, RdmaHandles, RdmaWire, RdmaInfo, ProtoOnlyIfDisturbed, Listens,
              OnSyncPort, OnDataPort
<1>3. /\ wr \in [RdmaGuests -> {"none", "posted", "delivered", "done"}]
      /\ rx_buf \in [RdmaGuests -> {"", "req_msg", "reply_msg"}]
      /\ \A h \in RdmaGuests : RdmaText(h) \in {"req_msg", "reply_msg"}
  BY DEF RdmaInv, RdmaTypes
\* Whatever the device does, the request moves on and buffers are filled.
<1>4. /\ wr' \in [RdmaGuests -> {"none", "posted", "delivered", "done"}]
      /\ wr[g] \in {"posted", "delivered"} /\ wr'[g] \in {"delivered", "done"} /\ wr'[p] = wr[p]
      /\ rx_buf' \in [RdmaGuests -> {"", "req_msg", "reply_msg"}] /\ rx_buf'[g] = rx_buf[g]
      /\ rx_buf'[p] \in {rx_buf[p], RdmaText(g)}
      /\ wr'[g] = "delivered" => rx_buf'[p] = RdmaText(g)
      /\ p \in rq' \/ p \notin rq \/ rx_buf'[p] = RdmaText(g)
      /\ g \in rq' <=> g \in rq
  <2>1. CASE DeviceDelivers(g)
    BY <1>3, <1>p, <2>1 DEF DeviceDelivers
  <2>2. CASE DeviceCompletes(g)
    BY <1>3, <1>p, <2>2 DEF DeviceCompletes
  <2> QED BY <2>1, <2>2 DEF Device
<1>5. RdmaText(g) # ""
  BY <1>3
<1>6. PICK h \in RdmaGuests, kind \in {"SEND", "RECEIVE", "ERROR"} :
        /\ cq' = Completes(h, kind)
        /\ kind = "RECEIVE" => h = p /\ rx_buf'[p] # ""
        /\ kind = "SEND" => h = g /\ rx_buf'[p] # ""
  <2>1. CASE DeviceDelivers(g)
    <3>1. \/ cq' = Completes(p, "RECEIVE") /\ rx_buf' = [rx_buf EXCEPT ![p] = RdmaText(g)]
          \/ cq' = Completes(g, "ERROR")
      BY <2>1 DEF DeviceDelivers
    <3> QED BY <1>3, <1>5, <1>p, <3>1
  <2>2. CASE DeviceCompletes(g)
    <3>1. wr[g] = "delivered" /\ cq' = Completes(g, "SEND") /\ rx_buf' = rx_buf
      BY <2>2 DEF DeviceCompletes
    <3>2. rx_buf[p] # ""
      BY <1>p, <3>1 DEF RdmaInv, RdmaPayload
    <3> QED BY <3>1, <3>2
  <2> QED BY <2>1, <2>2 DEF Device
<1>7. /\ cq' \in [RdmaGuests -> Seq({"SEND", "RECEIVE", "ERROR"})]
      /\ \A k \in RdmaGuests : k # h => cq'[k] = cq[k]
      /\ cq'[h] = cq[h] \/ cq'[h] = Append(cq[h], kind)
  BY <1>6, CompletesOne
<1>8. RdmaTypes'
  BY <1>1, <1>4, <1>7 DEF RdmaInv, RdmaTypes
<1>9. RdmaTurns'
  <2>1. \A k \in RdmaGuests : /\ rx_buf[k] # "" => rx_buf'[k] # ""
                              /\ wr'[k] # "none" => wr[k] # "none"
    BY <1>4, <1>5, <1>p
  <2> QED BY <1>1, <2>1 DEF RdmaInv, RdmaTurns
<1>10. \A k \in RdmaGuests : cq'[k] \in Seq(Completions(k)')
  <2> SUFFICES ASSUME NEW k \in RdmaGuests PROVE cq'[k] \in Seq(Completions(k)')
    OBVIOUS
  <2>1. Completions(k) \subseteq Completions(k)'
    BY <1>4, <1>5, <1>p DEF Completions
  <2>2. cq[k] \in Seq(Completions(k)')
    BY <2>1, SeqOfMore DEF RdmaInv, RdmaPayload
  <2>3. k = h => kind \in Completions(k)'
    BY <1>6, <1>p DEF Completions
  <2>4. k = h => Append(cq[k], kind) \in Seq(Completions(k)')
    BY <2>2, <2>3, AppendProperties
  <2> QED BY <1>7, <2>2, <2>4
<1>11. RdmaPayload'
  <2>1. /\ rx_buf[g] \in {"", RdmaText(p)} /\ rx_buf[p] \in {"", RdmaText(g)}
        /\ rx_buf[g] # "" => wr[p] \in {"delivered", "done"}
        /\ rx_buf[p] # "" => wr[g] \in {"delivered", "done"}
        /\ wr[p] = "delivered" => rx_buf[g] # ""
        /\ rdma_pc[g] \in Exchange /\ rx_buf[g] = "" => g \in rq
        /\ rdma_pc[p] \in Exchange /\ rx_buf[p] = "" => p \in rq
    BY <1>p DEF RdmaInv, RdmaPayload
  <2>2. /\ rx_buf'[g] \in {"", RdmaText(p)} /\ rx_buf'[p] \in {"", RdmaText(g)}
        /\ rx_buf'[g] # "" => wr'[p] \in {"delivered", "done"}
        /\ rx_buf'[p] # "" => wr'[g] \in {"delivered", "done"}
        /\ wr'[p] = "delivered" => rx_buf'[g] # ""
        /\ wr'[g] = "delivered" => rx_buf'[p] # ""
        /\ rdma_pc'[g] \in Exchange /\ rx_buf'[g] = "" => g \in rq'
        /\ rdma_pc'[p] \in Exchange /\ rx_buf'[p] = "" => p \in rq'
    BY <1>1, <1>4, <1>5, <2>1
  <2> HIDE DEF p
  <2>3. p = RdmaPeer(g) /\ g = RdmaPeer(p)
    BY <1>p DEF p
  <2> QED BY <1>10, <1>p, <2>2, <2>3 DEF RdmaPayload
<1> QED BY <1>2, <1>8, <1>9, <1>11 DEF RdmaInv

\* The head of a completion queue is one that can be there, and so is the rest.
LEMMA CqHead ==
  ASSUME RdmaInv, NEW g \in RdmaGuests, cq[g] # << >>
  PROVE  /\ Head(cq[g]) \in Completions(g) /\ Tail(cq[g]) \in Seq(Completions(g))
         /\ Tail(cq[g]) \in Seq({"SEND", "RECEIVE", "ERROR"})
<1>1. cq[g] \in Seq(Completions(g)) /\ cq[g] \in Seq({"SEND", "RECEIVE", "ERROR"})
  BY DEF RdmaInv, RdmaPayload, RdmaTypes
<1>2. /\ Head(cq[g]) \in Completions(g) /\ Tail(cq[g]) \in Seq(Completions(g))
  BY <1>1, HeadTailProperties
<1>3. Tail(cq[g]) \in Seq({"SEND", "RECEIVE", "ERROR"})
  BY <1>1, HeadTailProperties
<1> QED BY <1>2, <1>3

\* Dropping a completion keeps RdmaInv.
LEMMA DropKeepsInv ==
  ASSUME RdmaInv, NEW g \in RdmaGuests, DropCqe(g)
  PROVE  RdmaInv'
<1>1. /\ cq[g] # << >> /\ cq' = [cq EXCEPT ![g] = Tail(cq[g])] /\ rdma_disturbed' = TRUE
      /\ UNCHANGED <<rdma_pc, acquired, imported, bound, busy, stalled, rq, wr, rx_buf, rdma_net>>
  BY DEF DropCqe, Handles
<1>2. /\ cq' \in [RdmaGuests -> Seq({"SEND", "RECEIVE", "ERROR"})] /\ cq'[g] = Tail(cq[g])
      /\ \A h \in RdmaGuests : h # g => cq'[h] = cq[h]
  BY <1>1, CqHead DEF RdmaInv, RdmaTypes
<1>3. RdmaTypes' /\ RdmaHandles'
  BY <1>1, <1>2 DEF RdmaInv, RdmaTypes, RdmaHandles
<1>4. RdmaWire' /\ RdmaInfo' /\ RdmaTurns'
  BY <1>1 DEF RdmaInv, RdmaWire, RdmaInfo, RdmaTurns, ProtoOnlyIfDisturbed, Listens,
              OnSyncPort, OnDataPort
<1>5. RdmaPayload'
  <2>1. \A h \in RdmaGuests : Completions(h)' = Completions(h)
    BY <1>1 DEF Completions
  <2>2. \A h \in RdmaGuests : cq'[h] \in Seq(Completions(h)')
    BY <1>1, <1>2, <2>1, CqHead DEF RdmaInv, RdmaPayload
  <2> QED BY <1>1, <2>2 DEF RdmaInv, RdmaPayload
<1> QED BY <1>3, <1>4, <1>5 DEF RdmaInv

\* Taking a completion keeps RdmaInv.
LEMMA TakeCqeKeepsInv ==
  ASSUME RdmaInv, NEW g \in RdmaGuests, TakeCqe(g)
  PROVE  RdmaInv'
<1> USE RdmaRoles
<1>0. /\ rdma_disturbed \in BOOLEAN /\ cq[g] # << >> /\ Head(cq[g]) = Expects(g)
      /\ rdma_pc[g] \in {"send_cqe", "recv_cqe"}
  BY DEF TakeCqe, RdmaInv, RdmaTypes
<1>1. CASE rdma_pc[g] = "recv_cqe" /\ rx_buf[g] # RdmaText(RdmaPeer(g))
  <2>1. RdmaExit(g, "failed") /\ UNCHANGED rdma_disturbed /\ "failed" \in EndPCs
    BY <1>1 DEF TakeCqe, EndPCs
  <2> QED BY <1>0, <2>1, RdmaExitKeepsInv
<1>2. CASE ~(rdma_pc[g] = "recv_cqe" /\ rx_buf[g] # RdmaText(RdmaPeer(g)))
  <2>1. PICK to :
          /\ <<g, rdma_pc[g], to>> \in {<<RdmaInitiator, "send_cqe", "recv_cqe">>,
                                        <<RdmaInitiator, "recv_cqe", "unbind">>,
                                        <<RdmaResponder, "recv_cqe", "post_send">>,
                                        <<RdmaResponder, "send_cqe", "unbind">>}
          /\ RdmaGo(g, to) /\ rdma_net' = Closed(g, to)
    <3>1. RdmaGo(g, AfterCqe(g)) /\ rdma_net' = Closed(g, AfterCqe(g))
      BY <1>2 DEF TakeCqe
    <3>2. <<g, rdma_pc[g], AfterCqe(g)>> \in {<<RdmaInitiator, "send_cqe", "recv_cqe">>,
                                              <<RdmaInitiator, "recv_cqe", "unbind">>,
                                              <<RdmaResponder, "recv_cqe", "post_send">>,
                                              <<RdmaResponder, "send_cqe", "unbind">>}
      BY <1>0 DEF AfterCqe
    <3> QED BY <3>1, <3>2
  <2>2. /\ cq' = [cq EXCEPT ![g] = Tail(cq[g])]
        /\ UNCHANGED <<acquired, imported, bound, busy, stalled, rq, wr, rx_buf, rdma_disturbed>>
    BY <1>2 DEF TakeCqe, Handles
  <2>3. /\ cq' \in [RdmaGuests -> Seq({"SEND", "RECEIVE", "ERROR"})] /\ cq'[g] = Tail(cq[g])
        /\ \A h \in RdmaGuests : h # g => cq'[h] = cq[h]
    BY <1>0, <2>2, CqHead DEF RdmaInv, RdmaTypes
  <2>4. /\ to \in RdmaPCs /\ rdma_pc[g] \in Exchange /\ (to \in Exchange \/ to = "unbind")
        /\ to \notin EndPCs /\ rdma_pc[g] \notin {"busy"} \cup EndPCs
    BY <2>1 DEF RdmaPCs, Exchange, Leaving, EndPCs
  <2>5. /\ rdma_pc' \in [RdmaGuests -> RdmaPCs] /\ rdma_pc'[g] = to
        /\ \A h \in RdmaGuests : h # g => rdma_pc'[h] = rdma_pc[h]
    BY <2>1, <2>4, RdmaMove
  <2>6. /\ to # "unbind" => rdma_net' = rdma_net
        /\ to = "unbind" => rdma_net' = {m \in rdma_net : m.from = g}
    BY <2>1 DEF Closed
  <2>7. RdmaWire' /\ RdmaInfo'
    BY <2>1, <2>2, <2>4, <2>6, ExchangeKeepsTalk
  <2>8. RdmaTypes'
    <3>1. rdma_pc'[RdmaResponder] \notin {"sync_tx", "info_tx", "ready_tx"}
      BY <2>1, <2>5 DEF RdmaInv, RdmaTypes
    <3> QED BY <2>2, <2>3, <2>5, <3>1 DEF RdmaInv, RdmaTypes
  <2>9. RdmaHandles'
    BY <2>1, <2>2, <2>4, SameHandles
  <2>10. /\ rdma_pc[g] = "send_cqe" => rx_buf[RdmaPeer(g)] # ""
         /\ rdma_pc[g] = "recv_cqe" => rx_buf[g] # ""
    <3>1. Expects(g) \in Completions(g)
      BY <1>0, CqHead
    <3> QED BY <3>1 DEF Expects, Completions
  <2>11. RdmaTurns'
    <3>1. rdma_net' \subseteq rdma_net
      BY <2>6
    <3>2. CASE g = RdmaInitiator
      <4>1. <<rdma_pc[g], to>> \in {<<"send_cqe", "recv_cqe">>, <<"recv_cqe", "unbind">>}
        BY <2>1, <3>2
      <4> QED
        BY <2>2, <2>5, <2>10, <3>1, <3>2, <4>1 DEF RdmaInv, RdmaTurns, Leaving, EndPCs
    <3>3. CASE g = RdmaResponder
      <4>1. <<rdma_pc[g], to>> \in {<<"recv_cqe", "post_send">>, <<"send_cqe", "unbind">>}
        BY <2>1, <3>3
      <4> QED
        BY <2>2, <2>5, <2>10, <3>1, <3>3, <4>1 DEF RdmaInv, RdmaTurns, Leaving, EndPCs
    <3> QED BY <3>2, <3>3
  <2>12. RdmaPayload'
    <3>1. \A h \in RdmaGuests : Completions(h)' = Completions(h)
      BY <2>2 DEF Completions
    <3>2. \A h \in RdmaGuests : cq'[h] \in Seq(Completions(h)')
      BY <1>0, <2>3, <3>1, CqHead DEF RdmaInv, RdmaPayload
    <3> QED BY <2>2, <2>4, <2>5, <3>2 DEF RdmaInv, RdmaPayload
  <2> QED BY <2>7, <2>8, <2>9, <2>11, <2>12 DEF RdmaInv
<1> QED BY <1>1, <1>2

\* A step of a program, or its end by init's kill, keeps RdmaInv.
LEMMA RdmaStepKeepsInv ==
  RdmaInv /\ (RdmaNext \/ (\E g \in RdmaGuests : RdmaKill(g)) \/ UNCHANGED rdmaVars) => RdmaInv'
<1> SUFFICES ASSUME RdmaInv,
                    RdmaNext \/ (\E g \in RdmaGuests : RdmaKill(g)) \/ UNCHANGED rdmaVars
             PROVE  RdmaInv'
  OBVIOUS
<1> USE RdmaRoles
<1>0. rdma_disturbed \in BOOLEAN /\ EndPCs = {"passed", "failed", "proto", "skipped"}
  BY DEF RdmaInv, RdmaTypes, EndPCs
<1>1. ASSUME NEW g \in RdmaGuests,
             \/ RdmaStartFails(g) \/ RdmaSkip(g) \/ RdmaFails(g) \/ RdmaKill(g)
             \/ ErrorCqe(g) \/ RdmaTimeout(g) \/ RdmaReturn(g)
      PROVE  RdmaInv'
  <2>1. PICK result \in EndPCs :
          RdmaExit(g, result) /\ result # "proto" /\ (result = "passed" => rdma_pc[g] = "cleanup")
    BY <1>1, <1>0 DEF RdmaStartFails, RdmaSkip, RdmaFails, RdmaKill, ErrorCqe, RdmaTimeout,
                      RdmaReturn
  <2>2. CASE RdmaTimeout(g)
    <3>1. (rdma_disturbed \/ RdmaHopeful(g)) \in BOOLEAN
      OBVIOUS
    <3>2. rdma_disturbed' = (rdma_disturbed \/ RdmaHopeful(g))
      BY <2>2 DEF RdmaTimeout
    <3> QED BY <2>1, <3>1, <3>2, RdmaExitKeepsInv
  <2>3. CASE ~RdmaTimeout(g)
    <3>1. rdma_disturbed' = TRUE \/ rdma_disturbed' = rdma_disturbed
      BY <1>1, <2>3 DEF RdmaStartFails, RdmaSkip, RdmaFails, RdmaKill, ErrorCqe, RdmaReturn
    <3> QED BY <1>0, <2>1, <3>1, RdmaExitKeepsInv
  <2> QED BY <2>2, <2>3
<1>2. ASSUME NEW g \in RdmaGuests, NEW m \in rdma_net, Unexpected(g, m) PROVE RdmaInv'
  <2>1. RdmaExit(g, "proto") /\ UNCHANGED rdma_disturbed
    BY <1>2 DEF Unexpected
  <2>2. /\ m.from = RdmaPeer(g) /\ rdma_pc[g] = "ready_rx" /\ m.tag # Accepts(g)
        /\ Listens(g, m.tag) /\ m = Msg(RdmaPeer(g), m.tag)
        /\ m.from = RdmaInitiator => m.tag \in {"SYNC_REQ", "INFO", "READY"}
        /\ m.from = RdmaResponder => m.tag \in {"SYNC_ACK", "INFO", "READY_ACK"}
    BY <1>2, WireMember DEF Unexpected
  <2>3. m.tag \notin SyncTags
    BY <2>2 DEF Listens, OnSyncPort
  <2>4. Accepts(g) = IF g = RdmaInitiator THEN "READY_ACK" ELSE "READY"
    BY <2>2 DEF Accepts
  <2>5. m = Msg(RdmaPeer(g), "INFO")
    BY <2>2, <2>3, <2>4 DEF SyncTags
  <2>6. rdma_disturbed
    BY <2>2, <2>5 DEF RdmaInv, RdmaInfo
  <2> QED BY <1>0, <2>1, <2>6, RdmaExitKeepsInv
<1>3. CASE UNCHANGED rdmaVars
  <2>1. UNCHANGED <<rdma_pc, acquired, imported, bound, busy, stalled, rdma_net, rdma_disturbed,
                    rq, wr, cq, rx_buf>>
    BY <1>3 DEF rdmaVars
  <2>2. RdmaTypes' /\ RdmaHandles' /\ RdmaTurns'
    BY <2>1 DEF RdmaInv, RdmaTypes, RdmaHandles, RdmaTurns
  <2>3. RdmaWire' /\ RdmaInfo'
    BY <2>1 DEF RdmaInv, RdmaWire, RdmaInfo, ProtoOnlyIfDisturbed, Listens, OnSyncPort, OnDataPort
  <2>4. RdmaPayload'
    BY <2>1 DEF RdmaInv, RdmaPayload, Completions
  <2> QED BY <2>2, <2>3, <2>4 DEF RdmaInv
<1>4. ASSUME NEW g \in RdmaGuests, RdmaProceed(g) PROVE RdmaInv'
  BY <1>4, <1>1, QuietStepKeepsInv, OpenKeepsInv, PostRecvKeepsInv, PostSendKeepsInv,
     TakeCqeKeepsInv, DropKeepsInv DEF RdmaProceed
<1>5. ASSUME NEW g \in RdmaGuests, RdmaReceive(g) PROVE RdmaInv'
  BY <1>5, <1>2, TakeMsgKeepsInv DEF RdmaReceive
<1>6. CASE RdmaStep
  BY <1>6, <1>1, <1>4, <1>5, DeviceKeepsInv, LoseKeepsInv DEF RdmaStep
<1>7. ASSUME NEW g \in RdmaGuests, RdmaStart(g) PROVE RdmaInv'
  BY <1>7, QuietStepKeepsInv
<1> QED
  BY <1>1, <1>3, <1>6, <1>7 DEF RdmaNext

\* The safety properties of the RDMA program follow from RdmaInv.
LEMMA RdmaInvGivesSafety ==
  RdmaInv => /\ RdmaTypeOK /\ SendFindsReceive /\ ProtoOnlyIfDisturbed /\ CleanPass
             /\ PassIsAnExchange
<1> SUFFICES ASSUME RdmaInv
             PROVE  /\ RdmaTypeOK /\ SendFindsReceive /\ ProtoOnlyIfDisturbed /\ CleanPass
                    /\ PassIsAnExchange
  OBVIOUS
<1> USE RdmaRoles
<1>1. RdmaTypeOK
  <2>1. bound \subseteq imported
    BY DEF RdmaInv, RdmaHandles
  <2>2. \A m \in rdma_net : Listens(RdmaPeer(m.from), m.tag)
    BY DEF RdmaInv, RdmaWire
  <2> QED
    BY <2>1, <2>2 DEF RdmaInv, RdmaTypes, RdmaHandles, RdmaTypeOK, RdmaPCs, BeforeInfo, Meeting,
                      Exchange, Leaving, EndPCs
<1>2. SendFindsReceive
  <2>0. /\ wr \in [RdmaGuests -> {"none", "posted", "delivered", "done"}]
        /\ \A g \in RdmaGuests : wr[g] = "posted" => rx_buf[RdmaPeer(g)] = ""
        /\ \A g \in RdmaGuests : rdma_pc[g] \in Exchange /\ rx_buf[g] = "" => g \in rq
        /\ \A g \in RdmaGuests : rdma_pc[g] \in Exchange => g \in bound
        /\ rx_buf[RdmaResponder] # "" => wr[RdmaInitiator] \in {"delivered", "done"}
    BY DEF RdmaInv, RdmaTypes, RdmaPayload, RdmaHandles
  <2>1. wr[RdmaInitiator] = "posted" =>
          rdma_pc[RdmaResponder] = "recv_cqe" \/ rdma_pc[RdmaResponder] \in EndPCs
    BY <2>0 DEF RdmaInv, RdmaTurns
  <2>2. wr[RdmaResponder] = "posted" =>
          rdma_pc[RdmaInitiator] \in {"send_cqe", "recv_cqe"} \cup EndPCs
    BY <2>0 DEF RdmaInv, RdmaTurns
  <2> QED
    BY <2>0, <2>1, <2>2 DEF SendFindsReceive, RdmaEnded, EndPCs, Exchange
<1>3. ProtoOnlyIfDisturbed /\ CleanPass
  BY DEF RdmaInv, RdmaInfo, RdmaHandles, CleanPass, EndPCs
<1>4. PassIsAnExchange
  <2>1. /\ rx_buf[RdmaInitiator] \in {"", "reply_msg"} /\ rx_buf[RdmaResponder] \in {"", "req_msg"}
        /\ rx_buf[RdmaInitiator] # "" => wr[RdmaResponder] \in {"delivered", "done"}
    BY DEF RdmaInv, RdmaPayload
  <2> QED BY <2>1 DEF RdmaInv, RdmaTurns, PassIsAnExchange
<1> QED BY <1>1, <1>2, <1>3, <1>4

\* ub_rdma_demo on its own: a send finds the receive it is meant for, the wrong
\* datagram takes a doubled one, a pass leaves no jetty imported behind and is
\* the outcome of a whole exchange.
THEOREM RdmaSafety ==
  RdmaSpec => [](SendFindsReceive /\ ProtoOnlyIfDisturbed /\ CleanPass /\ PassIsAnExchange)
<1>1. RdmaInv /\ [RdmaNext]_rdmaVars => RdmaInv'
  BY RdmaStepKeepsInv
<1> QED
  BY InitRdmaInv, <1>1, RdmaInvGivesSafety, PTL DEF RdmaSpec

=============================================================================
