------------------------------ MODULE ObmmDemo ------------------------------
(***************************************************************************)
(* The two-guest memory program ub_obmm_demo.c.  The exporter exports a    *)
(* region and repeats its metadata until the importer has mapped it; then  *)
(* the two take turns: the exporter writes payload A, the importer         *)
(* verifies it and writes B, the exporter verifies B, the importer gives   *)
(* the region back and the exporter withdraws it.  Every hand-over is a    *)
(* datagram that is sent once.  A write becomes visible on the other side  *)
(* some time later.                                                        *)
(*                                                                         *)
(* init does not run this program: the image holds ub_obmm_pool_demo.c in  *)
(* its place.  It is started by hand on both guests, in any order.         *)
(***************************************************************************)
EXTENDS Integers

CONSTANTS
  Exporter, Importer,   \* the guests by their role
  ObmmFaults            \* ioctl, mmap, msync and send calls may fail

ASSUME ObmmAssumption == Exporter # Importer /\ ObmmFaults \in BOOLEAN

ObmmGuests == {Exporter, Importer}

VARIABLES
  obmm_pc,        \* guest -> where it is in main
  obmm_net,       \* datagrams under way; the name of one tells its direction
  region,         \* "gone", or the payload written last
  view,           \* guest -> the payload it sees in the region
  mapped,         \* guests that have the region mapped (exported or imported)
  obmm_disturbed  \* history: loss, failing call, wait given up too early

obmmVars == <<obmm_pc, obmm_net, region, view, mapped, obmm_disturbed>>

-----------------------------------------------------------------------------

ToImporter == {"META", "WRITE_A_DONE", "WRITEBACK_OK"}
ToExporter == {"IMPORT_READY", "IMPORT_OK", "UNIMPORT_OK"}
Mailbox(g) == IF g = Importer THEN ToImporter ELSE ToExporter
Partner(g) == IF g = Importer THEN Exporter ELSE Importer

\* The datagram each wait of the two programs ends with.
AwaitedAt == [meta_tx |-> "IMPORT_READY", wait_ok |-> "IMPORT_OK",
              wait_unimport |-> "UNIMPORT_OK", meta_rx |-> "META",
              wait_a |-> "WRITE_A_DONE", wait_wb |-> "WRITEBACK_OK"]

\* The points from which a datagram may still be sent.
SentFrom == [IMPORT_READY |-> {"down", "meta_rx"},
             IMPORT_OK    |-> {"down", "meta_rx", "wait_a", "verify_a"},
             UNIMPORT_OK  |-> {"down", "meta_rx", "wait_a", "verify_a", "wait_wb"},
             META         |-> {"down", "meta_tx"},
             WRITE_A_DONE |-> {"down", "meta_tx"},
             WRITEBACK_OK |-> {"down", "meta_tx", "wait_ok", "verify_b"}]

ObmmWaiting == DOMAIN AwaitedAt
ObmmRunning(g) == obmm_pc[g] \in ObmmWaiting \cup {"verify_a", "verify_b"}

\* send_msg: a datagram to a closed socket vanishes.
send_msg(g, m) == IF ObmmRunning(Partner(g)) THEN {m} ELSE {}

ObmmInit ==
  /\ obmm_pc = [g \in ObmmGuests |-> "down"]
  /\ obmm_net = {}
  /\ region = "gone"
  /\ view = [g \in ObmmGuests |-> "zero"]
  /\ mapped = {}
  /\ obmm_disturbed = FALSE

\* Leaving run_exporter or run_importer: unmap, unexport or unimport, close.
ObmmExit(g, result, sent) ==
  /\ obmm_pc' = [obmm_pc EXCEPT ![g] = result]
  /\ mapped' = mapped \ {g}
  /\ region' = IF g = Exporter THEN "gone" ELSE region
  /\ obmm_net' = (obmm_net \ Mailbox(g)) \cup sent

\* main up to run_exporter or run_importer; do_export_region and
\* map_region_device of the exporter.
ObmmStart(g) ==
  /\ obmm_pc[g] = "down"
  /\ obmm_pc' = [obmm_pc EXCEPT ![g] = IF g = Exporter THEN "meta_tx" ELSE "meta_rx"]
  /\ region' = IF g = Exporter THEN "zero" ELSE region
  /\ mapped' = IF g = Exporter THEN mapped \cup {g} ELSE mapped
  /\ UNCHANGED <<obmm_net, view, obmm_disturbed>>

\* The exporter's loop sends its metadata once more.
SendMeta ==
  /\ obmm_pc[Exporter] = "meta_tx"
  /\ obmm_net' = obmm_net \cup send_msg(Exporter, "META")
  /\ UNCHANGED <<obmm_pc, region, view, mapped, obmm_disturbed>>

\* One receive of a waiting loop: the datagram awaited, or one thrown away.
Gets(g, m) == m \in obmm_net /\ obmm_pc[g] \in ObmmWaiting /\ AwaitedAt[obmm_pc[g]] = m

ObmmDiscard(g, m) ==
  /\ obmm_pc[g] \in ObmmWaiting
  /\ m \in obmm_net \cap Mailbox(g) /\ ~Gets(g, m)
  /\ obmm_net' = obmm_net \ {m}
  /\ UNCHANGED <<obmm_pc, region, view, mapped, obmm_disturbed>>

\* stamp_payload: visible to the writer at once.
stamp_payload(g, payload) ==
  /\ region' = IF region = "gone" THEN region ELSE payload
  /\ view' = [view EXCEPT ![g] = payload]

\* What was written becomes visible to the other guest.
Spread(g) ==
  /\ g \in mapped
  /\ region \notin {"gone", view[g]}
  /\ view' = [view EXCEPT ![g] = region]
  /\ UNCHANGED <<obmm_pc, obmm_net, region, mapped, obmm_disturbed>>

\* The importer takes the metadata, finds a window, imports and maps the
\* region and says so.
TakeMeta ==
  /\ Gets(Importer, "META")
  /\ obmm_pc' = [obmm_pc EXCEPT ![Importer] = "wait_a"]
  /\ mapped' = mapped \cup {Importer}
  /\ obmm_net' = (obmm_net \ {"META"}) \cup send_msg(Importer, "IMPORT_READY")
  /\ UNCHANGED <<region, view, obmm_disturbed>>

\* The exporter writes A and hands over.
TakeImportReady ==
  /\ Gets(Exporter, "IMPORT_READY")
  /\ obmm_pc' = [obmm_pc EXCEPT ![Exporter] = "wait_ok"]
  /\ stamp_payload(Exporter, "A")
  /\ obmm_net' = (obmm_net \ {"IMPORT_READY"}) \cup send_msg(Exporter, "WRITE_A_DONE")
  /\ UNCHANGED <<mapped, obmm_disturbed>>

\* A wait that leads to the verification of the region.
TakeHandOver(g) ==
  /\ \/ Gets(g, "WRITE_A_DONE") \/ Gets(g, "IMPORT_OK")
  /\ obmm_pc' = [obmm_pc EXCEPT ![g] = IF g = Importer THEN "verify_a" ELSE "verify_b"]
  /\ obmm_net' = obmm_net \ {AwaitedAt[obmm_pc[g]]}
  /\ UNCHANGED <<region, view, mapped, obmm_disturbed>>

\* The importer sees A, writes B and hands over.
VerifyA ==
  /\ obmm_pc[Importer] = "verify_a"
  /\ view[Importer] = "A"
  /\ obmm_pc' = [obmm_pc EXCEPT ![Importer] = "wait_wb"]
  /\ stamp_payload(Importer, "B")
  /\ obmm_net' = obmm_net \cup send_msg(Importer, "IMPORT_OK")
  /\ UNCHANGED <<mapped, obmm_disturbed>>

\* Mutant: the exporter does not wait for UNIMPORT_OK.
VerifyBAndLeave ==
  /\ obmm_pc[Exporter] = "verify_b"
  /\ view[Exporter] = "B"
  /\ ObmmExit(Exporter, "passed", send_msg(Exporter, "WRITEBACK_OK"))
  /\ UNCHANGED <<view, obmm_disturbed>>

\* The exporter sees B and acknowledges.
VerifyB ==
  /\ obmm_pc[Exporter] = "verify_b"
  /\ view[Exporter] = "B"
  /\ obmm_pc' = [obmm_pc EXCEPT ![Exporter] = "wait_unimport"]
  /\ obmm_net' = obmm_net \cup send_msg(Exporter, "WRITEBACK_OK")
  /\ UNCHANGED <<region, view, mapped, obmm_disturbed>>

\* Mutant: the importer passes without saying that it gave the region back.
TakeWritebackSilent ==
  /\ Gets(Importer, "WRITEBACK_OK")
  /\ ObmmExit(Importer, "passed", {})
  /\ UNCHANGED <<view, obmm_disturbed>>

\* The importer gives the region back, says so and passes.
TakeWriteback ==
  /\ Gets(Importer, "WRITEBACK_OK")
  /\ ObmmExit(Importer, "passed", send_msg(Importer, "UNIMPORT_OK"))
  /\ UNCHANGED <<view, obmm_disturbed>>

\* The exporter withdraws the region and passes.
TakeUnimport ==
  /\ Gets(Exporter, "UNIMPORT_OK")
  /\ ObmmExit(Exporter, "passed", {})
  /\ UNCHANGED <<view, obmm_disturbed>>

\* A wait can still end: the datagram is under way or may still be sent, the
\* payload is the one written last.
ObmmHopeful(g) ==
  LET at == obmm_pc[g]
  IN  \/ at \in ObmmWaiting /\ AwaitedAt[at] \in obmm_net
      \/ at \in ObmmWaiting /\ obmm_pc[Partner(g)] \in SentFrom[AwaitedAt[at]]
      \/ at = "verify_a" /\ region = "A"
      \/ at = "verify_b" /\ region = "B"

\* A deadline or the alarm.
ObmmTimeout(g) ==
  /\ ObmmRunning(g)
  /\ ObmmExit(g, "failed", {})
  /\ obmm_disturbed' = (obmm_disturbed \/ ObmmHopeful(g))
  /\ UNCHANGED view

\* Role, addresses, interface, socket or /dev/obmm are missing.
ObmmStartFails(g) ==
  /\ obmm_pc[g] = "down"
  /\ ObmmExit(g, "failed", {})
  /\ obmm_disturbed' = TRUE
  /\ UNCHANGED view

\* An ioctl, mmap, msync or send call fails.
ObmmFails(g) ==
  /\ ObmmFaults
  /\ ObmmRunning(g)
  /\ ObmmExit(g, "failed", {})
  /\ obmm_disturbed' = TRUE
  /\ UNCHANGED view

\* The network loses a datagram.
ObmmLose(m) ==
  /\ obmm_net' = obmm_net \ {m}
  /\ obmm_disturbed' = TRUE
  /\ UNCHANGED <<obmm_pc, region, view, mapped>>

-----------------------------------------------------------------------------

ObmmTake(g) ==
  \/ g = Exporter /\ (TakeImportReady \/ VerifyB \/ TakeUnimport)
  \/ g = Importer /\ (TakeMeta \/ VerifyA \/ TakeWriteback)
  \/ TakeHandOver(g)

ObmmStep ==
  \/ SendMeta
  \/ \E g \in ObmmGuests : \/ ObmmTake(g) \/ Spread(g) \/ ObmmTimeout(g) \/ ObmmFails(g)
                           \/ \E m \in obmm_net : ObmmDiscard(g, m)
  \/ \E m \in obmm_net : ObmmLose(m)

ObmmEnded(g) == obmm_pc[g] \in {"passed", "failed"}

ObmmNext == ObmmStep \/ \E g \in ObmmGuests : ObmmStart(g) \/ ObmmStartFails(g)

ObmmSpec == ObmmInit /\ [][ObmmNext]_obmmVars

\* Each guest is started some time.  It keeps running and its clock goes on; the
\* loops read what comes; what is written becomes visible.
ObmmFairness ==
  /\ WF_obmmVars(SendMeta)
  /\ \A g \in ObmmGuests : /\ SF_obmmVars(ObmmTake(g))
                           /\ WF_obmmVars(Spread(g))
                           /\ WF_obmmVars(ObmmTimeout(g))
                           /\ WF_obmmVars(ObmmStart(g) \/ ObmmStartFails(g))

ObmmFairSpec == ObmmSpec /\ ObmmFairness

-----------------------------------------------------------------------------

\* Each guest is at a point of its role, only known datagrams travel, and a
\* guest that has left main has nothing exported or mapped.
ObmmTypeOK ==
  /\ obmm_pc[Exporter] \in {"down", "meta_tx", "wait_ok", "verify_b", "wait_unimport",
                            "passed", "failed"}
  /\ obmm_pc[Importer] \in {"down", "meta_rx", "wait_a", "verify_a", "wait_wb",
                            "passed", "failed"}
  /\ obmm_net \subseteq ToImporter \cup ToExporter
  /\ region \in {"gone", "zero", "A", "B"}
  /\ view \in [ObmmGuests -> {"zero", "A", "B"}]
  /\ mapped \subseteq ObmmGuests
  /\ obmm_pc[Importer] \in {"down", "passed", "failed"} => Importer \notin mapped
  /\ obmm_pc[Exporter] \in {"down", "passed", "failed"} => Exporter \notin mapped /\ region = "gone"
  /\ obmm_disturbed \in BOOLEAN

\* UNIMPORT_OK orders the unexport of a passing exporter after the unimport.
\* An exporter that fails does withdraw the region under an importer that has
\* it mapped; that importer passes only if the exporter had seen B by then, see
\* PassIsVerified.
ExportOutlivesImport ==
  Importer \in mapped => region # "gone" \/ obmm_pc[Exporter] = "failed"

\* The guests never write at the same time: the importer waits for A before it
\* writes, the exporter has written for the last time when it hands over.
TurnsDoNotOverlap ==
  /\ region = "B" => obmm_pc[Exporter] \in {"wait_ok", "verify_b", "wait_unimport", "failed"}
  /\ obmm_pc[Exporter] = "meta_tx" =>
       obmm_pc[Importer] \notin {"verify_a", "wait_wb", "passed"}

\* What a pass says about the peer, whatever was lost or failed: an exporter
\* that passes knows that the importer has passed too, an importer that passes
\* knows that the exporter has seen the payload written back.
PassIsVerified ==
  /\ obmm_pc[Exporter] = "passed" => obmm_pc[Importer] = "passed"
  /\ obmm_pc[Importer] = "passed" => view[Exporter] = "B"

\* The region is passed on and back in step: no side writes in the turn of the
\* other, none withdraws it under its reader unless it fails, and none passes on
\* a payload that was not seen.
RegionIsPassedOn == ExportOutlivesImport /\ TurnsDoNotOverlap /\ PassIsVerified

\* Both pass unless a datagram was lost, a call failed, or a wait that could
\* have ended was given up; the order in which they are started does not matter.
ObmmPassUnlessDisturbed ==
  <>(obmm_disturbed \/ \A g \in ObmmGuests : obmm_pc[g] = "passed")

=============================================================================
