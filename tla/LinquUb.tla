------------------------------ MODULE LinquUb ------------------------------
(***************************************************************************)
(* An endpoint of the linqu-ub device (linqu_ub.c), the surface behind it, *)
(* the kernel driver that takes its interrupt (linqu_ub_drv.c) and the     *)
(* program that works its registers (probe.c).                             *)
(*                                                                         *)
(* Command and completion ring lie in guest memory.  The device moves only *)
(* when the guest writes a register: a doorbell submits what the command   *)
(* ring holds to the surface of UapiSurface, rings the doorbell of the     *)
(* surface, and copies completions until the ring is full.  A kick that    *)
(* fails leaves cmdq_head alone, whatever it has submitted by then.        *)
(*                                                                         *)
(* A slot of the command ring holds the number of a command, 0 being a     *)
(* descriptor that does not decode; a slot of the completion ring holds    *)
(* one completion or none.                                                 *)
(***************************************************************************)
EXTENDS UapiSurface

CONSTANTS
  cmdq_depth,   \* LINQU_UB_DEFAULT_CMDQ_DEPTH
  cq_depth,     \* LINQU_UB_DEFAULT_CQ_DEPTH
  endpoint1,    \* the endpoint that driver and program use
  MaxResets     \* bound: resets of the machine

ASSUME LinquUbAssumption ==
  /\ endpoint1 \in Guests
  /\ cmdq_depth \in Nat \ {0, 1}
  /\ cq_depth \in Nat \ {0, 1}
  /\ MaxResets \in Nat

VARIABLES
  ep,       \* endpoint -> LinquUbEndpointState and its two rings
  irq,      \* level of the interrupt line
  drv,      \* struct linqu_ub_drv and its interrupt thread
  probe,    \* the program: control, next completion to read, cq_tail it knows
  resets,   \* resets so far
  failed,   \* history: kinds of kick that failed since the reset
  passed,   \* history: commands whose slot cmdq_head has passed
  boot      \* history: commands issued before the reset; were some left behind?

devVars == <<log, uapi, seen, ep, irq, drv, probe, resets, failed, passed, boot>>

IrqBits == {"COMPLETION", "ERROR", "CQ_OVERFLOW"}

-----------------------------------------------------------------------------

\* linqu_ub_reset
ResetEndpoint ==
  [cmdq |-> [i \in 0 .. cmdq_depth - 1 |-> 0], cmdq_head |-> 0, cmdq_tail |-> 0,
   cq |-> [i \in 0 .. cq_depth - 1 |-> <<>>], cq_head |-> 0, cq_tail |-> 0,
   irq_status |-> {}]

\* The driver after its probe function.
BoundDriver == [thread |-> "idle", status |-> {}, event_pending |-> FALSE]

\* The program at the start of probe_ring_path.
FreshProbe == [pc |-> "run", next |-> 0, told |-> 0]

DevInit ==
  /\ Init
  /\ ep = [g \in Guests |-> ResetEndpoint]
  /\ irq = FALSE
  /\ drv = BoundDriver
  /\ probe = FreshProbe
  /\ resets = 0
  /\ failed = {}
  /\ passed = {}
  /\ boot = [log |-> 0, dirty |-> FALSE]

-----------------------------------------------------------------------------

\* linqu_ub_has_pending_irq, for the endpoints.
has_pending_irq(e) == \E g \in Guests : e[g].irq_status # {}

\* Entries between head and tail of a ring, as linqu_ub_encode_status counts
\* them.
Pending(head, tail, depth) == IF tail >= head THEN tail - head ELSE depth - head + tail

\* linqu_ub_set_error; the codes in last_error are not told apart.
set_error(e) == [e EXCEPT !.irq_status = @ \cup {"ERROR"}]

CqFull(e) == (e.cq_tail + 1) % cq_depth = e.cq_head

\* How often the loop of linqu_ub_flush_cq can run before CqFull.
CqFree(e) == cq_depth - 1 - Pending(e.cq_head, e.cq_tail, cq_depth)

\* linqu_ub_flush_cq: a poll of the surface per free slot, until the surface
\* has no more.  The first poll flushes it.
flush_cq(g, e, s) ==
  LET free  == CqFree(e)
      t     == IF free = 0 THEN s ELSE Flushed(s)
      moved == IF free = 0 THEN 0 ELSE Min({free, Len(t.cq[g])})
      e2    == [e EXCEPT
                  !.cq = [i \in DOMAIN @ |->
                            LET k == (i - e.cq_tail) % cq_depth
                            IN  IF k < moved THEN <<t.cq[g][k + 1]>> ELSE @[i]],
                  !.cq_tail = (@ + moved) % cq_depth]
  IN  [ep |-> [e2 EXCEPT !.irq_status =
                 @ \cup (IF moved > 0 THEN {"COMPLETION"} ELSE {})
                   \cup (IF CqFull(e2) THEN {"CQ_OVERFLOW"} ELSE {})],
       uapi |-> [t EXCEPT !.cq[g] = SubSeq(@, moved + 1, Len(@))]]

\* The commands a kick reads from the ring.
Batch(e, batch) ==
  LET n == Min({IF batch = 0 THEN cmdq_depth ELSE batch,
                Pending(e.cmdq_head, e.cmdq_tail, cmdq_depth)})
  IN  [i \in 1 .. n |-> e.cmdq[(e.cmdq_head + i - 1) % cmdq_depth]]

\* Mutant: the head does not wrap.
AdvanceNoWrap(head, n) == head + n

Advance(head, n) == (head + n) % cmdq_depth

\* submit_slot for one descriptor after the other, up to the first that does
\* not decode or finds the queue of the surface full.
Submit(g, acc, id) ==
  IF acc.ok /\ id # 0 /\ CmdqHasRoom(acc.s, g)
  THEN [acc EXCEPT !.s = enqueue_cmd(@, g, log[id])]
  ELSE [acc EXCEPT !.ok = FALSE]

SubmitAll(g, s, ids) ==
  LET acc[k \in 0 .. Len(ids)] ==
        IF k = 0 THEN [s |-> s, ok |-> TRUE] ELSE Submit(g, acc[k - 1], ids[k])
  IN  acc[Len(ids)]

\* linqu_ub_kick: the outcome, the endpoint and the surface it leaves.
kick(g, e, batch) ==
  LET ids  == Batch(e, batch)
      sub  == SubmitAll(g, uapi, ids)
      rung == ring_doorbell(sub.s, g, Len(ids))
      moved == flush_cq(g, [e EXCEPT !.cmdq_head = Advance(@, Len(ids))], rung)
  IN  CASE ~sub.ok -> [rc |-> "submit", ids |-> {}, uapi |-> sub.s,
                       ep |-> set_error(e)]
        [] sub.ok /\ Staged(sub.s, g, Len(ids)) < Taken(sub.s, g, Len(ids)) ->
                      [rc |-> "doorbell", ids |-> {}, uapi |-> rung,
                       ep |-> set_error(e)]
        [] OTHER   -> [rc |-> "ok", ids |-> {ids[i] : i \in DOMAIN ids},
                       uapi |-> moved.uapi, ep |-> moved.ep]

-----------------------------------------------------------------------------
\* Register writes of the program, all to endpoint 1.

E1 == ep[endpoint1]

\* A register write that leaves endpoint e and ends in linqu_ub_update_irq.
Updates(e) ==
  /\ ep' = [ep EXCEPT ![endpoint1] = e]
  /\ irq' = has_pending_irq(ep')

Writes(e) == ep' = [ep EXCEPT ![endpoint1] = e] /\ UNCHANGED irq

Running == probe.pc = "run"

CmdqSpace == (E1.cmdq_tail + 1) % cmdq_depth # E1.cmdq_head

\* The program fills the slot at the tail and writes CMDQ_TAIL; a descriptor
\* of kind 0xff does not decode.
FillSlot(id) ==
  /\ probe.pc \in {"run", "rewound"}
  /\ CmdqSpace
  /\ Writes([E1 EXCEPT !.cmdq[E1.cmdq_tail] = id,
                       !.cmdq_tail = (@ + 1) % cmdq_depth])
  /\ probe' = [probe EXCEPT !.pc = "run"]
  /\ UNCHANGED <<uapi, seen, drv, resets, failed, passed, boot>>

build_descriptor(op, key) ==
  LET cmd == NewCmd(endpoint1, op, key, FALSE)
  IN  Issue(cmd) /\ FillSlot(cmd.id)

build_invalid_descriptor ==
  /\ \A i \in DOMAIN Batch(E1, 0) : Batch(E1, 0)[i] # 0
  /\ FillSlot(0)
  /\ UNCHANGED log

\* Completions the program has not read.
Unread == Pending(probe.next, E1.cq_tail, cq_depth)

\* DOORBELL.  The program goes on, or polls the driver, which it does only
\* from an empty ring.
Doorbell(batch, wait) ==
  LET k == kick(endpoint1, E1, batch)
  IN  /\ Running
      /\ wait => Unread = 0 /\ E1.cq_head = probe.next
      /\ Updates(k.ep)
      /\ uapi' = k.uapi
      /\ probe' = IF wait THEN [probe EXCEPT !.pc = "polling"] ELSE probe
      /\ passed' = passed \cup k.ids
      /\ failed' = failed \cup ({k.rc} \ {"ok"})
      /\ UNCHANGED <<log, seen, drv, resets, boot>>

\* CQ_HEAD: the completion interrupt goes when the ring is empty.
write_cq_head(e, value) ==
  [e EXCEPT !.cq_head = value,
            !.irq_status = IF value = e.cq_tail THEN @ \ {"COMPLETION"} ELSE @]

WriteCqHead(value) ==
  LET e == write_cq_head(E1, value)
  IN  IF value = E1.cq_tail THEN Updates(e) ELSE Writes(e)

\* The program decodes n completions and writes CQ_HEAD behind them.
Consume(n) ==
  LET next == (probe.next + n) % cq_depth
  IN  /\ Running
      /\ n \in 0 .. Unread
      /\ seen' = [seen EXCEPT ![endpoint1] =
                    @ \o [i \in 1 .. n |-> E1.cq[(probe.next + i - 1) % cq_depth][1]]]
      /\ WriteCqHead(next)
      /\ probe' = [probe EXCEPT !.next = next, !.told = E1.cq_tail]
      /\ UNCHANGED <<log, uapi, drv, resets, failed, passed, boot>>

\* Mutant: the program starts to read at slot 0 again.
RewindHeadRereads ==
  /\ Running
  /\ Unread = 0
  /\ CmdqSpace /\ Len(log) < MaxCmds
  /\ WriteCqHead(0)
  /\ probe' = [probe EXCEPT !.pc = "rewound", !.next = 0]
  /\ UNCHANGED <<log, uapi, seen, drv, resets, failed, passed, boot>>

\* Before it fills slots for a new part of the test the program writes
\* CQ_HEAD = 0, with all completions read, whatever the tail is.
RewindHead ==
  /\ Running
  /\ Unread = 0
  /\ CmdqSpace /\ Len(log) < MaxCmds
  /\ WriteCqHead(0)
  /\ probe' = [probe EXCEPT !.pc = "rewound"]
  /\ UNCHANGED <<log, uapi, seen, drv, resets, failed, passed, boot>>

\* IRQ_ACK with the value of IRQ_STATUS.
AckIrq ==
  /\ probe.pc \in {"run", "rewound"}
  /\ Unread = 0
  /\ Updates([E1 EXCEPT !.irq_status = {}])
  /\ UNCHANGED <<log, uapi, seen, drv, probe, resets, failed, passed, boot>>

\* CMDQ_TAIL out of range, or a register that cannot be written.
RefusedWrite ==
  /\ Running
  /\ Unread = 0
  /\ Updates(set_error(E1))
  /\ UNCHANGED <<log, uapi, seen, drv, probe, resets, failed, passed, boot>>

\* try_guest_driver_irq_probe: the poll returns and the snapshot is read.
ReadEvent ==
  /\ probe.pc = "polling"
  /\ drv.event_pending
  /\ drv' = [drv EXCEPT !.event_pending = FALSE]
  /\ probe' = [probe EXCEPT !.pc = "run", !.told = E1.cq_tail]
  /\ UNCHANGED <<log, uapi, seen, ep, irq, resets, failed, passed, boot>>

\* The poll times out: the program ends.
PollTimeout ==
  /\ probe.pc = "polling"
  /\ ~drv.event_pending
  /\ probe' = [probe EXCEPT !.pc = "done"]
  /\ UNCHANGED <<log, uapi, seen, ep, irq, drv, resets, failed, passed, boot>>

-----------------------------------------------------------------------------
\* The driver.  The line is masked until the interrupt thread returns.

ThreadStep(from, d) ==
  /\ drv.thread = from
  /\ drv' = d
  /\ UNCHANGED <<log, uapi, seen, probe, resets, failed, passed, boot>>

\* linqu_ub_irq_primary
irq_primary ==
  /\ irq
  /\ ThreadStep("idle", [drv EXCEPT !.thread = "woken"])
  /\ UNCHANGED <<ep, irq>>

\* linqu_ub_irq_thread reads IRQ_STATUS, and returns if it is zero;
ReadStatus ==
  /\ ThreadStep("woken", [drv EXCEPT !.status = E1.irq_status,
                                     !.thread = IF E1.irq_status = {} THEN "idle" ELSE "read"])
  /\ UNCHANGED <<ep, irq>>

\* Mutant: the thread acknowledges whatever is pending by now.
AckAll ==
  /\ ThreadStep("read", [drv EXCEPT !.thread = "acked"])
  /\ Updates([E1 EXCEPT !.irq_status = {}])

\* writes what it has read to IRQ_ACK;
AckStatus ==
  /\ ThreadStep("read", [drv EXCEPT !.thread = "acked"])
  /\ Updates([E1 EXCEPT !.irq_status = @ \ drv.status])

\* Mutant: the thread does not wake the readers.
PublishSilently ==
  /\ ThreadStep("acked", BoundDriver)
  /\ UNCHANGED <<ep, irq>>

\* and tells the readers.
Publish ==
  /\ ThreadStep("acked", [BoundDriver EXCEPT !.event_pending = TRUE])
  /\ UNCHANGED <<ep, irq>>

irq_thread == ReadStatus \/ AckStatus \/ Publish

\* The machine is reset: endpoints, driver and program start again, the
\* surface behind the device does not.
SystemReset ==
  /\ resets < MaxResets
  /\ resets' = resets + 1
  /\ ep' = [g \in Guests |-> ResetEndpoint]
  /\ irq' = FALSE
  /\ drv' = BoundDriver
  /\ probe' = FreshProbe
  /\ boot' = [log |-> Len(log),
              dirty |-> \E g \in Guests : uapi.cmdq[g] # <<>> \/ uapi.cq[g] # <<>>
                                          \/ uapi.runtime # <<>>]
  /\ failed' = {}
  /\ passed' = {}
  /\ seen' = [g \in Guests |-> <<>>]
  /\ uapi' = [uapi EXCEPT !.refused = {}, !.lost = {}]   \* history
  /\ UNCHANGED log

Batches0 == {0, 1}

ProbeStep ==
  \/ \E op \in Ops, key \in Keys : build_descriptor(op, key)
  \/ build_invalid_descriptor
  \/ \E n \in Batches0, wait \in BOOLEAN : Doorbell(n, wait)
  \/ \E n \in 0 .. Unread : Consume(n)
  \/ RewindHead \/ AckIrq \/ RefusedWrite
  \/ ReadEvent \/ PollTimeout

DevNext == ProbeStep \/ irq_primary \/ irq_thread \/ SystemReset

\* The interrupt line or the thread calls for a step of the driver.
DriverBusy == irq \/ drv.thread # "idle"

\* There is a completion to read, or CQ_HEAD to put right.
ReaderBusy ==
  Running /\ (Unread > 0 \/ E1.cq_head # probe.next)

\* A doorbell would move commands or completions, or fail.
RingerBusy ==
  LET k == kick(endpoint1, E1, 0)
  IN  Running /\ (k.uapi # uapi \/ k.rc \notin failed \cup {"ok"})

\* A new part of the test fills its slots; the interrupt is taken and the
\* thread runs; a wakened reader reads the event, and empties the completion
\* ring; the doorbell is rung again.  Weak fairness of the five, with the
\* enabling conditions written out.
DevFairness ==
  /\ <>[](probe.pc = "rewound") =>
       []<><<\E op \in Ops, key \in Keys : build_descriptor(op, key)>>_devVars
  /\ <>[]DriverBusy => []<><<irq_primary \/ irq_thread>>_devVars
  /\ <>[](probe.pc = "polling" /\ drv.event_pending) => []<><<ReadEvent>>_devVars
  /\ <>[]ReaderBusy => []<><<Consume(Unread)>>_devVars
  /\ <>[]RingerBusy => []<><<Doorbell(0, FALSE)>>_devVars

DevSpec == DevInit /\ [][DevNext]_devVars /\ DevFairness

-----------------------------------------------------------------------------

\* The registers are in range and the rings hold commands and completions.
DevTypeOK ==
  /\ \A g \in Guests :
       /\ ep[g].cmdq \in [0 .. cmdq_depth - 1 -> 0 .. MaxCmds]
       /\ ep[g].cmdq_head \in 0 .. cmdq_depth - 1 /\ ep[g].cmdq_tail \in 0 .. cmdq_depth - 1
       /\ ep[g].cq_head \in 0 .. cq_depth - 1 /\ ep[g].cq_tail \in 0 .. cq_depth - 1
       /\ ep[g].irq_status \subseteq IrqBits
  /\ irq \in BOOLEAN /\ drv.event_pending \in BOOLEAN
  /\ drv.thread \in {"idle", "woken", "read", "acked"} /\ drv.status \subseteq IrqBits
  /\ probe.pc \in {"run", "rewound", "polling", "done"}
  /\ uapi \in SurfaceType

\* The line shows the state of the endpoints at all times, not only when a
\* register write happens to end in linqu_ub_update_irq: no interrupt stays
\* asserted that nobody requests, none is requested and not asserted.
LineFollowsStatus == irq = has_pending_irq(ep)

\* How often command id has been given to the surface or answered by it.
Copies(id) ==
  Count(uapi.cmdq[endpoint1], id) + RuntimeCount(id)
    + Count(uapi.service["db"], id) + Count(uapi.cq[endpoint1], id)

InRing(id) ==
  Cardinality({i \in 1 .. Unread : E1.cq[(probe.next + i - 1) % cq_depth][1].id = id})

Answers(id) == Count(seen[endpoint1], id) + InRing(id)

\* A command is submitted once and answered once, unless a kick failed: a
\* failed kick leaves cmdq_head alone, and the next one submits again what
\* the failed one has submitted.
AtMostOnce ==
  \A id \in boot.log + 1 .. Len(log) : failed = {} => Copies(id) + Answers(id) <= 1

\* A command whose slot cmdq_head has passed is in the surface or answered,
\* kicks that failed before or after it notwithstanding: the batch that a
\* doorbell of the surface drops is one whose slots cmdq_head has not passed,
\* unless a reset left commands in the queue of the surface, behind which
\* every later batch lags.
NoneLost == \A id \in passed : boot.dirty \/ Copies(id) + Answers(id) >= 1

\* After a kick the queue of the surface is empty: the doorbell of the
\* surface takes as many commands as the kick has submitted, which are
\* the ones of the kick unless a failed one has left others before them.
NothingLeftBehind == failed = {} /\ ~boot.dirty => uapi.cmdq[endpoint1] = <<>>

\* A command reaches the surface once, with the kick it belongs to.
HandedOverOnce == AtMostOnce /\ NoneLost /\ NothingLeftBehind

\* The program reads the completions of commands that go the same way in the
\* order of the commands, each once, across the wrap of the ring and although
\* CQ_HEAD is rewound under a tail that is not, unless a kick failed or a
\* reset left something behind.  Those of different services overtake one
\* another, as flush_services takes one service after the other.
ReadInOrder ==
  failed = {} /\ ~boot.dirty /\ uapi.refused = {} =>
    \A i, j \in DOMAIN seen[endpoint1] :
      LET a == seen[endpoint1][i].id
          b == seen[endpoint1][j].id
      IN  i < j /\ Channel(log[a].op) = Channel(log[b].op) => a < b

\* A program that polls the driver and does not know of a completion has it
\* signalled: in the device, in the hands of the thread, or as an event.
NoLostWakeup ==
  probe.pc = "polling" /\ probe.told # E1.cq_tail =>
    \/ "COMPLETION" \in E1.irq_status
    \/ drv.thread \in {"read", "acked"} /\ "COMPLETION" \in drv.status
    \/ drv.event_pending

\* The way from the device to the program, over line, thread and event.
SignalIntact == LineFollowsStatus /\ NoLostWakeup

\* Completions of commands from before a reset reach the program after it
\* only if the surface still held commands or completions when it happened.
StaleOnlyIfLeft ==
  \A i \in DOMAIN seen[endpoint1] :
    seen[endpoint1][i].id <= boot.log => boot.dirty

\* What the program reads are the completions of its commands in order, and
\* not those of a program before the reset.
ReadsOwnInOrder == ReadInOrder /\ StaleOnlyIfLeft

\* The program is told of a completion it waits for.
WakeupArrives ==
  (probe.pc = "polling" /\ probe.told # E1.cq_tail) ~> (probe.pc # "polling")

\* What the device has taken over is answered, also when the completion ring
\* was full at first, unless a kick fails, the machine is reset or the
\* program ends.
CompletionArrives ==
  []<>(\/ \A id \in passed : Answers(id) >= 1
       \/ failed # {} \/ resets > 0 \/ probe.pc = "done")

\* Completions come, and the program is told when they do.
EverythingArrives == WakeupArrives /\ CompletionArrives

=============================================================================
