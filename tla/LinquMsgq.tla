----------------------------- MODULE LinquMsgq -----------------------------
(***************************************************************************)
(* The message queue of the linqu-ub device (linqu_ub.c): send, receive    *)
(* and completion ring in guest memory, the configuration space that the   *)
(* messages read and write, and the interrupt.                             *)
(*                                                                         *)
(* A write of SQ_PI makes the device answer every request from SQ_CI on.   *)
(* It stops at the first one it does not know, and moves SQ_CI only when   *)
(* it has answered all: after a failure the requests before the bad one    *)
(* are answered again by the next write of SQ_PI.                          *)
(*                                                                         *)
(* The driver on the other side is the UB bus driver of the guest kernel.  *)
(* It keeps no more requests under way than the rings hold.                *)
(***************************************************************************)
EXTENDS Integers, SequencesExt

CONSTANTS
  sq_depth, rq_depth, cq_depth,   \* entries of the rings
  Addrs,      \* addresses of configuration registers the driver uses
  Values,     \* dwords it writes
  UpiSize,    \* values cfg_upi can have: its mask 0x7fff and one
  MaxReqs,    \* bound: requests in a behaviour
  MaxFails,   \* bound: writes of SQ_PI that fail
  MaxRsts     \* bound: writes of the reset register

\* NUM_PORTS stands for the constant registers, OTHER for an address that is
\* not a register.
AllAddrs ==
  {"UPI", "TH_EN", "EU_TBA_L", "EU_TBA_H", "MATT_BA0", "MATT_BA1", "NUM_PORTS", "OTHER"}

ASSUME LinquMsgqAssumption ==
  /\ sq_depth \in Nat \ {0, 1} /\ rq_depth \in Nat \ {0} /\ cq_depth \in Nat \ {0, 1}
  /\ Addrs \subseteq AllAddrs /\ Values \subseteq Nat /\ UpiSize \in Nat \ {0}
  /\ MaxReqs \in Nat /\ MaxFails \in Nat /\ MaxRsts \in Nat

VARIABLES
  msgq,    \* LinquUbState.msgq and the rings
  cfg,     \* cfg_upi, cfg_th_en and the two halves of decoder.matt_ba
  line,    \* level of the interrupt line
  reqs,    \* history: the requests, in the order they are posted
  drv,     \* the driver: slot to fill next, responses it has taken
  fails,   \* history: writes of SQ_PI that failed since the last reset
  rsts,    \* history: resets
  base     \* history: requests posted before the last reset

msgqVars == <<msgq, cfg, line, reqs, drv, fails, rsts, base>>

\* Enum stands for the enumeration and EU table requests, whose answers do not
\* depend on the state of the device; Bad for a request that is not known.
Request ==
  [kind: {"CfgRead"}, addr: Addrs]
    \cup [kind: {"CfgWrite"}, addr: Addrs, data: Values]
    \cup [kind: {"Enum", "Bad"}]

Response == [id: 1 .. MaxReqs, data: Nat]

Cells == {"upi", "th_en", "matt_lo", "matt_hi"}

-----------------------------------------------------------------------------

\* linqu_ub_msgq_reset leaves mask and rings alone.
ResetQueue(m) ==
  [m EXCEPT !.sq_pi = 0, !.sq_ci = 0, !.rq_pi = 0, !.rq_ci = 0, !.cq_pi = 0, !.cq_ci = 0,
            !.int_status = 0, !.int_ro = 0]

MsgqInit ==
  /\ msgq = [sq |-> [i \in 0 .. sq_depth - 1 |-> 0], sq_pi |-> 0, sq_ci |-> 0,
             rq |-> [i \in 0 .. rq_depth - 1 |-> <<>>], rq_pi |-> 0, rq_ci |-> 0,
             cq |-> [i \in 0 .. cq_depth - 1 |-> <<>>], cq_pi |-> 0, cq_ci |-> 0,
             int_status |-> 0, int_ro |-> 0, int_mask |-> 0]
  /\ cfg = [c \in Cells |-> 0]
  /\ line = FALSE
  /\ reqs = <<>>
  /\ drv = [tail |-> 0, got |-> <<>>]
  /\ fails = 0 /\ rsts = 0 /\ base = 0

\* linqu_ub_has_pending_irq, for the message queue.
has_pending_irq(m) == m.int_ro # 0 /\ m.int_mask = 0

-----------------------------------------------------------------------------

\* EU table base and MATT base are the same 64-bit word.
Cell(addr) ==
  CASE addr \in {"EU_TBA_L", "MATT_BA0"} -> "matt_lo"
    [] addr \in {"EU_TBA_H", "MATT_BA1"} -> "matt_hi"
    [] addr = "UPI"                      -> "upi"
    [] addr = "TH_EN"                    -> "th_en"
    [] OTHER                             -> "none"

\* What a cell keeps of a dword.
Kept(cell, data) ==
  CASE cell = "upi"   -> data % UpiSize
    [] cell = "th_en" -> data % 2
    [] OTHER          -> data

cfg_write_dword(c, addr, data) ==
  IF Cell(addr) = "none" THEN c
  ELSE [c EXCEPT ![Cell(addr)] = Kept(Cell(addr), data)]

\* Address 0x94, of TH_EN, can be written but reads as an unknown one.
cfg_read_dword(c, addr) ==
  CASE addr = "NUM_PORTS"          -> 1
    [] addr \in {"TH_EN", "OTHER"} -> 0
    [] OTHER                       -> c[Cell(addr)]

\* The response, a completion that names its slot, both positions, and
\* linqu_ub_msgq_raise_cq_irq, which clears cq_int_ro.
Answered(m, id, data) ==
  [m EXCEPT !.rq[m.rq_pi] = <<[id |-> id, data |-> data]>>,
            !.cq[m.cq_pi] = <<[id |-> id, rq_idx |-> m.rq_pi]>>,
            !.rq_pi = (@ + 1) % rq_depth,
            !.cq_pi = (@ + 1) % cq_depth,
            !.int_status = 1, !.int_ro = 0]

respond_cfg(acc, id) ==
  LET r == reqs[id]
  IN  IF r.kind = "CfgWrite"
      THEN [acc EXCEPT !.c = cfg_write_dword(@, r.addr, r.data), !.m = Answered(@, id, 0)]
      ELSE [acc EXCEPT !.m = Answered(@, id, cfg_read_dword(acc.c, r.addr))]

\* The answers to Enum requests are not told apart.
respond_enum(acc, id) == [acc EXCEPT !.m = Answered(@, id, 0)]

\* Mutant: enumeration requests are accepted and not answered.
process_sqe_skips(acc, id) ==
  CASE ~acc.ok \/ reqs[id].kind = "Bad" -> [acc EXCEPT !.ok = FALSE]
    [] acc.ok /\ reqs[id].kind = "Enum" -> acc
    [] OTHER                            -> respond_cfg(acc, id)

\* linqu_ub_msgq_process_sqe; after a failure the loop around it has ended.
process_sqe(acc, id) ==
  CASE ~acc.ok \/ reqs[id].kind = "Bad" -> [acc EXCEPT !.ok = FALSE]
    [] acc.ok /\ reqs[id].kind = "Enum" -> respond_enum(acc, id)
    [] OTHER                            -> respond_cfg(acc, id)

\* Entries between two positions of a ring.
Between(from, to, depth) == (to - from) % depth

\* The loop of linqu_ub_msgq_ring_sq: the state of the device when it has
\* handled the n entries from SQ_CI on.
Handled(m, n) ==
  LET acc[k \in 0 .. n] ==
        IF k = 0 THEN [m |-> m, c |-> cfg, ok |-> TRUE]
        ELSE process_sqe(acc[k - 1], m.sq[(m.sq_ci + k - 1) % sq_depth])
  IN  acc[n]

\* Mutant: SQ_CI moves only by one.
ring_sq_by_one(m, new_sq_pi) ==
  LET n   == Between(m.sq_ci, new_sq_pi, sq_depth)
      acc == Handled(m, n)
  IN  [acc EXCEPT !.m.sq_ci = IF acc.ok /\ n > 0 THEN (@ + 1) % sq_depth ELSE @]

ring_sq(m, new_sq_pi) ==
  LET acc == Handled(m, Between(m.sq_ci, new_sq_pi, sq_depth))
  IN  [acc EXCEPT !.m.sq_ci = IF acc.ok THEN new_sq_pi ELSE @]

-----------------------------------------------------------------------------

\* A write to a register of the message queue that ends in qemu_set_irq.
Sets(m) == msgq' = m /\ line' = has_pending_irq(m)

Unread == {(msgq.cq_ci + i) % cq_depth : i \in 0 .. Between(msgq.cq_ci, msgq.cq_pi, cq_depth) - 1}

Answers(id) ==
  Cardinality({i \in DOMAIN drv.got : drv.got[i].id = id})
    + Cardinality({i \in Unread : msgq.cq[i][1].id = id})

\* Requests of the driver that it has no response to.
UnderWay == {id \in base + 1 .. Len(reqs) : \A i \in DOMAIN drv.got : drv.got[i].id # id}

\* The driver fills the slot at its tail, if the rings can take the answer.
Post(r) ==
  /\ Len(reqs) < MaxReqs
  /\ (drv.tail + 1) % sq_depth # msgq.sq_ci
  /\ Cardinality(UnderWay) < Min({rq_depth, cq_depth - 1})
  /\ reqs' = Append(reqs, r)
  /\ msgq' = [msgq EXCEPT !.sq[drv.tail] = Len(reqs) + 1]
  /\ drv' = [drv EXCEPT !.tail = (@ + 1) % sq_depth]
  /\ UNCHANGED <<cfg, line, fails, rsts, base>>

\* SQ_PI, for new requests or once more for those that failed.
WriteSqPi ==
  LET acc == ring_sq([msgq EXCEPT !.sq_pi = drv.tail], drv.tail)
  IN  /\ drv.tail # msgq.sq_ci
      /\ acc.ok \/ fails < MaxFails
      /\ Sets(IF acc.ok THEN acc.m ELSE [acc.m EXCEPT !.int_status = 1, !.int_ro = 1])
      /\ cfg' = acc.c
      /\ fails' = IF acc.ok THEN fails ELSE fails + 1
      /\ UNCHANGED <<reqs, drv, rsts, base>>

\* Mutant: CQ_CI does not wrap.
TakeResponseNoWrap ==
  LET cqe == msgq.cq[msgq.cq_ci][1]
      ci  == msgq.cq_ci + 1
      m   == [msgq EXCEPT !.cq_ci = ci, !.rq_ci = (@ + 1) % rq_depth]
  IN  /\ Unread # {}
      /\ drv' = [drv EXCEPT !.got = Append(@, msgq.rq[cqe.rq_idx][1])]
      /\ Sets(IF ci = m.cq_pi THEN [m EXCEPT !.int_status = 0, !.int_ro = 0] ELSE m)
      /\ UNCHANGED <<cfg, reqs, fails, rsts, base>>

\* The driver takes the response a completion names and writes RQ_CI and
\* CQ_CI; an empty completion ring clears the interrupt.
TakeResponse ==
  LET cqe == msgq.cq[msgq.cq_ci][1]
      ci  == (msgq.cq_ci + 1) % cq_depth
      m   == [msgq EXCEPT !.cq_ci = ci, !.rq_ci = (@ + 1) % rq_depth]
  IN  /\ Unread # {}
      /\ drv' = [drv EXCEPT !.got = Append(@, msgq.rq[cqe.rq_idx][1])]
      /\ Sets(IF ci = m.cq_pi THEN [m EXCEPT !.int_status = 0, !.int_ro = 0] ELSE m)
      /\ UNCHANGED <<cfg, reqs, fails, rsts, base>>

\* CQ_INT_STATUS with bit 0 set.
AckInt ==
  /\ Sets([msgq EXCEPT !.int_status = 0, !.int_ro = 0])
  /\ UNCHANGED <<cfg, reqs, drv, fails, rsts, base>>

\* CQ_INT_MASK
Mask(b) ==
  /\ Sets([msgq EXCEPT !.int_mask = b])
  /\ UNCHANGED <<cfg, reqs, drv, fails, rsts, base>>

\* RST with bit 0 set: the driver starts again at slot 0 and forgets what is
\* under way.
WriteRst ==
  /\ rsts < MaxRsts
  /\ rsts' = rsts + 1
  /\ Sets(ResetQueue(msgq))
  /\ drv' = [tail |-> 0, got |-> <<>>]
  /\ fails' = 0
  /\ base' = Len(reqs)
  /\ UNCHANGED <<cfg, reqs>>

MsgqNext ==
  \/ \E r \in Request : Post(r)
  \/ WriteSqPi \/ TakeResponse \/ AckInt \/ WriteRst
  \/ \E b \in {0, 1} : Mask(b)

\* The driver rings for what it has posted and polls the completion ring.
MsgqFairness ==
  /\ <>[](drv.tail # msgq.sq_pi /\ fails = 0) => []<><<WriteSqPi>>_msgqVars
  /\ <>[](Unread # {}) => []<><<TakeResponse>>_msgqVars

MsgqSpec == MsgqInit /\ [][MsgqNext]_msgqVars /\ MsgqFairness

-----------------------------------------------------------------------------

\* Positions are within the rings, and the rings hold requests, responses and
\* completions.
MsgqTypeOK ==
  /\ msgq.sq \in [0 .. sq_depth - 1 -> 0 .. MaxReqs]
  /\ \A i \in DOMAIN msgq.rq : msgq.rq[i] = <<>> \/ msgq.rq[i][1] \in Response
  /\ \A i \in DOMAIN msgq.cq : msgq.cq[i] = <<>> \/ msgq.cq[i][1].rq_idx \in DOMAIN msgq.rq
  /\ msgq.sq_pi \in DOMAIN msgq.sq /\ msgq.sq_ci \in DOMAIN msgq.sq
  /\ msgq.rq_pi \in DOMAIN msgq.rq /\ msgq.rq_ci \in DOMAIN msgq.rq
  /\ msgq.cq_pi \in DOMAIN msgq.cq /\ msgq.cq_ci \in DOMAIN msgq.cq
  /\ cfg \in [Cells -> Nat] /\ line \in BOOLEAN
  /\ \A i \in DOMAIN reqs : reqs[i] \in Request
  /\ \A i \in DOMAIN drv.got : drv.got[i] \in Response

\* The line is up exactly while an unmasked interrupt is pending, whichever
\* of the registers was written last.
LineFollowsInt == line = has_pending_irq(msgq)

\* The completions the driver has not taken name slots of the receive ring
\* that still hold their responses, although the device never looks at RQ_CI
\* or CQ_CI, unless requests were answered again after a failure.
CompletionNamesResponse ==
  fails = 0 => \A i \in Unread :
                 LET rqe == msgq.rq[msgq.cq[i][1].rq_idx]
                 IN  rqe # <<>> /\ rqe[1].id = msgq.cq[i][1].id

\* A request is answered once, and in the order of the requests, unless
\* requests were answered again after a failure.
AnsweredInOrder ==
  fails = 0 =>
    \A i \in DOMAIN drv.got : /\ drv.got[i].id = base + i
                              /\ Answers(base + i) = 1

\* Two addresses of one word.
SameWord(a, b) == a = b \/ {a, b} \in {{"EU_TBA_L", "MATT_BA0"}, {"EU_TBA_H", "MATT_BA1"}}

\* What the register at an address holds after the first n of the requests rs.
Reference(rs, addr, n) ==
  LET writes == {i \in 1 .. n : rs[i].kind = "CfgWrite" /\ SameWord(addr, rs[i].addr)}
      last   == rs[Max(writes)].data
  IN  CASE writes = {}  -> 0
        [] writes # {} /\ addr = "UPI" -> last % UpiSize
        [] OTHER        -> last

\* A response to a read has the value of the last write before it, through
\* either name of the register: what was written under one address is read
\* under the other.  Only the requests that a failed write of SQ_PI repeats
\* see writes that were posted after them, and a reset drops writes.
ReadsLastWrite ==
  fails = 0 /\ rsts = 0 =>
    \A i \in DOMAIN drv.got :
      LET r == reqs[drv.got[i].id]
      IN  r.kind = "CfgRead" /\ r.addr \notin {"TH_EN", "NUM_PORTS", "OTHER"} =>
            drv.got[i].data = Reference(reqs, r.addr, drv.got[i].id - 1)

\* The driver gets for each request its own answer, once, in order, with the
\* value the register had at that point.
AnswersAreRight == CompletionNamesResponse /\ AnsweredInOrder /\ ReadsLastWrite

\* Every request is answered, unless the device meets one it does not know.
RequestsAnswered == []<>(UnderWay = {} \/ fails > 0)

=============================================================================
