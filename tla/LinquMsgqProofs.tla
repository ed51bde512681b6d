-------------------------- MODULE LinquMsgqProofs --------------------------
(***************************************************************************)
(* Proofs about the message queue of the linqu-ub device, for every depth  *)
(* of the rings and every number of requests, failures and resets.         *)
(***************************************************************************)
EXTENDS LinquMsgq, QueueLemmas

RqSlot == {<<>>} \cup {<<r>> : r \in Response}

CqSlot == {<<>>} \cup {<<e>> : e \in [id : 1 .. MaxReqs, rq_idx : 0 .. rq_depth - 1]}

Queue ==
  [sq : [0 .. sq_depth - 1 -> 0 .. MaxReqs], sq_pi : 0 .. sq_depth - 1, sq_ci : 0 .. sq_depth - 1,
   rq : [0 .. rq_depth - 1 -> RqSlot], rq_pi : 0 .. rq_depth - 1, rq_ci : 0 .. rq_depth - 1,
   cq : [0 .. cq_depth - 1 -> CqSlot], cq_pi : 0 .. cq_depth - 1, cq_ci : 0 .. cq_depth - 1,
   int_status : {0, 1}, int_ro : {0, 1}, int_mask : {0, 1}]

MsgqTypes ==
  /\ msgq \in Queue
  /\ cfg \in [Cells -> Nat]
  /\ line \in BOOLEAN
  /\ reqs \in Seq(Request) /\ Len(reqs) <= MaxReqs
  /\ drv \in [tail : 0 .. sq_depth - 1, got : Seq(Response)]
  /\ fails \in Nat /\ rsts \in Nat
  /\ base \in 0 .. Len(reqs) /\ (rsts = 0 => base = 0)

\* Every completion that can be unread was written, and so was the response
\* it names, however often requests were answered again.
Written(m) ==
  \A i \in 0 .. cq_depth - 1 :
    /\ m.cq[i] # <<>> => m.rq[m.cq[i][1].rq_idx] # <<>>
    /\ Between(m.cq_ci, i, cq_depth) < Between(m.cq_ci, m.cq_pi, cq_depth) => m.cq[i] # <<>>

\* Requests posted, and responses taken, since the last reset.
Posted == Len(reqs) - base
Taken  == Len(drv.got)

\* The send ring, when n requests were answered: it holds the others.
SendRing(n) ==
  /\ n <= Posted /\ Posted - n < sq_depth
  /\ msgq.sq_ci = n % sq_depth /\ drv.tail = Posted % sq_depth
  /\ \A k \in n + 1 .. Posted : msgq.sq[(k - 1) % sq_depth] = base + k

Readable == {"UPI", "EU_TBA_L", "EU_TBA_H", "MATT_BA0", "MATT_BA1"}

\* The response to a read has the value of the last write before it.
RightFor(rs, id, data) ==
  rs[id].kind = "CfgRead" /\ rs[id].addr \in Readable =>
    data = Reference(rs, rs[id].addr, id - 1)

Right(id, data) == rsts = 0 => RightFor(reqs, id, data)

\* The device when it has answered n requests: receive and completion ring
\* hold the answers that were not taken, the registers what was written.
AnswerRings(m, c, n) ==
  /\ Taken <= n
  /\ m.cq_ci = Taken % cq_depth /\ m.cq_pi = n % cq_depth /\ m.rq_pi = n % rq_depth
  /\ \A k \in Taken + 1 .. n :
       LET rqe == m.rq[(k - 1) % rq_depth]
       IN  /\ m.cq[(k - 1) % cq_depth] = <<[id |-> base + k, rq_idx |-> (k - 1) % rq_depth]>>
           /\ rqe # <<>> /\ rqe[1].id = base + k /\ Right(base + k, rqe[1].data)
  /\ rsts = 0 => \A a \in Readable : c[Cell(a)] = Reference(reqs, a, n)

\* What the driver has taken, and that the rings have room for the rest.
TakenInOrder ==
  /\ Posted - Taken <= rq_depth /\ Posted - Taken < cq_depth
  /\ \A i \in 1 .. Taken : drv.got[i].id = base + i /\ Right(base + i, drv.got[i].data)

\* The inductive invariant.
MsgqInv ==
  /\ MsgqTypes
  /\ LineFollowsInt
  /\ Written(msgq)
  /\ \E n \in 0 .. MaxReqs :
       SendRing(n) /\ (fails = 0 => TakenInOrder /\ AnswerRings(msgq, cfg, n))

-----------------------------------------------------------------------------
(* Positions in rings *)

\* The distance of two positions is the number of entries between them, if
\* these fit into the ring ...
LEMMA BetweenMod ==
  ASSUME NEW d \in Nat \ {0}, NEW a \in Int, NEW b \in Int, b <= a, a - b < d
  PROVE  Between(b % d, a % d, d) = a - b
<1> DEFINE p == a \div d
           s == a % d
           q == b \div d
           r == b % d
<1>11. p \in Int /\ s \in 0 .. d - 1 /\ a = d * p + s
  OBVIOUS
<1>12. q \in Int /\ r \in 0 .. d - 1 /\ b = d * q + r
  OBVIOUS
<1> HIDE DEF p, q, r, s
<1> DEFINE u == q - p
           e == s - r
           f == a - b
<1>2. e = d * u + f /\ u \in Int /\ e \in Int /\ f \in 0 .. d - 1
  BY <1>11, <1>12
<1> HIDE DEF u, e, f
<1>3. e % d = f
  BY <1>2, ModUnique
<1> QED BY <1>3, Zenon DEF Between, r, s, e, f

\* ... so that they have different slots.
LEMMA ModDistinct ==
  ASSUME NEW d \in Nat \ {0}, NEW a \in Int, NEW b \in Int, b < a, a - b < d
  PROVE  a % d # b % d
<1>2. b <= a /\ b <= b /\ b - b < d /\ b - b # a - b
  OBVIOUS
<1>1. Between(b % d, a % d, d) = a - b
  BY <1>2, BetweenMod, Zenon
<1>3. Between(b % d, b % d, d) = b - b
  BY <1>2, BetweenMod, Zenon
<1> QED BY <1>1, <1>2, <1>3, Zenon

\* The same for positions that are known.
LEMMA BetweenIs ==
  ASSUME NEW d \in Nat \ {0}, NEW f \in 0 .. d - 1, NEW t \in 0 .. d - 1
  PROVE  Between(f, t, d) = IF t >= f THEN t - f ELSE t - f + d
<1>1. CASE t >= f
  <2>1. t - f = d * 0 + (t - f)
    OBVIOUS
  <2> QED BY <1>1, <2>1, ModUnique DEF Between
<1>2. CASE t < f
  <2>1. t - f = d * (0 - 1) + (t - f + d) /\ t - f + d \in 0 .. d - 1
    BY <1>2
  <2> QED BY <1>2, <2>1, ModUnique DEF Between
<1> QED BY <1>1, <1>2

-----------------------------------------------------------------------------
(* The loop over the send ring *)

\* The states the loop goes through, from the first entry to the n-th.
LoopOver(acc, m, n) ==
  acc = [k \in 0 .. n |->
           IF k = 0 THEN [m |-> m, c |-> cfg, ok |-> TRUE]
           ELSE process_sqe(acc[k - 1], m.sq[(m.sq_ci + k - 1) % sq_depth])]

\* There is a function that satisfies the recursion of Handled.
LEMMA LoopExists ==
  ASSUME NEW m, NEW n \in Nat
  PROVE  \E acc : LoopOver(acc, m, n)
<1> DEFINE T == {j \in Nat : ~(\E acc : LoopOver(acc, m, j))}
<1> SUFFICES ASSUME T # {} PROVE FALSE
  OBVIOUS
<1>1. PICK j \in T : \A i \in T : j <= i
  BY LeastElement
<1>2. CASE j = 0
  <2> DEFINE f == [k \in 0 .. 0 |-> [m |-> m, c |-> cfg, ok |-> TRUE]]
  <2>1. LoopOver(f, m, 0)
    BY DEF LoopOver
  <2> QED BY <1>2, <2>1
<1>3. CASE j # 0
  <2>1. j \in Nat /\ j - 1 \in Nat /\ j - 1 \notin T
    BY <1>1, <1>3
  <2>2. PICK g : LoopOver(g, m, j - 1)
    BY <2>1
  <2> DEFINE last == process_sqe(g[j - 1], m.sq[(m.sq_ci + j - 1) % sq_depth])
             f    == [k \in 0 .. j |-> IF k = j THEN last ELSE g[k]]
  <2>3. ASSUME NEW k \in 0 .. j
        PROVE  f[k] = IF k = 0 THEN [m |-> m, c |-> cfg, ok |-> TRUE]
                      ELSE process_sqe(f[k - 1], m.sq[(m.sq_ci + k - 1) % sq_depth])
    <3>1. CASE k = j
      <4>1. f[k - 1] = g[j - 1] /\ f[k] = last
        BY <1>3, <2>1, <3>1
      <4> QED BY <1>3, <3>1, <4>1
    <3>2. CASE k # j
      <4>1. k \in 0 .. j - 1 /\ f[k] = g[k] /\ (k # 0 => f[k - 1] = g[k - 1])
        BY <2>1, <3>2
      <4>2. g[k] = IF k = 0 THEN [m |-> m, c |-> cfg, ok |-> TRUE]
                   ELSE process_sqe(g[k - 1], m.sq[(m.sq_ci + k - 1) % sq_depth])
        BY <2>2, <4>1 DEF LoopOver
      <4> QED BY <4>1, <4>2
    <3> QED BY <3>1, <3>2
  <2> HIDE DEF f
  <2>4. f = [k \in 0 .. j |-> f[k]]
    BY DEF f
  <2>5. LoopOver(f, m, j)
    BY <2>3, <2>4 DEF LoopOver
  <2> QED BY <1>1, <2>5
<1> QED BY <1>2, <1>3

\* Handled(m, n) is such a function at n.
LEMMA HandledIs ==
  ASSUME NEW m, NEW n \in Nat
  PROVE  \E acc : LoopOver(acc, m, n) /\ Handled(m, n) = acc[n]
<1> DEFINE acc == CHOOSE f : LoopOver(f, m, n)
<1>1. LoopOver(acc, m, n)
  BY LoopExists
<1>2. Handled(m, n) = acc[n]
  BY Zenon DEF Handled, LoopOver
<1> QED BY <1>1, <1>2

-----------------------------------------------------------------------------
(* One request *)

\* The device in the loop.
Acc == [m : Queue, c : [Cells -> Nat], ok : BOOLEAN]

\* What an answer changes: one slot of each ring and the two positions.
LEMMA AnsweredIs ==
  ASSUME NEW m \in Queue, NEW id \in 1 .. MaxReqs, NEW data \in Nat
  PROVE  LET a == Answered(m, id, data)
         IN  /\ a \in Queue
             /\ a.rq = [m.rq EXCEPT ![m.rq_pi] = <<[id |-> id, data |-> data]>>]
             /\ a.cq = [m.cq EXCEPT ![m.cq_pi] = <<[id |-> id, rq_idx |-> m.rq_pi]>>]
             /\ a.rq_pi = (m.rq_pi + 1) % rq_depth
             /\ a.cq_pi = (m.cq_pi + 1) % cq_depth
             /\ a.sq = m.sq /\ a.sq_pi = m.sq_pi /\ a.sq_ci = m.sq_ci
             /\ a.rq_ci = m.rq_ci /\ a.cq_ci = m.cq_ci /\ a.int_mask = m.int_mask
<1> DEFINE rqe == <<[id |-> id, data |-> data]>>
           cqe == <<[id |-> id, rq_idx |-> m.rq_pi]>>
           rq1 == [m.rq EXCEPT ![m.rq_pi] = rqe]
           cq1 == [m.cq EXCEPT ![m.cq_pi] = cqe]
           rp1 == (m.rq_pi + 1) % rq_depth
           cp1 == (m.cq_pi + 1) % cq_depth
           a   == Answered(m, id, data)
<1>1. /\ m.rq \in [0 .. rq_depth - 1 -> RqSlot] /\ m.cq \in [0 .. cq_depth - 1 -> CqSlot]
      /\ m.rq_pi \in 0 .. rq_depth - 1 /\ m.cq_pi \in 0 .. cq_depth - 1
  BY DEF Queue
<1>2. rqe \in RqSlot /\ cqe \in CqSlot
  BY <1>1 DEF RqSlot, CqSlot, Response
<1>3. /\ rq1 \in [0 .. rq_depth - 1 -> RqSlot] /\ cq1 \in [0 .. cq_depth - 1 -> CqSlot]
      /\ rp1 \in 0 .. rq_depth - 1 /\ cp1 \in 0 .. cq_depth - 1
  <2> HIDE DEF rqe, cqe
  <2>1. rq1 \in [0 .. rq_depth - 1 -> RqSlot] /\ cq1 \in [0 .. cq_depth - 1 -> CqSlot]
    BY <1>1, <1>2
  <2>2. rp1 \in 0 .. rq_depth - 1 /\ cp1 \in 0 .. cq_depth - 1
    BY <1>1, NextIs, LinquMsgqAssumption
  <2> QED BY <2>1, <2>2
<1>4. a = [m EXCEPT !.rq = rq1, !.cq = cq1, !.rq_pi = rp1, !.cq_pi = cp1,
                    !.int_status = 1, !.int_ro = 0]
  BY DEF Answered, Queue
<1> HIDE DEF rq1, cq1, rp1, cp1, rqe, cqe, a
<1>5. /\ a \in Queue
      /\ a.rq = rq1 /\ a.cq = cq1 /\ a.rq_pi = rp1 /\ a.cq_pi = cp1
      /\ a.sq = m.sq /\ a.sq_pi = m.sq_pi /\ a.sq_ci = m.sq_ci
      /\ a.rq_ci = m.rq_ci /\ a.cq_ci = m.cq_ci /\ a.int_mask = m.int_mask
  BY <1>3, <1>4 DEF Queue
<1> QED BY <1>5 DEF rq1, cq1, rp1, cp1, rqe, cqe, a

\* The cells that addresses name.
LEMMA CellIs ==
  /\ \A addr : Cell(addr) \in Cells \cup {"none"}
  /\ \A addr \in AllAddrs \ {"TH_EN", "NUM_PORTS", "OTHER"} : Cell(addr) \in Cells
  BY DEF Cell, Cells, AllAddrs

\* The registers hold numbers.
LEMMA RegisterTypes ==
  ASSUME NEW c \in [Cells -> Nat], NEW addr \in AllAddrs, NEW data \in Nat
  PROVE  /\ cfg_write_dword(c, addr, data) \in [Cells -> Nat]
         /\ cfg_read_dword(c, addr) \in Nat
<1>1. Kept(Cell(addr), data) \in Nat
  BY LinquMsgqAssumption DEF Kept
<1>2. cfg_write_dword(c, addr, data) \in [Cells -> Nat]
  BY <1>1, CellIs DEF cfg_write_dword
<1>3. cfg_read_dword(c, addr) \in Nat
  <2>1. CASE addr \in {"TH_EN", "NUM_PORTS", "OTHER"}
    BY <2>1 DEF cfg_read_dword
  <2>2. CASE addr \notin {"TH_EN", "NUM_PORTS", "OTHER"}
    <3>1. cfg_read_dword(c, addr) = c[Cell(addr)]
      BY <2>2 DEF cfg_read_dword
    <3> QED BY <2>2, <3>1, CellIs
  <2> QED BY <2>1, <2>2
<1> QED BY <1>2, <1>3

\* The fields of a request.
LEMMA RequestIs ==
  ASSUME NEW r \in Request
  PROVE  /\ r.kind \in {"CfgRead", "CfgWrite", "Enum", "Bad"}
         /\ r.kind \in {"CfgRead", "CfgWrite"} => r.addr \in AllAddrs
         /\ r.kind = "CfgWrite" => r.data \in Nat
  BY LinquMsgqAssumption DEF Request

\* A request is refused and leaves the device alone, or is answered.
LEMMA ProcessIs ==
  ASSUME MsgqTypes, NEW a \in Acc, NEW id \in 1 .. Len(reqs)
  PROVE  LET p == process_sqe(a, id)
         IN  /\ p \in Acc
             /\ \/ p.m = a.m /\ ~p.ok
                \/ /\ a.ok /\ p.ok
                   /\ p.c = IF reqs[id].kind = "CfgWrite"
                            THEN cfg_write_dword(a.c, reqs[id].addr, reqs[id].data) ELSE a.c
                   /\ \E data \in Nat :
                        /\ p.m = Answered(a.m, id, data)
                        /\ reqs[id].kind = "CfgRead" =>
                             data = cfg_read_dword(a.c, reqs[id].addr)
<1> DEFINE r == reqs[id]
           p == process_sqe(a, id)
<1>1. r \in Request /\ id \in 1 .. MaxReqs
  BY LinquMsgqAssumption DEF MsgqTypes
<1>2. a.m \in Queue /\ a.c \in [Cells -> Nat] /\ a.ok \in BOOLEAN
  BY DEF Acc
<1> HIDE DEF r
<1>3. CASE ~a.ok \/ r.kind = "Bad"
  <2>1. p = [a EXCEPT !.ok = FALSE]
    BY <1>3 DEF process_sqe, r
  <2> QED BY <2>1 DEF Acc
<1>4. CASE a.ok /\ r.kind = "Enum"
  <2> DEFINE q == Answered(a.m, id, 0)
  <2>1. p = [a EXCEPT !.m = q]
    BY <1>4 DEF process_sqe, respond_enum, r
  <2>2. q \in Queue
    BY <1>1, <1>2, AnsweredIs
  <2> HIDE DEF q, p
  <2>3. p \in Acc /\ p.m = q /\ p.c = a.c /\ p.ok = a.ok
    BY <2>1, <2>2 DEF Acc
  <2> QED BY <1>4, <2>3 DEF p, q, r
<1>5. CASE a.ok /\ r.kind = "CfgRead"
  <2> DEFINE data == cfg_read_dword(a.c, r.addr)
             q    == Answered(a.m, id, data)
  <2>1. p = [a EXCEPT !.m = q]
    BY <1>5 DEF process_sqe, respond_cfg, r
  <2>2. data \in Nat
    <3>1. r.addr \in AllAddrs
      BY <1>1, <1>5, RequestIs
    <3> QED BY <1>2, <3>1, RegisterTypes
  <2> HIDE DEF data
  <2>3. q \in Queue
    BY <1>1, <1>2, <2>2, AnsweredIs
  <2> HIDE DEF q, p
  <2>4. p \in Acc /\ p.m = q /\ p.c = a.c /\ p.ok = a.ok
    BY <2>1, <2>3 DEF Acc
  <2> QED BY <1>5, <2>2, <2>4 DEF p, q, r, data
<1>6. CASE a.ok /\ r.kind = "CfgWrite"
  <2> DEFINE c == cfg_write_dword(a.c, r.addr, r.data)
             q == Answered(a.m, id, 0)
  <2>1. p = [a EXCEPT !.c = c, !.m = q]
    BY <1>6 DEF process_sqe, respond_cfg, r
  <2>2. c \in [Cells -> Nat] /\ q \in Queue
    <3>1. r.addr \in AllAddrs /\ r.data \in Nat
      BY <1>1, <1>6, RequestIs
    <3>2. c \in [Cells -> Nat]
      BY <1>2, <3>1, RegisterTypes
    <3>3. q \in Queue
      BY <1>1, <1>2, AnsweredIs
    <3> QED BY <3>2, <3>3
  <2> HIDE DEF c, q, p
  <2>3. p \in Acc /\ p.m = q /\ p.c = c /\ p.ok = a.ok
    BY <2>1, <2>2 DEF Acc
  <2> QED BY <1>6, <2>3 DEF p, q, r, c
<1> QED
  <2>1. r.kind \in {"CfgRead", "CfgWrite", "Enum", "Bad"}
    BY <1>1, RequestIs
  <2> QED BY <1>2, <1>3, <1>4, <1>5, <1>6, <2>1

\* An answer to whatever request leaves every unread completion and the
\* response it names written.
LEMMA AnsweredKeepsWritten ==
  ASSUME NEW m \in Queue, NEW id \in 1 .. MaxReqs, NEW data \in Nat, Written(m)
  PROVE  Written(Answered(m, id, data))
<1> DEFINE a   == Answered(m, id, data)
           rqe == <<[id |-> id, data |-> data]>>
           cqe == <<[id |-> id, rq_idx |-> m.rq_pi]>>
<1>1. /\ a \in Queue /\ m \in Queue
      /\ a.rq = [m.rq EXCEPT ![m.rq_pi] = rqe]
      /\ a.cq = [m.cq EXCEPT ![m.cq_pi] = cqe]
      /\ a.cq_pi = (m.cq_pi + 1) % cq_depth
      /\ a.cq_ci = m.cq_ci
  BY AnsweredIs
<1>11. rqe # <<>> /\ cqe # <<>> /\ cqe[1].rq_idx = m.rq_pi
  OBVIOUS
<1> HIDE DEF a, rqe, cqe
<1>2. SUFFICES ASSUME NEW i \in 0 .. cq_depth - 1
               PROVE  /\ a.cq[i] # <<>> => a.rq[a.cq[i][1].rq_idx] # <<>>
                      /\ Between(a.cq_ci, i, cq_depth) < Between(a.cq_ci, a.cq_pi, cq_depth) =>
                           a.cq[i] # <<>>
  BY DEF Written, a
<1>3. /\ m.rq \in [0 .. rq_depth - 1 -> RqSlot] /\ m.cq \in [0 .. cq_depth - 1 -> CqSlot]
      /\ m.rq_pi \in 0 .. rq_depth - 1 /\ m.cq_pi \in 0 .. cq_depth - 1
      /\ m.cq_ci \in 0 .. cq_depth - 1 /\ cq_depth \in Nat \ {0}
  BY LinquMsgqAssumption DEF Queue
<1>4. /\ m.cq[i] # <<>> => m.rq[m.cq[i][1].rq_idx] # <<>>
      /\ Between(m.cq_ci, i, cq_depth) < Between(m.cq_ci, m.cq_pi, cq_depth) => m.cq[i] # <<>>
  BY DEF Written
<1>5. a.cq[i] # <<>> => a.rq[a.cq[i][1].rq_idx] # <<>>
  <2>1. CASE i = m.cq_pi
    <3>1. a.cq[i] = cqe /\ a.rq[m.rq_pi] = rqe
      BY <1>1, <1>3, <2>1
    <3> QED BY <1>11, <3>1
  <2>2. CASE i # m.cq_pi
    <3>1. a.cq[i] = m.cq[i]
      BY <1>1, <1>3, <2>2
    <3>2. m.cq[i] # <<>> => m.cq[i][1].rq_idx \in 0 .. rq_depth - 1
      BY <1>3 DEF CqSlot
    <3> DEFINE j == m.cq[i][1].rq_idx
    <3> HIDE DEF j
    <3>3. j \in 0 .. rq_depth - 1 => a.rq[j] = IF j = m.rq_pi THEN rqe ELSE m.rq[j]
      BY <1>1, <1>3
    <3> QED BY <1>11, <1>4, <3>1, <3>2, <3>3 DEF j
  <2> QED BY <2>1, <2>2
<1>6. ASSUME Between(a.cq_ci, i, cq_depth) < Between(a.cq_ci, a.cq_pi, cq_depth)
      PROVE  a.cq[i] # <<>>
  <2>1. CASE i = m.cq_pi
    BY <1>1, <1>11, <1>3, <2>1
  <2>2. CASE i # m.cq_pi
    <3>1. a.cq[i] = m.cq[i]
      BY <1>1, <1>3, <2>2
    <3> DEFINE ci == m.cq_ci
               pi == m.cq_pi
               qi == a.cq_pi
    <3>2. qi = IF pi + 1 = cq_depth THEN 0 ELSE pi + 1
      <4>1. (pi + 1) % cq_depth = IF pi + 1 = cq_depth THEN 0 ELSE pi + 1
        BY <1>3, NextIs
      <4> QED BY <1>1, <4>1
    <3>3. /\ ci \in 0 .. cq_depth - 1 /\ pi \in 0 .. cq_depth - 1 /\ cq_depth \in Nat \ {0}
          /\ Between(ci, i, cq_depth) < Between(ci, qi, cq_depth) /\ i # pi
      BY <1>1, <1>3, <1>6, <2>2
    <3> HIDE DEF ci, pi, qi
    <3>4. qi \in 0 .. cq_depth - 1
      BY <3>2, <3>3
    <3>5. Between(ci, i, cq_depth) = IF i >= ci THEN i - ci ELSE i - ci + cq_depth
      BY <3>3, BetweenIs
    <3>6. Between(ci, pi, cq_depth) = IF pi >= ci THEN pi - ci ELSE pi - ci + cq_depth
      BY <3>3, BetweenIs
    <3>7. Between(ci, qi, cq_depth) = IF qi >= ci THEN qi - ci ELSE qi - ci + cq_depth
      BY <3>3, <3>4, BetweenIs
    <3>8. Between(ci, i, cq_depth) < Between(ci, pi, cq_depth)
      BY <3>2, <3>3, <3>5, <3>6, <3>7
    <3> QED BY <1>4, <3>1, <3>8 DEF ci, pi
  <2> QED BY <2>1, <2>2
<1> QED BY <1>5, <1>6

-----------------------------------------------------------------------------
(* The registers against the reference *)

\* An element that no other exceeds is the maximum.
LEMMA MaxIs ==
  ASSUME NEW S \in SUBSET Int, NEW x \in S, \A y \in S : x >= y
  PROVE  Max(S) = x
<1>1. Max(S) \in S /\ \A y \in S : Max(S) >= y
  BY Zenon DEF Max
<1>2. Max(S) >= x /\ x >= Max(S) /\ Max(S) \in Int
  BY <1>1
<1> QED BY <1>2

\* A set of numbers up to n that is not empty has a maximum.
LEMMA MaxExists ==
  ASSUME NEW n \in Nat, NEW S \in SUBSET (1 .. n), S # {}
  PROVE  Max(S) \in S
<1> DEFINE T == {j \in 0 .. n : n - j \in S}
<1>1. T \in SUBSET Nat /\ T # {}
  <2>1. PICK y \in S : TRUE
    OBVIOUS
  <2>2. n - y \in T
    <3>1. y \in 1 .. n /\ n - (n - y) = y /\ n - y \in 0 .. n
      OBVIOUS
    <3>2. n - (n - y) \in S
      BY <3>1, Zenon
    <3> QED BY <3>1, <3>2, Zenon
  <2>3. T \in SUBSET Nat
    OBVIOUS
  <2> HIDE DEF T
  <2> QED BY <2>2, <2>3
<1>2. PICK j \in T : \A i \in T : j <= i
  BY <1>1, LeastElement
<1>3. n - j \in S /\ n - j \in Int
  BY <1>2
<1>4. ASSUME NEW y \in S PROVE n - j >= y
  <2>1. y \in 1 .. n /\ n - (n - y) = y /\ n - y \in 0 .. n
    OBVIOUS
  <2>2. n - (n - y) \in S
    BY <2>1, Zenon
  <2>3. n - y \in T
    BY <2>1, <2>2, Zenon
  <2> QED BY <1>2, <2>1, <2>3
<1>5. S \in SUBSET Int
  OBVIOUS
<1>6. Max(S) = n - j
  BY <1>3, <1>4, <1>5, MaxIs
<1> QED BY <1>3, <1>6

\* Only the first n requests matter.
LEMMA ReferenceExtends ==
  ASSUME NEW rs, NEW ss, NEW n \in Nat, \A i \in 1 .. n : rs[i] = ss[i], NEW addr
  PROVE  Reference(rs, addr, n) = Reference(ss, addr, n)
<1> DEFINE W(qs) == {i \in 1 .. n : qs[i].kind = "CfgWrite" /\ SameWord(addr, qs[i].addr)}
<1>1. W(rs) = W(ss)
  OBVIOUS
<1>2. W(rs) # {} => rs[Max(W(rs))].data = ss[Max(W(ss))].data
  <2> SUFFICES ASSUME W(rs) # {} PROVE rs[Max(W(rs))].data = ss[Max(W(ss))].data
    OBVIOUS
  <2>1. W(rs) \in SUBSET (1 .. n)
    OBVIOUS
  <2> HIDE DEF W
  <2>2. Max(W(rs)) \in 1 .. n
    BY <2>1, MaxExists
  <2> QED BY <1>1, <2>2
<1> QED BY <1>1, <1>2 DEF Reference

\* What a write leaves in a register of its own.
Stored(addr, data) == IF addr = "UPI" THEN data % UpiSize ELSE data

\* The last request decides, if it is a write to the register.
LEMMA ReferenceNext ==
  ASSUME NEW rs, NEW n \in Nat, NEW addr
  PROVE  Reference(rs, addr, n + 1) =
           IF rs[n + 1].kind = "CfgWrite" /\ SameWord(addr, rs[n + 1].addr)
           THEN Stored(addr, rs[n + 1].data) ELSE Reference(rs, addr, n)
<1> DEFINE W(j) == {i \in 1 .. j : rs[i].kind = "CfgWrite" /\ SameWord(addr, rs[i].addr)}
<1>1. CASE rs[n + 1].kind = "CfgWrite" /\ SameWord(addr, rs[n + 1].addr)
  <2>1. n + 1 \in W(n + 1) /\ \A y \in W(n + 1) : n + 1 >= y
    BY <1>1
  <2>2. W(n + 1) \in SUBSET Int
    OBVIOUS
  <2>3. Reference(rs, addr, n + 1) =
          CASE W(n + 1) = {}                   -> 0
            [] W(n + 1) # {} /\ addr = "UPI" -> rs[Max(W(n + 1))].data % UpiSize
            [] OTHER                           -> rs[Max(W(n + 1))].data
    BY DEF Reference
  <2> HIDE DEF W
  <2>4. Max(W(n + 1)) = n + 1
    BY <2>1, <2>2, MaxIs
  <2> QED BY <1>1, <2>1, <2>3, <2>4 DEF Stored
<1>2. CASE ~(rs[n + 1].kind = "CfgWrite" /\ SameWord(addr, rs[n + 1].addr))
  <2>1. 1 .. n + 1 = 1 .. n \cup {n + 1}
    OBVIOUS
  <2>2. W(n + 1) = W(n)
    BY <1>2, <2>1
  <2>3. Reference(rs, addr, n + 1) = Reference(rs, addr, n)
    BY <2>2 DEF Reference
  <2> QED BY <1>2, <2>3
<1> QED BY <1>1, <1>2

\* Two names of one word, in the code and in the reference.
LEMMA WriteIs ==
  ASSUME NEW c \in [Cells -> Nat], NEW a \in Readable, NEW addr \in AllAddrs, NEW data \in Nat
  PROVE  cfg_write_dword(c, addr, data)[Cell(a)] =
           IF SameWord(a, addr) THEN Stored(a, data) ELSE c[Cell(a)]
<1>1. SameWord(a, addr) <=> Cell(a) = Cell(addr)
  BY DEF SameWord, Cell, Readable, AllAddrs
<1>2. Cell(a) \in Cells /\ Cell(addr) \in Cells \cup {"none"} /\ "none" \notin Cells
  BY CellIs DEF Readable, AllAddrs, Cells
<1>3. CASE Cell(a) = Cell(addr)
  <2>1. Kept(Cell(a), data) = Stored(a, data)
    BY DEF Kept, Stored, Cell, Readable
  <2> QED BY <1>1, <1>2, <1>3, <2>1 DEF cfg_write_dword
<1>4. CASE Cell(a) # Cell(addr)
  BY <1>1, <1>2, <1>4 DEF cfg_write_dword
<1> QED BY <1>3, <1>4

\* A read of a register that keeps a value returns its cell.
LEMMA ReadIs ==
  ASSUME NEW c, NEW a \in Readable
  PROVE  cfg_read_dword(c, a) = c[Cell(a)]
  BY DEF cfg_read_dword, Readable

-----------------------------------------------------------------------------
(* The rings after one more answer *)

\* The numbers of requests posted and responses taken.
LEMMA Counts ==
  ASSUME MsgqTypes
  PROVE  /\ Len(reqs) \in Nat /\ base \in Nat /\ Posted \in Nat /\ Taken \in Nat
         /\ base + Posted = Len(reqs) /\ Posted <= MaxReqs
<1>1. reqs \in Seq(Request) /\ drv.got \in Seq(Response) /\ base \in 0 .. Len(reqs)
      /\ Len(reqs) <= MaxReqs
  BY DEF MsgqTypes
<1>2. Len(reqs) \in Nat /\ Len(drv.got) \in Nat
  BY <1>1, LenProperties
<1> QED BY <1>1, <1>2, LinquMsgqAssumption DEF Posted, Taken

\* The data of an answer, and the registers after it.
LEMMA AnswerIsRight ==
  ASSUME MsgqTypes, NEW a \in Acc, NEW n \in Nat, n < Posted, rsts = 0,
         \A r \in Readable : a.c[Cell(r)] = Reference(reqs, r, n)
  PROVE  LET id == base + n + 1
             p  == process_sqe(a, id)
         IN  p.ok =>
               /\ \A r \in Readable : p.c[Cell(r)] = Reference(reqs, r, n + 1)
               /\ \A data : data = cfg_read_dword(a.c, reqs[id].addr) => Right(id, data)
<1> DEFINE id == base + n + 1
           p  == process_sqe(a, id)
<1>1. base = 0 /\ id = n + 1 /\ id - 1 = n /\ id \in 1 .. Len(reqs)
  BY Counts DEF MsgqTypes
<1>2. reqs[id] \in Request /\ a.c \in [Cells -> Nat]
  BY <1>1 DEF MsgqTypes, Acc
<1> HIDE DEF id, p
<1>3. ASSUME NEW r \in Readable, p.ok PROVE p.c[Cell(r)] = Reference(reqs, r, n + 1)
  <2>1. p.c = IF reqs[id].kind = "CfgWrite"
              THEN cfg_write_dword(a.c, reqs[id].addr, reqs[id].data) ELSE a.c
    BY <1>1, <1>3, ProcessIs DEF p
  <2>2. Reference(reqs, r, n + 1) =
           IF reqs[id].kind = "CfgWrite" /\ SameWord(r, reqs[id].addr)
           THEN Stored(r, reqs[id].data) ELSE a.c[Cell(r)]
    BY <1>1, ReferenceNext
  <2>3. CASE reqs[id].kind = "CfgWrite"
    <3>1. reqs[id].addr \in AllAddrs /\ reqs[id].data \in Nat
      BY <1>2, <2>3, RequestIs
    <3>2. p.c[Cell(r)] = IF SameWord(r, reqs[id].addr) THEN Stored(r, reqs[id].data)
                         ELSE a.c[Cell(r)]
      BY <1>2, <2>1, <2>3, <3>1, WriteIs
    <3> QED BY <2>2, <2>3, <3>2
  <2>4. CASE reqs[id].kind # "CfgWrite"
    BY <2>1, <2>2, <2>4
  <2> QED BY <2>3, <2>4
<1>4. ASSUME NEW data, data = cfg_read_dword(a.c, reqs[id].addr) PROVE Right(id, data)
  <2> SUFFICES ASSUME reqs[id].addr \in Readable
               PROVE  data = Reference(reqs, reqs[id].addr, id - 1)
    BY DEF Right, RightFor
  <2>1. data = a.c[Cell(reqs[id].addr)]
    BY <1>4, ReadIs
  <2> QED BY <1>1, <2>1
<1> QED BY <1>3, <1>4 DEF p, id

\* One request answered: its completion and response come next to the ones
\* the driver has not taken and overwrite none of them.
LEMMA AnswerKeepsRings ==
  ASSUME MsgqTypes, TakenInOrder, NEW a \in Acc, NEW n \in Nat, n < Posted,
         AnswerRings(a.m, a.c, n), process_sqe(a, base + n + 1).ok
  PROVE  LET p == process_sqe(a, base + n + 1) IN AnswerRings(p.m, p.c, n + 1)
<1> DEFINE id == base + n + 1
           p  == process_sqe(a, id)
           m  == a.m
<1>1. /\ id \in 1 .. Len(reqs) /\ id \in 1 .. MaxReqs /\ Taken \in Nat /\ base \in Nat
      /\ Taken <= n /\ n - Taken < rq_depth /\ n - Taken < cq_depth
  <2>1. Taken <= n /\ Posted - Taken <= rq_depth /\ Posted - Taken < cq_depth
    BY DEF TakenInOrder, AnswerRings
  <2>2. Len(reqs) <= MaxReqs
    BY DEF MsgqTypes
  <2> QED BY <2>1, <2>2, Counts, LinquMsgqAssumption
<1>2. m \in Queue /\ m.rq \in [0 .. rq_depth - 1 -> RqSlot]
      /\ m.cq \in [0 .. cq_depth - 1 -> CqSlot]
      /\ rq_depth \in Nat \ {0} /\ cq_depth \in Nat \ {0}
  BY LinquMsgqAssumption DEF Acc, Queue
<1>3. /\ m.cq_ci = Taken % cq_depth /\ m.cq_pi = n % cq_depth /\ m.rq_pi = n % rq_depth
      /\ \A k \in Taken + 1 .. n :
           /\ m.cq[(k - 1) % cq_depth] = <<[id |-> base + k, rq_idx |-> (k - 1) % rq_depth]>>
           /\ m.rq[(k - 1) % rq_depth] # <<>>
           /\ m.rq[(k - 1) % rq_depth][1].id = base + k
           /\ Right(base + k, m.rq[(k - 1) % rq_depth][1].data)
      /\ rsts = 0 => \A r \in Readable : a.c[Cell(r)] = Reference(reqs, r, n)
  BY DEF AnswerRings
<1>4. PICK data \in Nat :
        /\ p.m = Answered(m, id, data)
        /\ reqs[id].kind = "CfgRead" => data = cfg_read_dword(a.c, reqs[id].addr)
  BY <1>1, ProcessIs
<1>5. Right(id, data)
  BY <1>3, <1>4, AnswerIsRight DEF Right, RightFor
<1>6. rsts = 0 => \A r \in Readable : p.c[Cell(r)] = Reference(reqs, r, n + 1)
  BY <1>3, AnswerIsRight
<1> DEFINE rqe == <<[id |-> id, data |-> data]>>
           cqe == <<[id |-> id, rq_idx |-> m.rq_pi]>>
           q   == p.m
<1>7. /\ q.rq = [m.rq EXCEPT ![m.rq_pi] = rqe] /\ q.cq = [m.cq EXCEPT ![m.cq_pi] = cqe]
      /\ q.rq_pi = (m.rq_pi + 1) % rq_depth /\ q.cq_pi = (m.cq_pi + 1) % cq_depth
      /\ q.cq_ci = m.cq_ci
  <2> HIDE DEF id, p, m
  <2>1. LET x == Answered(m, id, data)
        IN  /\ x.rq = [m.rq EXCEPT ![m.rq_pi] = rqe] /\ x.cq = [m.cq EXCEPT ![m.cq_pi] = cqe]
            /\ x.rq_pi = (m.rq_pi + 1) % rq_depth /\ x.cq_pi = (m.cq_pi + 1) % cq_depth
            /\ x.cq_ci = m.cq_ci
    <3>1. m \in Queue /\ id \in 1 .. MaxReqs /\ data \in Nat
      BY <1>1, <1>2
    <3> QED BY <3>1, AnsweredIs
  <2> QED BY <1>4, <2>1, Zenon
<1>8. rqe # <<>> /\ rqe[1].id = id /\ rqe[1].data = data
  OBVIOUS
<1>9. q.cq_pi = (n + 1) % cq_depth /\ q.rq_pi = (n + 1) % rq_depth
  <2>0. n \in Int
    OBVIOUS
  <2>1. ((n % cq_depth) + 1) % cq_depth = (n + 1) % cq_depth
    BY <1>2, <2>0, ModNext, Zenon
  <2>2. ((n % rq_depth) + 1) % rq_depth = (n + 1) % rq_depth
    BY <1>2, <2>0, ModNext, Zenon
  <2> QED BY <1>3, <1>7, <2>1, <2>2, Zenon
<1>10. n % cq_depth \in 0 .. cq_depth - 1 /\ n % rq_depth \in 0 .. rq_depth - 1
  BY <1>2
<1> HIDE DEF id, p, m, rqe, q
<1>11. ASSUME NEW k \in Taken + 1 .. n + 1
       PROVE  LET e == q.rq[(k - 1) % rq_depth]
              IN  /\ q.cq[(k - 1) % cq_depth]
                       = <<[id |-> base + k, rq_idx |-> (k - 1) % rq_depth]>>
                  /\ e # <<>> /\ e[1].id = base + k /\ Right(base + k, e[1].data)
  <2>1. CASE k = n + 1
    <3>1. k - 1 = n /\ base + k = id
      BY <1>1, <2>1 DEF id
    <3>2. cqe = <<[id |-> base + k, rq_idx |-> (k - 1) % rq_depth]>>
      BY <1>3, <3>1, Zenon
    <3> HIDE DEF cqe
    <3>3. q.cq[m.cq_pi] = cqe /\ q.rq[m.rq_pi] = rqe
      BY <1>2, <1>3, <1>7, <1>10
    <3>4. m.cq_pi = (k - 1) % cq_depth /\ m.rq_pi = (k - 1) % rq_depth
      BY <1>3, <3>1, Zenon
    <3> QED BY <1>5, <1>8, <3>1, <3>2, <3>3, <3>4, Zenon
  <2>2. CASE k \in Taken + 1 .. n
    <3> HIDE DEF cqe
    <3> DEFINE i == (k - 1) % cq_depth
               j == (k - 1) % rq_depth
    <3>1. k - 1 \in Int /\ k - 1 < n /\ n - (k - 1) < cq_depth /\ n - (k - 1) < rq_depth
          /\ n \in Int
      BY <1>1, <1>2, <2>2
    <3>2. i \in 0 .. cq_depth - 1 /\ j \in 0 .. rq_depth - 1
      BY <1>2, <3>1
    <3>3. i # m.cq_pi /\ j # m.rq_pi
      BY <1>2, <1>3, <3>1, ModDistinct
    <3>4. /\ m.cq[i] = <<[id |-> base + k, rq_idx |-> j]>>
          /\ m.rq[j] # <<>> /\ m.rq[j][1].id = base + k /\ Right(base + k, m.rq[j][1].data)
      BY <1>3, <2>2
    <3> HIDE DEF i, j
    <3>5. q.cq[i] = m.cq[i] /\ q.rq[j] = m.rq[j]
      BY <1>2, <1>7, <3>2, <3>3
    <3>6. /\ q.cq[i] = <<[id |-> base + k, rq_idx |-> j]>>
          /\ q.rq[j] # <<>> /\ q.rq[j][1].id = base + k /\ Right(base + k, q.rq[j][1].data)
      BY <3>4, <3>5, Zenon
    <3> QED BY <3>6 DEF i, j
  <2> QED BY <1>1, <2>1, <2>2
<1>12. Taken <= n + 1
  BY <1>1
<1>13. AnswerRings(q, p.c, n + 1)
  BY <1>3, <1>6, <1>7, <1>9, <1>11, <1>12, Zenon DEF AnswerRings
<1> QED BY <1>13 DEF q, p, id

-----------------------------------------------------------------------------
(* A write of SQ_PI *)

\* The device within the loop, after k requests more than the n before it.
InLoop(a, n, k) ==
  /\ a \in Acc
  /\ Written(a.m)
  /\ a.m.sq = msgq.sq /\ a.m.sq_ci = msgq.sq_ci
  /\ TakenInOrder /\ AnswerRings(msgq, cfg, n) /\ a.ok => AnswerRings(a.m, a.c, n + k)

\* One turn of the loop in linqu_ub_msgq_ring_sq: one request more is answered.
LEMMA LoopStep ==
  ASSUME MsgqTypes, NEW n \in Nat, NEW k \in Nat, n + k < Posted, NEW a, InLoop(a, n, k)
  PROVE  InLoop(process_sqe(a, base + n + k + 1), n, k + 1)
<1> DEFINE id == base + n + k + 1
           p  == process_sqe(a, id)
<1>1. a \in Acc /\ a.m \in Queue
  BY DEF InLoop, Acc
<1>2. id \in 1 .. Len(reqs) /\ id \in 1 .. MaxReqs /\ n + k \in Nat
      /\ id = base + (n + k) + 1 /\ n + (k + 1) = (n + k) + 1
  BY Counts, LinquMsgqAssumption DEF MsgqTypes
<1> HIDE DEF id
<1>3. p \in Acc /\ \/ p.m = a.m /\ ~p.ok
                   \/ a.ok /\ p.ok /\ \E data \in Nat : p.m = Answered(a.m, id, data)
  BY <1>1, <1>2, ProcessIs
<1> HIDE DEF p
<1>4. CASE p.m = a.m /\ ~p.ok
  BY <1>3, <1>4 DEF InLoop, p, id
<1>5. CASE a.ok /\ p.ok /\ \E data \in Nat : p.m = Answered(a.m, id, data)
  <2>1. PICK data \in Nat : p.m = Answered(a.m, id, data)
    BY <1>5
  <2>2. Written(p.m)
    BY <1>1, <1>2, <2>1, AnsweredKeepsWritten DEF InLoop
  <2>3. p.m.sq = msgq.sq /\ p.m.sq_ci = msgq.sq_ci
    <3> DEFINE q == a.m
    <3>1. q \in Queue /\ id \in 1 .. MaxReqs /\ q.sq = msgq.sq /\ q.sq_ci = msgq.sq_ci
          /\ p.m = Answered(q, id, data)
      BY <1>1, <1>2, <2>1 DEF InLoop
    <3> HIDE DEF q
    <3>2. Answered(q, id, data).sq = q.sq /\ Answered(q, id, data).sq_ci = q.sq_ci
      BY <3>1, AnsweredIs
    <3> QED BY <3>1, <3>2, Zenon
  <2>4. ASSUME TakenInOrder, AnswerRings(msgq, cfg, n)
        PROVE  AnswerRings(p.m, p.c, n + (k + 1))
    <3>1. AnswerRings(a.m, a.c, n + k)
      BY <1>5, <2>4 DEF InLoop
    <3> DEFINE j == n + k
    <3>2. j \in Nat /\ j < Posted /\ AnswerRings(a.m, a.c, j) /\ p = process_sqe(a, base + j + 1)
          /\ n + (k + 1) = j + 1
      BY <1>2, <3>1 DEF p
    <3> HIDE DEF j
    <3>3. process_sqe(a, base + j + 1).ok
      BY <1>5, <3>2, Zenon
    <3>4. AnswerRings(p.m, p.c, j + 1)
      BY <1>1, <2>4, <3>2, <3>3, AnswerKeepsRings, Zenon
    <3> QED BY <3>2, <3>4, Zenon
  <2> QED BY <1>3, <2>2, <2>3, <2>4, Zenon DEF InLoop, p, id
<1> QED BY <1>3, <1>4, <1>5

\* The whole loop: what was posted is answered, or the device has refused one.
LEMMA LoopResult ==
  ASSUME MsgqTypes, Written(msgq), NEW n \in Nat, SendRing(n), NEW m,
         m = [msgq EXCEPT !.sq_pi = drv.tail]
  PROVE  /\ Between(m.sq_ci, drv.tail, sq_depth) = Posted - n
         /\ InLoop(Handled(m, Posted - n), n, Posted - n)
<1>1. /\ Posted \in Nat /\ n <= Posted /\ Posted - n < sq_depth /\ sq_depth \in Nat \ {0}
      /\ Posted - n \in Nat /\ msgq.sq_ci = n % sq_depth /\ drv.tail = Posted % sq_depth
      /\ \A k \in n + 1 .. Posted : msgq.sq[(k - 1) % sq_depth] = base + k
      /\ drv.tail \in 0 .. sq_depth - 1
  <2>1. /\ n <= Posted /\ Posted - n < sq_depth
        /\ msgq.sq_ci = n % sq_depth /\ drv.tail = Posted % sq_depth
        /\ \A k \in n + 1 .. Posted : msgq.sq[(k - 1) % sq_depth] = base + k
    BY DEF SendRing
  <2>2. Posted \in Nat /\ sq_depth \in Nat \ {0}
    BY Counts, LinquMsgqAssumption
  <2>3. Posted - n \in Nat
    BY <2>1, <2>2
  <2>4. drv.tail \in 0 .. sq_depth - 1
    BY DEF MsgqTypes
  <2> QED BY <2>1, <2>2, <2>3, <2>4
<1>2. /\ m \in Queue /\ m.sq = msgq.sq /\ m.sq_ci = msgq.sq_ci
      /\ m.rq = msgq.rq /\ m.rq_pi = msgq.rq_pi
      /\ m.cq = msgq.cq /\ m.cq_pi = msgq.cq_pi /\ m.cq_ci = msgq.cq_ci
  <2>1. msgq \in Queue
    BY DEF MsgqTypes
  <2> QED BY <1>1, <2>1 DEF Queue
<1>3. Between(m.sq_ci, drv.tail, sq_depth) = Posted - n
  <2>1. n \in Int /\ Posted \in Int
    BY <1>1
  <2> QED BY <1>1, <1>2, <2>1, BetweenMod, Zenon
<1> DEFINE len == Posted - n
<1>4. len \in Nat
  BY <1>1
<1>5. PICK acc : LoopOver(acc, m, len) /\ Handled(m, len) = acc[len]
  BY <1>4, HandledIs
<1>6. InLoop(acc[0], n, 0)
  <2> DEFINE a == [m |-> m, c |-> cfg, ok |-> TRUE]
  <2>1. acc[0] = a
    BY <1>4, <1>5 DEF LoopOver
  <2>2. a \in Acc /\ a.m = m /\ a.c = cfg
    BY <1>2 DEF Acc, MsgqTypes
  <2>3. Written(m)
    BY <1>2 DEF Written
  <2>4. AnswerRings(msgq, cfg, n) => AnswerRings(m, cfg, n)
    BY <1>2 DEF AnswerRings
  <2>5. n + 0 = n
    OBVIOUS
  <2> HIDE DEF a
  <2> QED BY <1>2, <2>1, <2>2, <2>3, <2>4, <2>5, Zenon DEF InLoop
<1>7. ASSUME NEW k \in 0 .. len, k < len, InLoop(acc[k], n, k)
      PROVE  InLoop(acc[k + 1], n, k + 1)
  <2> DEFINE j == n + k + 1
  <2>1. /\ k \in Nat /\ k + 1 \in 0 .. len /\ k + 1 # 0 /\ n + k < Posted
        /\ j \in n + 1 .. Posted /\ n + k = j - 1 /\ k + 1 - 1 = k
        /\ base + j = base + n + k + 1
    <3>1. Posted \in Nat /\ base \in Nat
      BY Counts
    <3> QED BY <1>1, <1>7, <3>1
  <2> HIDE DEF j
  <2>2. acc[k + 1] = process_sqe(acc[k + 1 - 1], m.sq[(m.sq_ci + (k + 1) - 1) % sq_depth])
    <3> HIDE DEF len
    <3>1. \A i \in 0 .. len :
            i # 0 => acc[i] = process_sqe(acc[i - 1], m.sq[(m.sq_ci + i - 1) % sq_depth])
      BY <1>5 DEF LoopOver
    <3> DEFINE i == k + 1
    <3>2. i \in 0 .. len /\ i # 0
      BY <2>1
    <3> HIDE DEF i
    <3>3. acc[i] = process_sqe(acc[i - 1], m.sq[(m.sq_ci + i - 1) % sq_depth])
      BY <3>1, <3>2, Zenon
    <3> QED BY <3>3 DEF i
  <2>3. ((n % sq_depth) + k) % sq_depth = (n + k) % sq_depth
    <3>1. n \in Int /\ k \in Int
      BY <2>1
    <3> QED BY <1>1, <3>1, ModPlus, Zenon
  <2>4. m.sq_ci + (k + 1) - 1 = (n % sq_depth) + k
    <3>1. n % sq_depth \in Int /\ m.sq_ci = n % sq_depth
      BY <1>1, <1>2
    <3> DEFINE x == m.sq_ci
    <3> HIDE DEF x
    <3>2. x \in Int => x + (k + 1) - 1 = x + k
      BY <2>1
    <3> QED BY <3>1, <3>2, Zenon DEF x
  <2>5. msgq.sq[(j - 1) % sq_depth] = base + j
    BY <1>1, <2>1, Zenon
  <2>6. acc[k + 1] = process_sqe(acc[k], base + n + k + 1)
    BY <1>2, <2>1, <2>2, <2>3, <2>4, <2>5, Zenon
  <2>7. InLoop(process_sqe(acc[k], base + n + k + 1), n, k + 1)
    BY <1>7, <2>1, LoopStep, Zenon
  <2> QED BY <2>6, <2>7, Zenon
<1>8. InLoop(acc[len], n, len)
  <2> DEFINE T == {k \in 0 .. len : ~InLoop(acc[k], n, k)}
  <2> HIDE DEF len
  <2> SUFFICES ASSUME T # {} PROVE FALSE
    BY <1>4
  <2>1. PICK k \in T : \A i \in T : k <= i
    <3>1. T \in SUBSET Nat
      BY <1>4
    <3> HIDE DEF T
    <3> QED BY <3>1, LeastElement
  <2>2. k \in 0 .. len /\ ~InLoop(acc[k], n, k) /\ k # 0
    BY <1>6, <2>1
  <2>3. k - 1 \in 0 .. len /\ k - 1 < len /\ k - 1 + 1 = k /\ ~(k <= k - 1)
    BY <1>4, <2>2
  <2>4. InLoop(acc[k - 1], n, k - 1)
    BY <2>1, <2>3, Zenon
  <2>5. InLoop(acc[k - 1 + 1], n, k - 1 + 1)
    BY <1>7, <2>3, <2>4, Zenon
  <2> QED BY <2>2, <2>3, <2>5, Zenon
<1> QED BY <1>3, <1>5, <1>8, Zenon

-----------------------------------------------------------------------------
(* Every step keeps the invariant *)

\* An empty ring at position zero has no entry.
LEMMA ZeroIs ==
  /\ \A d \in Nat \ {0} : 0 % d = 0 /\ Between(0, 0, d) = 0
  /\ \A d \in Nat \ {0} : \A i \in 0 .. d - 1 : ~(Between(0, i, d) < Between(0, 0, d))
<1>1. ASSUME NEW d \in Nat \ {0} PROVE 0 % d = 0 /\ Between(0, 0, d) = 0
  <2>1. 0 = d * 0 + 0 /\ 0 \in 0 .. d - 1
    OBVIOUS
  <2>2. 0 % d = 0
    BY <2>1, ModUnique
  <2> QED BY <2>1, <2>2, BetweenIs
<1>2. ASSUME NEW d \in Nat \ {0}, NEW i \in 0 .. d - 1
      PROVE  ~(Between(0, i, d) < Between(0, 0, d))
  <2>1. Between(0, 0, d) = 0
    BY <1>1
  <2>2. Between(0, i, d) = i
    BY BetweenIs
  <2> QED BY <2>1, <2>2
<1> QED BY <1>1, <1>2

\* The device is realized with MsgqInv: no request, all rings empty.
LEMMA InitMsgqInv == MsgqInit => MsgqInv
<1> SUFFICES ASSUME MsgqInit PROVE MsgqInv
  OBVIOUS
<1>1. /\ sq_depth \in Nat \ {0} /\ rq_depth \in Nat \ {0} /\ cq_depth \in Nat \ {0}
      /\ MaxReqs \in Nat
  BY LinquMsgqAssumption
<1>2. msgq \in Queue
  BY <1>1 DEF MsgqInit, Queue, RqSlot, CqSlot
<1>3. reqs = <<>> /\ drv = [tail |-> 0, got |-> <<>>] /\ fails = 0 /\ rsts = 0 /\ base = 0
      /\ line = FALSE /\ cfg = [c \in Cells |-> 0]
  BY DEF MsgqInit
<1>4. MsgqTypes
  <2>1. reqs \in Seq(Request) /\ Len(reqs) = 0 /\ drv.got \in Seq(Response)
    BY <1>3, EmptySeq
  <2>2. drv \in [tail : 0 .. sq_depth - 1, got : Seq(Response)]
    BY <1>1, <1>3, <2>1
  <2>3. cfg \in [Cells -> Nat] /\ line \in BOOLEAN
    BY <1>3
  <2>4. base \in 0 .. Len(reqs) /\ Len(reqs) <= MaxReqs /\ fails \in Nat /\ rsts \in Nat
    BY <1>1, <1>3, <2>1
  <2> QED BY <1>2, <1>3, <2>1, <2>2, <2>3, <2>4 DEF MsgqTypes
<1>5. /\ msgq.sq_ci = 0 /\ msgq.cq_ci = 0 /\ msgq.cq_pi = 0 /\ msgq.rq_pi = 0
      /\ msgq.int_ro = 0 /\ msgq.cq = [i \in 0 .. cq_depth - 1 |-> <<>>]
  BY DEF MsgqInit
<1>6. LineFollowsInt
  BY <1>3, <1>5 DEF LineFollowsInt, has_pending_irq
<1>7. Written(msgq)
  BY <1>1, <1>5, ZeroIs DEF Written
<1>8. Posted = 0 /\ Taken = 0
  BY <1>3 DEF Posted, Taken
<1>9. SendRing(0)
  BY <1>1, <1>3, <1>5, <1>8, ZeroIs DEF SendRing
<1>10. TakenInOrder
  BY <1>1, <1>8, LinquMsgqAssumption DEF TakenInOrder
<1>11. AnswerRings(msgq, cfg, 0)
  <2>1. ASSUME NEW a \in Readable PROVE cfg[Cell(a)] = Reference(reqs, a, 0)
    <3>1. Cell(a) \in Cells
      BY CellIs DEF Readable, AllAddrs
    <3>2. Reference(reqs, a, 0) = 0
      BY DEF Reference
    <3> QED BY <1>3, <3>1, <3>2
  <2>2. msgq.cq_ci = Taken % cq_depth /\ msgq.cq_pi = 0 % cq_depth /\ msgq.rq_pi = 0 % rq_depth
    BY <1>1, <1>5, <1>8, ZeroIs
  <2> QED BY <1>8, <2>1, <2>2 DEF AnswerRings
<1>12. 0 \in 0 .. MaxReqs
  BY <1>1
<1> QED BY <1>4, <1>6, <1>7, <1>9, <1>10, <1>11, <1>12 DEF MsgqInv

\* A write of a register that leaves the rings and their positions alone.
SameRings ==
  /\ msgq'.sq = msgq.sq /\ msgq'.sq_ci = msgq.sq_ci
  /\ msgq'.rq = msgq.rq /\ msgq'.rq_pi = msgq.rq_pi
  /\ msgq'.cq = msgq.cq /\ msgq'.cq_pi = msgq.cq_pi /\ msgq'.cq_ci = msgq.cq_ci

\* A step that leaves the rings alone keeps MsgqInv.
LEMMA QuietKeepsInv ==
  ASSUME MsgqInv, SameRings, msgq' \in Queue, LineFollowsInt',
         UNCHANGED <<cfg, reqs, drv, fails, rsts, base>>
  PROVE  MsgqInv'
<1>1. MsgqTypes'
  BY DEF MsgqInv, MsgqTypes, LineFollowsInt, has_pending_irq
<1>2. Written(msgq)'
  BY DEF MsgqInv, Written, SameRings
<1>3. PICK n \in 0 .. MaxReqs :
        SendRing(n) /\ (fails = 0 => TakenInOrder /\ AnswerRings(msgq, cfg, n))
  BY DEF MsgqInv
<1>4. SendRing(n)'
  BY <1>3 DEF SendRing, SameRings, Posted
<1>5. fails = 0 => TakenInOrder'
  BY <1>3 DEF TakenInOrder, Posted, Taken, Right
<1>6. fails = 0 => AnswerRings(msgq, cfg, n)'
  BY <1>3 DEF AnswerRings, SameRings, Taken, Right
<1> QED BY <1>1, <1>2, <1>3, <1>4, <1>5, <1>6 DEF MsgqInv

\* Acknowledging the interrupt keeps MsgqInv.
LEMMA AckKeepsInv == MsgqInv /\ AckInt => MsgqInv'
<1> SUFFICES ASSUME MsgqInv, AckInt PROVE MsgqInv'
  OBVIOUS
<1>1. msgq \in Queue
  BY DEF MsgqInv, MsgqTypes
<1>2. msgq' = [msgq EXCEPT !.int_status = 0, !.int_ro = 0]
  BY DEF AckInt, Sets
<1>3. msgq' \in Queue /\ SameRings
  BY <1>1, <1>2 DEF Queue, SameRings
<1>4. LineFollowsInt' /\ UNCHANGED <<cfg, reqs, drv, fails, rsts, base>>
  BY DEF AckInt, Sets, LineFollowsInt, has_pending_irq
<1> QED BY <1>3, <1>4, QuietKeepsInv

\* Masking and unmasking the interrupt keeps MsgqInv.
LEMMA MaskKeepsInv == MsgqInv /\ (\E b \in {0, 1} : Mask(b)) => MsgqInv'
<1> SUFFICES ASSUME MsgqInv, NEW b \in {0, 1}, Mask(b) PROVE MsgqInv'
  OBVIOUS
<1>1. msgq \in Queue
  BY DEF MsgqInv, MsgqTypes
<1>2. msgq' = [msgq EXCEPT !.int_mask = b]
  BY DEF Mask, Sets
<1>3. msgq' \in Queue /\ SameRings
  BY <1>1, <1>2 DEF Queue, SameRings
<1>4. LineFollowsInt' /\ UNCHANGED <<cfg, reqs, drv, fails, rsts, base>>
  BY DEF Mask, Sets, LineFollowsInt, has_pending_irq
<1> QED BY <1>3, <1>4, QuietKeepsInv

\* What linqu_ub_msgq_reset makes of the queue.
LEMMA ResetIs ==
  ASSUME NEW m \in Queue
  PROVE  LET z == ResetQueue(m)
         IN  /\ z \in Queue /\ z.sq_ci = 0 /\ z.rq_pi = 0 /\ z.cq_pi = 0 /\ z.cq_ci = 0
             /\ z.rq = m.rq /\ z.cq = m.cq
<1> DEFINE z == ResetQueue(m)
<1>1. 0 \in 0 .. sq_depth - 1 /\ 0 \in 0 .. rq_depth - 1 /\ 0 \in 0 .. cq_depth - 1
      /\ 0 \in {0, 1}
  BY LinquMsgqAssumption
<1> DEFINE y == [m EXCEPT !.sq_pi = 0, !.sq_ci = 0, !.rq_pi = 0, !.rq_ci = 0]
<1>2. y \in Queue /\ y.sq_ci = 0 /\ y.rq_pi = 0 /\ y.rq = m.rq /\ y.cq = m.cq
  BY <1>1 DEF Queue
<1>3. z = [y EXCEPT !.cq_pi = 0, !.cq_ci = 0, !.int_status = 0, !.int_ro = 0]
  BY DEF ResetQueue, Queue
<1> HIDE DEF y, z
<1>4. /\ z \in Queue /\ z.sq_ci = y.sq_ci /\ z.rq_pi = y.rq_pi /\ z.cq_pi = 0 /\ z.cq_ci = 0
      /\ z.rq = y.rq /\ z.cq = y.cq
  BY <1>1, <1>2, <1>3 DEF Queue
<1> QED BY <1>2, <1>4 DEF z

\* A reset forgets what is under way on both sides.
LEMMA ResetKeepsInv == MsgqInv /\ WriteRst => MsgqInv'
<1> SUFFICES ASSUME MsgqInv, WriteRst PROVE MsgqInv'
  OBVIOUS
<1>1. msgq \in Queue /\ MsgqTypes
  BY DEF MsgqInv, MsgqTypes
<1>2. /\ msgq' = ResetQueue(msgq) /\ drv' = [tail |-> 0, got |-> <<>>] /\ fails' = 0
      /\ base' = Len(reqs) /\ rsts' = rsts + 1 /\ cfg' = cfg /\ reqs' = reqs
      /\ line' = has_pending_irq(msgq')
  BY DEF WriteRst, Sets
<1>3. /\ sq_depth \in Nat \ {0} /\ rq_depth \in Nat \ {0} /\ cq_depth \in Nat \ {0}
      /\ MaxReqs \in Nat
  BY LinquMsgqAssumption
<1>4. /\ msgq' \in Queue /\ msgq'.sq_ci = 0 /\ msgq'.rq_pi = 0 /\ msgq'.cq_pi = 0
      /\ msgq'.cq_ci = 0 /\ msgq'.rq = msgq.rq /\ msgq'.cq = msgq.cq
  BY <1>1, <1>2, ResetIs
<1>5. MsgqTypes'
  <2>1. drv'.got \in Seq(Response) /\ drv'.tail = 0
    BY <1>2, EmptySeq
  <2>2. drv' \in [tail : 0 .. sq_depth - 1, got : Seq(Response)]
    BY <1>2, <1>3, <2>1
  <2>3. Len(reqs) \in Nat /\ rsts \in Nat
    BY <1>1, Counts DEF MsgqTypes
  <2>4. base' \in 0 .. Len(reqs') /\ rsts' \in Nat /\ rsts' # 0 /\ fails' \in Nat
    BY <1>2, <2>3
  <2>5. line' \in BOOLEAN
    BY <1>2 DEF has_pending_irq
  <2> QED BY <1>1, <1>2, <1>4, <2>2, <2>4, <2>5 DEF MsgqTypes
<1>6. LineFollowsInt'
  BY <1>2 DEF LineFollowsInt, has_pending_irq
<1>7. Written(msgq)'
  <2>1. \A i \in 0 .. cq_depth - 1 :
          msgq.cq[i] # <<>> => msgq.rq[msgq.cq[i][1].rq_idx] # <<>>
    BY DEF MsgqInv, Written
  <2> QED BY <1>3, <1>4, <2>1, ZeroIs DEF Written
<1>8. Posted' = 0 /\ Taken' = 0 /\ rsts' # 0 /\ drv'.tail = 0
  <2>1. Len(reqs) \in Nat /\ rsts \in Nat
    BY <1>1, Counts DEF MsgqTypes
  <2> QED BY <1>2, <2>1 DEF Posted, Taken
<1>9. SendRing(0)'
  BY <1>3, <1>4, <1>8, ZeroIs DEF SendRing
<1>10. TakenInOrder'
  BY <1>3, <1>8, LinquMsgqAssumption DEF TakenInOrder
<1>11. AnswerRings(msgq, cfg, 0)'
  <2>1. msgq'.cq_ci = Taken' % cq_depth /\ msgq'.cq_pi = 0 % cq_depth
        /\ msgq'.rq_pi = 0 % rq_depth
    BY <1>3, <1>4, <1>8, ZeroIs
  <2> QED BY <1>8, <2>1 DEF AnswerRings
<1>12. 0 \in 0 .. MaxReqs
  BY <1>3
<1> QED BY <1>5, <1>6, <1>7, <1>9, <1>10, <1>11, <1>12 DEF MsgqInv

\* How many requests are under way.
LEMMA UnderWayIs ==
  ASSUME MsgqTypes, TakenInOrder, Taken <= Posted
  PROVE  Cardinality(UnderWay) = Posted - Taken
<1>1. /\ Taken \in Nat /\ Posted \in Nat /\ base \in Nat /\ Len(reqs) \in Nat
      /\ base + Posted = Len(reqs)
  BY Counts
<1>2. DOMAIN drv.got = 1 .. Taken /\ \A i \in 1 .. Taken : drv.got[i].id = base + i
  <2>1. drv.got \in Seq(Response)
    BY DEF MsgqTypes
  <2>2. DOMAIN drv.got = 1 .. Taken
    BY <2>1, LenProperties DEF Taken
  <2> QED BY <2>2 DEF TakenInOrder
<1> DEFINE from == base + Taken + 1
           to   == Len(reqs)
<1>3. UnderWay = from .. to
  <2>1. ASSUME NEW id \in base + 1 .. Len(reqs)
        PROVE  (\A i \in 1 .. Taken : drv.got[i].id # id) <=> id \in from .. to
    <3>1. CASE id <= base + Taken
      <4>1. id - base \in 1 .. Taken /\ base + (id - base) = id /\ id \notin from .. to
        BY <1>1, <2>1, <3>1
      <4>2. drv.got[id - base].id = base + (id - base)
        BY <1>2, <4>1, Zenon
      <4>3. \E i \in 1 .. Taken : drv.got[i].id = id
        BY <4>1, <4>2, Zenon
      <4> QED BY <4>1, <4>3
    <3>2. CASE id > base + Taken
      <4>1. id \in from .. to /\ \A i \in 1 .. Taken : base + i # id
        BY <1>1, <2>1, <3>2
      <4> QED BY <1>2, <4>1
    <3> QED BY <1>1, <2>1, <3>1, <3>2
  <2>2. \A id \in from .. to : id \in base + 1 .. Len(reqs)
    BY <1>1
  <2> QED BY <1>2, <2>1, <2>2 DEF UnderWay
<1>4. from \in Int /\ to \in Int /\ to - from + 1 = Posted - Taken
  BY <1>1
<1>5. CASE from <= to
  <2> HIDE DEF from, to
  <2>1. Cardinality(from .. to) = to - from + 1
    BY <1>4, <1>5, FS_Interval
  <2> QED BY <1>3, <1>4, <2>1
<1>6. CASE from > to
  <2>1. from .. to = {} /\ Posted - Taken = 0
    BY <1>1, <1>6
  <2> QED BY <1>3, <2>1, FS_EmptySet
<1> QED BY <1>4, <1>5, <1>6

\* The minimum of two numbers is at most each.
LEMMA MinIs ==
  ASSUME NEW x \in Nat, NEW y \in Nat
  PROVE  Min({x, y}) \in Nat /\ Min({x, y}) <= x /\ Min({x, y}) <= y
<1>1. \E z \in {x, y} : \A w \in {x, y} : z <= w
  OBVIOUS
<1>2. Min({x, y}) \in {x, y} /\ \A w \in {x, y} : Min({x, y}) <= w
  BY <1>1, Zenon DEF Min
<1> QED BY <1>2

\* A whole turn of the ring comes back to the same position.
LEMMA ModWrap ==
  ASSUME NEW d \in Nat \ {0}, NEW a \in Int
  PROVE  (a + d) % d = a % d
<1> DEFINE q == a \div d
           r == a % d
           e == a + d
           u == q + 1
<1>1. q \in Int /\ r \in 0 .. d - 1 /\ a = d * q + r
  OBVIOUS
<1> HIDE DEF q, r
<1>2. e = d * u + r /\ u \in Int /\ e \in Int
  BY <1>1
<1> HIDE DEF u, e
<1>3. e % d = r
  BY <1>1, <1>2, ModUnique
<1> QED BY <1>3, Zenon DEF e, r

\* A request more: it goes into a free slot, and the rings have room for its
\* answer.
LEMMA PostKeepsInv == MsgqInv /\ (\E r \in Request : Post(r)) => MsgqInv'
<1> SUFFICES ASSUME MsgqInv, NEW r \in Request, Post(r) PROVE MsgqInv'
  OBVIOUS
<1>1. MsgqTypes /\ msgq \in Queue /\ reqs \in Seq(Request)
      /\ drv \in [tail : 0 .. sq_depth - 1, got : Seq(Response)]
  BY DEF MsgqInv, MsgqTypes
<1>2. /\ Len(reqs) < MaxReqs /\ (drv.tail + 1) % sq_depth # msgq.sq_ci
      /\ Cardinality(UnderWay) < Min({rq_depth, cq_depth - 1})
      /\ reqs' = Append(reqs, r)
      /\ msgq' = [msgq EXCEPT !.sq[drv.tail] = Len(reqs) + 1]
      /\ drv' = [drv EXCEPT !.tail = (@ + 1) % sq_depth]
      /\ UNCHANGED <<cfg, line, fails, rsts, base>>
  BY DEF Post
<1>3. /\ sq_depth \in Nat \ {0} /\ rq_depth \in Nat \ {0} /\ cq_depth \in Nat \ {0, 1}
      /\ MaxReqs \in Nat
  BY LinquMsgqAssumption
<1>4. /\ Len(reqs) \in Nat /\ base \in Nat /\ Posted \in Nat /\ Taken \in Nat
      /\ base + Posted = Len(reqs)
  BY <1>1, Counts
<1>5. /\ reqs' \in Seq(Request) /\ Len(reqs') = Len(reqs) + 1
      /\ \A i \in 1 .. Len(reqs) : reqs'[i] = reqs[i]
  BY <1>1, <1>2, AppendProperties
<1>6. /\ drv'.tail = (drv.tail + 1) % sq_depth /\ drv'.got = drv.got
      /\ drv' \in [tail : 0 .. sq_depth - 1, got : Seq(Response)]
  <2>1. (drv.tail + 1) % sq_depth \in 0 .. sq_depth - 1
    BY <1>1, <1>3, NextIs
  <2> QED BY <1>1, <1>2, <2>1
<1>7. Posted' = Posted + 1 /\ Taken' = Taken
  BY <1>2, <1>4, <1>5, <1>6 DEF Posted, Taken
<1> DEFINE sq1 == [msgq.sq EXCEPT ![drv.tail] = Len(reqs) + 1]
<1>8. /\ msgq' \in Queue /\ msgq'.sq = sq1 /\ msgq'.sq_ci = msgq.sq_ci
      /\ msgq'.rq = msgq.rq /\ msgq'.rq_pi = msgq.rq_pi
      /\ msgq'.cq = msgq.cq /\ msgq'.cq_pi = msgq.cq_pi /\ msgq'.cq_ci = msgq.cq_ci
      /\ msgq'.int_ro = msgq.int_ro /\ msgq'.int_mask = msgq.int_mask
  <2>1. msgq.sq \in [0 .. sq_depth - 1 -> 0 .. MaxReqs] /\ Len(reqs) + 1 \in 0 .. MaxReqs
        /\ drv.tail \in 0 .. sq_depth - 1
    <3>1. msgq.sq \in [0 .. sq_depth - 1 -> 0 .. MaxReqs]
      BY <1>1 DEF Queue
    <3>2. drv.tail \in 0 .. sq_depth - 1
      BY <1>1
    <3>3. Len(reqs) + 1 \in 0 .. MaxReqs
      BY <1>2, <1>3, <1>4
    <3> QED BY <3>1, <3>2, <3>3
  <2>2. sq1 \in [0 .. sq_depth - 1 -> 0 .. MaxReqs]
    BY <2>1
  <2>3. msgq' = [msgq EXCEPT !.sq = sq1]
    BY <1>1, <1>2 DEF Queue
  <2> HIDE DEF sq1
  <2> QED BY <1>1, <2>2, <2>3 DEF Queue
<1>9. MsgqTypes'
  <2>1. base' \in 0 .. Len(reqs') /\ Len(reqs') <= MaxReqs /\ (rsts' = 0 => base' = 0)
    BY <1>1, <1>2, <1>3, <1>4, <1>5 DEF MsgqTypes
  <2> QED BY <1>1, <1>2, <1>5, <1>6, <1>8, <2>1 DEF MsgqTypes
<1>10. LineFollowsInt'
  BY <1>2, <1>8 DEF MsgqInv, LineFollowsInt, has_pending_irq
<1>11. Written(msgq)'
  BY <1>8 DEF MsgqInv, Written
<1>12. PICK n \in 0 .. MaxReqs :
        SendRing(n) /\ (fails = 0 => TakenInOrder /\ AnswerRings(msgq, cfg, n))
  BY DEF MsgqInv
<1>13. SendRing(n)'
  <2>1. /\ n \in Nat /\ n <= Posted /\ Posted - n < sq_depth
        /\ msgq.sq_ci = n % sq_depth /\ drv.tail = Posted % sq_depth
        /\ \A k \in n + 1 .. Posted : msgq.sq[(k - 1) % sq_depth] = base + k
    BY <1>12 DEF SendRing
  <2>2. ((Posted % sq_depth) + 1) % sq_depth = (Posted + 1) % sq_depth
    <3>1. Posted \in Int
      BY <1>4
    <3> QED BY <1>3, <3>1, ModNext, Zenon
  <2>3. drv'.tail = (Posted + 1) % sq_depth
    BY <1>6, <2>1, <2>2, Zenon
  <2>4. Posted + 1 - n < sq_depth
    <3> SUFFICES ASSUME Posted + 1 - n >= sq_depth PROVE FALSE
      BY <1>3, <1>4, <2>1
    <3>1. Posted + 1 = n + sq_depth /\ n \in Int
      BY <1>3, <1>4, <2>1
    <3>2. (n + sq_depth) % sq_depth = n % sq_depth
      BY <1>3, <3>1, ModWrap, Zenon
    <3> QED BY <1>2, <1>6, <2>1, <2>3, <3>1, <3>2, Zenon
  <2>5. ASSUME NEW k \in n + 1 .. Posted + 1
        PROVE  msgq'.sq[(k - 1) % sq_depth] = base + k
    <3>1. msgq.sq \in [0 .. sq_depth - 1 -> 0 .. MaxReqs] /\ drv.tail \in 0 .. sq_depth - 1
      BY <1>1 DEF Queue
    <3>2. CASE k = Posted + 1
      <4>1. k - 1 = Posted /\ base + k = Len(reqs) + 1
        BY <1>4, <3>2
      <4>2. msgq'.sq[drv.tail] = Len(reqs) + 1
        BY <1>8, <3>1
      <4> QED BY <2>1, <4>1, <4>2, Zenon
    <3>3. CASE k \in n + 1 .. Posted
      <4> DEFINE j == (k - 1) % sq_depth
      <4>1. k - 1 \in Int /\ Posted \in Int /\ k - 1 < Posted /\ Posted - (k - 1) < sq_depth
        BY <1>3, <1>4, <2>1, <3>3
      <4>2. j # drv.tail
        BY <1>3, <2>1, <4>1, ModDistinct
      <4>3. j \in 0 .. sq_depth - 1
        BY <1>3, <4>1
      <4>4. msgq.sq[j] = base + k
        BY <2>1, <3>3
      <4> HIDE DEF j
      <4>5. msgq'.sq[j] = msgq.sq[j]
        BY <1>8, <3>1, <4>2, <4>3
      <4> QED BY <4>4, <4>5 DEF j
    <3> QED BY <1>4, <2>1, <3>2, <3>3
  <2>6. n <= Posted' /\ Posted' - n < sq_depth
    BY <1>4, <1>7, <2>1, <2>4
  <2> QED BY <1>2, <1>7, <1>8, <2>1, <2>3, <2>5, <2>6 DEF SendRing
<1>14. ASSUME NEW id \in 1 .. Len(reqs), NEW data, RightFor(reqs, id, data)
       PROVE  RightFor(reqs', id, data)
  <2>1. reqs'[id] = reqs[id] /\ id - 1 \in Nat /\ \A i \in 1 .. id - 1 : reqs'[i] = reqs[i]
    BY <1>4, <1>5
  <2>2. Reference(reqs', reqs[id].addr, id - 1) = Reference(reqs, reqs[id].addr, id - 1)
    BY <2>1, ReferenceExtends
  <2> QED BY <1>14, <2>1, <2>2 DEF RightFor
<1>15. ASSUME fails = 0 PROVE TakenInOrder' /\ AnswerRings(msgq, cfg, n)'
  <2>1. TakenInOrder /\ AnswerRings(msgq, cfg, n)
    BY <1>12, <1>15
  <2>2. Taken <= n /\ n <= Posted /\ n \in Nat
    BY <1>12, <2>1 DEF AnswerRings, SendRing
  <2>3. Posted - Taken + 1 <= rq_depth /\ Posted - Taken + 1 < cq_depth
    <3>1. Cardinality(UnderWay) = Posted - Taken
      BY <1>1, <1>4, <2>1, <2>2, UnderWayIs
    <3>2. Min({rq_depth, cq_depth - 1}) \in Nat /\ Min({rq_depth, cq_depth - 1}) <= rq_depth
          /\ Min({rq_depth, cq_depth - 1}) <= cq_depth - 1
      BY <1>3, MinIs
    <3> QED BY <1>2, <1>3, <1>4, <3>1, <3>2
  <2>4. TakenInOrder'
    <3>1. ASSUME NEW i \in 1 .. Taken
          PROVE  drv'.got[i].id = base + i /\ (rsts = 0 => RightFor(reqs', base + i, drv.got[i].data))
      <4>1. drv.got[i].id = base + i /\ (rsts = 0 => RightFor(reqs, base + i, drv.got[i].data))
        BY <2>1 DEF TakenInOrder, Right
      <4>2. base + i \in 1 .. Len(reqs)
        BY <1>4, <2>2
      <4>3. rsts = 0 => RightFor(reqs', base + i, drv.got[i].data)
        BY <1>14, <4>1, <4>2, Zenon
      <4> QED BY <1>6, <4>1, <4>3, Zenon
    <3>2. Posted' - Taken' <= rq_depth /\ Posted' - Taken' < cq_depth
      BY <1>3, <1>4, <1>7, <2>3
    <3>3. /\ base' = base /\ Taken' = Taken /\ drv'.got = drv.got
          /\ rsts' = rsts
      BY <1>2, <1>6, <1>7
    <3> QED BY <3>1, <3>2, <3>3, Zenon DEF TakenInOrder, Right
  <2>5. ASSUME NEW k \in Taken + 1 .. n
        PROVE  LET e == msgq.rq[(k - 1) % rq_depth]
               IN  /\ msgq.cq[(k - 1) % cq_depth]
                        = <<[id |-> base + k, rq_idx |-> (k - 1) % rq_depth]>>
                   /\ e # <<>> /\ e[1].id = base + k
                   /\ (rsts = 0 => RightFor(reqs', base + k, e[1].data))
    <3> DEFINE e == msgq.rq[(k - 1) % rq_depth]
    <3>1. /\ msgq.cq[(k - 1) % cq_depth] = <<[id |-> base + k, rq_idx |-> (k - 1) % rq_depth]>>
          /\ e # <<>> /\ e[1].id = base + k /\ (rsts = 0 => RightFor(reqs, base + k, e[1].data))
      BY <2>1 DEF AnswerRings, Right
    <3>2. base + k \in 1 .. Len(reqs)
      BY <1>4, <2>2
    <3> HIDE DEF e
    <3>3. rsts = 0 => RightFor(reqs', base + k, e[1].data)
      BY <1>14, <3>1, <3>2, Zenon
    <3> QED BY <3>1, <3>3, Zenon DEF e
  <2>6. ASSUME rsts = 0, NEW a \in Readable PROVE cfg[Cell(a)] = Reference(reqs', a, n)
    <3>1. cfg[Cell(a)] = Reference(reqs, a, n)
      BY <2>1, <2>6 DEF AnswerRings
    <3>2. \A i \in 1 .. n : reqs'[i] = reqs[i]
      BY <1>4, <1>5, <2>2
    <3> QED BY <2>2, <3>1, <3>2, ReferenceExtends
  <2>7. Taken <= n /\ msgq.cq_ci = Taken % cq_depth /\ msgq.cq_pi = n % cq_depth
        /\ msgq.rq_pi = n % rq_depth
    BY <2>1 DEF AnswerRings
  <2>8. AnswerRings(msgq, cfg, n)'
    BY <1>2, <1>7, <1>8, <2>5, <2>6, <2>7 DEF AnswerRings, Right
  <2> QED BY <2>4, <2>8
<1> QED BY <1>2, <1>9, <1>10, <1>11, <1>12, <1>13, <1>15 DEF MsgqInv

\* A completion that is unread names a response.
LEMMA UnreadIsWritten ==
  ASSUME MsgqTypes, Written(msgq), Unread # {}
  PROVE  LET cqe == msgq.cq[msgq.cq_ci][1]
         IN  /\ Between(msgq.cq_ci, msgq.cq_pi, cq_depth) >= 1
             /\ cqe.rq_idx \in 0 .. rq_depth - 1
             /\ msgq.rq[cqe.rq_idx][1] \in Response
<1> DEFINE ci == msgq.cq_ci
           pi == msgq.cq_pi
<1>1. /\ ci \in 0 .. cq_depth - 1 /\ pi \in 0 .. cq_depth - 1 /\ cq_depth \in Nat \ {0}
      /\ msgq.cq \in [0 .. cq_depth - 1 -> CqSlot] /\ msgq.rq \in [0 .. rq_depth - 1 -> RqSlot]
  BY LinquMsgqAssumption DEF MsgqTypes, Queue
<1>2. Between(ci, pi, cq_depth) >= 1 /\ Between(ci, ci, cq_depth) < Between(ci, pi, cq_depth)
  <2>1. Between(ci, pi, cq_depth) = IF pi >= ci THEN pi - ci ELSE pi - ci + cq_depth
    BY <1>1, BetweenIs
  <2>2. Between(ci, ci, cq_depth) = 0
    <3>1. Between(ci, ci, cq_depth) = IF ci >= ci THEN ci - ci ELSE ci - ci + cq_depth
      BY <1>1, BetweenIs
    <3> QED BY <1>1, <3>1
  <2>3. PICK i \in 0 .. Between(ci, pi, cq_depth) - 1 : TRUE
    BY DEF Unread
  <2> HIDE DEF ci, pi
  <2> QED BY <1>1, <2>1, <2>2, <2>3
<1>3. msgq.cq[ci] # <<>> /\ msgq.rq[msgq.cq[ci][1].rq_idx] # <<>>
  BY <1>1, <1>2 DEF Written
<1>4. msgq.cq[ci][1].rq_idx \in 0 .. rq_depth - 1
  BY <1>1, <1>3 DEF CqSlot
<1> DEFINE j == msgq.cq[ci][1].rq_idx
<1> HIDE DEF j
<1>5. msgq.rq[j] \in RqSlot /\ msgq.rq[j] # <<>>
  BY <1>1, <1>3, <1>4 DEF j
<1>6. msgq.rq[j][1] \in Response
  BY <1>5 DEF RqSlot
<1> QED BY <1>2, <1>4, <1>6 DEF j

\* Taking a response keeps MsgqInv.
LEMMA TakeKeepsInv == MsgqInv /\ TakeResponse => MsgqInv'
<1> SUFFICES ASSUME MsgqInv, TakeResponse PROVE MsgqInv'
  OBVIOUS
<1> DEFINE ci  == msgq.cq_ci
           pi  == msgq.cq_pi
           nci == (msgq.cq_ci + 1) % cq_depth
           nri == (msgq.rq_ci + 1) % rq_depth
           rsp == msgq.rq[msgq.cq[ci][1].rq_idx][1]
           m   == [msgq EXCEPT !.cq_ci = nci, !.rq_ci = nri]
<1>1. MsgqTypes /\ Written(msgq) /\ msgq \in Queue
      /\ drv \in [tail : 0 .. sq_depth - 1, got : Seq(Response)]
  BY DEF MsgqInv, MsgqTypes
<1>2. /\ Unread # {} /\ drv' = [drv EXCEPT !.got = Append(@, rsp)]
      /\ msgq' = IF nci = m.cq_pi THEN [m EXCEPT !.int_status = 0, !.int_ro = 0] ELSE m
      /\ line' = has_pending_irq(msgq')
      /\ UNCHANGED <<cfg, reqs, fails, rsts, base>>
  <2>1. /\ Unread # {} /\ drv' = [drv EXCEPT !.got = Append(@, rsp)]
        /\ UNCHANGED <<cfg, reqs, fails, rsts, base>>
    BY DEF TakeResponse
  <2>2. msgq' = IF nci = m.cq_pi THEN [m EXCEPT !.int_status = 0, !.int_ro = 0] ELSE m
    BY <1>1 DEF TakeResponse, Sets, Queue
  <2>3. line' = has_pending_irq(msgq')
    BY DEF TakeResponse, Sets
  <2> QED BY <2>1, <2>2, <2>3
<1>3. /\ sq_depth \in Nat \ {0} /\ rq_depth \in Nat \ {0} /\ cq_depth \in Nat \ {0}
      /\ ci \in 0 .. cq_depth - 1 /\ pi \in 0 .. cq_depth - 1 /\ msgq.rq_ci \in 0 .. rq_depth - 1
  BY <1>1, LinquMsgqAssumption DEF Queue
<1>4. /\ Between(ci, pi, cq_depth) >= 1 /\ rsp \in Response
      /\ msgq.cq[ci][1].rq_idx \in 0 .. rq_depth - 1
  BY <1>1, <1>2, UnreadIsWritten
<1>5. /\ nci \in 0 .. cq_depth - 1 /\ nri \in 0 .. rq_depth - 1
      /\ nci = IF ci + 1 = cq_depth THEN 0 ELSE ci + 1
  BY <1>3, NextIs
<1> HIDE DEF nci, nri, rsp
<1>6. /\ m \in Queue /\ m.sq = msgq.sq /\ m.sq_ci = msgq.sq_ci
      /\ m.rq = msgq.rq /\ m.rq_pi = msgq.rq_pi /\ m.cq = msgq.cq /\ m.cq_pi = msgq.cq_pi
      /\ m.cq_ci = nci
  BY <1>1, <1>5 DEF Queue
<1> HIDE DEF m
<1>7. /\ msgq' \in Queue /\ msgq'.sq = msgq.sq /\ msgq'.sq_ci = msgq.sq_ci
      /\ msgq'.rq = msgq.rq /\ msgq'.rq_pi = msgq.rq_pi
      /\ msgq'.cq = msgq.cq /\ msgq'.cq_pi = msgq.cq_pi /\ msgq'.cq_ci = nci
  <2>1. CASE msgq' = m
    BY <1>6, <2>1
  <2>2. CASE msgq' = [m EXCEPT !.int_status = 0, !.int_ro = 0]
    <3> DEFINE x == [m EXCEPT !.int_status = 0, !.int_ro = 0]
    <3>1. x \in Queue /\ x.sq = m.sq /\ x.sq_ci = m.sq_ci /\ x.rq = m.rq /\ x.rq_pi = m.rq_pi
          /\ x.cq = m.cq /\ x.cq_pi = m.cq_pi /\ x.cq_ci = m.cq_ci
      BY <1>6 DEF Queue
    <3> HIDE DEF x
    <3> QED BY <1>6, <2>2, <3>1 DEF x
  <2> QED BY <1>2, <2>1, <2>2
<1>8. /\ drv' \in [tail : 0 .. sq_depth - 1, got : Seq(Response)] /\ drv'.tail = drv.tail
      /\ drv'.got = Append(drv.got, rsp)
  <2>1. drv.got \in Seq(Response) /\ Append(drv.got, rsp) \in Seq(Response)
    BY <1>1, <1>4, AppendProperties
  <2> QED BY <1>1, <1>2, <2>1
<1>9. MsgqTypes'
  <2>1. line' \in BOOLEAN
    BY <1>2 DEF has_pending_irq
  <2> QED BY <1>1, <1>2, <1>7, <1>8, <2>1 DEF MsgqTypes
<1>10. LineFollowsInt'
  BY <1>2 DEF LineFollowsInt, has_pending_irq
<1>11. Written(msgq)'
  <2> SUFFICES ASSUME NEW i \in 0 .. cq_depth - 1
               PROVE  /\ msgq.cq[i] # <<>> => msgq.rq[msgq.cq[i][1].rq_idx] # <<>>
                      /\ Between(nci, i, cq_depth) < Between(nci, pi, cq_depth) =>
                           msgq.cq[i] # <<>>
    BY <1>7 DEF Written
  <2>1. /\ msgq.cq[i] # <<>> => msgq.rq[msgq.cq[i][1].rq_idx] # <<>>
        /\ Between(ci, i, cq_depth) < Between(ci, pi, cq_depth) => msgq.cq[i] # <<>>
    BY <1>1 DEF Written
  <2> HIDE DEF ci, pi
  <2>2. Between(ci, i, cq_depth) = IF i >= ci THEN i - ci ELSE i - ci + cq_depth
    BY <1>3, BetweenIs
  <2>3. Between(ci, pi, cq_depth) = IF pi >= ci THEN pi - ci ELSE pi - ci + cq_depth
    BY <1>3, BetweenIs
  <2>4. Between(nci, i, cq_depth) = IF i >= nci THEN i - nci ELSE i - nci + cq_depth
    BY <1>3, <1>5, BetweenIs
  <2>5. Between(nci, pi, cq_depth) = IF pi >= nci THEN pi - nci ELSE pi - nci + cq_depth
    BY <1>3, <1>5, BetweenIs
  <2>6. Between(nci, i, cq_depth) < Between(nci, pi, cq_depth) =>
          Between(ci, i, cq_depth) < Between(ci, pi, cq_depth)
    BY <1>3, <1>4, <1>5, <2>2, <2>3, <2>4, <2>5
  <2> QED BY <2>1, <2>6
<1>12. PICK n \in 0 .. MaxReqs :
        SendRing(n) /\ (fails = 0 => TakenInOrder /\ AnswerRings(msgq, cfg, n))
  BY DEF MsgqInv
<1>13. Posted' = Posted
  BY <1>2 DEF Posted
<1>14. SendRing(n)'
  BY <1>2, <1>7, <1>8, <1>12, <1>13 DEF SendRing
<1>15. ASSUME fails = 0 PROVE TakenInOrder' /\ AnswerRings(msgq, cfg, n)'
  <2>1. TakenInOrder /\ AnswerRings(msgq, cfg, n) /\ n <= Posted /\ n \in Nat
    BY <1>12, <1>15 DEF SendRing
  <2>2. Taken \in Nat /\ Posted \in Nat /\ base \in Nat
    BY <1>1, Counts
  <2>3. /\ Taken <= n /\ ci = Taken % cq_depth /\ pi = n % cq_depth /\ msgq.rq_pi = n % rq_depth
        /\ \A k \in Taken + 1 .. n :
             /\ msgq.cq[(k - 1) % cq_depth] = <<[id |-> base + k, rq_idx |-> (k - 1) % rq_depth]>>
             /\ msgq.rq[(k - 1) % rq_depth] # <<>>
             /\ msgq.rq[(k - 1) % rq_depth][1].id = base + k
             /\ Right(base + k, msgq.rq[(k - 1) % rq_depth][1].data)
        /\ rsts = 0 => \A a \in Readable : cfg[Cell(a)] = Reference(reqs, a, n)
    BY <2>1 DEF AnswerRings
  <2>4. Posted - Taken <= rq_depth /\ Posted - Taken < cq_depth
        /\ \A i \in 1 .. Taken : drv.got[i].id = base + i /\ Right(base + i, drv.got[i].data)
    BY <2>1 DEF TakenInOrder
  <2>5. Taken + 1 <= n
    <3>1. n \in Int /\ Taken \in Int /\ n - Taken < cq_depth
      BY <1>3, <2>1, <2>2, <2>4
    <3>2. Between(Taken % cq_depth, n % cq_depth, cq_depth) = n - Taken
      BY <1>3, <2>3, <3>1, BetweenMod, Zenon
    <3>3. n - Taken >= 1
      BY <1>4, <2>3, <3>2, Zenon
    <3> QED BY <3>1, <3>3
  <2> DEFINE k1 == Taken + 1
  <2>6. /\ k1 \in Taken + 1 .. n /\ k1 - 1 = Taken
    BY <2>1, <2>2, <2>5
  <2>7. rsp.id = base + k1 /\ Right(base + k1, rsp.data)
    <3> HIDE DEF k1
    <3>1. /\ msgq.cq[Taken % cq_depth] = <<[id |-> base + k1, rq_idx |-> Taken % rq_depth]>>
          /\ msgq.rq[Taken % rq_depth][1].id = base + k1
          /\ Right(base + k1, msgq.rq[Taken % rq_depth][1].data)
      <4>1. /\ msgq.cq[(k1 - 1) % cq_depth]
                 = <<[id |-> base + k1, rq_idx |-> (k1 - 1) % rq_depth]>>
            /\ msgq.rq[(k1 - 1) % rq_depth][1].id = base + k1
            /\ Right(base + k1, msgq.rq[(k1 - 1) % rq_depth][1].data)
        BY <2>3, <2>6, Zenon
      <4> QED BY <2>6, <4>1, Zenon
    <3> DEFINE x == Taken % rq_depth
    <3> HIDE DEF x
    <3>2. <<[id |-> base + k1, rq_idx |-> x]>>[1].rq_idx = x
      OBVIOUS
    <3>3. msgq.cq[ci][1].rq_idx = x
      BY <2>3, <3>1, <3>2, Zenon DEF x
    <3>4. rsp = msgq.rq[x][1]
      BY <3>3, Zenon DEF rsp
    <3> QED BY <3>1, <3>4, Zenon DEF x
  <2>8. Taken' = Taken + 1 /\ drv'.got[k1] = rsp /\ \A i \in 1 .. Taken : drv'.got[i] = drv.got[i]
    <3>1. drv.got \in Seq(Response)
      BY <1>1
    <3> QED BY <1>4, <1>8, <3>1, AppendProperties DEF Taken
  <2>9. TakenInOrder'
    <3>1. ASSUME NEW i \in 1 .. Taken + 1
          PROVE  drv'.got[i].id = base + i /\ Right(base + i, drv'.got[i].data)
      <4>1. CASE i = k1
        BY <2>7, <2>8, <4>1, Zenon
      <4>2. CASE i \in 1 .. Taken
        BY <2>4, <2>8, <4>2, Zenon
      <4> QED BY <2>2, <4>1, <4>2
    <3>2. Posted' - Taken' <= rq_depth /\ Posted' - Taken' < cq_depth
      BY <1>3, <1>13, <2>2, <2>4, <2>8
    <3>3. base' = base /\ rsts' = rsts /\ reqs' = reqs /\ Taken' = Taken + 1
      BY <1>2, <2>8
    <3> QED BY <3>1, <3>2, <3>3, Zenon DEF TakenInOrder, Right
  <2>10. AnswerRings(msgq, cfg, n)'
    <3>1. ((Taken % cq_depth) + 1) % cq_depth = (Taken + 1) % cq_depth
      <4>1. Taken \in Int
        BY <2>2
      <4> QED BY <1>3, <4>1, ModNext, Zenon
    <3>2. nci = (Taken + 1) % cq_depth
      BY <2>3, <3>1, Zenon DEF nci
    <3>3. \A k \in Taken' + 1 .. n : k \in Taken + 1 .. n
      BY <2>1, <2>2, <2>8
    <3>4. Taken' <= n
      BY <2>5, <2>8
    <3>5. base' = base /\ rsts' = rsts /\ reqs' = reqs /\ cfg' = cfg
      BY <1>2
    <3> QED BY <1>7, <2>3, <2>8, <3>2, <3>3, <3>4, <3>5, Zenon DEF AnswerRings, Right
  <2> QED BY <2>9, <2>10
<1>16. fails' = fails
  BY <1>2
<1> QED BY <1>9, <1>10, <1>11, <1>12, <1>14, <1>15, <1>16 DEF MsgqInv

\* A write of SQ_PI answers all that was posted, or fails and leaves SQ_CI.
LEMMA RingKeepsInv == MsgqInv /\ WriteSqPi => MsgqInv'
<1> SUFFICES ASSUME MsgqInv, WriteSqPi PROVE MsgqInv'
  OBVIOUS
<1> DEFINE m0  == [msgq EXCEPT !.sq_pi = drv.tail]
           acc == ring_sq(m0, drv.tail)
<1>1. MsgqTypes /\ Written(msgq) /\ msgq \in Queue /\ drv.tail \in 0 .. sq_depth - 1
  BY DEF MsgqInv, MsgqTypes
<1>2. PICK n \in 0 .. MaxReqs :
        SendRing(n) /\ (fails = 0 => TakenInOrder /\ AnswerRings(msgq, cfg, n))
  BY DEF MsgqInv
<1>3. n \in Nat /\ Posted \in Nat /\ Posted <= MaxReqs /\ n <= Posted /\ n + (Posted - n) = Posted
      /\ MaxReqs \in Nat
  <2>1. n <= Posted
    BY <1>2 DEF SendRing
  <2>2. Posted \in Nat /\ Posted <= MaxReqs
    BY <1>1, Counts
  <2> QED BY <2>1, <2>2, LinquMsgqAssumption
<1> DEFINE H == Handled(m0, Posted - n)
<1>4. Between(m0.sq_ci, drv.tail, sq_depth) = Posted - n /\ InLoop(H, n, Posted - n)
  BY <1>1, <1>2, <1>3, LoopResult
<1>5. acc = [H EXCEPT !.m.sq_ci = IF H.ok THEN drv.tail ELSE @]
  <2> DEFINE G == Handled(m0, Between(m0.sq_ci, drv.tail, sq_depth))
  <2> HIDE DEF m0
  <2>1. G = H
    BY <1>4, Zenon
  <2>2. acc = [G EXCEPT !.m.sq_ci = IF G.ok THEN drv.tail ELSE @]
    BY DEF ring_sq
  <2> HIDE DEF G, H, acc
  <2> QED BY <2>1, <2>2
<1> HIDE DEF m0, H
<1>6. /\ H \in Acc /\ H.m \in Queue /\ H.c \in [Cells -> Nat] /\ H.ok \in BOOLEAN
      /\ Written(H.m) /\ H.m.sq = msgq.sq /\ H.m.sq_ci = msgq.sq_ci
  BY <1>4 DEF InLoop, Acc
<1> DEFINE hm == H.m
           x  == [hm EXCEPT !.sq_ci = IF H.ok THEN drv.tail ELSE @]
<1>7. acc.m = x /\ acc.c = H.c /\ acc.ok = H.ok
  BY <1>5, <1>6 DEF Acc
<1>8. /\ msgq' = IF acc.ok THEN acc.m ELSE [acc.m EXCEPT !.int_status = 1, !.int_ro = 1]
      /\ line' = has_pending_irq(msgq')
      /\ cfg' = acc.c /\ fails' = IF acc.ok THEN fails ELSE fails + 1
      /\ UNCHANGED <<reqs, drv, rsts, base>>
  BY DEF WriteSqPi, Sets, m0
<1> HIDE DEF acc, hm
<1>9. /\ x \in Queue /\ x.sq = hm.sq /\ x.sq_ci = IF H.ok THEN drv.tail ELSE hm.sq_ci
      /\ x.rq = hm.rq /\ x.rq_pi = hm.rq_pi
      /\ x.cq = hm.cq /\ x.cq_pi = hm.cq_pi /\ x.cq_ci = hm.cq_ci
  <2>1. hm \in Queue /\ hm.sq_ci \in 0 .. sq_depth - 1
    BY <1>6 DEF hm, Queue
  <2> DEFINE s == IF H.ok THEN drv.tail ELSE hm.sq_ci
  <2>2. s \in 0 .. sq_depth - 1
    BY <1>1, <2>1
  <2>3. x = [hm EXCEPT !.sq_ci = s]
    BY <2>1
  <2> HIDE DEF s, x
  <2>4. /\ x \in Queue /\ x.sq = hm.sq /\ x.sq_ci = s
        /\ x.rq = hm.rq /\ x.rq_pi = hm.rq_pi
        /\ x.cq = hm.cq /\ x.cq_pi = hm.cq_pi /\ x.cq_ci = hm.cq_ci
    BY <2>1, <2>2, <2>3 DEF Queue
  <2> QED BY <2>4 DEF s
<1> HIDE DEF x
<1>10. /\ msgq' \in Queue /\ msgq'.sq = hm.sq
       /\ msgq'.sq_ci = IF H.ok THEN drv.tail ELSE hm.sq_ci
       /\ msgq'.rq = hm.rq /\ msgq'.rq_pi = hm.rq_pi
       /\ msgq'.cq = hm.cq /\ msgq'.cq_pi = hm.cq_pi /\ msgq'.cq_ci = hm.cq_ci
  <2>1. CASE H.ok
    BY <1>7, <1>8, <1>9, <2>1
  <2>2. CASE ~H.ok
    <3> DEFINE y == [x EXCEPT !.int_status = 1, !.int_ro = 1]
    <3>1. y \in Queue /\ y.sq = x.sq /\ y.sq_ci = x.sq_ci /\ y.rq = x.rq /\ y.rq_pi = x.rq_pi
          /\ y.cq = x.cq /\ y.cq_pi = x.cq_pi /\ y.cq_ci = x.cq_ci
      BY <1>9 DEF Queue
    <3>2. msgq' = y
      BY <1>7, <1>8, <2>2
    <3> HIDE DEF y
    <3> QED BY <1>9, <3>1, <3>2
  <2> QED BY <2>1, <2>2
<1>11. /\ cfg' = H.c /\ reqs' = reqs /\ drv' = drv /\ rsts' = rsts /\ base' = base
       /\ fails' = IF H.ok THEN fails ELSE fails + 1
  BY <1>7, <1>8
<1>12. MsgqTypes'
  <2>1. line' \in BOOLEAN
    BY <1>8 DEF has_pending_irq
  <2>2. fails \in Nat /\ fails' \in Nat
    BY <1>1, <1>11 DEF MsgqTypes
  <2> QED BY <1>1, <1>6, <1>10, <1>11, <2>1, <2>2 DEF MsgqTypes
<1>13. LineFollowsInt'
  BY <1>8 DEF LineFollowsInt, has_pending_irq
<1>14. Written(msgq)'
  BY <1>6, <1>10 DEF Written, hm
<1>15. Posted' = Posted /\ Taken' = Taken
  BY <1>11 DEF Posted, Taken
<1>16. CASE H.ok
  <2>1. SendRing(Posted)'
    <3>1. drv.tail = Posted % sq_depth /\ sq_depth \in Nat \ {0}
      BY <1>2, LinquMsgqAssumption DEF SendRing
    <3>2. \A k \in Posted + 1 .. Posted : FALSE
      BY <1>3
    <3>3. Posted <= Posted' /\ Posted' - Posted < sq_depth
      BY <1>3, <1>15, <3>1
    <3>4. msgq'.sq_ci = Posted % sq_depth /\ drv'.tail = Posted' % sq_depth
      BY <1>10, <1>11, <1>15, <1>16, <3>1
    <3> QED BY <1>15, <3>2, <3>3, <3>4, Zenon DEF SendRing
  <2>2. ASSUME fails = 0 PROVE TakenInOrder' /\ AnswerRings(msgq, cfg, Posted)'
    <3>1. TakenInOrder /\ AnswerRings(H.m, H.c, Posted)
      BY <1>2, <1>3, <1>4, <1>16, <2>2 DEF InLoop
    <3>2. TakenInOrder'
      BY <1>11, <1>15, <3>1 DEF TakenInOrder, Right
    <3>3. AnswerRings(msgq, cfg, Posted)'
      BY <1>10, <1>11, <1>15, <3>1 DEF AnswerRings, Right, hm
    <3> QED BY <3>2, <3>3
  <2>3. Posted \in 0 .. MaxReqs /\ Posted' \in 0 .. MaxReqs /\ fails' = fails
    BY <1>3, <1>11, <1>15, <1>16
  <2>4. \E k \in 0 .. MaxReqs :
          SendRing(k)' /\ (fails' = 0 => TakenInOrder' /\ AnswerRings(msgq, cfg, k)')
    <3> DEFINE k == Posted
    <3>1. k \in 0 .. MaxReqs /\ k' = k
      BY <1>15, <2>3
    <3> QED BY <1>15, <2>1, <2>2, <2>3, <3>1
  <2> QED BY <1>12, <1>13, <1>14, <2>4 DEF MsgqInv
<1>17. CASE ~H.ok
  <2>1. SendRing(n)'
    BY <1>2, <1>6, <1>10, <1>11, <1>15, <1>17 DEF SendRing, hm
  <2>2. fails' # 0
    BY <1>1, <1>11, <1>17 DEF MsgqTypes
  <2> QED BY <1>2, <1>12, <1>13, <1>14, <2>1, <2>2 DEF MsgqInv
<1> QED BY <1>6, <1>16, <1>17

\* Every step of driver and device keeps MsgqInv.
LEMMA MsgqStepKeepsInv == MsgqInv /\ [MsgqNext]_msgqVars => MsgqInv'
<1> SUFFICES ASSUME MsgqInv, [MsgqNext]_msgqVars PROVE MsgqInv'
  OBVIOUS
<1>1. CASE UNCHANGED msgqVars
  <2>1. msgq' = msgq /\ line' = line /\ UNCHANGED <<cfg, reqs, drv, fails, rsts, base>>
    BY <1>1 DEF msgqVars
  <2>2. msgq' \in Queue /\ SameRings /\ LineFollowsInt'
    BY <2>1 DEF MsgqInv, MsgqTypes, SameRings, LineFollowsInt, has_pending_irq
  <2> QED BY <2>1, <2>2, QuietKeepsInv
<1> QED BY <1>1, PostKeepsInv, RingKeepsInv, TakeKeepsInv, AckKeepsInv, ResetKeepsInv,
           MaskKeepsInv DEF MsgqNext

-----------------------------------------------------------------------------
(* What the invariant says *)

\* The indices stay in their rings, by MsgqInv.
LEMMA InvGivesTypes == MsgqInv => MsgqTypeOK
<1> SUFFICES ASSUME MsgqInv PROVE MsgqTypeOK
  OBVIOUS
<1>1. MsgqTypes /\ msgq \in Queue
  BY DEF MsgqInv, MsgqTypes
<1>2. /\ msgq.sq \in [0 .. sq_depth - 1 -> 0 .. MaxReqs]
      /\ msgq.rq \in [0 .. rq_depth - 1 -> RqSlot] /\ msgq.cq \in [0 .. cq_depth - 1 -> CqSlot]
      /\ msgq.sq_pi \in 0 .. sq_depth - 1 /\ msgq.sq_ci \in 0 .. sq_depth - 1
      /\ msgq.rq_pi \in 0 .. rq_depth - 1 /\ msgq.rq_ci \in 0 .. rq_depth - 1
      /\ msgq.cq_pi \in 0 .. cq_depth - 1 /\ msgq.cq_ci \in 0 .. cq_depth - 1
  BY <1>1 DEF Queue
<1>3. ASSUME NEW i \in DOMAIN msgq.rq PROVE msgq.rq[i] = <<>> \/ msgq.rq[i][1] \in Response
  <2>1. msgq.rq[i] \in RqSlot
    BY <1>2
  <2> QED BY <2>1 DEF RqSlot
<1>4. ASSUME NEW i \in DOMAIN msgq.cq
      PROVE  msgq.cq[i] = <<>> \/ msgq.cq[i][1].rq_idx \in DOMAIN msgq.rq
  <2>1. msgq.cq[i] \in CqSlot /\ DOMAIN msgq.rq = 0 .. rq_depth - 1
    BY <1>2
  <2> QED BY <2>1 DEF CqSlot
<1>5. /\ \A i \in DOMAIN reqs : reqs[i] \in Request
      /\ \A i \in DOMAIN drv.got : drv.got[i] \in Response
  <2>1. reqs \in Seq(Request) /\ drv.got \in Seq(Response)
    BY <1>1 DEF MsgqTypes
  <2> QED BY <2>1, ElementOfSeq, LenProperties
<1>6. cfg \in [Cells -> Nat] /\ line \in BOOLEAN
  BY <1>1 DEF MsgqTypes
<1> QED BY <1>2, <1>3, <1>4, <1>5, <1>6 DEF MsgqTypeOK

\* The slots of the completions that were not taken, by request.
LEMMA UnreadIs ==
  ASSUME MsgqTypes, TakenInOrder, NEW n \in Nat, n <= Posted, AnswerRings(msgq, cfg, n),
         NEW i \in Unread
  PROVE  \E k \in Taken + 1 .. n : i = (k - 1) % cq_depth
<1>1. /\ Taken \in Nat /\ Posted \in Nat /\ Taken <= n /\ cq_depth \in Nat \ {0}
      /\ n - Taken < cq_depth /\ n \in Int /\ Taken \in Int
      /\ msgq.cq_ci = Taken % cq_depth /\ msgq.cq_pi = n % cq_depth
  <2>1. Taken <= n /\ msgq.cq_ci = Taken % cq_depth /\ msgq.cq_pi = n % cq_depth
    BY DEF AnswerRings
  <2>2. Posted - Taken < cq_depth
    BY DEF TakenInOrder
  <2>3. Taken \in Nat /\ Posted \in Nat /\ cq_depth \in Nat \ {0}
    BY Counts, LinquMsgqAssumption
  <2> QED BY <2>1, <2>2, <2>3
<1>2. Between(msgq.cq_ci, msgq.cq_pi, cq_depth) = n - Taken
  BY <1>1, BetweenMod, Zenon
<1>3. PICK j \in 0 .. Between(msgq.cq_ci, msgq.cq_pi, cq_depth) - 1 :
        i = (msgq.cq_ci + j) % cq_depth
  BY DEF Unread
<1> DEFINE k == Taken + j + 1
<1>4. j \in Int /\ k \in Taken + 1 .. n /\ k - 1 = Taken + j
  BY <1>1, <1>2, <1>3
<1>5. ((Taken % cq_depth) + j) % cq_depth = (Taken + j) % cq_depth
  BY <1>1, <1>4, ModPlus, Zenon
<1>6. i = (k - 1) % cq_depth
  BY <1>1, <1>3, <1>4, <1>5, Zenon
<1> QED BY <1>4, <1>6

\* Without a failure the answers are right, by MsgqInv.
LEMMA InvGivesAnswers == MsgqInv => AnswersAreRight
<1> SUFFICES ASSUME MsgqInv PROVE AnswersAreRight
  OBVIOUS
<1> SUFFICES ASSUME fails = 0 PROVE AnswersAreRight
  BY DEF AnswersAreRight, CompletionNamesResponse, AnsweredInOrder, ReadsLastWrite
<1>1. MsgqTypes
  BY DEF MsgqInv
<1>2. PICK n \in 0 .. MaxReqs : SendRing(n) /\ TakenInOrder /\ AnswerRings(msgq, cfg, n)
  BY DEF MsgqInv
<1>3. n \in Nat /\ n <= Posted /\ Taken <= n
  BY <1>2 DEF SendRing, AnswerRings
<1>4. /\ Taken \in Nat /\ Posted \in Nat /\ base \in Nat /\ Len(reqs) \in Nat
      /\ base + Posted = Len(reqs)
  BY <1>1, Counts
<1>5. DOMAIN drv.got = 1 .. Taken
  <2>1. drv.got \in Seq(Response)
    BY <1>1 DEF MsgqTypes
  <2> QED BY <2>1, LenProperties DEF Taken
<1>6. ASSUME NEW i \in Unread
      PROVE  \E k \in Taken + 1 .. n :
               /\ msgq.cq[i][1].id = base + k
               /\ msgq.rq[msgq.cq[i][1].rq_idx] # <<>>
               /\ msgq.rq[msgq.cq[i][1].rq_idx][1].id = base + k
  <2>1. PICK k \in Taken + 1 .. n : i = (k - 1) % cq_depth
    BY <1>1, <1>2, <1>3, UnreadIs
  <2> DEFINE j == (k - 1) % rq_depth
  <2>2. /\ msgq.cq[i] = <<[id |-> base + k, rq_idx |-> j]>>
        /\ msgq.rq[j] # <<>> /\ msgq.rq[j][1].id = base + k
    BY <1>2, <2>1 DEF AnswerRings
  <2> HIDE DEF j
  <2>3. msgq.cq[i][1].id = base + k /\ msgq.cq[i][1].rq_idx = j
    BY <2>2
  <2> QED BY <2>2, <2>3
<1>7. CompletionNamesResponse
  BY <1>6 DEF CompletionNamesResponse
<1>8. AnsweredInOrder
  <2> SUFFICES ASSUME NEW i \in DOMAIN drv.got
               PROVE  drv.got[i].id = base + i /\ Answers(base + i) = 1
    BY DEF AnsweredInOrder
  <2>1. i \in 1 .. Taken /\ \A j \in 1 .. Taken : drv.got[j].id = base + j
    BY <1>2, <1>5 DEF TakenInOrder
  <2>2. {j \in DOMAIN drv.got : drv.got[j].id = base + i} = {i}
    BY <1>4, <1>5, <2>1
  <2>3. {j \in Unread : msgq.cq[j][1].id = base + i} = {}
    <3> SUFFICES ASSUME NEW j \in Unread, msgq.cq[j][1].id = base + i PROVE FALSE
      OBVIOUS
    <3>1. PICK k \in Taken + 1 .. n : msgq.cq[j][1].id = base + k
      BY <1>6
    <3> QED BY <1>3, <1>4, <2>1, <3>1
  <2>4. Answers(base + i) = 1
    <3>1. /\ Cardinality({j \in DOMAIN drv.got : drv.got[j].id = base + i}) = 1
          /\ Cardinality({j \in Unread : msgq.cq[j][1].id = base + i}) = 0
      BY <2>2, <2>3, FS_Singleton, FS_EmptySet, Zenon
    <3>2. Answers(base + i) = 1 + 0
      BY <3>1, Zenon DEF Answers
    <3> QED BY <3>2
  <2> QED BY <2>1, <2>4
<1>9. ReadsLastWrite
  <2> SUFFICES ASSUME rsts = 0, NEW i \in DOMAIN drv.got,
                      reqs[drv.got[i].id].kind = "CfgRead",
                      reqs[drv.got[i].id].addr \notin {"TH_EN", "NUM_PORTS", "OTHER"}
               PROVE  drv.got[i].data =
                        Reference(reqs, reqs[drv.got[i].id].addr, drv.got[i].id - 1)
    BY DEF ReadsLastWrite
  <2>1. drv.got[i].id = base + i /\ Right(base + i, drv.got[i].data) /\ i \in 1 .. Taken
    BY <1>2, <1>5 DEF TakenInOrder
  <2> DEFINE id == drv.got[i].id
  <2>2. id \in 1 .. Len(reqs) /\ RightFor(reqs, id, drv.got[i].data)
    BY <1>3, <1>4, <2>1 DEF Right
  <2>3. reqs[id] \in Request
    BY <1>1, <2>2 DEF MsgqTypes
  <2> HIDE DEF id
  <2>4. reqs[id].addr \in Readable
    <3>1. reqs[id].addr \in AllAddrs
      BY <2>3, RequestIs DEF id
    <3> QED BY <3>1 DEF AllAddrs, Readable, id
  <2> QED BY <2>2, <2>4 DEF RightFor, id
<1> QED BY <1>7, <1>8, <1>9 DEF AnswersAreRight

-----------------------------------------------------------------------------

\* MsgqInv holds in every state, however often the driver posts, rings, takes,
\* masks and resets, and whichever writes of SQ_PI fail.
THEOREM MsgqInvariant == MsgqSpec => []MsgqInv
  BY InitMsgqInv, MsgqStepKeepsInv, PTL DEF MsgqSpec

\* Positions stay within the rings, for every depth of them, and the driver
\* only ever takes responses, even when requests are answered again.
THEOREM MsgqRingsHold == MsgqSpec => []MsgqTypeOK
  BY MsgqInvariant, InvGivesTypes, PTL

\* The interrupt line follows status and mask of the completion interrupt.
THEOREM MsgqLine == MsgqSpec => []LineFollowsInt
<1>1. MsgqInv => LineFollowsInt
  BY DEF MsgqInv
<1> QED BY <1>1, MsgqInvariant, PTL

\* While no write of SQ_PI has failed, each request is answered once, in
\* order, in slots that still hold the answer when the driver comes, and a
\* read has the value of the last write through either name of the register.
THEOREM MsgqAnswers == MsgqSpec => []AnswersAreRight
  BY MsgqInvariant, InvGivesAnswers, PTL

=============================================================================
