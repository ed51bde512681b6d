--------------------------- MODULE LinquUbProofs ---------------------------
(***************************************************************************)
(* Proofs about the endpoint of the linqu-ub device, its driver and the    *)
(* program, for every depth of the rings and of the queues of the surface, *)
(* any number of commands, operations, retries and resets.                 *)
(***************************************************************************)
EXTENDS LinquUb, UapiSurfaceProofs

Endpoint ==
  [cmdq: [0 .. cmdq_depth - 1 -> 0 .. MaxCmds],
   cmdq_head: 0 .. cmdq_depth - 1, cmdq_tail: 0 .. cmdq_depth - 1,
   cq: [0 .. cq_depth - 1 -> Seq(EventType)],
   cq_head: 0 .. cq_depth - 1, cq_tail: 0 .. cq_depth - 1,
   irq_status: SUBSET IrqBits]

Driver == [thread: {"idle", "woken", "read", "acked"}, status: SUBSET IrqBits,
           event_pending: BOOLEAN]

Program == [pc: {"run", "rewound", "polling", "done"},
            next: 0 .. cq_depth - 1, told: 0 .. cq_depth - 1]

\* The commands in the command ring.
Ring == Batch(E1, 0)

\* The completions in the ring of endpoint e that program p has not read.
UnreadIn(e, p) == Pending(p.next, e.cq_tail, cq_depth)

ArrivedIn(e, p) == [i \in 1 .. UnreadIn(e, p) |-> e.cq[(p.next + i - 1) % cq_depth][1]]

Arrived == ArrivedIn(E1, probe)

Types(L, u, S, E, i, d, p, f, P, b) ==
  /\ L \in Seq(Command) /\ Numbered(L)
  /\ Between(u)
  /\ S \in [Guests -> Seq(EventType)]
  /\ E \in [Guests -> Endpoint]
  /\ E[endpoint1].cmdq \in [0 .. cmdq_depth - 1 -> 0 .. Len(L)]
  /\ i \in BOOLEAN /\ d \in Driver /\ p \in Program
  /\ f \subseteq {"submit", "doorbell"}
  /\ P \subseteq 1 .. Len(L)
  /\ b \in [log: 0 .. Len(L), dirty: BOOLEAN]

\* They are in the ring, between the CQ_HEAD it has written and the tail, also
\* after it has rewound CQ_HEAD.
Reader(e, p) ==
  /\ UnreadIn(e, p) <= Pending(e.cq_head, e.cq_tail, cq_depth)
  /\ \A i \in 1 .. UnreadIn(e, p) : e.cq[(p.next + i - 1) % cq_depth] # <<>>
  /\ UnreadIn(e, p) = 0 => p.told = e.cq_tail

\* A program that polls and does not know of a completion is told of it.
Woken(e, d, p) ==
  p.pc = "polling" /\ p.told # e.cq_tail =>
    \/ "COMPLETION" \in e.irq_status
    \/ d.thread \in {"read", "acked"} /\ "COMPLETION" \in d.status
    \/ d.event_pending

\* The inductive invariant of types, completion ring and interrupt.
Inv(L, u, S, E, i, d, p, f, P, b) ==
  /\ Types(L, u, S, E, i, d, p, f, P, b)
  /\ Reader(E[endpoint1], p)
  /\ i = has_pending_irq(E)
  /\ Woken(E[endpoint1], d, p)

DevInv == Inv(log, uapi, seen, ep, irq, drv, probe, failed, passed, boot)

-----------------------------------------------------------------------------
(* Rings and endpoints *)

\* Entries between head and tail, when the tail moves on and when the head
\* does.
LEMMA PendingIs ==
  ASSUME NEW d \in Nat \ {0}, NEW h \in 0 .. d - 1, NEW t \in 0 .. d - 1
  PROVE  /\ Pending(h, t, d) \in 0 .. d - 1
         /\ (h + Pending(h, t, d)) % d = t
         /\ Pending(h, t, d) = 0 <=> h = t
         /\ \A m \in Nat : Pending(h, t, d) + m <= d - 1 =>
              (t + m) % d \in 0 .. d - 1 /\ Pending(h, (t + m) % d, d) = Pending(h, t, d) + m
         /\ \A n \in 0 .. Pending(h, t, d) :
              (h + n) % d \in 0 .. d - 1 /\ Pending((h + n) % d, t, d) = Pending(h, t, d) - n
<1> DEFINE P == Pending(h, t, d)
<1>1. P \in 0 .. d - 1 /\ P = (IF t >= h THEN t - h ELSE d - h + t) /\ (P = 0 <=> h = t)
  BY DEF Pending
<1> HIDE DEF P
<1>2. (h + P) % d = t
  <2>1. P \in 0 .. d
    BY <1>1
  <2>2. (h + P) % d = IF h + P < d THEN h + P ELSE h + P - d
    BY <2>1, WrapIs
  <2> QED BY <1>1, <2>2
<1>3. ASSUME NEW m \in Nat, P + m <= d - 1
      PROVE  (t + m) % d \in 0 .. d - 1 /\ Pending(h, (t + m) % d, d) = P + m
  <2> DEFINE u == (t + m) % d
  <2>1. m \in 0 .. d
    BY <1>1, <1>3
  <2>2. u \in 0 .. d - 1 /\ u = IF t + m < d THEN t + m ELSE t + m - d
    BY <2>1, WrapIs
  <2> HIDE DEF u
  <2>3. Pending(h, u, d) = IF u >= h THEN u - h ELSE d - h + u
    BY DEF Pending
  <2>4. Pending(h, u, d) = P + m
    BY <1>1, <1>3, <2>2, <2>3
  <2> QED BY <2>2, <2>4 DEF u
<1>4. ASSUME NEW n \in 0 .. P
      PROVE  (h + n) % d \in 0 .. d - 1 /\ Pending((h + n) % d, t, d) = P - n
  <2> DEFINE u == (h + n) % d
  <2>1. n \in 0 .. d
    BY <1>1
  <2>2. u \in 0 .. d - 1 /\ u = IF h + n < d THEN h + n ELSE h + n - d
    BY <2>1, WrapIs
  <2> HIDE DEF u
  <2>3. Pending(u, t, d) = IF t >= u THEN t - u ELSE d - u + t
    BY DEF Pending
  <2>4. Pending(u, t, d) = P - n
    BY <1>1, <2>2, <2>3
  <2> QED BY <2>2, <2>4 DEF u
<1> QED BY <1>1, <1>2, <1>3, <1>4 DEF P

\* The same, for use with m and n given.
LEMMA PendingGrows ==
  ASSUME NEW d \in Nat \ {0}, NEW h \in 0 .. d - 1, NEW t \in 0 .. d - 1,
         NEW m \in Nat, Pending(h, t, d) + m <= d - 1
  PROVE  Pending(h, (t + m) % d, d) = Pending(h, t, d) + m
  BY PendingIs

\* The tail is where the entries end.
LEMMA PendingEnds ==
  ASSUME NEW d \in Nat \ {0}, NEW h \in 0 .. d - 1, NEW t \in 0 .. d - 1
  PROVE  Pending(h, t, d) \in 0 .. d - 1 /\ (h + Pending(h, t, d)) % d = t
  BY PendingIs

\* The parts of an endpoint, and of the driver and the program.
LEMMA EndpointFields ==
  ASSUME NEW e \in Endpoint
  PROVE  /\ e.cmdq \in [0 .. cmdq_depth - 1 -> 0 .. MaxCmds]
         /\ e.cmdq_head \in 0 .. cmdq_depth - 1 /\ e.cmdq_tail \in 0 .. cmdq_depth - 1
         /\ e.cq \in [0 .. cq_depth - 1 -> Seq(EventType)]
         /\ e.cq_head \in 0 .. cq_depth - 1 /\ e.cq_tail \in 0 .. cq_depth - 1
         /\ e.irq_status \in SUBSET IrqBits
         /\ cmdq_depth \in Nat \ {0} /\ cq_depth \in Nat \ {0} /\ endpoint1 \in Guests
         /\ cmdq_depth >= 2 /\ cq_depth >= 2
  BY LinquUbAssumption DEF Endpoint

\* A kick copies m completions of t to the ring of endpoint e.
Flows(g, e, t, m, r) ==
  /\ m \in 0 .. CqFree(e)
  /\ Takes(t, g, m, r.uapi)
  /\ r.ep \in Endpoint
  /\ r.ep.cmdq = e.cmdq /\ r.ep.cmdq_head = e.cmdq_head /\ r.ep.cmdq_tail = e.cmdq_tail
  /\ r.ep.cq_head = e.cq_head /\ r.ep.cq_tail = (e.cq_tail + m) % cq_depth
  /\ \A i \in 0 .. cq_depth - 1 :
       r.ep.cq[i] = IF (i - e.cq_tail) % cq_depth < m
                    THEN <<t.cq[g][((i - e.cq_tail) % cq_depth) + 1]>> ELSE e.cq[i]
  /\ e.irq_status \subseteq r.ep.irq_status
  /\ m > 0 => "COMPLETION" \in r.ep.irq_status

\* The slots that are free.
LEMMA CqFreeIs ==
  ASSUME NEW e \in Endpoint
  PROVE  /\ CqFree(e) \in 0 .. cq_depth - 1
         /\ CqFree(e) = cq_depth - 1 - Pending(e.cq_head, e.cq_tail, cq_depth)
<1>1. Pending(e.cq_head, e.cq_tail, cq_depth) \in 0 .. cq_depth - 1 /\ cq_depth \in Nat
  BY EndpointFields, PendingIs
<1> QED BY <1>1 DEF CqFree

\* linqu_ub_flush_cq does so, after a flush of the surface unless the ring is
\* full.
LEMMA FlushCqIs ==
  ASSUME NEW g \in Guests, NEW e \in Endpoint, NEW s, Between(s)
  PROVE  \E m : Flows(g, e, IF CqFree(e) = 0 THEN s ELSE Flushed(s), m, flush_cq(g, e, s))
<1> DEFINE free == CqFree(e)
           t == IF free = 0 THEN s ELSE Flushed(s)
           m == IF free = 0 THEN 0 ELSE Min({free, Len(t.cq[g])})
           q == t.cq[g]
<1>1. free \in 0 .. cq_depth - 1
  BY CqFreeIs
<1>2. Between(t)
  BY BetweenSteps, Zenon
<1>3. t \in Surface /\ q \in Seq(EventType) /\ Len(q) \in Nat
  <2> HIDE DEF t
  <2> QED BY <1>2, SurfaceFields, LenProperties DEF Between
<1>4. m \in 0 .. free /\ m \in 0 .. Len(q)
  <2>1. CASE free = 0
    BY <1>3, <2>1
  <2>2. CASE free # 0
    <3> DEFINE l == Len(q)
    <3>1. m = Min({free, l}) /\ free \in Nat /\ l \in Nat
      BY <1>1, <1>3, <2>2
    <3> HIDE DEF m, free, l
    <3>a. free \in Int /\ l \in Int
      BY <3>1
    <3>2. Min({free, l}) \in {free, l} /\ Min({free, l}) <= free /\ Min({free, l}) <= l
      BY <3>a, MinOfTwo
    <3>3. m \in 0 .. free /\ m \in 0 .. l
      BY <3>1, <3>2
    <3> QED BY <3>3 DEF l
  <2> QED BY <2>1, <2>2
<1> DEFINE C == [i \in 0 .. cq_depth - 1 |->
                   IF (i - e.cq_tail) % cq_depth < m
                   THEN <<q[((i - e.cq_tail) % cq_depth) + 1]>> ELSE e.cq[i]]
           T == (e.cq_tail + m) % cq_depth
           e2 == [e EXCEPT !.cq = C, !.cq_tail = T]
           I == e.irq_status \cup (IF m > 0 THEN {"COMPLETION"} ELSE {})
                  \cup (IF CqFull(e2) THEN {"CQ_OVERFLOW"} ELSE {})
           r == flush_cq(g, e, s)
<1>5. DOMAIN e.cq = 0 .. cq_depth - 1
  BY EndpointFields
<1>6. /\ r.ep = [e2 EXCEPT !.irq_status = I]
      /\ r.uapi = [t EXCEPT !.cq[g] = SubSeq(@, m + 1, Len(@))]
  <2>1. r = LET k2 == [e EXCEPT
                  !.cq = [i \in DOMAIN @ |->
                            LET k == (i - e.cq_tail) % cq_depth
                            IN  IF k < m THEN <<t.cq[g][k + 1]>> ELSE @[i]],
                  !.cq_tail = (@ + m) % cq_depth]
            IN  [ep |-> [k2 EXCEPT !.irq_status =
                 @ \cup (IF m > 0 THEN {"COMPLETION"} ELSE {})
                   \cup (IF CqFull(k2) THEN {"CQ_OVERFLOW"} ELSE {})],
                 uapi |-> [t EXCEPT !.cq[g] = SubSeq(@, m + 1, Len(@))]]
    BY DEF flush_cq
  <2> HIDE DEF m, t, r
  <2>2. [e EXCEPT
                  !.cq = [i \in DOMAIN @ |->
                            LET k == (i - e.cq_tail) % cq_depth
                            IN  IF k < m THEN <<t.cq[g][k + 1]>> ELSE @[i]],
                  !.cq_tail = (@ + m) % cq_depth] = e2
    BY <1>5
  <2>3. e2.irq_status = e.irq_status
    <3> HIDE DEF C, T
    <3> QED BY DEF Endpoint
  <2> HIDE DEF e2
  <2> QED BY <2>1, <2>2, <2>3
<1>7. Takes(t, g, m, r.uapi)
  <2>1. m = Min({m, Len(t.cq[g])})
    <3> DEFINE l == Len(q)
    <3>1. m \in Nat /\ l \in Nat /\ m <= l
      BY <1>3, <1>4
    <3> HIDE DEF m, l
    <3>2. Min({m, l}) \in {m, l} /\ Min({m, l}) <= m /\ Min({m, l}) <= l
      BY <3>1, MinOfTwo
    <3>3. m = Min({m, l})
      BY <3>1, <3>2
    <3> QED BY <3>3 DEF l
  <2>2. m \in Nat
    BY <1>4
  <2> HIDE DEF m, t, r
  <2>3. LET n == Min({m, Len(t.cq[g])})
        IN  Takes(t, g, n, [t EXCEPT !.cq[g] = SubSeq(@, n + 1, Len(@))])
    BY <1>3, <2>2, TakeIs
  <2> QED BY <1>6, <2>1, <2>3
<1>8. C \in [0 .. cq_depth - 1 -> Seq(EventType)] /\ T \in 0 .. cq_depth - 1 /\ I \in SUBSET IrqBits
  <2>1. ASSUME NEW i \in 0 .. cq_depth - 1 PROVE C[i] \in Seq(EventType)
    <3> DEFINE k == (i - e.cq_tail) % cq_depth
    <3>1. k \in 0 .. cq_depth - 1
      BY EndpointFields, BackIs
    <3>2. C[i] = IF k < m THEN <<q[k + 1]>> ELSE e.cq[i]
      OBVIOUS
    <3>3. e.cq[i] \in Seq(EventType)
      BY EndpointFields
    <3> HIDE DEF k, m, q, C
    <3>4. ASSUME k < m PROVE <<q[k + 1]>> \in Seq(EventType)
      <4>1. k + 1 \in 1 .. Len(q)
        BY <1>3, <1>4, <3>1, <3>4
      <4>2. q[k + 1] \in EventType
        BY <1>3, <4>1, ElementOfSeq
      <4> QED BY <4>2
    <3> QED BY <3>2, <3>3, <3>4
  <2>2. T \in 0 .. cq_depth - 1
    <3>1. m \in 0 .. cq_depth
      BY <1>1, <1>4, EndpointFields
    <3> HIDE DEF m
    <3> QED BY <3>1, EndpointFields, WrapIs
  <2>3. I \in SUBSET IrqBits
    BY EndpointFields DEF IrqBits
  <2> QED BY <2>1, <2>2, <2>3
<1>9. /\ r.ep \in Endpoint /\ r.ep.cmdq = e.cmdq /\ r.ep.cmdq_head = e.cmdq_head
      /\ r.ep.cmdq_tail = e.cmdq_tail /\ r.ep.cq_head = e.cq_head /\ r.ep.cq_tail = T
      /\ r.ep.cq = C /\ r.ep.irq_status = I
  <2> HIDE DEF C, T, I, r
  <2> QED BY <1>6, <1>8, ZenonT(60) DEF Endpoint
<1>10. Flows(g, e, t, m, r)
  <2>1. \A i \in 0 .. cq_depth - 1 :
          r.ep.cq[i] = IF (i - e.cq_tail) % cq_depth < m
                       THEN <<t.cq[g][((i - e.cq_tail) % cq_depth) + 1]>> ELSE e.cq[i]
    <3> HIDE DEF m, r, t
    <3> QED BY <1>9, ZenonT(60)
  <2>2. e.irq_status \subseteq r.ep.irq_status /\ (m > 0 => "COMPLETION" \in r.ep.irq_status)
    <3> HIDE DEF m, r, t
    <3> QED BY <1>9
  <2>3. m \in 0 .. CqFree(e)
    BY <1>4
  <2> HIDE DEF m, r, t
  <2> QED BY <1>7, <1>9, <2>1, <2>2, <2>3 DEF Flows
<1> QED BY <1>10

-----------------------------------------------------------------------------
(* linqu_ub_kick *)

Acc == [s: Surface, ok: BOOLEAN]

\* One descriptor is submitted, or ends the loop.
LEMMA SubmitSlotIs ==
  ASSUME log \in Seq(Command), NEW g \in Guests, NEW a \in Acc, NEW id \in 0 .. Len(log)
  PROVE  LET b == Submit(g, a, id)
         IN  /\ b \in Acc
             /\ IF a.ok /\ id # 0 /\ Len(a.s.cmdq[g]) < CmdDepth
                THEN b.ok /\ log[id] \in Command /\ b.s = enqueue_cmd(a.s, g, log[id])
                ELSE ~b.ok /\ b.s = a.s
<1>1. a.s \in Surface /\ a.ok \in BOOLEAN
  BY DEF Acc
<1>2. CASE a.ok /\ id # 0 /\ Len(a.s.cmdq[g]) < CmdDepth
  <2>1. log[id] \in Command
    <3>1. id \in 1 .. Len(log)
      BY <1>2, LenProperties
    <3> QED BY <3>1, ElementOfSeq
  <2> DEFINE c == log[id]
             t == enqueue_cmd(a.s, g, c)
  <2>2. t \in Surface
    <3> HIDE DEF c
    <3> QED BY <1>1, <2>1, EnqueueCmdIs DEF c
  <2>3. Submit(g, a, id) = [a EXCEPT !.s = t]
    BY <1>2 DEF Submit, CmdqHasRoom
  <2> HIDE DEF t
  <2>4. LET b == Submit(g, a, id) IN b \in Acc /\ b.ok = a.ok /\ b.s = t
    BY <2>2, <2>3 DEF Acc
  <2> QED BY <1>2, <2>1, <2>4 DEF t
<1>3. CASE ~(a.ok /\ id # 0 /\ Len(a.s.cmdq[g]) < CmdDepth)
  <2>1. Submit(g, a, id) = [a EXCEPT !.ok = FALSE]
    BY <1>3 DEF Submit, CmdqHasRoom
  <2>2. LET b == Submit(g, a, id) IN b \in Acc /\ ~b.ok /\ b.s = a.s
    BY <2>1 DEF Acc
  <2> QED BY <1>3, <2>2
<1> QED BY <1>2, <1>3

\* Loops over what a kick has submitted.
LEMMA AccLoop ==
  ASSUME NEW a \in Acc, NEW n \in Nat, NEW F \in [1 .. n -> [Acc -> Acc]]
  PROVE  \E f \in [0 .. n -> Acc] :
           f[0] = a /\ \A k \in 1 .. n : f[k] = F[k][f[k - 1]]
  BY LoopRuns

\* The loop of the kick.
LEMMA SubmitLoop ==
  ASSUME log \in Seq(Command), NEW g \in Guests, NEW s \in Surface,
         NEW ids \in Seq(0 .. Len(log))
  PROVE  \E f \in [0 .. Len(ids) -> Acc] :
           /\ f[0] = [s |-> s, ok |-> TRUE]
           /\ \A k \in 1 .. Len(ids) : f[k] = Submit(g, f[k - 1], ids[k])
           /\ SubmitAll(g, s, ids) = f[Len(ids)]
<1> DEFINE n == Len(ids)
           a == [s |-> s, ok |-> TRUE]
           F == [k \in 1 .. n |-> [x \in Acc |-> Submit(g, x, ids[k])]]
           Is(f) == f = [k \in 0 .. n |-> IF k = 0 THEN [s |-> s, ok |-> TRUE]
                                          ELSE Submit(g, f[k - 1], ids[k])]
           acc == CHOOSE f : Is(f)
<1>1. n \in Nat /\ \A k \in 1 .. n : ids[k] \in 0 .. Len(log)
  BY LenProperties, ElementOfSeq
<1>2. \A k \in 1 .. n : \A x \in Acc : Submit(g, x, ids[k]) \in Acc
  BY <1>1, SubmitSlotIs
<1>3. F \in [1 .. n -> [Acc -> Acc]]
  <2> HIDE DEF n
  <2> QED BY <1>2
<1>4. \A k \in 1 .. n : \A x \in Acc : F[k][x] = Submit(g, x, ids[k])
  OBVIOUS
<1>a. a \in Acc
  BY DEF Acc
<1> HIDE DEF n, F
<1>5. PICK f \in [0 .. n -> Acc] : f[0] = a /\ \A k \in 1 .. n : f[k] = F[k][f[k - 1]]
  <2> HIDE DEF a
  <2> QED BY <1>1, <1>3, <1>a, AccLoop, Zenon
<1>6. ASSUME NEW k \in 1 .. n PROVE f[k] = Submit(g, f[k - 1], ids[k])
  <2>1. f[k - 1] \in Acc
    BY <1>1, <1>5
  <2> QED BY <1>4, <1>5, <2>1
<1>7. Is(f)
  <2>1. ASSUME NEW k \in 0 .. n
        PROVE  f[k] = IF k = 0 THEN a ELSE Submit(g, f[k - 1], ids[k])
    <3> HIDE DEF a
    <3> QED BY <1>1, <1>5, <1>6
  <2> QED BY <1>5, <2>1
<1>8. Is(acc)
  <2> HIDE DEF Is
  <2> QED BY <1>7, Zenon
<1>9. \A k \in 0 .. n : acc[k] = IF k = 0 THEN a ELSE Submit(g, acc[k - 1], ids[k])
  BY <1>8
<1>10. \A k \in 0 .. n : acc[k] = f[k]
  <2> DEFINE T == {k \in 0 .. n : acc[k] = f[k]}
  <2> HIDE DEF acc, a
  <2>1. 0 \in T
    BY <1>1, <1>5, <1>9
  <2>2. ASSUME NEW k \in 0 .. n - 1, k \in T PROVE k + 1 \in T
    <3>1. k + 1 \in 1 .. n /\ k + 1 \in 0 .. n /\ (k + 1) - 1 = k /\ k + 1 # 0
      BY <1>1
    <3>2. acc[k + 1] = Submit(g, acc[k], ids[k + 1])
      BY <1>9, <3>1
    <3>3. f[k + 1] = Submit(g, f[k], ids[k + 1])
      BY <1>6, <3>1
    <3> QED BY <2>2, <3>1, <3>2, <3>3
  <2> HIDE DEF T
  <2>3. \A k \in 0 .. n : k \in T
    BY <1>1, <2>1, <2>2, UpTo
  <2> QED BY <2>3 DEF T
<1>11. SubmitAll(g, s, ids) = acc[n]
  BY Zenon DEF SubmitAll, n
<1>12. SubmitAll(g, s, ids) = f[n]
  <2> HIDE DEF acc
  <2> QED BY <1>1, <1>10, <1>11
<1> QED BY <1>5, <1>6, <1>12 DEF n

\* From s to x the first p of the descriptors are submitted.
Cmds(ids, p) == [i \in 1 .. p |-> log[ids[i]]]

Gives(s, g, ids, p, x) ==
  /\ p \in 0 .. Len(ids)
  /\ \A i \in 1 .. p : ids[i] # 0
  /\ x \in Surface
  /\ x.cmdq = [s.cmdq EXCEPT ![g] = s.cmdq[g] \o Cmds(ids, p)]
  /\ x.runtime = s.runtime /\ x.service = s.service /\ x.store = s.store
  /\ x.cq = s.cq /\ x.failures = s.failures
  /\ x.refused = s.refused /\ x.lost = s.lost

\* They are commands.
LEMMA CmdsType ==
  ASSUME log \in Seq(Command), NEW ids \in Seq(0 .. Len(log)), NEW p \in 0 .. Len(ids),
         \A i \in 1 .. p : ids[i] # 0
  PROVE  /\ Cmds(ids, p) \in Seq(Command) /\ Len(Cmds(ids, p)) = p
         /\ \A i \in 1 .. p : /\ Cmds(ids, p)[i] = log[ids[i]] /\ log[ids[i]] \in Command
                              /\ ids[i] \in 1 .. Len(log)
<1>1. Len(ids) \in Nat /\ p \in Nat /\ Len(log) \in Nat
  BY LenProperties
<1>2. ASSUME NEW i \in 1 .. p PROVE ids[i] \in 1 .. Len(log) /\ log[ids[i]] \in Command
  <2>1. i \in 1 .. Len(ids) /\ ids[i] # 0
    BY <1>1
  <2>2. ids[i] \in 0 .. Len(log)
    BY <2>1, ElementOfSeq
  <2>3. ids[i] \in 1 .. Len(log)
    BY <1>1, <2>1, <2>2
  <2> QED BY <2>3, ElementOfSeq
<1>3. Cmds(ids, p) \in [1 .. p -> Command]
  BY <1>2 DEF Cmds
<1>4. Cmds(ids, p) \in Seq(Command) /\ Len(Cmds(ids, p)) = p
  <2> DEFINE q == Cmds(ids, p)
  <2>1. q \in [1 .. p -> Command]
    BY <1>3
  <2> HIDE DEF q
  <2>2. q \in Seq(Command) /\ Len(q) = p
    BY <1>1, <2>1
  <2> QED BY <2>2 DEF q
<1> QED BY <1>2, <1>4 DEF Cmds

\* One more.
LEMMA CmdsNext ==
  ASSUME log \in Seq(Command), NEW ids \in Seq(0 .. Len(log)), NEW p \in 0 .. Len(ids) - 1,
         \A i \in 1 .. p + 1 : ids[i] # 0
  PROVE  Cmds(ids, p + 1) = Append(Cmds(ids, p), log[ids[p + 1]])
<1> DEFINE q == p + 1
           a == Cmds(ids, p)
           b == Cmds(ids, q)
           c == log[ids[q]]
<1>1. Len(ids) \in Nat /\ p \in 0 .. Len(ids) /\ q \in 0 .. Len(ids) /\ q \in 1 .. q
  BY LenProperties
<1>2. a \in Seq(Command) /\ Len(a) = p /\ \A i \in 1 .. p : a[i] = log[ids[i]]
  BY <1>1, CmdsType
<1>3. b \in Seq(Command) /\ Len(b) = q /\ \A i \in 1 .. q : b[i] = log[ids[i]] /\ b[i] \in Command
  <2> HIDE DEF q
  <2> QED BY <1>1, CmdsType DEF q
<1>4. c \in Command
  <2> HIDE DEF b, q
  <2> QED BY <1>1, <1>3
<1> HIDE DEF a, b, c
<1>5. /\ Append(a, c) \in Seq(Command) /\ Len(Append(a, c)) = p + 1
      /\ Append(a, c)[p + 1] = c /\ \A i \in 1 .. p : Append(a, c)[i] = a[i]
  <2>1. /\ Append(a, c) \in Seq(Command) /\ Len(Append(a, c)) = Len(a) + 1
        /\ Append(a, c)[Len(a) + 1] = c /\ \A i \in 1 .. Len(a) : Append(a, c)[i] = a[i]
    BY <1>2, <1>4, AppendIs
  <2> QED BY <1>2, <2>1
<1>6. ASSUME NEW i \in 1 .. q PROVE b[i] = Append(a, c)[i]
  <2>1. CASE i = q
    BY <1>3, <1>5, <2>1 DEF c
  <2>2. CASE i # q
    <3>1. i \in 1 .. p
      BY <2>2
    <3> QED BY <1>2, <1>3, <1>5, <3>1
  <2> QED BY <2>1, <2>2
<1>7. b = Append(a, c)
  BY <1>3, <1>5, <1>6, SeqEqual
<1> QED BY <1>7 DEF a, b, c

\* Queues of commands, joined and with one more.
LEMMA AppendCommand ==
  ASSUME NEW q \in Seq(Command), NEW r \in Seq(Command), NEW c \in Command
  PROVE  Append(q \o r, c) = q \o Append(r, c)
<1> DEFINE S == Command
<1>1. q \in Seq(S) /\ r \in Seq(S) /\ c \in S
  OBVIOUS
<1> HIDE DEF S
<1>2. <<c>> \in Seq(S) /\ q \o r \in Seq(S)
  BY <1>1, ConcatProperties
<1>3. Append(q \o r, c) = (q \o r) \o <<c>> /\ Append(r, c) = r \o <<c>>
  BY <1>1, <1>2, AppendIsConcat
<1>4. (q \o r) \o <<c>> = q \o (r \o <<c>>)
  BY <1>1, <1>2, ConcatAssociative
<1> QED BY <1>3, <1>4

\* What has been submitted is behind what the queue held.
LEMMA GivesQueue ==
  ASSUME log \in Seq(Command), NEW g \in Guests, NEW s \in Surface,
         NEW ids \in Seq(0 .. Len(log)), NEW p, NEW x, Gives(s, g, ids, p, x)
  PROVE  /\ x.cmdq[g] = s.cmdq[g] \o Cmds(ids, p)
         /\ Cmds(ids, p) \in Seq(Command) /\ Len(Cmds(ids, p)) = p
         /\ s.cmdq[g] \in Seq(Command)
         /\ Len(x.cmdq[g]) = Len(s.cmdq[g]) + p /\ Len(s.cmdq[g]) \in Nat /\ p \in Nat
<1>1. p \in 0 .. Len(ids) /\ \A i \in 1 .. p : ids[i] # 0
  BY DEF Gives
<1>2. Cmds(ids, p) \in Seq(Command) /\ Len(Cmds(ids, p)) = p
  BY <1>1, CmdsType
<1>3. s.cmdq \in [Guests -> Seq(Command)] /\ s.cmdq[g] \in Seq(Command) /\ Len(s.cmdq[g]) \in Nat
  BY SurfaceFields, LenProperties
<1>4. x.cmdq[g] = s.cmdq[g] \o Cmds(ids, p)
  BY <1>3 DEF Gives
<1>5. Len(s.cmdq[g] \o Cmds(ids, p)) = Len(s.cmdq[g]) + p
  <2> DEFINE q == s.cmdq[g]
             c == Cmds(ids, p)
  <2>1. q \in Seq(Command) /\ c \in Seq(Command) /\ Len(c) = p
    BY <1>2, <1>3
  <2> HIDE DEF q, c
  <2>2. Len(q \o c) = Len(q) + p
    BY <2>1, ConcatProperties
  <2> QED BY <2>2 DEF q, c
<1>6. p \in Nat
  BY <1>1, LenProperties
<1> QED BY <1>2, <1>3, <1>4, <1>5, <1>6

\* One more is submitted.
LEMMA GivesNext ==
  ASSUME log \in Seq(Command), NEW g \in Guests, NEW s \in Surface,
         NEW ids \in Seq(0 .. Len(log)), NEW p \in 0 .. Len(ids) - 1, NEW x,
         Gives(s, g, ids, p, x), ids[p + 1] # 0
  PROVE  Gives(s, g, ids, p + 1, enqueue_cmd(x, g, log[ids[p + 1]]))
<1> DEFINE c == log[ids[p + 1]]
           q == Cmds(ids, p)
           y == enqueue_cmd(x, g, c)
           L == s.cmdq[g]
<1>1. /\ Len(ids) \in Nat /\ p + 1 \in 0 .. Len(ids) /\ p + 1 \in 1 .. p + 1
      /\ \A i \in 1 .. p + 1 : ids[i] # 0
  BY LenProperties DEF Gives
<1>2. Cmds(ids, p + 1) = Append(q, c)
  BY <1>1, CmdsNext
<1>3. c \in Command
  BY <1>1, CmdsType
<1>4. /\ q \in Seq(Command) /\ L \in Seq(Command) /\ x.cmdq[g] = L \o q
      /\ x \in Surface /\ s.cmdq \in [Guests -> Seq(Command)]
      /\ x.cmdq = [s.cmdq EXCEPT ![g] = L \o q]
  <2>1. p \in 0 .. Len(ids) /\ \A i \in 1 .. p : ids[i] # 0
    BY DEF Gives
  <2>2. q \in Seq(Command)
    BY <2>1, CmdsType
  <2>3. s.cmdq \in [Guests -> Seq(Command)] /\ L \in Seq(Command)
    BY SurfaceFields
  <2>4. x \in Surface /\ x.cmdq = [s.cmdq EXCEPT ![g] = L \o q]
    BY DEF Gives
  <2> HIDE DEF q, L
  <2>5. x.cmdq[g] = L \o q
    BY <2>3, <2>4
  <2> QED BY <2>2, <2>3, <2>4, <2>5
<1> HIDE DEF c, q, L
<1>5. /\ y \in Surface /\ y.cmdq = [x.cmdq EXCEPT ![g] = Append(x.cmdq[g], c)]
      /\ y.runtime = x.runtime /\ y.service = x.service /\ y.store = x.store
      /\ y.cq = x.cq /\ y.failures = x.failures
      /\ y.refused = x.refused /\ y.lost = x.lost
  BY <1>3, <1>4, EnqueueCmdIs
<1>6. Append(L \o q, c) = L \o Append(q, c)
  <2>1. q \in Seq(Command) /\ L \in Seq(Command) /\ c \in Command
    BY <1>3, <1>4
  <2> QED BY <2>1, AppendCommand, Zenon
<1>7. y.cmdq = [s.cmdq EXCEPT ![g] = L \o Append(q, c)]
  <2> DEFINE u == L \o Append(q, c)
  <2>1. y.cmdq = [x.cmdq EXCEPT ![g] = u]
    BY <1>4, <1>5, <1>6
  <2> HIDE DEF u
  <2>2. y.cmdq = [s.cmdq EXCEPT ![g] = u]
    BY <1>4, <2>1
  <2> QED BY <2>2 DEF u
<1> HIDE DEF y
<1>8. y.cmdq = [s.cmdq EXCEPT ![g] = s.cmdq[g] \o Cmds(ids, p + 1)]
  BY <1>2, <1>7 DEF L
<1>9. Gives(s, g, ids, p + 1, y)
  BY <1>1, <1>5, <1>8 DEF Gives
<1> QED BY <1>9 DEF y, c

\* What the loop has submitted when it ends, and why it ends early.
Submits(s, g, ids, p, a) ==
  /\ Gives(s, g, ids, p, a.s)
  /\ a.ok \in BOOLEAN
  /\ a.ok <=> p = Len(ids)
  /\ ~a.ok => ids[p + 1] = 0 \/ Len(s.cmdq[g]) + p >= CmdDepth
  /\ p >= 1 => Len(s.cmdq[g]) + p <= CmdDepth

\* It is a part of the descriptors from the first on.
LEMMA SubmitAllIs ==
  ASSUME log \in Seq(Command), NEW g \in Guests, NEW s \in Surface,
         NEW ids \in Seq(0 .. Len(log))
  PROVE  \E p : Submits(s, g, ids, p, SubmitAll(g, s, ids))
<1> DEFINE n == Len(ids)
           Claim(a, k) == \E p \in 0 .. k :
                            /\ Gives(s, g, ids, p, a.s)
                            /\ a.ok \in BOOLEAN /\ (a.ok <=> p = k)
                            /\ ~a.ok => ids[p + 1] = 0 \/ Len(s.cmdq[g]) + p >= CmdDepth
                            /\ p >= 1 => Len(s.cmdq[g]) + p <= CmdDepth
<1>1. PICK f \in [0 .. n -> Acc] :
           /\ f[0] = [s |-> s, ok |-> TRUE]
           /\ \A k \in 1 .. n : f[k] = Submit(g, f[k - 1], ids[k])
           /\ SubmitAll(g, s, ids) = f[n]
  BY SubmitLoop
<1>2. n \in Nat /\ n \in 0 .. n /\ \A k \in 1 .. n : ids[k] \in 0 .. Len(log)
  BY LenProperties, ElementOfSeq
<1> DEFINE K == {k \in 0 .. n : Claim(f[k], k)}
<1>3. 0 \in K
  <2>1. Gives(s, g, ids, 0, s)
    <3> DEFINE q == Cmds(ids, 0)
    <3>1. q = <<>>
      BY DEF Cmds
    <3>2. s.cmdq \in [Guests -> Seq(Command)] /\ s.cmdq[g] \in Seq(Command)
      BY SurfaceFields
    <3>3. s.cmdq[g] \o <<>> = s.cmdq[g]
      BY <3>2, ConcatEmptySeq
    <3>4. s.cmdq = [s.cmdq EXCEPT ![g] = s.cmdq[g]]
      BY <3>2
    <3>5. s.cmdq = [s.cmdq EXCEPT ![g] = s.cmdq[g] \o q]
      BY <3>1, <3>3, <3>4, Zenon
    <3>6. 0 \in 0 .. Len(ids) /\ \A i \in 1 .. 0 : ids[i] # 0
      BY <1>2
    <3> HIDE DEF n
    <3> QED BY <3>5, <3>6, Zenon DEF Gives
  <2>2. f[0].s = s /\ f[0].ok = TRUE
    BY <1>1
  <2> QED BY <1>2, <2>1, <2>2
<1>4. ASSUME NEW k \in 0 .. n - 1, k \in K PROVE k + 1 \in K
  <2> DEFINE x == f[k]
             y == f[k + 1]
             id == ids[k + 1]
  <2>1. k + 1 \in 1 .. n /\ (k + 1) - 1 = k /\ k \in 0 .. n /\ k + 1 \in 0 .. n /\ k + 1 \in 0 .. k + 1
    BY <1>2
  <2>2. x \in Acc /\ id \in 0 .. Len(log) /\ y = Submit(g, x, id)
    BY <1>1, <1>2, <2>1
  <2>3. PICK p \in 0 .. k :
                            /\ Gives(s, g, ids, p, x.s)
                            /\ x.ok \in BOOLEAN /\ (x.ok <=> p = k)
                            /\ ~x.ok => ids[p + 1] = 0 \/ Len(s.cmdq[g]) + p >= CmdDepth
                            /\ p >= 1 => Len(s.cmdq[g]) + p <= CmdDepth
    BY <1>4
  <2>4. /\ y \in Acc
        /\ IF x.ok /\ id # 0 /\ Len(x.s.cmdq[g]) < CmdDepth
           THEN y.ok /\ y.s = enqueue_cmd(x.s, g, log[id])
           ELSE ~y.ok /\ y.s = x.s
    <3> HIDE DEF x, y, id
    <3> QED BY <2>2, SubmitSlotIs
  <2>5. y.ok \in BOOLEAN
    BY <2>4 DEF Acc
  <2> HIDE DEF x, y
  <2>6. CASE x.ok /\ id # 0 /\ Len(x.s.cmdq[g]) < CmdDepth
    <3>1. p = k /\ k \in 0 .. Len(ids) - 1
      BY <2>3, <2>6
    <3>2. Gives(s, g, ids, k + 1, y.s)
      <4>1. Gives(s, g, ids, k, x.s) /\ ids[k + 1] # 0
        BY <2>3, <2>6, <3>1
      <4>2. Gives(s, g, ids, k + 1, enqueue_cmd(x.s, g, log[ids[k + 1]]))
        BY <3>1, <4>1, GivesNext
      <4> QED BY <2>4, <2>6, <4>2
    <3>3. Len(s.cmdq[g]) + (k + 1) <= CmdDepth
      <4> DEFINE z == x.s
      <4>1. Gives(s, g, ids, p, z) /\ Len(z.cmdq[g]) < CmdDepth
        BY <2>3, <2>6
      <4> HIDE DEF z
      <4>2. Len(z.cmdq[g]) = Len(s.cmdq[g]) + p /\ Len(s.cmdq[g]) \in Nat /\ p \in Nat
        BY <4>1, GivesQueue
      <4>3. CmdDepth \in Nat /\ p = k
        BY <3>1, SurfaceAssumption
      <4> DEFINE a == Len(z.cmdq[g])
                 b == Len(s.cmdq[g])
      <4>4. a < CmdDepth /\ a = b + p /\ b \in Nat /\ p \in Nat
        BY <4>1, <4>2
      <4> HIDE DEF a, b
      <4>5. b + (k + 1) <= CmdDepth
        BY <4>3, <4>4
      <4> QED BY <4>5 DEF b
    <3>4. Claim(y, k + 1)
      BY <2>1, <2>4, <2>6, <3>2, <3>3
    <3> QED BY <2>1, <3>4 DEF y
  <2>7. CASE ~(x.ok /\ id # 0 /\ Len(x.s.cmdq[g]) < CmdDepth)
    <3>1. ~y.ok /\ y.s = x.s
      BY <2>4, <2>7
    <3>2. p # k + 1 /\ p \in 0 .. k + 1
      OBVIOUS
    <3>3. ids[p + 1] = 0 \/ Len(s.cmdq[g]) + p >= CmdDepth
      <4>1. CASE ~x.ok
        BY <2>3, <4>1
      <4>2. CASE x.ok
        <5>1. p = k
          BY <2>3, <4>2
        <5>2. CASE id = 0
          BY <5>1, <5>2
        <5>3. CASE ~(Len(x.s.cmdq[g]) < CmdDepth)
          <6>1. Len(x.s.cmdq[g]) = Len(s.cmdq[g]) + p /\ Len(s.cmdq[g]) \in Nat /\ p \in Nat
            <7> DEFINE z == x.s
            <7>1. Gives(s, g, ids, p, z)
              BY <2>3
            <7> HIDE DEF z
            <7>2. Len(z.cmdq[g]) = Len(s.cmdq[g]) + p /\ Len(s.cmdq[g]) \in Nat /\ p \in Nat
              BY <7>1, GivesQueue
            <7> QED BY <7>2 DEF z
          <6>2. CmdDepth \in Nat
            BY SurfaceAssumption
          <6> QED BY <5>3, <6>1, <6>2
        <5> QED BY <2>7, <4>2, <5>2, <5>3
      <4> QED BY <4>1, <4>2
    <3>4. Claim(y, k + 1)
      <4>1. Gives(s, g, ids, p, y.s)
        BY <2>3, <3>1
      <4> QED BY <2>3, <2>5, <3>1, <3>2, <3>3, <4>1
    <3> QED BY <2>1, <3>4 DEF y
  <2> QED BY <2>6, <2>7
<1> HIDE DEF K
<1>5. \A k \in 0 .. n : k \in K
  BY <1>2, <1>3, <1>4, UpTo
<1>6. Claim(f[n], n)
  BY <1>2, <1>5 DEF K
<1> QED BY <1>1, <1>6 DEF Submits

\* What a kick reads: the ring from the head on, up to the batch.
LEMMA BatchIs ==
  ASSUME NEW e \in Endpoint, NEW S, e.cmdq \in [0 .. cmdq_depth - 1 -> S], NEW batch \in Batches0
  PROVE  LET P == Pending(e.cmdq_head, e.cmdq_tail, cmdq_depth)
             n == Len(Batch(e, batch))
         IN  /\ P \in 0 .. cmdq_depth - 1 /\ n \in 0 .. P /\ (P >= 1 => n >= 1)
             /\ Batch(e, 0) = Slots(e.cmdq, e.cmdq_head, P, cmdq_depth)
             /\ Batch(e, 0) \in Seq(S) /\ Len(Batch(e, 0)) = P
             /\ Batch(e, batch) \in Seq(S) /\ Batch(e, batch) = SubSeq(Batch(e, 0), 1, n)
             /\ \A i \in 1 .. n : Batch(e, batch)[i] = Batch(e, 0)[i]
<1> DEFINE d == cmdq_depth
           h == e.cmdq_head
           P == Pending(e.cmdq_head, e.cmdq_tail, cmdq_depth)
           l == IF batch = 0 THEN d ELSE batch
           m == Min({l, P})
<1>1. d \in Nat \ {0} /\ h \in 0 .. d - 1 /\ P \in 0 .. d - 1 /\ d >= 2
  BY EndpointFields, PendingIs
<1>2. l \in Nat /\ l >= 1 /\ (batch = 0 => l = d)
  BY <1>1 DEF Batches0
<1>3. m \in 0 .. P /\ (P >= 1 => m >= 1) /\ (batch = 0 => m = P) /\ m \in 0 .. d
  <2>a. P \in 0 .. d - 1
    BY <1>1
  <2> HIDE DEF l, P
  <2>1. l \in Int /\ P \in Int
    BY <1>2, <2>a, <1>1
  <2>2. m \in {l, P} /\ m <= l /\ m <= P
    BY <2>1, MinOfTwo
  <2> HIDE DEF m
  <2> QED BY <1>1, <1>2, <2>2, <2>a
<1>4. Batch(e, batch) = Slots(e.cmdq, h, m, d)
  BY DEF Batch, Slots
<1>5. Batch(e, 0) = Slots(e.cmdq, h, P, d)
  <2>1. Min({d, P}) = P
    <3>a. P \in 0 .. d - 1
      BY <1>1
    <3> HIDE DEF P
    <3>1. d \in Int /\ P \in Int
      BY <1>1, <3>a
    <3>2. Min({d, P}) \in {d, P} /\ Min({d, P}) <= d /\ Min({d, P}) <= P
      BY <3>1, MinOfTwo
    <3> QED BY <1>1, <3>2, <3>a
  <2> QED BY <2>1 DEF Batch, Slots
<1> HIDE DEF m, P, h
<1> DEFINE f == e.cmdq
           b == Slots(f, h, m, d)
           a == Slots(f, h, P, d)
<1>6. f \in [0 .. d - 1 -> S] /\ P \in 0 .. d
  BY <1>1
<1> HIDE DEF f
<1>7. AreSlots(b, S, f, h, m, d) /\ AreSlots(a, S, f, h, P, d)
  BY <1>1, <1>3, <1>6, SlotsType, Zenon
<1>8. b = SubSeq(a, 1, m)
  <2>1. Splits(f, h, P, m, d)
    BY <1>1, <1>3, <1>6, SlotsSplit, Zenon
  <2> QED BY <2>1, Zenon DEF Splits
<1>9. /\ b \in Seq(S) /\ Len(b) = m /\ a \in Seq(S) /\ Len(a) = P
      /\ \A i \in 1 .. m : b[i] = a[i]
  <2> HIDE DEF a, b
  <2> QED BY <1>1, <1>3, <1>7 DEF AreSlots
<1> HIDE DEF a, b
<1>10. Batch(e, batch) = b /\ Batch(e, 0) = a
  BY <1>4, <1>5 DEF a, b, f
<1>11. a = Slots(e.cmdq, e.cmdq_head, P, cmdq_depth)
  BY DEF a, f, h
<1> QED BY <1>1, <1>3, <1>8, <1>9, <1>10, <1>11 DEF P

\* The three outcomes of a kick of endpoint e that has read ids.
KickSubmit(g, e, ids, k) ==
  /\ k.rc = "submit" /\ k.ids = {} /\ k.ep = set_error(e)
  /\ \E p \in 0 .. Len(ids) - 1 :
       /\ Gives(uapi, g, ids, p, k.uapi)
       /\ ids[p + 1] = 0 \/ Len(uapi.cmdq[g]) + p >= CmdDepth

KickDoorbell(g, e, ids, k) ==
  /\ k.rc = "doorbell" /\ k.ids = {} /\ k.ep = set_error(e)
  /\ \E x, j :
       /\ Gives(uapi, g, ids, Len(ids), x)
       /\ Rings(x, g, Len(ids), j, k.uapi)
       /\ j < Len(ids)
       /\ Len(x.runtime) + j = RuntimeDepth

KickOk(g, e, ids, k) ==
  /\ k.rc = "ok" /\ k.ids = {ids[i] : i \in DOMAIN ids}
  /\ Len(ids) >= 1 => Len(uapi.cmdq[g]) + Len(ids) <= CmdDepth
  /\ \E x, y, m :
       /\ Gives(uapi, g, ids, Len(ids), x)
       /\ Rings(x, g, Len(ids), Len(ids), y)
       /\ LET e2 == [e EXCEPT !.cmdq_head = Advance(@, Len(ids))]
          IN  Flows(g, e2, IF CqFree(e2) = 0 THEN y ELSE Flushed(y), m, k)

\* A surface to which commands have been submitted.
LEMMA GivesBetween ==
  ASSUME NEW s, Between(s), NEW g, NEW ids, NEW p, NEW x, Gives(s, g, ids, p, x)
  PROVE  Between(x)
  BY DEF Gives, Between, Shallow

\* The head that a kick leaves.
LEMMA AdvanceIs ==
  ASSUME NEW e \in Endpoint, NEW n \in 0 .. cmdq_depth
  PROVE  LET e2 == [e EXCEPT !.cmdq_head = Advance(@, n)]
         IN  /\ e2 \in Endpoint /\ e2.cmdq_head = (e.cmdq_head + n) % cmdq_depth
             /\ e2.cmdq = e.cmdq /\ e2.cmdq_tail = e.cmdq_tail /\ e2.cq = e.cq
             /\ e2.cq_head = e.cq_head /\ e2.cq_tail = e.cq_tail
             /\ e2.irq_status = e.irq_status
             /\ CqFree(e2) = CqFree(e)
<1> DEFINE a == (e.cmdq_head + n) % cmdq_depth
           e2 == [e EXCEPT !.cmdq_head = Advance(@, n)]
<1>1. a \in 0 .. cmdq_depth - 1
  BY EndpointFields, WrapIs
<1>2. e2 = [e EXCEPT !.cmdq_head = a]
  BY DEF Advance
<1> HIDE DEF a, e2
<1>3. /\ e2 \in Endpoint /\ e2.cmdq_head = a
      /\ e2.cmdq = e.cmdq /\ e2.cmdq_tail = e.cmdq_tail /\ e2.cq = e.cq
      /\ e2.cq_head = e.cq_head /\ e2.cq_tail = e.cq_tail
      /\ e2.irq_status = e.irq_status
  BY <1>1, <1>2 DEF Endpoint
<1>4. CqFree(e2) = CqFree(e)
  BY <1>3 DEF CqFree
<1> QED BY <1>3, <1>4 DEF e2, a

\* linqu_ub_kick has one of them.
LEMMA KickIs ==
  ASSUME log \in Seq(Command), Between(uapi), NEW g \in Guests, NEW e \in Endpoint,
         NEW batch, NEW ids, ids = Batch(e, batch), ids \in Seq(0 .. Len(log)),
         Len(ids) <= cmdq_depth
  PROVE  LET k == kick(g, e, batch)
         IN  KickSubmit(g, e, ids, k) \/ KickDoorbell(g, e, ids, k) \/ KickOk(g, e, ids, k)
<1> DEFINE n == Len(ids)
           a == SubmitAll(g, uapi, ids)
           x == a.s
           y == ring_doorbell(x, g, n)
           e2 == [e EXCEPT !.cmdq_head = Advance(@, n)]
           r == flush_cq(g, e2, y)
           k == kick(g, e, batch)
<1>0. uapi \in Surface /\ n \in Nat
  BY LenProperties DEF Between
<1>1. PICK p : Submits(uapi, g, ids, p, a)
  BY <1>0, SubmitAllIs
<1>2. /\ Gives(uapi, g, ids, p, x) /\ a.ok \in BOOLEAN /\ (a.ok <=> p = n)
      /\ ~a.ok => ids[p + 1] = 0 \/ Len(uapi.cmdq[g]) + p >= CmdDepth
      /\ p >= 1 => Len(uapi.cmdq[g]) + p <= CmdDepth
  BY <1>1 DEF Submits
<1>3. k = CASE ~a.ok -> [rc |-> "submit", ids |-> {}, uapi |-> x, ep |-> set_error(e)]
            [] a.ok /\ Staged(x, g, n) < Taken(x, g, n) ->
                    [rc |-> "doorbell", ids |-> {}, uapi |-> y, ep |-> set_error(e)]
            [] OTHER -> [rc |-> "ok", ids |-> {ids[i] : i \in DOMAIN ids},
                         uapi |-> r.uapi, ep |-> r.ep]
  BY Zenon DEF kick
<1> HIDE DEF a, k
<1>4. CASE ~a.ok
  <2> HIDE DEF y, r, e2
  <2>1. k = [rc |-> "submit", ids |-> {}, uapi |-> x, ep |-> set_error(e)]
    BY <1>3, <1>4
  <2>2. p \in 0 .. n - 1
    <3>1. p \in 0 .. n /\ p # n
      BY <1>2, <1>4 DEF Gives
    <3> QED BY <1>0, <3>1
  <2> HIDE DEF x
  <2>3. k.rc = "submit" /\ k.ids = {} /\ k.ep = set_error(e) /\ k.uapi = x
    BY <2>1
  <2>4. KickSubmit(g, e, ids, k)
    BY <1>2, <1>4, <2>2, <2>3 DEF KickSubmit
  <2> QED BY <2>4 DEF k
<1>5. CASE a.ok
  <2> HIDE DEF x
  <2>1. Gives(uapi, g, ids, n, x) /\ Between(x)
    BY <1>2, <1>5, GivesBetween
  <2>2. x \in Surface /\ Len(x.runtime) <= RuntimeDepth
    BY <2>1 DEF Between
  <2>3. Taken(x, g, n) = n
    <3>1. Taken(x, g, n) = IF n <= Len(x.cmdq[g]) THEN n ELSE Len(x.cmdq[g])
      BY <1>0, <2>2, RingExactly
    <3>2. Len(x.cmdq[g]) = Len(uapi.cmdq[g]) + n /\ Len(uapi.cmdq[g]) \in Nat
      BY <1>0, <2>1, GivesQueue
    <3> QED BY <1>0, <3>1, <3>2
  <2> DEFINE j == Staged(x, g, n)
  <2>4. Rings(x, g, n, j, y) /\ (j < n => Len(x.runtime) + j = RuntimeDepth)
    <3>1. /\ Rings(x, g, Taken(x, g, n), j, y)
          /\ j < Taken(x, g, n) => Len(x.runtime) + j = RuntimeDepth
      BY <1>0, <2>2, RingExactly
    <3> HIDE DEF j, y
    <3> QED BY <2>3, <3>1
  <2> HIDE DEF j, y
  <2>5. Between(y) /\ j \in 0 .. n
    <3>1. Between(y)
      BY <2>1, <2>4, BetweenSteps
    <3> QED BY <2>4, <3>1 DEF Rings
  <2>6. CASE j < n
    <3> HIDE DEF r, e2
    <3>1. k = [rc |-> "doorbell", ids |-> {}, uapi |-> y, ep |-> set_error(e)]
      BY <1>3, <1>5, <2>3, <2>6 DEF j
    <3>2. k.rc = "doorbell" /\ k.ids = {} /\ k.ep = set_error(e) /\ k.uapi = y
      BY <3>1
    <3>3. KickDoorbell(g, e, ids, k)
      BY <2>1, <2>4, <2>6, <3>2 DEF KickDoorbell
    <3> QED BY <3>3 DEF k
  <2>7. CASE ~(j < n)
    <3>1. j = n
      BY <1>0, <2>5, <2>7
    <3>2. e2 \in Endpoint
      BY <1>0, AdvanceIs
    <3> HIDE DEF e2
    <3>3. PICK m : Flows(g, e2, IF CqFree(e2) = 0 THEN y ELSE Flushed(y), m, r)
      BY <2>5, <3>2, FlushCqIs
    <3> HIDE DEF r
    <3>4. k = [rc |-> "ok", ids |-> {ids[i] : i \in DOMAIN ids}, uapi |-> r.uapi, ep |-> r.ep]
      BY <1>3, <1>5, <2>3, <2>7 DEF j
    <3>5. /\ k.rc = "ok" /\ k.ids = {ids[i] : i \in DOMAIN ids}
          /\ k.uapi = r.uapi /\ k.ep = r.ep
      BY <3>4
    <3> DEFINE t == IF CqFree(e2) = 0 THEN y ELSE Flushed(y)
    <3>6. Flows(g, e2, t, m, k)
      <4>1. Flows(g, e2, t, m, r)
        BY <3>3
      <4> HIDE DEF t
      <4> QED BY <3>5, <4>1 DEF Flows
    <3>7. KickOk(g, e, ids, k)
      <4>1. Rings(x, g, n, n, y)
        BY <2>4, <3>1
      <4>2. n >= 1 => Len(uapi.cmdq[g]) + n <= CmdDepth
        BY <1>2, <1>5
      <4> QED BY <2>1, <3>5, <3>6, <4>1, <4>2 DEF KickOk, e2
    <3> QED BY <3>7 DEF k
  <2> QED BY <2>6, <2>7
<1> QED BY <1>2, <1>4, <1>5

-----------------------------------------------------------------------------
(* The completion ring *)

\* The parts of the program and of the driver.
LEMMA ProgramFields ==
  ASSUME NEW p \in Program
  PROVE  /\ p.pc \in {"run", "rewound", "polling", "done"}
         /\ p.next \in 0 .. cq_depth - 1 /\ p.told \in 0 .. cq_depth - 1
  BY DEF Program

\* Entry i of the completions not read is the head of slot i.
ArrivedOK(e, p) ==
  LET a == ArrivedIn(e, p)
      n == UnreadIn(e, p)
      c == Slots(e.cq, p.next, n, cq_depth)
  IN  /\ n \in 0 .. cq_depth - 1 /\ a \in Seq(EventType) /\ Len(a) = n
      /\ AreSlots(c, Seq(EventType), e.cq, p.next, n, cq_depth)
      /\ \A i \in 1 .. n : c[i] # <<>> /\ a[i] = c[i][1]

\* So it is.
LEMMA ArrivedIs ==
  ASSUME NEW e \in Endpoint, NEW p \in Program,
         \A i \in 1 .. UnreadIn(e, p) : e.cq[(p.next + i - 1) % cq_depth] # <<>>
  PROVE  ArrivedOK(e, p)
<1> DEFINE d == cq_depth
           h == p.next
           n == UnreadIn(e, p)
           f == e.cq
           c == Slots(f, h, n, d)
           a == ArrivedIn(e, p)
<1>1. /\ d \in Nat \ {0} /\ h \in 0 .. d - 1 /\ n \in 0 .. d - 1 /\ n \in 0 .. d
      /\ f \in [0 .. d - 1 -> Seq(EventType)]
  <2>1. d \in Nat \ {0} /\ h \in 0 .. d - 1 /\ e.cq_tail \in 0 .. d - 1
        /\ f \in [0 .. d - 1 -> Seq(EventType)]
    BY EndpointFields, ProgramFields
  <2>2. n \in 0 .. d - 1
    BY <2>1, PendingIs DEF UnreadIn
  <2> HIDE DEF n
  <2> QED BY <2>1, <2>2
<1>2. /\ a = [i \in 1 .. n |-> f[(h + i - 1) % d][1]]
      /\ \A i \in 1 .. n : f[(h + i - 1) % d] # <<>>
  BY DEF ArrivedIn
<1> HIDE DEF f, h, n, a
<1>3. AreSlots(c, Seq(EventType), f, h, n, d)
  BY <1>1, SlotsType, Zenon
<1> HIDE DEF c
<1>4. ASSUME NEW i \in 1 .. n PROVE c[i] # <<>> /\ a[i] = c[i][1] /\ a[i] \in EventType
  <2> DEFINE x == f[(h + i - 1) % d]
  <2>1. c[i] = x /\ x \in Seq(EventType)
    BY <1>1, <1>3 DEF AreSlots
  <2>2. x # <<>> /\ a[i] = x[1]
    BY <1>2
  <2> HIDE DEF x
  <2>3. x[1] \in EventType
    <3>1. Len(x) \in Nat /\ Len(x) # 0
      BY <2>1, <2>2, EmptySeq, LenProperties
    <3>2. 1 \in 1 .. Len(x)
      BY <3>1
    <3> QED BY <2>1, <3>2, ElementOfSeq
  <2> QED BY <2>1, <2>2, <2>3
<1>5. a \in [1 .. n -> EventType]
  BY <1>2, <1>4
<1>6. a \in Seq(EventType) /\ Len(a) = n
  BY <1>1, <1>5, SeqDef, LenProperties
<1> QED BY <1>1, <1>3, <1>4, <1>6 DEF ArrivedOK, c, f, h, n, a

\* Endpoint x is endpoint e with the first m of completions q copied to it.
Copied(e, x, q, m) ==
  /\ m \in 0 .. CqFree(e) /\ q \in Seq(EventType) /\ m <= Len(q)
  /\ x \in Endpoint /\ x.cmdq = e.cmdq /\ x.cmdq_tail = e.cmdq_tail
  /\ x.cq_head = e.cq_head /\ x.cq_tail = (e.cq_tail + m) % cq_depth
  /\ \A i \in 0 .. cq_depth - 1 :
       x.cq[i] = IF (i - e.cq_tail) % cq_depth < m
                 THEN <<q[((i - e.cq_tail) % cq_depth) + 1]>> ELSE e.cq[i]
  /\ m > 0 => "COMPLETION" \in x.irq_status

\* Each in a slot of its own.
Boxed(q) == [i \in 1 .. Len(q) |-> <<q[i]>>]

\* They are sequences of one.
LEMMA BoxedIs ==
  ASSUME NEW q \in Seq(EventType)
  PROVE  /\ Boxed(q) \in Seq(Seq(EventType)) /\ Len(Boxed(q)) = Len(q)
         /\ \A i \in 1 .. Len(q) : Boxed(q)[i] = <<q[i]>> /\ Boxed(q)[i][1] = q[i]
                                   /\ Boxed(q)[i] # <<>>
<1> DEFINE b == Boxed(q)
<1>1. Len(q) \in Nat /\ \A i \in 1 .. Len(q) : q[i] \in EventType
  BY LenProperties, ElementOfSeq
<1>2. ASSUME NEW i \in 1 .. Len(q)
      PROVE  b[i] = <<q[i]>> /\ b[i][1] = q[i] /\ b[i] # <<>> /\ b[i] \in Seq(EventType)
  <2>1. b[i] = <<q[i]>>
    BY DEF Boxed
  <2>2. q[i] \in EventType
    BY <1>1
  <2> QED BY <2>1, <2>2
<1>3. b \in [1 .. Len(q) -> Seq(EventType)]
  BY <1>2 DEF Boxed
<1> HIDE DEF b
<1>4. b \in Seq(Seq(EventType)) /\ Len(b) = Len(q)
  BY <1>1, <1>3, SeqDef, LenProperties
<1> QED BY <1>2, <1>4 DEF b

\* The program finds them behind those it has not read.
Found(e, x, q, m, p) ==
  /\ Reader(x, p) /\ UnreadIn(x, p) = UnreadIn(e, p) + m
  /\ ArrivedIn(x, p) = ArrivedIn(e, p) \o SubSeq(q, 1, m)

\* Completions are copied to the ring.
LEMMA ReaderMoves ==
  ASSUME NEW e \in Endpoint, NEW p \in Program, Reader(e, p),
         NEW x, NEW q, NEW m, Copied(e, x, q, m)
  PROVE  Found(e, x, q, m, p)
<1> DEFINE d == cq_depth
           h == p.next
           n == UnreadIn(e, p)
           P == Pending(e.cq_head, e.cq_tail, d)
           t == e.cq_tail
           Q == Boxed(q)
           f == e.cq
           z == x.cq
           S == Seq(EventType)
<1>1. /\ d \in Nat \ {0} /\ h \in 0 .. d - 1 /\ t \in 0 .. d - 1 /\ e.cq_head \in 0 .. d - 1
      /\ f \in [0 .. d - 1 -> S]
  BY EndpointFields, ProgramFields
<1>2. /\ x \in Endpoint /\ q \in Seq(EventType) /\ m \in Nat /\ m <= Len(q)
      /\ x.cq_head = e.cq_head /\ x.cq_tail = (t + m) % d
      /\ m <= d - 1 - P /\ P \in 0 .. d - 1
  <2>1. m \in 0 .. CqFree(e) /\ x \in Endpoint /\ q \in Seq(EventType) /\ m <= Len(q)
        /\ x.cq_head = e.cq_head /\ x.cq_tail = (t + m) % d
    BY DEF Copied
  <2>2. CqFree(e) \in 0 .. d - 1 /\ CqFree(e) = d - 1 - P
    BY CqFreeIs
  <2>3. P \in 0 .. d - 1
    BY <1>1, PendingIs
  <2> HIDE DEF P
  <2> QED BY <1>1, <2>1, <2>2, <2>3
<1>3. n \in 0 .. d - 1 /\ n <= P /\ (h + n) % d = t
  <2> DEFINE k == Pending(h, t, d)
  <2>1. k \in 0 .. d - 1 /\ (h + k) % d = t
    <3> HIDE DEF h, t
    <3> QED BY <1>1, PendingEnds, Zenon
  <2>2. n = k
    BY DEF UnreadIn
  <2>3. n <= P
    BY DEF Reader
  <2> HIDE DEF n, k
  <2> QED BY <2>1, <2>2, <2>3
<1>4. /\ n + m <= d - 1 /\ P + m <= d - 1 /\ n + m \in 0 .. d - 1
      /\ d \in Nat /\ m \in Nat /\ n \in Nat /\ P \in Nat /\ n <= P /\ n <= d
  <2>1. d \in Nat /\ m \in Nat /\ n \in Nat /\ P \in Nat /\ n <= P /\ m <= d - 1 - P
        /\ n <= d - 1
    <3> HIDE DEF n, P
    <3>1. d \in Nat
      BY <1>1
    <3>2. m \in Nat /\ P \in Nat /\ m <= d - 1 - P
      BY <1>2
    <3>3. n \in Nat /\ n <= P /\ n <= d - 1
      BY <1>3, <3>1
    <3> QED BY <3>1, <3>2, <3>3
  <2> HIDE DEF n, P
  <2> QED BY <2>1
<1>5. UnreadIn(x, p) = n + m /\ Pending(x.cq_head, x.cq_tail, d) = P + m
  <2>a. n = Pending(h, t, d)
    BY DEF UnreadIn
  <2>b. m \in Nat /\ Pending(h, t, d) + m <= d - 1
    BY <1>4, <2>a
  <2> HIDE DEF n, P
  <2>1. Pending(h, (t + m) % d, d) = Pending(h, t, d) + m
    <3> HIDE DEF h, t
    <3> QED BY <1>1, <2>b, PendingGrows, Zenon
  <2>c. Pending(e.cq_head, t, d) + m <= d - 1
    BY <1>4 DEF P
  <2>2. Pending(e.cq_head, (t + m) % d, d) = P + m
    BY <1>1, <2>b, <2>c, PendingGrows, Zenon DEF P
  <2> QED BY <1>2, <2>a, <2>1, <2>2 DEF UnreadIn
<1>6. ArrivedOK(e, p)
  BY ArrivedIs DEF Reader
<1>7. /\ Q \in Seq(S) /\ Len(Q) = Len(q)
      /\ \A i \in 1 .. Len(q) : Q[i] = <<q[i]>> /\ Q[i][1] = q[i] /\ Q[i] # <<>>
  BY <1>2, BoxedIs
<1> HIDE DEF Q
<1>8. z \in [0 .. d - 1 -> S]
  BY <1>2, EndpointFields
<1>9. Filled(z, f, Q, t, m, d)
  <2> SUFFICES ASSUME NEW i \in 0 .. d - 1
               PROVE  z[i] = IF (i - t) % d < m THEN Q[((i - t) % d) + 1] ELSE f[i]
    BY DEF Filled
  <2> DEFINE k == (i - t) % d
  <2>1. z[i] = IF k < m THEN <<q[k + 1]>> ELSE f[i]
    BY DEF Copied
  <2>2. k \in 0 .. d - 1
    BY <1>1, BackIs
  <2> HIDE DEF k
  <2>3. k < m => Q[k + 1] = <<q[k + 1]>>
    <3>1. k < m => k + 1 \in 1 .. Len(q)
      BY <1>1, <1>2, <2>2, LenProperties
    <3> QED BY <1>7, <3>1
  <2>4. z[i] = IF k < m THEN Q[k + 1] ELSE f[i]
    BY <2>1, <2>3
  <2> QED BY <2>4 DEF k
<1> HIDE DEF f, z, S, h, n, t, P
<1> DEFINE a == Slots(f, h, n, d)
           b == Slots(z, h, n + m, d)
           c == SubSeq(Q, 1, m)
<1>10. b = a \o c
  <2>1. n \in 0 .. d /\ n + m <= d /\ m <= Len(Q) /\ t = (h + n) % d
    <3>1. n \in 0 .. d /\ n + m <= d
      BY <1>4
    <3>2. m <= Len(Q)
      BY <1>2, <1>7
    <3>3. t = (h + n) % d
      BY <1>3
    <3> QED BY <3>1, <3>2, <3>3
  <2>2. d \in Nat \ {0} /\ f \in [0 .. d - 1 -> S] /\ h \in 0 .. d - 1
    BY <1>1
  <2>3. m \in Nat /\ Q \in Seq(S)
    BY <1>2, <1>7
  <2> HIDE DEF d
  <2>4. Extended(z, f, Q, h, n, m, d)
    BY <1>8, <1>9, <2>1, <2>2, <2>3, SlotsExtend, Zenon
  <2> QED BY <2>4 DEF Extended
<1>11. /\ a \in Seq(S) /\ Len(a) = n /\ \A i \in 1 .. n : a[i] # <<>> /\ ArrivedIn(e, p)[i] = a[i][1]
  BY <1>6 DEF ArrivedOK, AreSlots, a, S, f, h, n
<1>12. /\ c \in Seq(S) /\ Len(c) = m /\ \A i \in 1 .. m : c[i] = Q[i]
       /\ SubSeq(q, 1, m) \in Seq(EventType) /\ Len(SubSeq(q, 1, m)) = m
       /\ \A i \in 1 .. m : SubSeq(q, 1, m)[i] = q[i]
  <2>1. m \in 0 .. Len(Q) /\ m \in 0 .. Len(q)
    BY <1>2, <1>7
  <2> QED BY <1>2, <1>7, <2>1, HitsSplit
<1>13. ASSUME NEW i \in 1 .. n + m
       PROVE  /\ (i <= n => b[i] = a[i] /\ i \in 1 .. n)
              /\ (i > n => b[i] = Q[i - n] /\ i - n \in 1 .. m /\ i - n \in 1 .. Len(q))
  <2>1. i \in 1 .. Len(a) + Len(c) /\ (i <= n => i \in 1 .. n)
        /\ (i > n => i - n \in 1 .. m /\ i - n \in 1 .. Len(q)) /\ Len(a) = n
    <3>1. Len(a) = n /\ Len(c) = m
      BY <1>11, <1>12
    <3>2. Len(q) \in Nat /\ m <= Len(q)
      BY <1>2, LenProperties
    <3> HIDE DEF a, c
    <3> QED BY <1>4, <3>1, <3>2
  <2> HIDE DEF a, b, c
  <2>2. b[i] = IF i <= n THEN a[i] ELSE c[i - n]
    BY <1>10, <1>11, <1>12, <2>1, ConcatProperties
  <2> QED BY <1>1, <1>3, <1>12, <2>1, <2>2
<1> HIDE DEF a, c
<1>14. \A i \in 1 .. n + m : b[i] = z[(h + i - 1) % d]
  BY DEF Slots
<1>15. ASSUME NEW i \in 1 .. n + m PROVE b[i] # <<>>
  <2>1. CASE i <= n
    <3>1. b[i] = a[i] /\ i \in 1 .. n
      BY <1>13, <2>1
    <3> QED BY <1>11, <3>1
  <2>2. CASE i > n
    <3>1. b[i] = Q[i - n] /\ i - n \in 1 .. Len(q)
      BY <1>13, <2>2
    <3>2. Q[i - n] # <<>>
      BY <1>7, <3>1
    <3> QED BY <3>1, <3>2
  <2>3. i <= n \/ i > n
    BY <1>1, <1>4
  <2> QED BY <2>1, <2>2, <2>3
<1> HIDE DEF b
<1>16. Reader(x, p)
  <2>1. \A i \in 1 .. UnreadIn(x, p) : x.cq[(p.next + i - 1) % cq_depth] # <<>>
    BY <1>5, <1>14, <1>15 DEF h, z
  <2>2. UnreadIn(x, p) <= Pending(x.cq_head, x.cq_tail, cq_depth)
    BY <1>1, <1>2, <1>3, <1>5
  <2>3. UnreadIn(x, p) = 0 => p.told = x.cq_tail
    <3>1. ASSUME UnreadIn(x, p) = 0 PROVE n = 0 /\ m = 0
      BY <1>2, <1>3, <1>1, <1>5, <3>1
    <3>2. m = 0 => (t + m) % d = t
      BY <1>1
    <3>3. n = 0 => p.told = t
      BY DEF Reader, n, t
    <3> QED BY <1>2, <3>1, <3>2, <3>3
  <2> QED BY <2>1, <2>2, <2>3 DEF Reader
<1>17. ArrivedIn(x, p) = ArrivedIn(e, p) \o SubSeq(q, 1, m)
  <2> DEFINE A == ArrivedIn(e, p)
             X == ArrivedIn(x, p)
             Y == SubSeq(q, 1, m)
  <2>1. A \in Seq(EventType) /\ Len(A) = n
    BY <1>6 DEF ArrivedOK, n
  <2>2. X = [i \in 1 .. n + m |-> b[i][1]]
    BY <1>5, <1>14 DEF ArrivedIn, h, z
  <2>3. X \in Seq(EventType) /\ Len(X) = n + m
    <3>1. ArrivedOK(x, p)
      BY <1>2, <1>16, ArrivedIs DEF Reader
    <3> QED BY <1>5, <3>1 DEF ArrivedOK
  <2> HIDE DEF A, X, Y
  <2>4. Y \in Seq(EventType) /\ Len(Y) = m /\ \A i \in 1 .. m : Y[i] = q[i]
    BY <1>12 DEF Y
  <2>5. A \o Y \in Seq(EventType) /\ Len(A \o Y) = n + m
        /\ \A i \in 1 .. Len(A) + Len(Y) : (A \o Y)[i] = IF i <= Len(A) THEN A[i] ELSE Y[i - Len(A)]
    BY <2>1, <2>4, ConcatProperties
  <2>6. ASSUME NEW i \in 1 .. n + m PROVE X[i] = (A \o Y)[i]
    <3>1. (A \o Y)[i] = IF i <= n THEN A[i] ELSE Y[i - n]
      BY <2>1, <2>4, <2>5
    <3>2. X[i] = b[i][1]
      BY <2>2
    <3>3. CASE i <= n
      BY <1>11, <1>13, <3>1, <3>2, <3>3 DEF A
    <3>4. CASE i > n
      <4>1. b[i] = Q[i - n] /\ i - n \in 1 .. m /\ i - n \in 1 .. Len(q)
        BY <1>13, <3>4
      <4>2. ~(i <= n)
        BY <1>4, <3>4
      <4>3. Q[i - n][1] = q[i - n]
        BY <1>7, <4>1
      <4>4. Y[i - n] = q[i - n]
        BY <2>4, <4>1
      <4> QED BY <3>1, <3>2, <4>1, <4>2, <4>3, <4>4
    <3>5. i <= n \/ i > n
      BY <1>4
    <3> QED BY <3>3, <3>4, <3>5
  <2>7. X = A \o Y
    BY <2>3, <2>5, <2>6, SeqEqual
  <2> QED BY <2>7 DEF A, X, Y
<1> QED BY <1>5, <1>16, <1>17 DEF Found, n

-----------------------------------------------------------------------------
(* Types, completion ring and interrupt *)

\* A kick that succeeds: x has the commands submitted, y has them staged, z
\* has them flushed if there is room for completions, of which m are copied.
Hands(g, e, ids, k, x, y, z, m) ==
  /\ Gives(uapi, g, ids, Len(ids), x)
  /\ Rings(x, g, Len(ids), Len(ids), y)
  /\ Between(y) /\ Between(z)
  /\ z = y \/ z = Flushed(y)
  /\ Takes(z, g, m, k.uapi)
  /\ Copied(e, k.ep, z.cq[g], m)
  /\ k.ep.cmdq_head = (e.cmdq_head + Len(ids)) % cmdq_depth

\* In these terms.
LEMMA KickHands ==
  ASSUME log \in Seq(Command), Between(uapi), NEW g \in Guests, NEW e \in Endpoint,
         NEW ids \in Seq(0 .. Len(log)), Len(ids) <= cmdq_depth, NEW k,
         KickOk(g, e, ids, k)
  PROVE  \E x, y, z, m : Hands(g, e, ids, k, x, y, z, m)
<1>1. Len(ids) \in Nat
  BY LenProperties
<1> DEFINE e2 == [e EXCEPT !.cmdq_head = Advance(@, Len(ids))]
           t(y) == IF CqFree(e2) = 0 THEN y ELSE Flushed(y)
<1>2. PICK x, y, m : /\ Gives(uapi, g, ids, Len(ids), x)
                     /\ Rings(x, g, Len(ids), Len(ids), y)
                     /\ Flows(g, e2, t(y), m, k)
  BY DEF KickOk
<1>3. Between(x)
  BY <1>2, GivesBetween
<1>4. Between(y)
  BY <1>2, <1>3, BetweenSteps
<1> DEFINE z == t(y)
<1>5. Between(z)
  BY <1>4, BetweenSteps, Zenon
<1>6. z = y \/ z = Flushed(y)
  OBVIOUS
<1>7. /\ e2 \in Endpoint /\ e2.cmdq = e.cmdq /\ e2.cmdq_tail = e.cmdq_tail /\ e2.cq = e.cq
      /\ e2.cq_head = e.cq_head /\ e2.cq_tail = e.cq_tail /\ CqFree(e2) = CqFree(e)
      /\ e2.cmdq_head = (e.cmdq_head + Len(ids)) % cmdq_depth
  BY <1>1, AdvanceIs
<1>8. Flows(g, e2, z, m, k)
  BY <1>2
<1> HIDE DEF z, e2
<1>9. Takes(z, g, m, k.uapi) /\ k.ep.cmdq_head = (e.cmdq_head + Len(ids)) % cmdq_depth
  BY <1>7, <1>8 DEF Flows
<1>10. z.cq[g] \in Seq(EventType) /\ m <= Len(z.cq[g])
  <2>1. z \in Surface
    BY <1>5 DEF Between
  <2> QED BY <1>9, <2>1, SurfaceFields DEF Takes
<1>11. Copied(e, k.ep, z.cq[g], m)
  BY <1>7, <1>8, <1>10 DEF Flows, Copied
<1>12. Hands(g, e, ids, k, x, y, z, m)
  BY <1>2, <1>4, <1>5, <1>6, <1>9, <1>11 DEF Hands
<1> QED BY <1>12

\* A kick copies completions, or none.
LEMMA KickKeeps ==
  ASSUME log \in Seq(Command), Between(uapi), NEW g \in Guests, NEW e \in Endpoint,
         NEW ids \in Seq(0 .. Len(log)), Len(ids) <= cmdq_depth, NEW k,
         KickSubmit(g, e, ids, k) \/ KickDoorbell(g, e, ids, k) \/ KickOk(g, e, ids, k)
  PROVE  /\ Between(k.uapi)
         /\ k.rc \in {"submit", "doorbell", "ok"}
         /\ k.ids \subseteq 1 .. Len(log)
         /\ \E q, m : Copied(e, k.ep, q, m)
<1>1. Len(ids) \in Nat /\ \A i \in 1 .. Len(ids) : ids[i] \in 0 .. Len(log)
  BY LenProperties, ElementOfSeq
<1>2. ASSUME k.ep = set_error(e) PROVE \E q, m : Copied(e, k.ep, q, m)
  <2>1. /\ k.ep \in Endpoint /\ k.ep.cmdq = e.cmdq /\ k.ep.cmdq_tail = e.cmdq_tail
        /\ k.ep.cq_head = e.cq_head /\ k.ep.cq_tail = e.cq_tail /\ k.ep.cq = e.cq
    BY <1>2 DEF set_error, Endpoint, IrqBits
  <2>2. cq_depth \in Nat \ {0} /\ e.cq_tail \in 0 .. cq_depth - 1
    BY EndpointFields
  <2>3. (e.cq_tail + 0) % cq_depth = e.cq_tail
    <3> DEFINE t == e.cq_tail
    <3>1. t \in 0 .. cq_depth - 1 /\ 0 \in 0 .. cq_depth
      BY <2>2
    <3> HIDE DEF t
    <3>2. (t + 0) % cq_depth = IF t + 0 < cq_depth THEN t + 0 ELSE t + 0 - cq_depth
      BY <2>2, <3>1, WrapIs, Zenon
    <3>3. (t + 0) % cq_depth = t
      BY <2>2, <3>1, <3>2
    <3> QED BY <3>3 DEF t
  <2>4. \A i \in 0 .. cq_depth - 1 : ~((i - e.cq_tail) % cq_depth < 0)
    <3> TAKE i \in 0 .. cq_depth - 1
    <3> DEFINE r == (i - e.cq_tail) % cq_depth
    <3>1. r \in 0 .. cq_depth - 1
      BY <2>2, BackIs
    <3> HIDE DEF r
    <3>2. ~(r < 0)
      BY <3>1
    <3> QED BY <3>2 DEF r
  <2>5. 0 \in 0 .. CqFree(e) /\ <<>> \in Seq(EventType) /\ 0 <= Len(<<>>)
    BY <2>2, CqFreeIs
  <2>6. Copied(e, k.ep, <<>>, 0)
    BY <2>1, <2>3, <2>4, <2>5 DEF Copied
  <2> QED BY <2>6
<1>3. CASE KickSubmit(g, e, ids, k)
  <2>1. PICK p : Gives(uapi, g, ids, p, k.uapi)
    BY <1>3 DEF KickSubmit
  <2>2. Between(k.uapi)
    BY <2>1, GivesBetween
  <2> QED BY <1>2, <1>3, <2>2 DEF KickSubmit
<1>4. CASE KickDoorbell(g, e, ids, k)
  <2>1. PICK x, j : /\ Gives(uapi, g, ids, Len(ids), x)
                    /\ Rings(x, g, Len(ids), j, k.uapi)
    BY <1>4 DEF KickDoorbell
  <2>2. Between(x)
    BY <2>1, GivesBetween
  <2>3. Between(k.uapi)
    BY <2>1, <2>2, BetweenSteps
  <2> QED BY <1>2, <1>4, <2>3 DEF KickDoorbell
<1>5. CASE KickOk(g, e, ids, k)
  <2>1. PICK x, y, z, m : Hands(g, e, ids, k, x, y, z, m)
    BY <1>5, KickHands
  <2>2. Between(k.uapi)
    <3>1. Between(z) /\ Takes(z, g, m, k.uapi)
      BY <2>1 DEF Hands
    <3> QED BY <3>1, BetweenSteps
  <2>3. Copied(e, k.ep, z.cq[g], m)
    BY <2>1 DEF Hands
  <2>4. k.rc = "ok" /\ k.ids = {ids[i] : i \in DOMAIN ids}
    BY <1>5 DEF KickOk
  <2>5. k.ids \subseteq 1 .. Len(log)
    <3>1. \A i \in 1 .. Len(ids) : ids[i] # 0
      BY <2>1 DEF Hands, Gives
    <3>2. DOMAIN ids = 1 .. Len(ids) /\ Len(log) \in Nat
      BY LenProperties
    <3>3. \A i \in DOMAIN ids : ids[i] \in 1 .. Len(log)
      BY <1>1, <3>1, <3>2
    <3> QED BY <2>4, <3>3
  <2> QED BY <2>2, <2>3, <2>4, <2>5
<1> QED BY <1>3, <1>4, <1>5

\* One endpoint is replaced.
LEMMA EndpointSet ==
  ASSUME NEW E \in [Guests -> Endpoint], NEW e \in Endpoint
  PROVE  LET F == [E EXCEPT ![endpoint1] = e]
         IN  /\ F \in [Guests -> Endpoint] /\ F[endpoint1] = e
             /\ e.irq_status = E[endpoint1].irq_status
                  => has_pending_irq(F) = has_pending_irq(E)
             /\ has_pending_irq(F) \in BOOLEAN
<1> DEFINE F == [E EXCEPT ![endpoint1] = e]
<1>0. endpoint1 \in Guests
  BY LinquUbAssumption
<1>1. F \in [Guests -> Endpoint] /\ F[endpoint1] = e
  BY <1>0
<1>2. ASSUME e.irq_status = E[endpoint1].irq_status
      PROVE  has_pending_irq(F) = has_pending_irq(E)
  <2>1. \A g \in Guests : F[g].irq_status = E[g].irq_status
    BY <1>0, <1>2
  <2> HIDE DEF F
  <2> QED BY <2>1, Zenon DEF has_pending_irq
<1>3. has_pending_irq(F) \in BOOLEAN
  BY Zenon DEF has_pending_irq
<1> QED BY <1>1, <1>2, <1>3

InvAfter == Inv(log', uapi', seen', ep', irq', drv', probe', failed', passed', boot')

\* A register write of endpoint 1.
LEMMA WriteKeeps ==
  ASSUME DevInv, NEW e \in Endpoint,
         \/ Updates(e)
         \/ Writes(e) /\ e.irq_status = E1.irq_status,
         log' \in Seq(Command), Numbered(log'), Len(log) <= Len(log'),
         e.cmdq \in [0 .. cmdq_depth - 1 -> 0 .. Len(log')],
         Between(uapi'), seen' \in [Guests -> Seq(EventType)],
         drv' \in Driver, probe' \in Program,
         failed' \subseteq {"submit", "doorbell"}, passed' \subseteq 1 .. Len(log'),
         boot' = boot, Reader(e, probe'), Woken(e, drv', probe')
  PROVE  InvAfter
<1>1. ep \in [Guests -> Endpoint] /\ irq = has_pending_irq(ep) /\ irq \in BOOLEAN
      /\ boot \in [log: 0 .. Len(log), dirty: BOOLEAN] /\ log \in Seq(Command)
  BY DEF DevInv, Inv, Types
<1>2. ep' = [ep EXCEPT ![endpoint1] = e]
  BY DEF Updates, Writes
<1>3. ep' \in [Guests -> Endpoint] /\ ep'[endpoint1] = e
  BY <1>1, <1>2, EndpointSet
<1>4. irq' = has_pending_irq(ep') /\ irq' \in BOOLEAN
  <2>1. CASE Updates(e)
    <3>1. irq' = has_pending_irq(ep')
      BY <2>1 DEF Updates, has_pending_irq
    <3>2. has_pending_irq(ep') \in BOOLEAN
      BY <1>1, <1>2, EndpointSet
    <3> QED BY <3>1, <3>2
  <2>2. CASE Writes(e) /\ e.irq_status = E1.irq_status
    <3>1. irq' = irq /\ e.irq_status = ep[endpoint1].irq_status
      BY <2>2 DEF Writes, E1
    <3>2. has_pending_irq([ep EXCEPT ![endpoint1] = e]) = has_pending_irq(ep)
      BY <1>1, <3>1, EndpointSet
    <3> QED BY <1>1, <1>2, <3>1, <3>2
  <2> QED BY <2>1, <2>2
<1>5. boot' \in [log: 0 .. Len(log'), dirty: BOOLEAN]
  <2>1. Len(log) \in Nat /\ Len(log') \in Nat
    BY <1>1, LenProperties
  <2> QED BY <1>1, <2>1
<1>6. Types(log', uapi', seen', ep', irq', drv', probe', failed', passed', boot')
  BY <1>3, <1>4, <1>5 DEF Types
<1> QED BY <1>3, <1>4, <1>6 DEF InvAfter, Inv

\* Slots are filled: the ring and the completion ring are as before.
LEMMA FillKeeps ==
  ASSUME DevInv, NEW id \in 0 .. Len(log'), FillSlot(id),
         log' \in Seq(Command), Numbered(log'), Len(log) <= Len(log')
  PROVE  InvAfter
<1> DEFINE e == [E1 EXCEPT !.cmdq[E1.cmdq_tail] = id, !.cmdq_tail = (@ + 1) % cmdq_depth]
           F == [E1.cmdq EXCEPT ![E1.cmdq_tail] = id]
           t == (E1.cmdq_tail + 1) % cmdq_depth
           p == [probe EXCEPT !.pc = "run"]
<1>1. /\ E1 \in Endpoint /\ E1.cmdq \in [0 .. cmdq_depth - 1 -> 0 .. Len(log)]
      /\ log \in Seq(Command) /\ Between(uapi) /\ seen \in [Guests -> Seq(EventType)]
      /\ drv \in Driver /\ probe \in Program /\ failed \subseteq {"submit", "doorbell"}
      /\ passed \subseteq 1 .. Len(log) /\ Reader(E1, probe)
  BY LinquUbAssumption DEF DevInv, Inv, Types, E1
<1>2. /\ Len(log) \in Nat /\ Len(log') \in Nat /\ Len(log') <= MaxCmds
      /\ 0 .. Len(log) \subseteq 0 .. Len(log') /\ 1 .. Len(log) \subseteq 1 .. Len(log')
  <2>1. Len(log) \in Nat /\ Len(log') \in Nat
    BY <1>1, LenProperties
  <2>2. Len(log') <= MaxCmds
    <3>1. CASE Len(log') = 0
      BY <3>1, SurfaceAssumption
    <3>2. CASE Len(log') # 0
      <4>1. Len(log') \in 1 .. Len(log')
        BY <2>1, <3>2
      <4>2. log'[Len(log')] \in Command /\ log'[Len(log')].id = Len(log')
        BY <4>1, ElementOfSeq DEF Numbered
      <4> QED BY <4>2, SurfaceAssumption DEF Command
    <3> QED BY <3>1, <3>2
  <2> QED BY <2>1, <2>2
<1>3. /\ Writes(e) /\ probe' = p
      /\ uapi' = uapi /\ seen' = seen /\ drv' = drv /\ failed' = failed /\ passed' = passed
      /\ boot' = boot
  BY DEF FillSlot
<1>4. F \in [0 .. cmdq_depth - 1 -> 0 .. Len(log')] /\ t \in 0 .. cmdq_depth - 1
  <2>1. cmdq_depth \in Nat \ {0} /\ E1.cmdq_tail \in 0 .. cmdq_depth - 1
    BY <1>1, EndpointFields
  <2>2. t \in 0 .. cmdq_depth - 1
    BY <2>1, NextIs
  <2> QED BY <1>1, <1>2, <2>1, <2>2
<1>5. e = [E1 EXCEPT !.cmdq = F, !.cmdq_tail = t]
  BY <1>1 DEF Endpoint
<1> HIDE DEF e, F, t
<1>6. /\ e \in Endpoint /\ e.cmdq = F /\ e.cq_tail = E1.cq_tail /\ e.cq_head = E1.cq_head
      /\ e.cq = E1.cq /\ e.irq_status = E1.irq_status
  <2>1. F \in [0 .. cmdq_depth - 1 -> 0 .. MaxCmds]
    BY <1>2, <1>4, SurfaceAssumption
  <2> QED BY <1>1, <1>4, <1>5, <2>1 DEF Endpoint
<1>7. p \in Program /\ p.next = probe.next /\ p.told = probe.told /\ p.pc = "run"
  BY <1>1 DEF Program
<1> HIDE DEF p
<1>8. Reader(e, p) /\ Woken(e, drv, p)
  BY <1>1, <1>6, <1>7 DEF Reader, UnreadIn, Woken
<1>9. /\ Reader(e, probe') /\ Woken(e, drv', probe') /\ probe' \in Program
  BY <1>3, <1>7, <1>8
<1>10. passed' \subseteq 1 .. Len(log')
  BY <1>1, <1>2, <1>3
<1> QED BY <1>1, <1>3, <1>4, <1>6, <1>9, <1>10, WriteKeeps

\* A command is issued.
LEMMA BuildKeeps ==
  ASSUME DevInv, NEW op \in Ops, NEW key \in Keys, build_descriptor(op, key)
  PROVE  InvAfter
<1> DEFINE c == NewCmd(endpoint1, op, key, FALSE)
<1>1. log \in Seq(Command) /\ Numbered(log)
  BY DEF DevInv, Inv, Types
<1>2. Len(log) < MaxCmds /\ log' = Append(log, c) /\ FillSlot(c.id)
  BY DEF build_descriptor, Issue
<1>3. c \in Command
  BY <1>1, <1>2, NewCmdIs, LinquUbAssumption DEF NewCmd
<1>4. c.id = Len(log) + 1
  BY DEF NewCmd
<1> HIDE DEF c
<1>5. Grown(log, c, Append(log, c))
  BY <1>1, <1>3, <1>4, LogGrows
<1>6. /\ log' \in Seq(Command) /\ Numbered(log') /\ Len(log) <= Len(log')
      /\ c.id \in 1 .. Len(log')
  BY <1>1, <1>2, <1>5 DEF Grown
<1>7. c.id \in 0 .. Len(log')
  BY <1>6, LenProperties
<1> QED BY <1>2, <1>6, <1>7, FillKeeps

\* A descriptor that does not decode.
LEMMA BuildInvalidKeeps ==
  ASSUME DevInv, build_invalid_descriptor
  PROVE  InvAfter
<1>1. log \in Seq(Command) /\ Numbered(log)
  BY DEF DevInv, Inv, Types
<1>2. FillSlot(0) /\ log' = log
  BY DEF build_invalid_descriptor
<1>3. Len(log) \in Nat
  BY <1>1, LenProperties
<1>4. 0 \in 0 .. Len(log') /\ Len(log) <= Len(log') /\ log' \in Seq(Command) /\ Numbered(log')
  BY <1>1, <1>2, <1>3
<1> QED BY <1>2, <1>4, FillKeeps

\* What a kick reads is a part of the log.
LEMMA BatchType ==
  ASSUME DevInv, NEW batch \in Batches0
  PROVE  /\ E1 \in Endpoint /\ log \in Seq(Command) /\ Between(uapi) /\ endpoint1 \in Guests
         /\ Batch(E1, batch) \in Seq(0 .. Len(log)) /\ Len(Batch(E1, batch)) <= cmdq_depth
<1>1. /\ E1 \in Endpoint /\ E1.cmdq \in [0 .. cmdq_depth - 1 -> 0 .. Len(log)]
      /\ log \in Seq(Command) /\ Between(uapi) /\ endpoint1 \in Guests
  BY LinquUbAssumption DEF DevInv, Inv, Types, E1
<1> DEFINE P == Pending(E1.cmdq_head, E1.cmdq_tail, cmdq_depth)
           q == Batch(E1, batch)
<1>2. P \in 0 .. cmdq_depth - 1 /\ Len(q) \in 0 .. P /\ q \in Seq(0 .. Len(log))
  BY <1>1, BatchIs
<1>3. cmdq_depth \in Nat
  BY LinquUbAssumption
<1> HIDE DEF P, q
<1>4. Len(q) <= cmdq_depth
  BY <1>2, <1>3
<1> QED BY <1>1, <1>2, <1>4 DEF q

\* The doorbell is rung.
LEMMA DoorbellKeeps ==
  ASSUME DevInv, NEW batch \in Batches0, NEW wait \in BOOLEAN, Doorbell(batch, wait)
  PROVE  InvAfter
<1> DEFINE k == kick(endpoint1, E1, batch)
           p == IF wait THEN [probe EXCEPT !.pc = "polling"] ELSE probe
<1>1. /\ E1 \in Endpoint /\ E1.cmdq \in [0 .. cmdq_depth - 1 -> 0 .. Len(log)]
      /\ log \in Seq(Command) /\ Numbered(log) /\ Between(uapi)
      /\ seen \in [Guests -> Seq(EventType)]
      /\ drv \in Driver /\ probe \in Program /\ failed \subseteq {"submit", "doorbell"}
      /\ passed \subseteq 1 .. Len(log) /\ Reader(E1, probe)
  BY LinquUbAssumption DEF DevInv, Inv, Types, E1
<1>2. /\ probe.pc = "run" /\ (wait => Unread = 0)
      /\ Updates(k.ep) /\ uapi' = k.uapi /\ probe' = p
      /\ passed' = passed \cup k.ids /\ failed' = failed \cup ({k.rc} \ {"ok"})
      /\ log' = log /\ seen' = seen /\ drv' = drv /\ boot' = boot
  BY DEF Doorbell, Running
<1>3. \/ KickSubmit(endpoint1, E1, Batch(E1, batch), k)
      \/ KickDoorbell(endpoint1, E1, Batch(E1, batch), k)
      \/ KickOk(endpoint1, E1, Batch(E1, batch), k)
  BY BatchType, KickIs
<1> HIDE DEF k
<1>4. /\ Between(k.uapi) /\ k.rc \in {"submit", "doorbell", "ok"}
      /\ k.ids \subseteq 1 .. Len(log) /\ \E q, m : Copied(E1, k.ep, q, m)
  <2> DEFINE ids == Batch(E1, batch)
  <2>1. /\ ids \in Seq(0 .. Len(log)) /\ Len(ids) <= cmdq_depth /\ endpoint1 \in Guests
        /\ \/ KickSubmit(endpoint1, E1, ids, k)
           \/ KickDoorbell(endpoint1, E1, ids, k)
           \/ KickOk(endpoint1, E1, ids, k)
    BY <1>3, BatchType
  <2> HIDE DEF ids
  <2> QED BY <1>1, <2>1, KickKeeps
<1>5. PICK q, m : Copied(E1, k.ep, q, m)
  BY <1>4
<1>6. Found(E1, k.ep, q, m, probe)
  BY <1>1, <1>5, ReaderMoves
<1>7. /\ p \in Program /\ p.next = probe.next /\ p.told = probe.told
      /\ p.pc = IF wait THEN "polling" ELSE "run"
  BY <1>1, <1>2 DEF Program
<1> HIDE DEF p
<1>8. Reader(k.ep, p)
  BY <1>6, <1>7 DEF Found, Reader, UnreadIn
<1>9. Woken(k.ep, drv, p)
  <2> SUFFICES ASSUME wait, p.told # k.ep.cq_tail PROVE "COMPLETION" \in k.ep.irq_status
    BY <1>7 DEF Woken
  <2>1. probe.told = E1.cq_tail /\ probe.told # k.ep.cq_tail
    BY <1>1, <1>2, <1>7 DEF Reader, UnreadIn, Unread
  <2>2. m > 0
    <3> SUFFICES ASSUME ~(m > 0) PROVE FALSE
      OBVIOUS
    <3>1. m = 0
      BY <1>5, CqFreeIs, <1>1 DEF Copied
    <3>2. k.ep.cq_tail = (E1.cq_tail + 0) % cq_depth
      BY <1>5, <3>1 DEF Copied
    <3> DEFINE t == E1.cq_tail
    <3>3. t \in 0 .. cq_depth - 1 /\ cq_depth \in Nat \ {0}
      BY <1>1, EndpointFields
    <3> HIDE DEF t
    <3>4. (t + 0) % cq_depth = t
      BY <3>3
    <3> QED BY <2>1, <3>2, <3>4 DEF t
  <2> QED BY <1>5, <2>2 DEF Copied
<1>10. k.ep \in Endpoint /\ k.ep.cmdq = E1.cmdq
  BY <1>5 DEF Copied
<1>11. /\ log' \in Seq(Command) /\ Numbered(log') /\ Len(log) <= Len(log')
       /\ k.ep.cmdq \in [0 .. cmdq_depth - 1 -> 0 .. Len(log')]
  <2>1. Len(log) \in Nat
    BY <1>1, LenProperties
  <2> QED BY <1>1, <1>2, <1>10, <2>1
<1>12. failed' \subseteq {"submit", "doorbell"} /\ passed' \subseteq 1 .. Len(log')
  BY <1>1, <1>2, <1>4
<1> QED BY <1>1, <1>2, <1>4, <1>7, <1>8, <1>9, <1>10, <1>11, <1>12, WriteKeeps

\* Completions are read.
LEMMA ReaderReads ==
  ASSUME NEW e \in Endpoint, NEW p \in Program, Reader(e, p),
         NEW n \in 0 .. UnreadIn(e, p),
         NEW x \in Endpoint, x.cq = e.cq, x.cq_tail = e.cq_tail,
         x.cq_head = (p.next + n) % cq_depth,
         NEW r \in Program, r.next = (p.next + n) % cq_depth, r.told = e.cq_tail
  PROVE  /\ Reader(x, r)
         /\ ArrivedIn(x, r) = SubSeq(ArrivedIn(e, p), n + 1, Len(ArrivedIn(e, p)))
<1> DEFINE d == cq_depth
           h == p.next
           t == e.cq_tail
           u == UnreadIn(e, p)
           v == UnreadIn(x, r)
           g == (h + n) % d
           f == e.cq
           S == Seq(EventType)
           a == Slots(f, h, u, d)
           b == Slots(f, g, v, d)
           A == ArrivedIn(e, p)
           X == ArrivedIn(x, r)
<1>1. /\ d \in Nat \ {0} /\ h \in 0 .. d - 1 /\ t \in 0 .. d - 1
      /\ f \in [0 .. d - 1 -> S]
  BY EndpointFields, ProgramFields
<1>2. u = Pending(h, t, d) /\ v = Pending(g, t, d)
  BY DEF UnreadIn
<1>3. /\ u \in 0 .. d - 1 /\ g \in 0 .. d - 1 /\ v = u - n
      /\ v \in 0 .. d - 1 /\ u \in 0 .. d
  <2>a. n \in 0 .. u
    OBVIOUS
  <2> HIDE DEF u, v, h, t, f, S
  <2>1. u \in 0 .. d - 1
    BY <1>1, <1>2, PendingEnds, Zenon
  <2>2. g \in 0 .. d - 1 /\ v = u - n
    BY <1>1, <1>2, <2>a, PendingIs
  <2> HIDE DEF g
  <2>3. v \in 0 .. d - 1 /\ u \in 0 .. d
    BY <1>1, <2>1, <2>2, <2>a
  <2> QED BY <2>1, <2>2, <2>3
<1>4. ArrivedOK(e, p)
  BY ArrivedIs DEF Reader
<1>5. /\ A \in Seq(EventType) /\ Len(A) = u /\ a \in Seq(S) /\ Len(a) = u
      /\ \A i \in 1 .. u : a[i] # <<>> /\ A[i] = a[i][1]
  BY <1>4 DEF ArrivedOK, AreSlots
<1>6. b = SubSeq(a, n + 1, u)
  <2>1. n \in 0 .. u
    OBVIOUS
  <2> HIDE DEF f, h, u, v, S
  <2>2. Splits(f, h, u, n, d)
    BY <1>1, <1>3, <2>1, SlotsSplit, Zenon
  <2> QED BY <1>3, <2>2 DEF Splits
<1>7. \A i \in 1 .. v : b[i] = f[(g + i - 1) % d]
  BY DEF Slots
<1> HIDE DEF a, b
<1>8. /\ b \in Seq(S) /\ Len(b) = v /\ \A i \in 1 .. v : b[i] = a[n + i] /\ n + i \in 1 .. u
  <2>1. n \in 0 .. Len(a)
    BY <1>5
  <2>2. \A i \in 1 .. u - n : n + i \in 1 .. u
    <3> HIDE DEF u
    <3> QED BY <1>3
  <2> QED BY <1>3, <1>5, <1>6, <2>1, <2>2, HitsSplit
<1>9. \A i \in 1 .. v : f[(g + i - 1) % d] # <<>>
  BY <1>5, <1>7, <1>8
<1>10. Reader(x, r)
  <2>1. \A i \in 1 .. UnreadIn(x, r) : x.cq[(r.next + i - 1) % cq_depth] # <<>>
    BY <1>9
  <2>2. UnreadIn(x, r) <= Pending(x.cq_head, x.cq_tail, cq_depth)
    <3>1. UnreadIn(x, r) = Pending(x.cq_head, x.cq_tail, cq_depth)
      BY DEF UnreadIn
    <3>2. UnreadIn(x, r) \in Nat
      BY <1>1, <1>3
    <3> QED BY <3>1, <3>2
  <2> QED BY <2>1, <2>2 DEF Reader
<1>11. ArrivedOK(x, r)
  BY <1>10, ArrivedIs DEF Reader
<1>12. X \in Seq(EventType) /\ Len(X) = v /\ \A i \in 1 .. v : X[i] = b[i][1]
  <2>1. X \in Seq(EventType) /\ Len(X) = v
    BY <1>11 DEF ArrivedOK
  <2>2. X = [i \in 1 .. v |-> f[(g + i - 1) % d][1]]
    BY DEF ArrivedIn
  <2>3. \A i \in 1 .. v : X[i] = b[i][1]
    <3> HIDE DEF X
    <3> QED BY <1>7, <2>2
  <2> QED BY <2>1, <2>3
<1> HIDE DEF X, A, u, v
<1>13. X = SubSeq(A, n + 1, Len(A))
  <2> DEFINE B == SubSeq(A, n + 1, u)
  <2>1. n \in 0 .. Len(A)
    BY <1>5 DEF u
  <2>2. B \in Seq(EventType) /\ Len(B) = v /\ \A i \in 1 .. v : B[i] = A[n + i]
    BY <1>3, <1>5, <2>1, HitsSplit
  <2> HIDE DEF B
  <2>3. \A i \in 1 .. v : X[i] = B[i]
    BY <1>5, <1>8, <1>12, <2>2
  <2>4. X = B
    BY <1>12, <2>2, <2>3, SeqEqual
  <2> QED BY <1>5, <2>4 DEF B
<1> QED BY <1>10, <1>13 DEF X, A

\* What the program decodes.
LEMMA DecodedIs ==
  ASSUME NEW e \in Endpoint, NEW p \in Program, Reader(e, p), NEW n \in 0 .. UnreadIn(e, p)
  PROVE  /\ [i \in 1 .. n |-> e.cq[(p.next + i - 1) % cq_depth][1]]
              = SubSeq(ArrivedIn(e, p), 1, n)
         /\ SubSeq(ArrivedIn(e, p), 1, n) \in Seq(EventType)
         /\ n \in 0 .. Len(ArrivedIn(e, p))
<1> DEFINE A == ArrivedIn(e, p)
           B == SubSeq(A, 1, n)
           D == [i \in 1 .. n |-> e.cq[(p.next + i - 1) % cq_depth][1]]
           u == UnreadIn(e, p)
<1>1. A \in Seq(EventType) /\ Len(A) = u /\ u \in Nat
  <2>1. ArrivedOK(e, p)
    BY ArrivedIs DEF Reader
  <2>2. A \in Seq(EventType) /\ Len(A) = u
    BY <2>1 DEF ArrivedOK
  <2> HIDE DEF A, u
  <2> QED BY <2>2, LenProperties
<1>2. \A i \in 1 .. u : A[i] = e.cq[(p.next + i - 1) % cq_depth][1]
  BY DEF ArrivedIn
<1>3. n \in 0 .. u /\ n \in Nat
  BY <1>1
<1> HIDE DEF A, u
<1>4. B \in Seq(EventType) /\ Len(B) = n /\ \A i \in 1 .. n : B[i] = A[i]
  BY <1>1, <1>3, HitsSplit
<1>5. \A i \in 1 .. n : D[i] = B[i] /\ B[i] \in EventType
  <2> HIDE DEF B
  <2>1. \A i \in 1 .. n : i \in 1 .. u
    BY <1>1, <1>3
  <2> QED BY <1>2, <1>4, <2>1, ElementOfSeq
<1>6. D \in Seq(EventType) /\ Len(D) = n
  <2>1. D \in [1 .. n -> EventType]
    <3> HIDE DEF B
    <3> QED BY <1>5
  <2> HIDE DEF D
  <2> QED BY <1>3, <2>1, SeqDef, LenProperties
<1>7. D = B
  <2> HIDE DEF D, B
  <2> QED BY <1>4, <1>5, <1>6, SeqEqual
<1> QED BY <1>1, <1>3, <1>4, <1>7 DEF A, u

\* CQ_HEAD is written.
LEMMA HeadIs ==
  ASSUME NEW e \in Endpoint, NEW value \in 0 .. cq_depth - 1
  PROVE  LET x == write_cq_head(e, value)
         IN  /\ x \in Endpoint /\ x.cq_head = value /\ x.cq = e.cq /\ x.cq_tail = e.cq_tail
             /\ x.cmdq = e.cmdq /\ x.cmdq_head = e.cmdq_head /\ x.cmdq_tail = e.cmdq_tail
             /\ value # e.cq_tail => x.irq_status = e.irq_status
  BY DEF write_cq_head, Endpoint, IrqBits

\* The interrupt line is updated if it may have to change.
LEMMA HeadWrites ==
  ASSUME NEW value, WriteCqHead(value), NEW e, e = write_cq_head(E1, value),
         value # E1.cq_tail => e.irq_status = E1.irq_status
  PROVE  Updates(e) \/ (Writes(e) /\ e.irq_status = E1.irq_status)
<1>1. CASE value = E1.cq_tail
  BY <1>1 DEF WriteCqHead, Updates
<1>2. CASE value # E1.cq_tail
  BY <1>2 DEF WriteCqHead, Writes
<1> QED BY <1>1, <1>2

\* The program reads completions.
LEMMA ConsumeKeeps ==
  ASSUME DevInv, NEW n, Consume(n)
  PROVE  /\ InvAfter
         /\ n \in 0 .. Len(Arrived)
         /\ ArrivedIn(ep'[endpoint1], probe') = SubSeq(Arrived, n + 1, Len(Arrived))
         /\ seen' = [seen EXCEPT ![endpoint1] = @ \o SubSeq(Arrived, 1, n)]
         /\ Batch(ep'[endpoint1], 0) = Ring
         /\ log' = log /\ uapi' = uapi /\ failed' = failed /\ passed' = passed
         /\ boot' = boot
<1> DEFINE next == (probe.next + n) % cq_depth
           e == write_cq_head(E1, next)
           p == [probe EXCEPT !.next = next, !.told = E1.cq_tail]
           D == [i \in 1 .. n |-> E1.cq[(probe.next + i - 1) % cq_depth][1]]
           B == SubSeq(Arrived, 1, n)
<1>1. /\ E1 \in Endpoint /\ E1.cmdq \in [0 .. cmdq_depth - 1 -> 0 .. Len(log)]
      /\ log \in Seq(Command) /\ Numbered(log) /\ Between(uapi)
      /\ seen \in [Guests -> Seq(EventType)] /\ ep \in [Guests -> Endpoint]
      /\ drv \in Driver /\ probe \in Program /\ failed \subseteq {"submit", "doorbell"}
      /\ passed \subseteq 1 .. Len(log) /\ Reader(E1, probe) /\ endpoint1 \in Guests
  BY LinquUbAssumption DEF DevInv, Inv, Types, E1
<1>2. /\ probe.pc = "run" /\ n \in 0 .. UnreadIn(E1, probe)
      /\ seen' = [seen EXCEPT ![endpoint1] = @ \o D]
      /\ WriteCqHead(next) /\ probe' = p
      /\ log' = log /\ uapi' = uapi /\ drv' = drv /\ failed' = failed /\ passed' = passed
      /\ boot' = boot
  BY DEF Consume, Running, Unread, UnreadIn
<1>3. next \in 0 .. cq_depth - 1
  <2> DEFINE d == cq_depth
             h == probe.next
             t == E1.cq_tail
             u == UnreadIn(E1, probe)
  <2>1. d \in Nat \ {0} /\ h \in 0 .. d - 1 /\ t \in 0 .. d - 1 /\ u = Pending(h, t, d)
        /\ n \in 0 .. u
    BY <1>1, <1>2, EndpointFields, ProgramFields DEF UnreadIn
  <2> HIDE DEF d, h, t, u
  <2>2. (h + n) % d \in 0 .. d - 1
    BY <2>1, PendingIs
  <2> QED BY <2>2 DEF d, h
<1>4. D = B /\ B \in Seq(EventType) /\ n \in 0 .. Len(Arrived)
  BY <1>1, <1>2, DecodedIs, Zenon DEF Arrived
<1>5. /\ e \in Endpoint /\ e.cq_head = next /\ e.cq = E1.cq /\ e.cq_tail = E1.cq_tail
      /\ e.cmdq = E1.cmdq /\ e.cmdq_head = E1.cmdq_head /\ e.cmdq_tail = E1.cmdq_tail
      /\ next # E1.cq_tail => e.irq_status = E1.irq_status
  <2> HIDE DEF next
  <2> QED BY <1>1, <1>3, HeadIs
<1>6. Updates(e) \/ (Writes(e) /\ e.irq_status = E1.irq_status)
  <2> HIDE DEF next
  <2>1. WriteCqHead(next)
    BY <1>2
  <2> HIDE DEF next
  <2>2. e = write_cq_head(E1, next) /\ (next # E1.cq_tail => e.irq_status = E1.irq_status)
    BY <1>5
  <2> HIDE DEF e
  <2> QED BY <2>1, <2>2, HeadWrites
<1>7. p \in Program /\ p.next = next /\ p.told = E1.cq_tail /\ p.pc = "run"
  <2>1. E1.cq_tail \in 0 .. cq_depth - 1
    BY <1>1, EndpointFields
  <2> HIDE DEF next
  <2> QED BY <1>1, <1>2, <1>3, <2>1 DEF Program
<1> HIDE DEF e, p, D, B
<1>8. /\ Reader(e, p)
      /\ ArrivedIn(e, p) = SubSeq(ArrivedIn(E1, probe), n + 1, Len(ArrivedIn(E1, probe)))
  <2>1. n \in 0 .. UnreadIn(E1, probe) /\ E1 \in Endpoint /\ probe \in Program
        /\ Reader(E1, probe)
    BY <1>1, <1>2
  <2>2. /\ e \in Endpoint /\ e.cq = E1.cq /\ e.cq_tail = E1.cq_tail
        /\ e.cq_head = (probe.next + n) % cq_depth
        /\ p \in Program /\ p.next = (probe.next + n) % cq_depth /\ p.told = E1.cq_tail
    BY <1>5, <1>7
  <2> QED BY <2>1, <2>2, ReaderReads, Zenon
<1>9. Woken(e, drv, p)
  BY <1>7 DEF Woken
<1>10. seen' = [seen EXCEPT ![endpoint1] = @ \o B] /\ seen' \in [Guests -> Seq(EventType)]
  <2>1. seen[endpoint1] \o B \in Seq(EventType)
    BY <1>1, <1>4, ConcatProperties
  <2> QED BY <1>1, <1>2, <1>4, <2>1
<1>11. InvAfter
  <2>1. Len(log) \in Nat
    BY <1>1, LenProperties
  <2>2. /\ log' \in Seq(Command) /\ Numbered(log') /\ Len(log) <= Len(log')
        /\ e.cmdq \in [0 .. cmdq_depth - 1 -> 0 .. Len(log')]
        /\ Between(uapi') /\ drv' \in Driver /\ failed' \subseteq {"submit", "doorbell"}
        /\ passed' \subseteq 1 .. Len(log') /\ boot' = boot
    BY <1>1, <1>2, <1>5, <2>1
  <2>3. /\ probe' \in Program /\ Reader(e, probe') /\ Woken(e, drv', probe')
        /\ seen' \in [Guests -> Seq(EventType)] /\ e \in Endpoint
    BY <1>2, <1>5, <1>7, <1>8, <1>9, <1>10
  <2> QED BY <1>6, <2>2, <2>3, WriteKeeps
<1>12. ep'[endpoint1] = e
  BY <1>1, <1>6 DEF Updates, Writes
<1>13. Batch(e, 0) = Ring
  BY <1>5 DEF Ring, Batch
<1> QED BY <1>2, <1>4, <1>8, <1>10, <1>11, <1>12, <1>13 DEF Arrived, B

\* Completions and queues are left alone.
Apart == log' = log /\ uapi' = uapi /\ seen' = seen /\ failed' = failed /\ passed' = passed
           /\ boot' = boot

\* A write that touches neither the command ring nor the completions.
Harmless(e) ==
  /\ e \in Endpoint /\ e.cmdq = E1.cmdq /\ e.cmdq_head = E1.cmdq_head
  /\ e.cmdq_tail = E1.cmdq_tail /\ e.cq = E1.cq /\ e.cq_tail = E1.cq_tail

\* Such a write, of the program or of the driver.
LEMMA HarmlessKeeps ==
  ASSUME DevInv, Apart, NEW e, Harmless(e),
         e.cq_head = E1.cq_head \/ Unread = 0,
         e.cq_head \in 0 .. cq_depth - 1,
         Updates(e) \/ (Writes(e) /\ e.irq_status = E1.irq_status),
         drv' \in Driver, probe' \in Program,
         probe'.next = probe.next, probe'.told = probe.told, Woken(e, drv', probe')
  PROVE  /\ InvAfter /\ ep'[endpoint1] = e
         /\ Batch(ep'[endpoint1], 0) = Ring /\ ArrivedIn(ep'[endpoint1], probe') = Arrived
<1>1. /\ E1 \in Endpoint /\ E1.cmdq \in [0 .. cmdq_depth - 1 -> 0 .. Len(log)]
      /\ log \in Seq(Command) /\ Numbered(log) /\ Between(uapi)
      /\ seen \in [Guests -> Seq(EventType)] /\ ep \in [Guests -> Endpoint]
      /\ failed \subseteq {"submit", "doorbell"} /\ probe \in Program
      /\ passed \subseteq 1 .. Len(log) /\ Reader(E1, probe) /\ endpoint1 \in Guests
  BY LinquUbAssumption DEF DevInv, Inv, Types, E1
<1>2. e \in Endpoint /\ e.cmdq = E1.cmdq /\ e.cq = E1.cq /\ e.cq_tail = E1.cq_tail
      /\ e.cmdq_head = E1.cmdq_head /\ e.cmdq_tail = E1.cmdq_tail
  BY DEF Harmless
<1>3. UnreadIn(e, probe') = UnreadIn(E1, probe)
  BY <1>2 DEF UnreadIn
<1>4. Reader(e, probe')
  <2>1. UnreadIn(e, probe') <= Pending(e.cq_head, e.cq_tail, cq_depth)
    <3>1. CASE e.cq_head = E1.cq_head
      BY <1>1, <1>2, <1>3, <3>1 DEF Reader
    <3>2. CASE Unread = 0
      <4>1. UnreadIn(e, probe') = 0
        BY <1>3, <3>2 DEF UnreadIn, Unread
      <4>2. Pending(e.cq_head, e.cq_tail, cq_depth) \in 0 .. cq_depth - 1 /\ cq_depth \in Nat
        BY <1>1, <1>2, EndpointFields, PendingEnds
      <4> QED BY <4>1, <4>2
    <3> QED BY <3>1, <3>2
  <2>2. \A i \in 1 .. UnreadIn(e, probe') : e.cq[(probe'.next + i - 1) % cq_depth] # <<>>
    BY <1>1, <1>2, <1>3 DEF Reader
  <2>3. UnreadIn(e, probe') = 0 => probe'.told = e.cq_tail
    BY <1>1, <1>2, <1>3 DEF Reader
  <2> QED BY <2>1, <2>2, <2>3 DEF Reader
<1>5. Len(log) \in Nat
  BY <1>1, LenProperties
<1>6. /\ log' \in Seq(Command) /\ Numbered(log') /\ Len(log) <= Len(log')
      /\ e.cmdq \in [0 .. cmdq_depth - 1 -> 0 .. Len(log')]
      /\ Between(uapi') /\ seen' \in [Guests -> Seq(EventType)]
      /\ failed' \subseteq {"submit", "doorbell"}
      /\ passed' \subseteq 1 .. Len(log') /\ boot' = boot
  BY <1>1, <1>2, <1>5 DEF Apart
<1>7. InvAfter
  BY <1>2, <1>4, <1>6, WriteKeeps
<1>8. ep'[endpoint1] = e
  BY <1>1 DEF Updates, Writes
<1>9. Batch(e, 0) = Ring
  BY <1>2 DEF Batch, Ring
<1>10. ArrivedIn(e, probe') = Arrived
  BY <1>2, <1>3 DEF ArrivedIn, Arrived
<1> QED BY <1>7, <1>8, <1>9, <1>10

\* What a step that leaves the surface alone keeps.
Still ==
  /\ InvAfter /\ Apart
  /\ Batch(ep'[endpoint1], 0) = Ring /\ ArrivedIn(ep'[endpoint1], probe') = Arrived

\* CQ_HEAD is rewound, interrupts are acknowledged, an error is raised.
LEMMA RegistersKeep ==
  ASSUME DevInv, RewindHead \/ AckIrq \/ RefusedWrite \/ AckStatus
  PROVE  Still
<1>1. /\ E1 \in Endpoint /\ probe \in Program /\ drv \in Driver
      /\ cq_depth \in Nat \ {0} /\ E1.cq_head \in 0 .. cq_depth - 1
      /\ 0 \in 0 .. cq_depth - 1
  <2>1. E1 \in Endpoint /\ probe \in Program /\ drv \in Driver
    BY LinquUbAssumption DEF DevInv, Inv, Types, E1
  <2>2. cq_depth \in Nat \ {0} /\ E1.cq_head \in 0 .. cq_depth - 1
    BY <2>1, EndpointFields
  <2>3. 0 \in 0 .. cq_depth - 1
    BY <2>2
  <2> QED BY <2>1, <2>2, <2>3
<1>2. CASE RewindHead
  <2> DEFINE e == write_cq_head(E1, 0)
             p == [probe EXCEPT !.pc = "rewound"]
  <2>1. /\ Apart /\ drv' = drv /\ probe' = p /\ Unread = 0 /\ WriteCqHead(0)
    BY <1>2 DEF RewindHead, Apart
  <2>2. /\ p \in Program /\ p.next = probe.next /\ p.told = probe.told /\ p.pc = "rewound"
    BY <1>1 DEF Program
  <2>3. /\ e \in Endpoint /\ e.cq_head = 0 /\ e.cq = E1.cq /\ e.cq_tail = E1.cq_tail
        /\ e.cmdq = E1.cmdq /\ e.cmdq_head = E1.cmdq_head /\ e.cmdq_tail = E1.cmdq_tail
        /\ 0 # E1.cq_tail => e.irq_status = E1.irq_status
    BY <1>1, HeadIs
  <2>4. e = write_cq_head(E1, 0)
    OBVIOUS
  <2> HIDE DEF e, p
  <2>5. Updates(e) \/ (Writes(e) /\ e.irq_status = E1.irq_status)
    BY <2>1, <2>3, <2>4, HeadWrites
  <2>6. Harmless(e)
    BY <2>3 DEF Harmless
  <2>7. /\ drv' \in Driver /\ probe' \in Program /\ probe'.next = probe.next
        /\ probe'.told = probe.told /\ Woken(e, drv', probe')
    BY <1>1, <2>1, <2>2 DEF Woken
  <2> QED BY <1>1, <2>1, <2>3, <2>5, <2>6, <2>7, HarmlessKeeps DEF Still
<1>3. ASSUME NEW e, Updates(e), drv' = drv, probe' = probe, probe.pc \in {"run", "rewound"},
             e.cq_head = E1.cq_head, Harmless(e), Apart
      PROVE  Still
  <2>1. Woken(e, drv', probe')
    BY <1>3 DEF Woken
  <2>2. /\ drv' \in Driver /\ probe' \in Program /\ probe'.next = probe.next
        /\ probe'.told = probe.told /\ e.cq_head \in 0 .. cq_depth - 1
    BY <1>1, <1>3
  <2>3. e.cq_head = E1.cq_head /\ Updates(e) /\ Harmless(e) /\ Apart
    BY <1>3
  <2> QED BY <2>1, <2>2, <2>3, HarmlessKeeps, Zenon DEF Still
<1>4. CASE AckIrq
  <2> DEFINE e == [E1 EXCEPT !.irq_status = {}]
  <2>1. Updates(e) /\ drv' = drv /\ probe' = probe /\ probe.pc \in {"run", "rewound"} /\ Apart
    BY <1>4 DEF AckIrq, Apart
  <2>2. Harmless(e) /\ e.cq_head = E1.cq_head
    BY <1>1 DEF Harmless, Endpoint
  <2> HIDE DEF e
  <2> QED BY <1>3, <2>1, <2>2
<1>5. CASE RefusedWrite
  <2> DEFINE e == set_error(E1)
  <2>1. Updates(e) /\ drv' = drv /\ probe' = probe /\ probe.pc \in {"run", "rewound"} /\ Apart
    BY <1>5 DEF RefusedWrite, Apart, Running
  <2>2. Harmless(e) /\ e.cq_head = E1.cq_head
    BY <1>1 DEF Harmless, Endpoint, set_error, IrqBits
  <2> HIDE DEF e
  <2> QED BY <1>3, <2>1, <2>2
<1>6. CASE AckStatus
  <2> DEFINE e == [E1 EXCEPT !.irq_status = @ \ drv.status]
             t == [drv EXCEPT !.thread = "acked"]
  <2>1. Updates(e) /\ drv' = t /\ drv.thread = "read" /\ probe' = probe /\ Apart
    BY <1>6 DEF AckStatus, Apart, ThreadStep
  <2>2. /\ Harmless(e) /\ e.cq_head = E1.cq_head
        /\ e.irq_status = E1.irq_status \ drv.status
    BY <1>1 DEF Harmless, Endpoint
  <2>3. /\ t \in Driver /\ t.thread = "acked" /\ t.status = drv.status
        /\ t.event_pending = drv.event_pending
    BY <1>1 DEF Driver
  <2>4. Woken(E1, drv, probe)
    BY DEF DevInv, Inv, E1
  <2> HIDE DEF e, t
  <2>5. Woken(e, t, probe)
    BY <2>1, <2>2, <2>3, <2>4 DEF Woken, Harmless
  <2>6. /\ drv' \in Driver /\ probe' \in Program /\ probe'.next = probe.next
        /\ probe'.told = probe.told /\ e.cq_head \in 0 .. cq_depth - 1
        /\ Woken(e, drv', probe')
    BY <1>1, <2>1, <2>2, <2>3, <2>5
  <2>7. e.cq_head = E1.cq_head /\ Updates(e) /\ Harmless(e) /\ Apart
    BY <2>1, <2>2
  <2> QED BY <2>6, <2>7, HarmlessKeeps, Zenon DEF Still
<1> QED BY <1>2, <1>4, <1>5, <1>6

\* Steps of driver and program that write no register.
LEMMA DriverKeeps ==
  ASSUME DevInv, irq_primary \/ ReadStatus \/ Publish \/ ReadEvent \/ PollTimeout
  PROVE  Still
<1>1. /\ E1 \in Endpoint /\ probe \in Program /\ drv \in Driver /\ Reader(E1, probe)
      /\ Woken(E1, drv, probe) /\ E1.irq_status \in SUBSET IrqBits
      /\ E1.cq_tail \in 0 .. cq_depth - 1
  <2>1. /\ E1 \in Endpoint /\ probe \in Program /\ drv \in Driver /\ Reader(E1, probe)
        /\ Woken(E1, drv, probe)
    BY LinquUbAssumption DEF DevInv, Inv, Types, E1
  <2> QED BY <2>1, EndpointFields
<1>2. Apart /\ ep' = ep /\ irq' = irq
  BY DEF irq_primary, ReadStatus, Publish, ReadEvent, PollTimeout, ThreadStep, Apart
<1> SUFFICES drv' \in Driver /\ probe' \in Program /\ probe'.next = probe.next
             /\ (probe'.told = probe.told \/ probe'.told = E1.cq_tail)
             /\ Woken(E1, drv', probe')
  <2> SUFFICES ASSUME drv' \in Driver, probe' \in Program, probe'.next = probe.next,
                      probe'.told = probe.told \/ probe'.told = E1.cq_tail,
                      Woken(E1, drv', probe')
               PROVE  Still
    OBVIOUS
  <2>1. Reader(E1, probe')
    BY <1>1 DEF Reader, UnreadIn
  <2>2. Types(log', uapi', seen', ep', irq', drv', probe', failed', passed', boot')
    BY <1>2 DEF DevInv, Inv, Types, Apart
  <2>3. InvAfter
    BY <1>2, <2>1, <2>2 DEF DevInv, Inv, InvAfter, E1
  <2>4. ArrivedIn(E1, probe') = Arrived
    BY DEF ArrivedIn, UnreadIn, Arrived
  <2> QED BY <1>2, <2>3, <2>4 DEF Still, Ring, E1
<1>3. CASE irq_primary
  <2>1. drv' = [drv EXCEPT !.thread = "woken"] /\ probe' = probe /\ drv.thread = "idle"
    BY <1>3 DEF irq_primary, ThreadStep
  <2>2. /\ drv' \in Driver /\ drv'.thread = "woken" /\ drv'.status = drv.status
        /\ drv'.event_pending = drv.event_pending
    BY <1>1, <2>1 DEF Driver
  <2> QED BY <1>1, <2>1, <2>2 DEF Woken
<1>4. CASE ReadStatus
  <2> DEFINE t == IF E1.irq_status = {} THEN "idle" ELSE "read"
  <2>1. drv' = [drv EXCEPT !.status = E1.irq_status, !.thread = t] /\ probe' = probe
        /\ drv.thread = "woken"
    BY <1>4 DEF ReadStatus, ThreadStep
  <2>2. t \in {"idle", "read"}
    OBVIOUS
  <2> HIDE DEF t
  <2>3. drv' \in Driver /\ drv'.event_pending = drv.event_pending
    BY <1>1, <2>1, <2>2 DEF Driver
  <2> QED BY <1>1, <2>1, <2>3 DEF Woken
<1>5. CASE Publish
  <2>1. drv' = [BoundDriver EXCEPT !.event_pending = TRUE] /\ probe' = probe
    BY <1>5 DEF Publish, ThreadStep
  <2>2. drv' \in Driver /\ drv'.event_pending = TRUE
    BY <2>1 DEF Driver, BoundDriver
  <2> QED BY <1>1, <2>1, <2>2 DEF Woken
<1>6. CASE ReadEvent
  <2>1. drv' = [drv EXCEPT !.event_pending = FALSE]
        /\ probe' = [probe EXCEPT !.pc = "run", !.told = E1.cq_tail]
    BY <1>6 DEF ReadEvent
  <2>2. drv' \in Driver
    BY <1>1, <2>1 DEF Driver
  <2>3. probe' \in Program /\ probe'.next = probe.next /\ probe'.told = E1.cq_tail
        /\ probe'.pc = "run"
    BY <1>1, <2>1 DEF Program
  <2> QED BY <2>2, <2>3 DEF Woken
<1>7. CASE PollTimeout
  <2>1. drv' = drv /\ probe' = [probe EXCEPT !.pc = "done"]
    BY <1>7 DEF PollTimeout
  <2>2. probe' \in Program /\ probe'.next = probe.next /\ probe'.told = probe.told
        /\ probe'.pc = "done"
    BY <1>1, <2>1 DEF Program
  <2> QED BY <1>1, <2>1, <2>2 DEF Woken
<1> QED BY <1>3, <1>4, <1>5, <1>6, <1>7

\* Queues and history of the surface after a reset.
Forgets(s, t) ==
  /\ t \in Surface /\ t.cmdq = s.cmdq /\ t.runtime = s.runtime /\ t.service = s.service
  /\ t.store = s.store /\ t.cq = s.cq /\ t.failures = s.failures

\* The machine is reset.
LEMMA ResetKeeps ==
  ASSUME DevInv, SystemReset
  PROVE  /\ InvAfter /\ Forgets(uapi, uapi')
         /\ Batch(ep'[endpoint1], 0) = <<>> /\ ArrivedIn(ep'[endpoint1], probe') = <<>>
         /\ seen'[endpoint1] = <<>>
<1>1. /\ log \in Seq(Command) /\ Numbered(log) /\ Between(uapi) /\ endpoint1 \in Guests
      /\ cmdq_depth \in Nat \ {0} /\ cq_depth \in Nat \ {0} /\ cq_depth >= 2
  BY LinquUbAssumption DEF DevInv, Inv, Types
<1>2. /\ ep' = [g \in Guests |-> ResetEndpoint] /\ irq' = FALSE /\ drv' = BoundDriver
      /\ probe' = FreshProbe /\ failed' = {} /\ passed' = {}
      /\ seen' = [g \in Guests |-> <<>>] /\ log' = log
      /\ uapi' = [uapi EXCEPT !.refused = {}, !.lost = {}]
      /\ boot'.log = Len(log) /\ boot' \in [log: {Len(log)}, dirty: BOOLEAN]
  BY DEF SystemReset
<1>3. Forgets(uapi, uapi')
  <2>1. uapi \in Surface
    BY <1>1 DEF Between
  <2> QED BY <1>2, <2>1 DEF Forgets, Surface
<1>4. Between(uapi')
  BY <1>1, <1>3 DEF Between, Forgets, Shallow
<1>5. /\ ResetEndpoint \in Endpoint /\ ResetEndpoint.irq_status = {}
      /\ ResetEndpoint.cmdq \in [0 .. cmdq_depth - 1 -> 0 .. Len(log)]
      /\ ResetEndpoint.cmdq_head = 0 /\ ResetEndpoint.cmdq_tail = 0
      /\ ResetEndpoint.cq_head = 0 /\ ResetEndpoint.cq_tail = 0
  <2>1. Len(log) \in Nat /\ 0 \in 0 .. Len(log) /\ 0 \in 0 .. MaxCmds
    BY <1>1, LenProperties, SurfaceAssumption
  <2>2. 0 \in 0 .. cmdq_depth - 1 /\ 0 \in 0 .. cq_depth - 1
    BY <1>1
  <2>3. <<>> \in Seq(EventType)
    OBVIOUS
  <2>4. [i \in 0 .. cmdq_depth - 1 |-> 0] \in [0 .. cmdq_depth - 1 -> 0 .. MaxCmds]
        /\ [i \in 0 .. cmdq_depth - 1 |-> 0] \in [0 .. cmdq_depth - 1 -> 0 .. Len(log)]
    BY <2>1
  <2>5. [i \in 0 .. cq_depth - 1 |-> <<>>] \in [0 .. cq_depth - 1 -> Seq(EventType)]
    BY <2>3
  <2> QED BY <2>1, <2>2, <2>4, <2>5 DEF ResetEndpoint, Endpoint
<1>6. /\ FreshProbe \in Program /\ FreshProbe.next = 0 /\ FreshProbe.told = 0
      /\ FreshProbe.pc = "run" /\ BoundDriver \in Driver
  BY <1>1 DEF FreshProbe, Program, BoundDriver, Driver
<1> DEFINE e == ResetEndpoint
           p == FreshProbe
<1>7. UnreadIn(e, p) = 0 /\ Pending(e.cq_head, e.cq_tail, cq_depth) = 0
      /\ Pending(e.cmdq_head, e.cmdq_tail, cmdq_depth) = 0
  BY <1>5, <1>6 DEF UnreadIn, Pending
<1>8. Reader(e, p)
  BY <1>5, <1>6, <1>7 DEF Reader
<1>9. ep' \in [Guests -> Endpoint] /\ ep'[endpoint1] = e
      /\ \A g \in Guests : ep'[g].irq_status = {}
  BY <1>1, <1>2, <1>5
<1>10. irq' = has_pending_irq(ep') /\ irq' \in BOOLEAN
  <2>1. ~has_pending_irq(ep')
    BY <1>9 DEF has_pending_irq
  <2>2. has_pending_irq(ep') \in BOOLEAN
    BY Zenon DEF has_pending_irq
  <2> QED BY <1>2, <2>1, <2>2
<1>11. Types(log', uapi', seen', ep', irq', drv', probe', failed', passed', boot')
  <2>1. boot' \in [log: 0 .. Len(log), dirty: BOOLEAN]
    <3>1. Len(log) \in 0 .. Len(log)
      BY <1>1, LenProperties
    <3> QED BY <1>2, <3>1
  <2>2. seen' \in [Guests -> Seq(EventType)]
    BY <1>2
  <2> QED BY <1>1, <1>2, <1>4, <1>5, <1>6, <1>9, <1>10, <2>1, <2>2 DEF Types
<1>12. InvAfter
  BY <1>2, <1>6, <1>8, <1>9, <1>10, <1>11 DEF InvAfter, Inv, Woken
<1>13. ArrivedIn(e, p) = <<>>
  BY <1>7 DEF ArrivedIn
<1>14. Batch(e, 0) = <<>>
  <2> DEFINE d == cmdq_depth
  <2>1. Min({d, 0}) = 0
    <3>1. d \in Int /\ 0 \in Int /\ d >= 0
      BY <1>1
    <3> HIDE DEF d
    <3>2. Min({d, 0}) \in {d, 0} /\ Min({d, 0}) <= 0
      BY <3>1, MinOfTwo
    <3> QED BY <3>1, <3>2
  <2>2. Batch(e, 0) = [i \in 1 .. 0 |-> e.cmdq[(e.cmdq_head + i - 1) % cmdq_depth]]
    BY <1>7, <2>1, Zenon DEF Batch
  <2> QED BY <2>2
<1> QED BY <1>1, <1>2, <1>3, <1>6, <1>9, <1>12, <1>13, <1>14

\* Nothing happens.
LEMMA NothingKeeps ==
  ASSUME DevInv, UNCHANGED devVars
  PROVE  InvAfter
  BY DEF DevInv, InvAfter, Inv, Types, devVars

\* Every step keeps the invariant.
LEMMA DevNextKeeps == DevInv /\ [DevNext]_devVars => DevInv'
<1> SUFFICES ASSUME DevInv, [DevNext]_devVars PROVE InvAfter
  BY DEF DevInv, InvAfter, Inv, Types, Numbered, Between, Shallow, Reader, UnreadIn, Pending,
         has_pending_irq, Woken
<1>1. ASSUME NEW op \in Ops, NEW key \in Keys, build_descriptor(op, key) PROVE InvAfter
  BY <1>1, BuildKeeps
<1>2. CASE build_invalid_descriptor
  BY <1>2, BuildInvalidKeeps
<1>3. ASSUME NEW n \in Batches0, NEW wait \in BOOLEAN, Doorbell(n, wait) PROVE InvAfter
  BY <1>3, DoorbellKeeps
<1>4. ASSUME NEW n \in 0 .. Unread, Consume(n) PROVE InvAfter
  BY <1>4, ConsumeKeeps
<1>5. CASE RewindHead \/ AckIrq \/ RefusedWrite \/ AckStatus
  BY <1>5, RegistersKeep DEF Still
<1>6. CASE irq_primary \/ ReadStatus \/ Publish \/ ReadEvent \/ PollTimeout
  BY <1>6, DriverKeeps DEF Still
<1>7. CASE SystemReset
  BY <1>7, ResetKeeps
<1>8. CASE UNCHANGED devVars
  BY <1>8, NothingKeeps
<1> QED BY <1>1, <1>2, <1>3, <1>4, <1>5, <1>6, <1>7, <1>8 DEF DevNext, ProbeStep, irq_thread

-----------------------------------------------------------------------------
(* Theorems *)

\* The invariant holds at the start.
LEMMA DevInitIs == DevInit => DevInv
<1> SUFFICES ASSUME DevInit PROVE DevInv
  OBVIOUS
<1>1. /\ endpoint1 \in Guests /\ cmdq_depth \in Nat \ {0} /\ cq_depth \in Nat \ {0}
      /\ cq_depth >= 2 /\ MaxCmds \in Nat
  BY LinquUbAssumption, SurfaceAssumption
<1>2. /\ ep = [g \in Guests |-> ResetEndpoint] /\ irq = FALSE /\ drv = BoundDriver
      /\ probe = FreshProbe /\ failed = {} /\ passed = {}
      /\ seen = [g \in Guests |-> <<>>] /\ log = <<>>
      /\ boot = [log |-> 0, dirty |-> FALSE] /\ Init
  BY DEF DevInit, Init
<1>3. Between(uapi)
  BY <1>2, InitType, TypeIs
<1>4. Len(log) = 0 /\ log \in Seq(Command) /\ Numbered(log)
  BY <1>2 DEF Numbered
<1> DEFINE e == ResetEndpoint
           p == FreshProbe
<1>5. /\ e \in Endpoint /\ e.irq_status = {}
      /\ e.cmdq \in [0 .. cmdq_depth - 1 -> 0 .. 0]
      /\ e.cq_head = 0 /\ e.cq_tail = 0
  <2>1. 0 \in 0 .. cmdq_depth - 1 /\ 0 \in 0 .. cq_depth - 1 /\ 0 \in 0 .. MaxCmds
    BY <1>1
  <2>2. <<>> \in Seq(EventType)
    OBVIOUS
  <2>3. [i \in 0 .. cmdq_depth - 1 |-> 0] \in [0 .. cmdq_depth - 1 -> 0 .. MaxCmds]
        /\ [i \in 0 .. cmdq_depth - 1 |-> 0] \in [0 .. cmdq_depth - 1 -> 0 .. 0]
    BY <2>1
  <2>4. [i \in 0 .. cq_depth - 1 |-> <<>>] \in [0 .. cq_depth - 1 -> Seq(EventType)]
    BY <2>2
  <2> QED BY <2>1, <2>3, <2>4 DEF ResetEndpoint, Endpoint
<1>6. /\ p \in Program /\ p.next = 0 /\ p.told = 0 /\ p.pc = "run" /\ BoundDriver \in Driver
  BY <1>1 DEF FreshProbe, Program, BoundDriver, Driver
<1>7. UnreadIn(e, p) = 0 /\ Pending(e.cq_head, e.cq_tail, cq_depth) = 0
  BY <1>5, <1>6 DEF UnreadIn, Pending
<1>8. Reader(e, p)
  BY <1>5, <1>6, <1>7 DEF Reader
<1>9. ep \in [Guests -> Endpoint] /\ ep[endpoint1] = e
      /\ \A g \in Guests : ep[g].irq_status = {}
  BY <1>1, <1>2, <1>5
<1>10. irq = has_pending_irq(ep) /\ irq \in BOOLEAN
  <2>1. ~has_pending_irq(ep)
    BY <1>9 DEF has_pending_irq
  <2>2. has_pending_irq(ep) \in BOOLEAN
    BY Zenon DEF has_pending_irq
  <2> QED BY <1>2, <2>1, <2>2
<1>11. Types(log, uapi, seen, ep, irq, drv, probe, failed, passed, boot)
  <2>1. boot \in [log: 0 .. Len(log), dirty: BOOLEAN]
    BY <1>2, <1>4
  <2>2. seen \in [Guests -> Seq(EventType)]
    BY <1>2
  <2>3. ep[endpoint1].cmdq \in [0 .. cmdq_depth - 1 -> 0 .. Len(log)]
    BY <1>4, <1>5, <1>9
  <2> QED BY <1>2, <1>3, <1>4, <1>6, <1>9, <1>10, <2>1, <2>2, <2>3 DEF Types
<1> QED BY <1>2, <1>6, <1>8, <1>9, <1>10, <1>11 DEF DevInv, Inv, Woken

\* The invariant of types, completion ring and interrupt holds.
THEOREM DevInvHolds == DevSpec => []DevInv
  BY DevInitIs, DevNextKeeps, PTL DEF DevSpec

\* The registers of every endpoint stay in range (linqu_ub_mmio_write checks
\* them, linqu_ub_flush_cq and linqu_ub_kick wrap them), the rings hold
\* commands and completions, and so does the surface behind the device.
THEOREM DevTypeCorrect == DevSpec => []DevTypeOK
<1>1. DevInv => DevTypeOK
  <2> SUFFICES ASSUME DevInv PROVE DevTypeOK
    OBVIOUS
  <2>1. /\ Between(uapi) /\ log \in Seq(Command) /\ seen \in [Guests -> Seq(EventType)]
        /\ ep \in [Guests -> Endpoint] /\ irq \in BOOLEAN /\ drv \in Driver
        /\ probe \in Program
    BY DEF DevInv, Inv, Types
  <2>2. uapi \in SurfaceType
    BY <2>1, TypeIs DEF TypeOK
  <2>3. \A g \in Guests :
          /\ ep[g].cmdq \in [0 .. cmdq_depth - 1 -> 0 .. MaxCmds]
          /\ ep[g].cmdq_head \in 0 .. cmdq_depth - 1 /\ ep[g].cmdq_tail \in 0 .. cmdq_depth - 1
          /\ ep[g].cq_head \in 0 .. cq_depth - 1 /\ ep[g].cq_tail \in 0 .. cq_depth - 1
          /\ ep[g].irq_status \subseteq IrqBits
    <3> SUFFICES ASSUME NEW g \in Guests, NEW e, e = ep[g]
                 PROVE  /\ e.cmdq \in [0 .. cmdq_depth - 1 -> 0 .. MaxCmds]
                        /\ e.cmdq_head \in 0 .. cmdq_depth - 1
                        /\ e.cmdq_tail \in 0 .. cmdq_depth - 1
                        /\ e.cq_head \in 0 .. cq_depth - 1 /\ e.cq_tail \in 0 .. cq_depth - 1
                        /\ e.irq_status \subseteq IrqBits
      BY Zenon
    <3>1. e \in Endpoint
      BY <2>1
    <3> QED BY <3>1, EndpointFields
  <2>4. /\ drv.event_pending \in BOOLEAN /\ drv.status \subseteq IrqBits
        /\ drv.thread \in {"idle", "woken", "read", "acked"}
        /\ probe.pc \in {"run", "rewound", "polling", "done"}
    BY <2>1 DEF Driver, Program
  <2> QED BY <2>1, <2>2, <2>3, <2>4 DEF DevTypeOK
<1> QED BY <1>1, DevInvHolds, PTL

\* The interrupt line follows the status registers although it is set only by
\* writes that end in linqu_ub_update_irq, and no completion is lost between
\* IRQ_STATUS, the thread that acknowledges what it has read, and the event
\* flag a polling program waits for.
THEOREM SignalStaysIntact == DevSpec => []SignalIntact
<1>1. DevInv => SignalIntact
  BY DEF DevInv, Inv, Woken, E1, SignalIntact, LineFollowsStatus, NoLostWakeup
<1> QED BY <1>1, DevInvHolds, PTL

-----------------------------------------------------------------------------
(* Handing over: what the surface does with the commands of one guest *)

\* One call of flush_runtime leaves every command of the guest in as many
\* places as it was in.
LEMMA PassCounts ==
  ASSUME NEW s \in Surface, NEW b, NEW f, NEW z, Pass(s, b, f, z), NEW g \in Guests,
         AllOf(s.runtime, g)
  PROVE  AllOf(z.runtime, g) /\ \A id : Total(z, g, id) = Total(s, g, id)
<1> DEFINE q == s.runtime
           t == f[Len(q)]
<1>1. q \in Seq(Entry) /\ b \in Surface /\ b.runtime = <<>> /\ Drives(b, q, f)
      /\ SameEvents(s, b)
  BY SurfaceFields DEF Pass
<1>2. Len(q) \in Nat /\ Len(q) \in 0 .. Len(q) /\ t \in Surface
  BY <1>1, DriveTurn
<1>3. Driven(b, q, 0, t, Len(q))
  <2>1. \A i \in 1 .. Len(q) : q[i] \in Entry
    BY <1>1, ElementOfSeq
  <2>2. \A i \in 1 .. Len(q) : q[i].attempts >= 0
    BY <2>1 DEF Entry
  <2> QED BY <1>1, <1>2, <2>2, DrivenAlways
<1>4. z.runtime = t.runtime /\ SameEvents(t, z)
  BY DEF Pass
<1>5. AllOf(z.runtime, g)
  <2>1. \A i \in 1 .. Len(t.runtime) : \E j \in 1 .. Len(q) : t.runtime[i].cmd = q[j].cmd
    BY <1>3 DEF Driven
  <2> HIDE DEF t
  <2> QED BY <1>4, <2>1 DEF AllOf
<1>6. ASSUME NEW id PROVE Total(z, g, id) = Total(s, g, id)
  <2>1. \A i \in 1 .. Len(q) : q[i].cmd.id = id => q[i].cmd.guest = g
    BY DEF AllOf
  <2>2. Settled(t, g, IdEvents(id)) + HitsIn(t.runtime, IdEntries(id))
          = Settled(b, g, IdEvents(id)) + HitsIn(q, IdEntries(id))
    <3> HIDE DEF q
    <3> QED BY <1>1, <2>1, DriveCounts
  <2>3. Settled(b, g, IdEvents(id)) = Settled(s, g, IdEvents(id))
    BY <1>1 DEF SameEvents
  <2>4. Settled(z, g, IdEvents(id)) = Settled(t, g, IdEvents(id)) /\ z.runtime = t.runtime
    BY <1>4 DEF SameEvents
  <2> HIDE DEF t
  <2> QED BY <2>2, <2>3, <2>4 DEF Total
<1> QED BY <1>5, <1>6

\* So does a flush of the surface.
LEMMA FlushCounts ==
  ASSUME NEW s \in Surface, NEW g \in Guests, AllOf(s.runtime, g)
  PROVE  \A id : Total(Flushed(s), g, id) = Total(s, g, id)
<1> DEFINE n == MaxRetries + 1
<1>1. PICK f \in [0 .. n -> Surface] :
           /\ f[0] = s
           /\ \A k \in 1 .. n : f[k] = DriveReady(f[k - 1])
           /\ flush_runtime(s) = f[n]
  BY FlushLoop
<1>2. n \in Nat /\ n \in 0 .. n
  BY SurfaceAssumption
<1> DEFINE Same(t) == AllOf(t.runtime, g) /\ \A id : Total(t, g, id) = Total(s, g, id)
           K == {k \in 0 .. n : Same(f[k])}
<1>3. 0 \in K
  BY <1>1, <1>2
<1>4. ASSUME NEW k \in 0 .. n - 1, k \in K PROVE k + 1 \in K
  <2> DEFINE x == f[k]
             y == f[k + 1]
  <2>1. k \in Nat /\ k + 1 \in 0 .. n /\ k + 1 \in 1 .. n /\ k \in 0 .. n /\ (k + 1) - 1 = k
    BY <1>2
  <2>2. x \in Surface /\ y = DriveReady(x)
    BY <1>1, <2>1
  <2>3. Same(x)
    BY <1>4
  <2> HIDE DEF x, y
  <2>4. PICK b, d : Pass(x, b, d, y)
    BY <2>2, DriveReadyIs
  <2>5. AllOf(y.runtime, g) /\ \A id : Total(y, g, id) = Total(x, g, id)
    BY <2>2, <2>3, <2>4, PassCounts
  <2>6. Same(y)
    BY <2>3, <2>5
  <2> QED BY <2>1, <2>6 DEF y
<1> HIDE DEF K
<1>5. n \in K
  <2>1. \A k \in 0 .. n : k \in K
    BY <1>2, <1>3, <1>4, UpTo
  <2> QED BY <1>2, <2>1
<1> DEFINE x == f[n]
           t == flush_services(x)
<1>6. Same(x) /\ x \in Surface
  BY <1>1, <1>2, <1>5 DEF K
<1>7. Flushed(s) = t
  BY <1>1 DEF Flushed
<1> HIDE DEF x
<1>8. t.runtime = x.runtime /\ SameEvents(x, t)
  BY <1>6, FlushIs
<1> HIDE DEF t
<1>9. ASSUME NEW id PROVE Total(t, g, id) = Total(x, g, id)
  BY <1>8 DEF Total, SameEvents
<1> QED BY <1>6, <1>7, <1>9

\* How often command id lies in the command queue of the surface; beyond it,
\* with A the completions in the ring and Z those the program has read; and
\* altogether, with R the command ring.
Waiting(s, id) == HitsIn(s.cmdq[endpoint1], IdCmds(id))

Beyond(s, A, Z, id) ==
  Total(s, endpoint1, id) + HitsIn(A, IdEvents(id)) + HitsIn(Z, IdEvents(id))

InAll(s, A, Z, R, id) == Waiting(s, id) + Beyond(s, A, Z, id) + HitsIn(R, {id})

\* They are numbers.
LEMMA PlacesType ==
  ASSUME NEW s \in Surface, NEW A \in Seq(EventType), NEW Z \in Seq(EventType), NEW id
  PROVE  /\ Waiting(s, id) \in Nat /\ Total(s, endpoint1, id) \in Nat
         /\ HitsIn(A, IdEvents(id)) \in Nat /\ HitsIn(Z, IdEvents(id)) \in Nat
         /\ Beyond(s, A, Z, id) \in Nat
<1> DEFINE a == Settled(s, endpoint1, IdEvents(id))
           b == HitsIn(s.runtime, IdEntries(id))
           c == HitsIn(A, IdEvents(id))
           d == HitsIn(Z, IdEvents(id))
<1>1. endpoint1 \in Guests
  BY LinquUbAssumption
<1>2. s.cmdq[endpoint1] \in Seq(Command) /\ s.runtime \in Seq(Entry)
  BY <1>1, SurfaceFields
<1>3. Waiting(s, id) \in Nat
  BY <1>2, HitsType DEF Waiting
<1>4. a \in Nat
  BY <1>1, SettledType
<1>5. b \in Nat
  BY <1>2, HitsType
<1>6. c \in Nat /\ d \in Nat
  BY HitsType
<1>7. Total(s, endpoint1, id) = a + b /\ Beyond(s, A, Z, id) = Total(s, endpoint1, id) + c + d
  BY DEF Total, Beyond
<1> HIDE DEF a, b, c, d
<1>8. Total(s, endpoint1, id) \in Nat /\ Beyond(s, A, Z, id) \in Nat
  BY <1>4, <1>5, <1>6, <1>7
<1> QED BY <1>3, <1>6, <1>8 DEF c, d

\* The guest that works the device is the only one that issues commands.
OneGuest(L, s) ==
  /\ \A i \in 1 .. Len(L) : L[i].guest = endpoint1
  /\ \A i \in 1 .. Len(s.cmdq[endpoint1]) : s.cmdq[endpoint1][i].guest = endpoint1
  /\ AllOf(s.runtime, endpoint1)

\* From s to x the first p descriptors are added to the command queue.
Added(s, ids, p, x, id) ==
  /\ Waiting(x, id) = Waiting(s, id) + HitsIn(SubSeq(ids, 1, p), {id})
  /\ \A A, Z : Beyond(x, A, Z, id) = Beyond(s, A, Z, id)

\* What submitting them does.
LEMMA GivesCounts ==
  ASSUME log \in Seq(Command), Numbered(log), NEW s \in Surface,
         NEW ids \in Seq(0 .. Len(log)), NEW p, NEW x, Gives(s, endpoint1, ids, p, x), NEW id
  PROVE  Added(s, ids, p, x, id)
<1> DEFINE c == Cmds(ids, p)
           d == SubSeq(ids, 1, p)
           q == s.cmdq[endpoint1]
<1>1. p \in 0 .. Len(ids) /\ \A i \in 1 .. p : ids[i] # 0
  BY DEF Gives
<1>2. x.cmdq[endpoint1] = q \o c /\ c \in Seq(Command) /\ Len(c) = p /\ q \in Seq(Command)
  BY LinquUbAssumption, GivesQueue
<1>3. \A i \in 1 .. p : c[i] = log[ids[i]] /\ log[ids[i]] \in Command /\ ids[i] \in 1 .. Len(log)
  BY <1>1, CmdsType
<1>4. d \in Seq(0 .. Len(log)) /\ Len(d) = p /\ \A i \in 1 .. p : d[i] = ids[i]
  BY <1>1, HitsSplit
<1> HIDE DEF c, d, q
<1>5. HitsIn(c, IdCmds(id)) = HitsIn(d, {id})
  <2>1. DOMAIN c = 1 .. p /\ DOMAIN d = 1 .. p
    BY <1>2, <1>4, LenProperties
  <2>2. ASSUME NEW i \in 1 .. p PROVE c[i] \in IdCmds(id) <=> d[i] \in {id}
    <3>1. log[ids[i]].id = ids[i]
      BY <1>3 DEF Numbered
    <3> QED BY <1>3, <1>4, <3>1 DEF IdCmds
  <2>3. {i \in DOMAIN c : c[i] \in IdCmds(id)} = {i \in DOMAIN d : d[i] \in {id}}
    BY <2>1, <2>2
  <2> QED BY <2>3, Zenon DEF HitsIn
<1>6. HitsIn(q \o c, IdCmds(id)) = HitsIn(q, IdCmds(id)) + HitsIn(c, IdCmds(id))
  BY <1>2, HitsConcat
<1>7. Waiting(x, id) = Waiting(s, id) + HitsIn(d, {id})
  BY <1>2, <1>5, <1>6 DEF Waiting, q
<1>8. Total(x, endpoint1, id) = Total(s, endpoint1, id)
  BY DEF Gives, Total, Settled
<1> QED BY <1>7, <1>8 DEF Added, Beyond, d

\* The commands are those of the guest.
LEMMA GivesGuest ==
  ASSUME log \in Seq(Command), NEW s \in Surface, OneGuest(log, s),
         NEW ids \in Seq(0 .. Len(log)), NEW p, NEW x, Gives(s, endpoint1, ids, p, x)
  PROVE  OneGuest(log, x)
<1> DEFINE c == Cmds(ids, p)
           q == s.cmdq[endpoint1]
<1>1. p \in 0 .. Len(ids) /\ (\A i \in 1 .. p : ids[i] # 0) /\ x.runtime = s.runtime
  BY DEF Gives
<1>2. /\ x.cmdq[endpoint1] = q \o c /\ c \in Seq(Command) /\ Len(c) = p /\ q \in Seq(Command)
      /\ Len(x.cmdq[endpoint1]) = Len(q) + p /\ Len(q) \in Nat /\ p \in Nat
  BY LinquUbAssumption, GivesQueue
<1>3. \A i \in 1 .. p : c[i].guest = endpoint1
  <2>1. \A i \in 1 .. p : c[i] = log[ids[i]] /\ ids[i] \in 1 .. Len(log)
    BY <1>1, CmdsType
  <2> HIDE DEF c
  <2> QED BY <2>1 DEF OneGuest
<1>4. \A i \in 1 .. Len(q) : q[i].guest = endpoint1
  BY DEF OneGuest
<1> HIDE DEF c, q
<1>5. ASSUME NEW i \in 1 .. Len(q) + p PROVE (q \o c)[i].guest = endpoint1
  <2>1. CASE i <= Len(q)
    <3>1. (q \o c)[i] = q[i] /\ i \in 1 .. Len(q)
      BY <1>2, <2>1, ConcatProperties
    <3> QED BY <1>4, <3>1
  <2>2. CASE i > Len(q)
    <3>1. (q \o c)[i] = c[i - Len(q)] /\ i - Len(q) \in 1 .. p
      BY <1>2, <2>2, ConcatProperties
    <3> QED BY <1>3, <3>1
  <2> QED BY <1>2, <2>1, <2>2
<1> QED BY <1>1, <1>2, <1>5 DEF OneGuest

\* From s to t the doorbell takes m commands off the command queue, n of which
\* get to the runtime queue.
Carried(s, m, n, t, id) ==
  \E a, b \in Nat :
    /\ Waiting(s, id) = a + b + Waiting(t, id)
    /\ Total(t, endpoint1, id) = Total(s, endpoint1, id) + a
    /\ n = m => b = 0
    /\ (\E i \in 1 .. n : s.cmdq[endpoint1][i].id = id) => a >= 1

\* What a doorbell of the surface does.
LEMMA RingsCounts ==
  ASSUME NEW s \in Surface, NEW m, NEW n, NEW t, Rings(s, endpoint1, m, n, t), NEW id
  PROVE  Carried(s, m, n, t, id)
<1> DEFINE q == s.cmdq[endpoint1]
           w == Fresh(q, n)
<1>1. /\ m \in 0 .. Len(q) /\ n \in 0 .. m /\ t \in Surface
      /\ t.cmdq = [s.cmdq EXCEPT ![endpoint1] = SubSeq(q, m + 1, Len(q))]
      /\ t.runtime = s.runtime \o w
      /\ t.service = s.service /\ t.cq = s.cq /\ t.failures = s.failures
  BY DEF Rings
<1>2. q \in Seq(Command) /\ s.runtime \in Seq(Entry) /\ s.cmdq \in [Guests -> Seq(Command)]
      /\ endpoint1 \in Guests
  BY LinquUbAssumption, SurfaceFields
<1>3. t.cmdq[endpoint1] = SubSeq(q, m + 1, Len(q))
  BY <1>1, <1>2
<1>4. n \in 0 .. Len(q) /\ Len(q) \in Nat
  BY <1>1, <1>2, LenProperties
<1>5. w \in Seq(Entry) /\ Len(w) = n /\ \A i \in 1 .. n : w[i].cmd = q[i]
  BY <1>2, <1>4, FreshIs
<1> HIDE DEF q, w
<1>6. PICK a, b, c \in Nat :
           /\ HitsIn(q, IdCmds(id)) = a + b + c
           /\ HitsIn(Fresh(q, n), IdEntries(id)) = a
           /\ HitsIn(SubSeq(q, m + 1, Len(q)), IdCmds(id)) = c
           /\ b = 0 <=> \A i \in n + 1 .. m : q[i].id # id
  <2>1. q \in Seq(Command) /\ m \in 0 .. Len(q) /\ n \in 0 .. m
    BY <1>1, <1>2
  <2> QED BY <2>1, RingCounts, Zenon
<1>7. Waiting(s, id) = a + b + Waiting(t, id)
  BY <1>3, <1>6 DEF Waiting, q
<1>8. Total(t, endpoint1, id) = Total(s, endpoint1, id) + a
  <2> DEFINE x == Settled(s, endpoint1, IdEvents(id))
             y == HitsIn(s.runtime, IdEntries(id))
  <2>1. HitsIn(t.runtime, IdEntries(id)) = y + a
    <3>1. HitsIn(w, IdEntries(id)) = a
      BY <1>6 DEF w
    <3>2. HitsIn(s.runtime \o w, IdEntries(id)) = y + HitsIn(w, IdEntries(id))
      BY <1>2, <1>5, HitsConcat
    <3> QED BY <1>1, <3>1, <3>2
  <2>2. Settled(t, endpoint1, IdEvents(id)) = x
    BY <1>1 DEF Settled
  <2>3. x \in Nat
    BY <1>2, SettledType
  <2>4. y \in Nat
    BY <1>2, HitsType
  <2>5. Total(t, endpoint1, id) = x + (y + a) /\ Total(s, endpoint1, id) = x + y
    BY <2>1, <2>2 DEF Total
  <2> HIDE DEF x, y
  <2> QED BY <2>3, <2>4, <2>5
<1>9. n = m => b = 0
  <2> SUFFICES ASSUME n = m PROVE b = 0
    OBVIOUS
  <2>1. n + 1 .. m = {}
    BY <1>1, <1>4
  <2> QED BY <1>6, <2>1
<1>10. ASSUME NEW i \in 1 .. n, q[i].id = id PROVE a >= 1
  <2>1. w[i] \in Entry
    BY <1>5, ElementOfSeq
  <2>2. w[i] \in IdEntries(id)
    BY <1>5, <1>10, <2>1 DEF IdEntries
  <2>3. HitsIn(w, IdEntries(id)) >= 1
    BY <1>5, <2>2, HitsNone
  <2> QED BY <1>6, <2>3 DEF w
<1> QED BY <1>7, <1>8, <1>9, <1>10 DEF Carried, q

\* The doorbell adds no other guest.
LEMMA RingsGuest ==
  ASSUME NEW L, NEW s \in Surface, OneGuest(L, s), NEW m, NEW n, NEW t,
         Rings(s, endpoint1, m, n, t)
  PROVE  OneGuest(L, t)
<1> DEFINE q == s.cmdq[endpoint1]
           w == Fresh(q, n)
           r == s.runtime
           u == SubSeq(q, m + 1, Len(q))
<1>1. /\ m \in 0 .. Len(q) /\ n \in 0 .. m
      /\ t.cmdq = [s.cmdq EXCEPT ![endpoint1] = u]
      /\ t.runtime = r \o w
  BY DEF Rings
<1>2. q \in Seq(Command) /\ r \in Seq(Entry) /\ s.cmdq \in [Guests -> Seq(Command)]
      /\ endpoint1 \in Guests
  BY LinquUbAssumption, SurfaceFields
<1>3. t.cmdq[endpoint1] = u
  BY <1>1, <1>2
<1>4. n \in 0 .. Len(q) /\ Len(q) \in Nat /\ m \in Nat
  BY <1>1, <1>2, LenProperties
<1>5. w \in Seq(Entry) /\ Len(w) = n /\ \A i \in 1 .. n : w[i].cmd = q[i]
  BY <1>2, <1>4, FreshIs
<1>6. Len(u) = Len(q) - m /\ \A i \in 1 .. Len(q) - m : u[i] = q[m + i]
  BY <1>1, <1>2, HitsSplit
<1>7. (\A i \in 1 .. Len(q) : q[i].guest = endpoint1) /\ AllOf(r, endpoint1)
  BY DEF OneGuest
<1> HIDE DEF q, w, r, u
<1>8. ASSUME NEW i \in 1 .. Len(u) PROVE u[i].guest = endpoint1
  <2>1. m + i \in 1 .. Len(q) /\ i \in 1 .. Len(q) - m
    BY <1>1, <1>4, <1>6
  <2> QED BY <1>6, <1>7, <2>1
<1>9. AllOf(r \o w, endpoint1)
  <2>1. Len(r) \in Nat /\ n \in Nat
    BY <1>2, <1>4, LenProperties
  <2>2. Len(r \o w) = Len(r) + n
    BY <1>2, <1>5, ConcatProperties
  <2> SUFFICES ASSUME NEW i \in 1 .. Len(r) + n PROVE (r \o w)[i].cmd.guest = endpoint1
    BY <2>2 DEF AllOf
  <2>3. CASE i <= Len(r)
    <3>1. (r \o w)[i] = r[i] /\ i \in 1 .. Len(r)
      BY <1>2, <1>5, <2>1, <2>3, ConcatProperties
    <3> QED BY <1>7, <3>1 DEF AllOf
  <2>4. CASE i > Len(r)
    <3>1. (r \o w)[i] = w[i - Len(r)] /\ i - Len(r) \in 1 .. n
      BY <1>2, <1>5, <2>1, <2>4, ConcatProperties
    <3>2. i - Len(r) \in 1 .. Len(q)
      BY <1>4, <3>1
    <3> QED BY <1>5, <1>7, <3>1, <3>2
  <2>5. i <= Len(r) \/ i > Len(r)
    BY <2>1
  <2> QED BY <2>3, <2>4, <2>5
<1> QED BY <1>1, <1>3, <1>8, <1>9 DEF OneGuest

\* What a kick that succeeds does to command id: B are the completions in the
\* ring after it.
HandedOn(ids, x, v, A, B, Z, id) ==
  /\ Waiting(v, id) + Beyond(v, B, Z, id)
       = Waiting(uapi, id) + Beyond(uapi, A, Z, id) + HitsIn(ids, {id})
  /\ Beyond(v, B, Z, id) >= Beyond(uapi, A, Z, id)
  /\ (\E i \in 1 .. Len(ids) : x.cmdq[endpoint1][i].id = id) => Beyond(v, B, Z, id) >= 1

\* A flush leaves it in as many places, staged, in the surface or answered.
LEMMA FlushedPlaces ==
  ASSUME NEW y, Between(y), AllOf(y.runtime, endpoint1), NEW z, z = y \/ z = Flushed(y), NEW id
  PROVE  Waiting(z, id) = Waiting(y, id) /\ Total(z, endpoint1, id) = Total(y, endpoint1, id)
<1>1. y \in Surface /\ y.failures = <<>> /\ endpoint1 \in Guests
  BY LinquUbAssumption DEF Between
<1>2. CASE z = y
  BY <1>2
<1>3. CASE z = Flushed(y)
  <2>1. Keeps(y, Flushed(y))
    BY <1>1, FlushedIs
  <2>2. Total(Flushed(y), endpoint1, id) = Total(y, endpoint1, id)
    BY <1>1, FlushCounts
  <2>3. z.cmdq = y.cmdq /\ Total(z, endpoint1, id) = Total(y, endpoint1, id)
    BY <1>3, <2>1, <2>2 DEF Keeps
  <2> QED BY <2>3 DEF Waiting
<1> QED BY <1>2, <1>3

\* Completions move from the surface to the ring.
LEMMA TakenPlaces ==
  ASSUME NEW z \in Surface, NEW m, NEW v, Takes(z, endpoint1, m, v),
         NEW A \in Seq(EventType), NEW Z \in Seq(EventType), NEW id
  PROVE  /\ Waiting(v, id) = Waiting(z, id)
         /\ Beyond(v, A \o SubSeq(z.cq[endpoint1], 1, m), Z, id) = Beyond(z, A, Z, id)
<1> DEFINE r == SubSeq(z.cq[endpoint1], 1, m)
           B == A \o r
           T == IdEvents(id)
           a == HitsIn(A, T)
           c == HitsIn(r, T)
           d == HitsIn(Z, T)
           s == Settled(v, endpoint1, T)
           n == HitsIn(z.runtime, IdEntries(id))
<1>1. endpoint1 \in Guests
  BY LinquUbAssumption
<1>2. m \in 0 .. Len(z.cq[endpoint1]) /\ v \in Surface /\ v.cmdq = z.cmdq
      /\ v.runtime = z.runtime
  BY DEF Takes
<1>3. z.cq[endpoint1] \in Seq(EventType) /\ z.runtime \in Seq(Entry)
  BY <1>1, SurfaceFields
<1>4. r \in Seq(EventType)
  BY <1>2, <1>3, HitsSplit
<1>5. HitsIn(B, T) = a + c
  <2> HIDE DEF r, T
  <2> QED BY <1>4, HitsConcat
<1>6. a \in Nat /\ c \in Nat /\ d \in Nat
  <2> HIDE DEF r
  <2> QED BY <1>4, HitsType
<1>7. n \in Nat
  BY <1>3, HitsType
<1>8. Settled(z, endpoint1, T) = s + c
  BY <1>1, TakeMoves
<1>9. s \in Nat
  BY <1>1, <1>2, SettledType
<1>10. Beyond(v, B, Z, id) = (s + n) + (a + c) + d
  BY <1>2, <1>5 DEF Beyond, Total
<1>11. Beyond(z, A, Z, id) = ((s + c) + n) + a + d
  BY <1>8 DEF Beyond, Total
<1>12. Beyond(v, B, Z, id) = Beyond(z, A, Z, id)
  <2> HIDE DEF a, c, d, s, n, B
  <2> QED BY <1>6, <1>7, <1>9, <1>10, <1>11
<1>13. Waiting(v, id) = Waiting(z, id)
  BY <1>2 DEF Waiting
<1> QED BY <1>12, <1>13

\* A kick that succeeds has handed on every command it has read, and loses
\* none.
LEMMA HandsCounts ==
  ASSUME log \in Seq(Command), Numbered(log), Between(uapi), OneGuest(log, uapi), NEW e,
         NEW ids \in Seq(0 .. Len(log)), NEW k, NEW x, NEW y, NEW z, NEW m,
         Hands(endpoint1, e, ids, k, x, y, z, m),
         NEW A \in Seq(EventType), NEW Z \in Seq(EventType), NEW id
  PROVE  HandedOn(ids, x, k.uapi, A, A \o SubSeq(z.cq[endpoint1], 1, m), Z, id)
<1> DEFINE n == Len(ids)
           v == k.uapi
           B == A \o SubSeq(z.cq[endpoint1], 1, m)
<1>1. /\ Gives(uapi, endpoint1, ids, n, x) /\ Rings(x, endpoint1, n, n, y)
      /\ Between(y) /\ Between(z) /\ (z = y \/ z = Flushed(y)) /\ Takes(z, endpoint1, m, v)
  BY DEF Hands
<1>2. uapi \in Surface /\ x \in Surface /\ y \in Surface /\ z \in Surface
  BY <1>1 DEF Between, Gives
<1>3. OneGuest(log, x)
  BY <1>1, <1>2, GivesGuest
<1>4. OneGuest(log, y)
  BY <1>1, <1>2, <1>3, RingsGuest
<1>5. Added(uapi, ids, n, x, id)
  BY <1>1, <1>2, GivesCounts
<1>6. HitsIn(SubSeq(ids, 1, n), {id}) = HitsIn(ids, {id}) /\ HitsIn(ids, {id}) \in Nat
  BY HitsPrefix, HitsType
<1>7. Carried(x, n, n, y, id)
  BY <1>1, <1>2, RingsCounts
<1>8. PICK a, b \in Nat :
        /\ Waiting(x, id) = a + b + Waiting(y, id)
        /\ Total(y, endpoint1, id) = Total(x, endpoint1, id) + a
        /\ n = n => b = 0
        /\ (\E i \in 1 .. n : x.cmdq[endpoint1][i].id = id) => a >= 1
  BY <1>7 DEF Carried
<1>9. Waiting(z, id) = Waiting(y, id) /\ Total(z, endpoint1, id) = Total(y, endpoint1, id)
  BY <1>1, <1>4, FlushedPlaces DEF OneGuest
<1>10. Waiting(v, id) = Waiting(z, id) /\ Beyond(v, B, Z, id) = Beyond(z, A, Z, id)
  BY <1>1, <1>2, TakenPlaces
<1> DEFINE c == HitsIn(A, IdEvents(id))
           d == HitsIn(Z, IdEvents(id))
           h == HitsIn(ids, {id})
           t == Total(x, endpoint1, id)
           w == Waiting(y, id)
           w0 == Waiting(uapi, id)
<1>11. c \in Nat /\ d \in Nat /\ t \in Nat /\ w \in Nat /\ w0 \in Nat /\ h \in Nat
  BY <1>2, <1>6, PlacesType
<1>12. a + w = w0 + h
  <2>1. Waiting(x, id) = w0 + h
    BY <1>5, <1>6 DEF Added
  <2>2. b = 0
    BY <1>8
  <2>3. Waiting(x, id) = a + b + w
    BY <1>8
  <2> HIDE DEF w, w0, h
  <2> QED BY <1>8, <1>11, <2>1, <2>2, <2>3
<1>13. Beyond(v, B, Z, id) = (t + a) + c + d
  BY <1>8, <1>9, <1>10 DEF Beyond
<1>14. Beyond(uapi, A, Z, id) = t + c + d
  BY <1>5 DEF Added, Beyond
<1>15. Waiting(v, id) = w
  BY <1>9, <1>10
<1> DEFINE p == Beyond(v, B, Z, id)
           q == Beyond(uapi, A, Z, id)
<1>16. Waiting(v, id) + p = w0 + q + h /\ p >= q /\ (a >= 1 => p >= 1)
  <2>1. p = (t + a) + c + d /\ q = t + c + d
    BY <1>13, <1>14
  <2> HIDE DEF c, d, h, t, w, w0, p, q
  <2> QED BY <1>8, <1>11, <1>12, <1>15, <2>1
<1> QED BY <1>8, <1>16 DEF HandedOn

\* No other guest, and empty services.
LEMMA HandsGuest ==
  ASSUME log \in Seq(Command), Between(uapi), OneGuest(log, uapi), NEW e,
         NEW ids \in Seq(0 .. Len(log)), NEW k, NEW x, NEW y, NEW z, NEW m,
         Hands(endpoint1, e, ids, k, x, y, z, m)
  PROVE  /\ OneGuest(log, k.uapi)
         /\ uapi.service = NoService => k.uapi.service = NoService
         /\ k.uapi.cmdq[endpoint1] = y.cmdq[endpoint1]
<1> DEFINE n == Len(ids)
           v == k.uapi
<1>1. /\ Gives(uapi, endpoint1, ids, n, x) /\ Rings(x, endpoint1, n, n, y)
      /\ Between(y) /\ Between(z) /\ (z = y \/ z = Flushed(y)) /\ Takes(z, endpoint1, m, v)
  BY DEF Hands
<1>2. uapi \in Surface /\ x \in Surface /\ y \in Surface /\ y.failures = <<>>
  BY <1>1 DEF Between, Gives
<1>3. OneGuest(log, x)
  BY <1>1, <1>2, GivesGuest
<1>4. OneGuest(log, y)
  BY <1>1, <1>2, <1>3, RingsGuest
<1>5. y.service = uapi.service
  BY <1>1 DEF Gives, Rings
<1>6. v.cmdq = z.cmdq /\ v.runtime = z.runtime /\ v.service = z.service
  BY <1>1 DEF Takes
<1>7. CASE z = y
  BY <1>4, <1>5, <1>6, <1>7 DEF OneGuest
<1>8. CASE z = Flushed(y)
  <2>1. Keeps(y, z) /\ z.runtime = <<>> /\ z.service = NoService
    BY <1>2, <1>8, FlushedIs
  <2>2. AllOf(v.runtime, endpoint1)
    BY <1>6, <2>1 DEF AllOf
  <2>3. v.cmdq = y.cmdq
    BY <1>6, <2>1 DEF Keeps
  <2> QED BY <1>4, <1>6, <2>1, <2>2, <2>3 DEF OneGuest
<1> QED BY <1>1, <1>7, <1>8

-----------------------------------------------------------------------------
(* Handing over: the command ring and the queue of the surface *)

\* A kick reads a part of ring R.
Part(ids, R) ==
  /\ ids \in Seq(0 .. Len(log)) /\ R \in Seq(0 .. Len(log))
  /\ Len(ids) \in 0 .. Len(R)
  /\ Len(R) >= 1 => Len(ids) >= 1
  /\ ids = SubSeq(R, 1, Len(ids))

\* What a failed kick has left in the queue of the surface stays there as long
\* as the ring is not empty, because there is no room for more commands or
\* entries, or is what the ring begins with, up to a descriptor that does not
\* decode.
Clogged(s, R) == Len(R) >= 1 /\ Len(s.cmdq[endpoint1]) >= CmdDepth

Jammed(s, R) == Len(R) >= 1 /\ Len(s.runtime) >= RuntimeDepth

Matches(q, R, j) ==
  /\ R[j] = 0
  /\ \A i \in 1 .. j - 1 : i <= Len(q) /\ R[i] = q[i].id

Aligned(s, R) == \E j \in 1 .. Len(R) : Matches(s.cmdq[endpoint1], R, j)

Lined(s, R) ==
  s.cmdq[endpoint1] = <<>> \/ Clogged(s, R) \/ Jammed(s, R) \/ Aligned(s, R)

\* The queue after commands have been submitted.
Follows(q, ids, p, r) ==
  /\ q \in Seq(Command) /\ r \in Seq(Command) /\ p \in Nat /\ Len(q) \in Nat
  /\ Len(r) = Len(q) + p
  /\ \A i \in 1 .. Len(q) : r[i] = q[i]
  /\ \A i \in 1 .. p : r[Len(q) + i].id = ids[i]

\* It begins with what was there.
LEMMA GivesFollows ==
  ASSUME log \in Seq(Command), Numbered(log), NEW s \in Surface,
         NEW ids \in Seq(0 .. Len(log)), NEW p, NEW x, Gives(s, endpoint1, ids, p, x)
  PROVE  Follows(s.cmdq[endpoint1], ids, p, x.cmdq[endpoint1])
<1> DEFINE c == Cmds(ids, p)
           q == s.cmdq[endpoint1]
           r == x.cmdq[endpoint1]
<1>1. p \in 0 .. Len(ids) /\ (\A i \in 1 .. p : ids[i] # 0) /\ x \in Surface
  BY DEF Gives
<1>2. /\ r = q \o c /\ c \in Seq(Command) /\ Len(c) = p /\ q \in Seq(Command)
      /\ Len(r) = Len(q) + p /\ Len(q) \in Nat /\ p \in Nat
  BY LinquUbAssumption, GivesQueue
<1>3. \A i \in 1 .. p : c[i] = log[ids[i]] /\ ids[i] \in 1 .. Len(log)
  BY <1>1, CmdsType
<1>4. r \in Seq(Command)
  BY <1>1, LinquUbAssumption, SurfaceFields
<1> HIDE DEF c, q, r
<1>5. ASSUME NEW i \in 1 .. Len(q) PROVE r[i] = q[i]
  <2>1. i \in 1 .. Len(q) + p /\ i <= Len(q)
    BY <1>2
  <2> QED BY <1>2, <2>1, ConcatProperties
<1>6. ASSUME NEW i \in 1 .. p PROVE r[Len(q) + i].id = ids[i]
  <2> DEFINE j == Len(q) + i
  <2>1. j \in 1 .. Len(q) + p /\ j > Len(q) /\ j - Len(q) = i
    BY <1>2
  <2> HIDE DEF j
  <2>2. r[j] = c[i]
    BY <1>2, <2>1, ConcatProperties
  <2>3. r[j].id = ids[i]
    BY <1>3, <2>2 DEF Numbered
  <2> QED BY <2>3 DEF j
<1> QED BY <1>2, <1>4, <1>5, <1>6 DEF Follows, q, r

\* A kick that fails to submit leaves it so: either the queue is full, or the
\* ring has a descriptor that does not decode behind what it has submitted.
LEMMA LinedSubmit ==
  ASSUME NEW s, NEW R, NEW ids, Part(ids, R), NEW p \in 0 .. Len(ids) - 1, NEW v,
         Follows(s.cmdq[endpoint1], ids, p, v.cmdq[endpoint1]), v.runtime = s.runtime,
         ids[p + 1] = 0 \/ Len(s.cmdq[endpoint1]) + p >= CmdDepth, Lined(s, R)
  PROVE  Lined(v, R)
<1> DEFINE q == s.cmdq[endpoint1]
           r == v.cmdq[endpoint1]
<1>1. /\ Len(R) \in Nat /\ Len(ids) \in 0 .. Len(R) /\ Len(ids) \in Nat /\ p \in Nat
      /\ Len(R) >= 1
  BY LenProperties DEF Part
<1>2. \A i \in 1 .. Len(ids) : ids[i] = R[i]
  BY HitsSplit DEF Part
<1>3. /\ q \in Seq(Command) /\ r \in Seq(Command) /\ Len(q) \in Nat
      /\ Len(r) = Len(q) + p
      /\ \A i \in 1 .. Len(q) : r[i] = q[i]
      /\ \A i \in 1 .. p : r[Len(q) + i].id = ids[i]
  BY DEF Follows
<1>4. CmdDepth \in Nat
  BY SurfaceAssumption
<1>5. (q = <<>> \/ Clogged(s, R) \/ Jammed(s, R) \/ Aligned(s, R))
      /\ (ids[p + 1] = 0 \/ Len(q) + p >= CmdDepth)
  BY DEF Lined
<1> HIDE DEF q, r
<1>6. CASE Len(q) + p >= CmdDepth
  BY <1>1, <1>3, <1>6 DEF Lined, Clogged, r
<1>7. CASE Clogged(s, R)
  <2>1. Len(q) >= CmdDepth
    BY <1>7 DEF Clogged, q
  <2>2. Len(r) >= CmdDepth
    BY <1>1, <1>3, <1>4, <2>1
  <2> QED BY <1>1, <2>2 DEF Lined, Clogged, r
<1>8. CASE Jammed(s, R)
  BY <1>8 DEF Lined, Jammed
<1>9. CASE Aligned(s, R)
  <2>1. PICK j \in 1 .. Len(R) : Matches(q, R, j)
    BY <1>9 DEF Aligned, q
  <2>2. ASSUME NEW i \in 1 .. j - 1 PROVE i <= Len(r) /\ R[i] = r[i].id
    <3>1. i <= Len(q) /\ R[i] = q[i].id
      BY <2>1 DEF Matches
    <3>2. i \in 1 .. Len(q) /\ i <= Len(r)
      BY <1>1, <1>3, <3>1
    <3> QED BY <1>3, <3>1, <3>2
  <2>3. Matches(r, R, j)
    BY <2>1, <2>2 DEF Matches
  <2> QED BY <2>3 DEF Lined, Aligned, r
<1>10. CASE q = <<>> /\ ids[p + 1] = 0
  <2>1. Len(q) = 0
    BY <1>10
  <2>2. p + 1 \in 1 .. Len(ids) /\ p + 1 \in 1 .. Len(R) /\ (p + 1) - 1 = p
    BY <1>1
  <2>3. R[p + 1] = 0
    BY <1>2, <1>10, <2>2
  <2>4. ASSUME NEW i \in 1 .. p PROVE i <= Len(r) /\ R[i] = r[i].id
    <3>1. i \in 1 .. Len(ids) /\ i <= Len(r) /\ Len(q) + i = i
      BY <1>1, <1>3, <2>1, <2>2
    <3>2. r[i].id = ids[i]
      BY <1>3, <3>1
    <3> QED BY <1>2, <3>1, <3>2
  <2>5. Matches(r, R, p + 1)
    BY <2>2, <2>3, <2>4 DEF Matches
  <2> QED BY <2>2, <2>5 DEF Lined, Aligned, r
<1> QED BY <1>5, <1>6, <1>7, <1>8, <1>9, <1>10

\* The first commands of a queue are those a kick has read, and what it leaves
\* of the queue is again what the rest of the ring begins with.
LinesUp(s, R, ids, x, y) ==
  /\ \A i \in 1 .. Len(ids) : x.cmdq[endpoint1][i].id = ids[i]
  /\ y.cmdq[endpoint1] = <<>> \/ Aligned(y, SubSeq(R, Len(ids) + 1, Len(R)))
  /\ s.cmdq[endpoint1] = <<>> => y.cmdq[endpoint1] = <<>>

\* A kick that succeeds found the queue empty, or what the ring begins with:
\* it stages the commands it has read.
LEMMA LinedOk ==
  ASSUME NEW s \in Surface, NEW R, NEW ids, Part(ids, R), \A i \in 1 .. Len(ids) : ids[i] # 0,
         NEW x, Follows(s.cmdq[endpoint1], ids, Len(ids), x.cmdq[endpoint1]),
         x.runtime = s.runtime, Len(s.runtime) <= RuntimeDepth,
         NEW y, Rings(x, endpoint1, Len(ids), Len(ids), y),
         Len(ids) >= 1 => Len(s.cmdq[endpoint1]) + Len(ids) <= CmdDepth, Lined(s, R)
  PROVE  LinesUp(s, R, ids, x, y)
<1> DEFINE q == s.cmdq[endpoint1]
           r == x.cmdq[endpoint1]
           u == y.cmdq[endpoint1]
           n == Len(ids)
           Q == SubSeq(R, n + 1, Len(R))
<1>1. /\ R \in Seq(0 .. Len(log)) /\ Len(R) \in Nat /\ n \in 0 .. Len(R) /\ n \in Nat
      /\ Len(R) >= 1 => n >= 1
  BY LenProperties DEF Part
<1>2. /\ \A i \in 1 .. n : ids[i] = R[i]
      /\ Len(Q) = Len(R) - n /\ \A i \in 1 .. Len(R) - n : Q[i] = R[n + i]
  BY HitsSplit DEF Part
<1>3. /\ q \in Seq(Command) /\ r \in Seq(Command) /\ Len(q) \in Nat
      /\ Len(r) = Len(q) + n
      /\ \A i \in 1 .. Len(q) : r[i] = q[i]
      /\ \A i \in 1 .. n : r[Len(q) + i].id = ids[i]
  BY DEF Follows
<1>4. u = SubSeq(r, n + 1, Len(r)) /\ n \in 0 .. Len(r)
  <2>1. y \in Surface /\ y.cmdq = [x.cmdq EXCEPT ![endpoint1] = SubSeq(r, n + 1, Len(r))]
    BY DEF Rings
  <2>2. endpoint1 \in DOMAIN y.cmdq
    BY <2>1, LinquUbAssumption, SurfaceFields
  <2>3. u = SubSeq(r, n + 1, Len(r))
    BY <2>1, <2>2
  <2> QED BY <1>1, <1>3, <2>3
<1>5. Len(u) = Len(q) /\ \A i \in 1 .. Len(q) : u[i] = r[n + i]
  <2>1. Len(u) = Len(r) - n /\ \A i \in 1 .. Len(r) - n : u[i] = r[n + i]
    BY <1>3, <1>4, HitsSplit
  <2> HIDE DEF u, r, q, n
  <2>2. Len(r) - n = Len(q)
    BY <1>1, <1>3
  <2> QED BY <2>1, <2>2
<1>6. u \in Seq(Command)
  BY <1>3, <1>4, HitsSplit
<1>7. n >= 1 => ~Clogged(s, R) /\ ~Jammed(s, R)
  <2>1. CmdDepth \in Nat /\ RuntimeDepth \in Nat /\ Len(s.runtime) \in Nat
    BY SurfaceAssumption, SurfaceFields, LenProperties
  <2>2. n >= 1 => Len(q) + n <= CmdDepth
    OBVIOUS
  <2>3. Len(s.runtime) + n <= RuntimeDepth
    BY DEF Rings
  <2> HIDE DEF n
  <2> QED BY <1>1, <1>3, <2>1, <2>2, <2>3 DEF Clogged, Jammed, q
<1>8. q = <<>> => u = <<>>
  <2> SUFFICES ASSUME q = <<>> PROVE u = <<>>
    OBVIOUS
  <2>1. Len(q) = 0
    OBVIOUS
  <2>2. Len(u) = 0
    BY <1>5, <2>1
  <2> HIDE DEF u
  <2> QED BY <1>6, <2>2, EmptySeq
<1> HIDE DEF q, r, u, Q, n
<1>9. ASSUME Aligned(s, R)
      PROVE  /\ \A i \in 1 .. n : r[i].id = ids[i]
             /\ Aligned(y, Q)
  <2>1. PICK j \in 1 .. Len(R) : Matches(q, R, j)
    BY <1>9 DEF Aligned, q
  <2>2. R[j] = 0 /\ \A i \in 1 .. j - 1 : i <= Len(q) /\ R[i] = q[i].id
    BY <2>1 DEF Matches
  <2>3. j > n
    <3> SUFFICES ASSUME j \in 1 .. n PROVE FALSE
      BY <1>1
    <3> QED BY <1>2, <2>2 DEF n
  <2>4. ASSUME NEW i \in 1 .. n PROVE r[i].id = ids[i]
    <3>1. i \in 1 .. j - 1
      BY <1>1, <2>3
    <3>2. i <= Len(q) /\ R[i] = q[i].id
      BY <2>2, <3>1
    <3>3. i \in 1 .. Len(q)
      BY <1>3, <3>2
    <3> QED BY <1>2, <1>3, <3>2, <3>3
  <2>5. j - n \in 1 .. Len(Q) /\ n + (j - n) = j
    BY <1>1, <1>2, <2>3
  <2>6. Q[j - n] = 0
    <3>1. Q[j - n] = R[n + (j - n)]
      BY <1>2, <2>5
    <3> QED BY <2>2, <2>5, <3>1
  <2>7. ASSUME NEW i \in 1 .. (j - n) - 1 PROVE i <= Len(u) /\ Q[i] = u[i].id
    <3>1. n + i \in 1 .. j - 1 /\ i \in 1 .. Len(R) - n
      BY <1>1, <2>3
    <3>2. n + i <= Len(q) /\ R[n + i] = q[n + i].id
      BY <2>2, <3>1
    <3>3. i \in 1 .. Len(q) /\ n + i \in 1 .. Len(q)
      BY <1>1, <1>3, <3>2
    <3>4. u[i] = r[n + i] /\ r[n + i] = q[n + i] /\ Q[i] = R[n + i] /\ i <= Len(u)
      BY <1>2, <1>3, <1>5, <3>1, <3>3
    <3> QED BY <3>2, <3>4
  <2>8. Matches(u, Q, j - n)
    BY <2>6, <2>7 DEF Matches
  <2> QED BY <2>4, <2>5, <2>8 DEF Aligned, u
<1>10. ASSUME q = <<>> PROVE \A i \in 1 .. n : r[i].id = ids[i]
  <2>1. Len(q) = 0
    BY <1>10
  <2> TAKE i \in 1 .. n
  <2>2. Len(q) + i = i
    BY <2>1
  <2> QED BY <1>3, <2>2
<1>11. q = <<>> \/ Clogged(s, R) \/ Jammed(s, R) \/ Aligned(s, R)
  BY DEF Lined, q
<1>12. q = <<>> \/ Aligned(s, R)
  <2>1. CASE n >= 1
    BY <1>7, <1>11, <2>1
  <2>2. CASE ~(n >= 1)
    <3>1. Len(R) = 0
      BY <1>1, <2>2
    <3> QED BY <1>1, <1>11, <3>1 DEF Clogged, Jammed, Aligned
  <2> QED BY <2>1, <2>2
<1>13. (\A i \in 1 .. n : r[i].id = ids[i]) /\ (u = <<>> \/ Aligned(y, Q))
  BY <1>8, <1>9, <1>10, <1>12
<1> QED BY <1>8, <1>13 DEF LinesUp, q, r, u, Q, n

-----------------------------------------------------------------------------
(* Handing over: the invariant *)

\* Where the commands in log L are, with A the completions in the ring, Z those
\* read, R the command ring, F the kicks that failed and P the commands passed
\* since the reset b.
Counted(L, s, A, Z, R, F, b) ==
  /\ \A id \in Nat \ (1 .. Len(L)) : Waiting(s, id) + Beyond(s, A, Z, id) = 0
  /\ F = {} => \A id \in b.log + 1 .. Len(L) : InAll(s, A, Z, R, id) <= 1
  /\ ~b.dirty => \A id \in 1 .. b.log : InAll(s, A, Z, R, id) = 0

HandedAll(s, A, Z, R, F, P, b) ==
  ~b.dirty => /\ \A id \in P : Beyond(s, A, Z, id) >= 1
              /\ Lined(s, R)
              /\ F = {} => s.cmdq[endpoint1] = <<>>

Hand(L, s, A, Z, R, F, P, b) ==
  /\ OneGuest(L, s)
  /\ s.service = NoService
  /\ Counted(L, s, A, Z, R, F, b)
  /\ HandedAll(s, A, Z, R, F, P, b)

\* What the surroundings of a kick are.
Around(A, Z, R, P, b) ==
  /\ log \in Seq(Command) /\ Numbered(log) /\ Between(uapi)
  /\ A \in Seq(EventType) /\ Z \in Seq(EventType) /\ R \in Seq(0 .. Len(log))
  /\ P \subseteq 1 .. Len(log)
  /\ b \in [log: 0 .. Len(log), dirty: BOOLEAN]

\* The descriptors a kick submits have the numbers of commands in the ring.
LEMMA PartHits ==
  ASSUME log \in Seq(Command), NEW ids, NEW R, Part(ids, R), NEW p \in 0 .. Len(ids),
         \A i \in 1 .. p : ids[i] # 0, NEW id
  PROVE  /\ HitsIn(SubSeq(ids, 1, p), {id}) \in Nat
         /\ id \notin 1 .. Len(log) => HitsIn(SubSeq(ids, 1, p), {id}) = 0
         /\ HitsIn(R, {id}) = 0 => HitsIn(SubSeq(ids, 1, p), {id}) = 0
         /\ HitsIn(R, {id}) \in Nat
<1> DEFINE d == SubSeq(ids, 1, p)
           S == 0 .. Len(log)
<1>1. /\ ids \in Seq(S) /\ R \in Seq(S) /\ Len(R) \in Nat /\ Len(ids) \in 0 .. Len(R)
      /\ p \in Nat /\ Len(log) \in Nat
  BY LenProperties DEF Part
<1>2. \A i \in 1 .. Len(ids) : ids[i] = R[i] /\ ids[i] \in S
  <2>1. \A i \in 1 .. Len(ids) : ids[i] = R[i]
    BY HitsSplit DEF Part
  <2>2. \A i \in 1 .. Len(ids) : ids[i] \in S
    BY <1>1, ElementOfSeq
  <2> QED BY <2>1, <2>2
<1>3. d \in Seq(S) /\ Len(d) = p /\ \A i \in 1 .. p : d[i] = ids[i]
  BY <1>1, HitsSplit
<1> HIDE DEF d, S
<1>4. HitsIn(d, {id}) \in Nat /\ HitsIn(R, {id}) \in Nat
  BY <1>1, <1>3, HitsType
<1>5. ASSUME \A i \in 1 .. p : ids[i] # id PROVE HitsIn(d, {id}) = 0
  <2>1. \A i \in 1 .. Len(d) : d[i] \notin {id}
    BY <1>3, <1>5
  <2> QED BY <1>3, <2>1, HitsNone
<1>6. ASSUME id \notin 1 .. Len(log) PROVE HitsIn(d, {id}) = 0
  <2>1. ASSUME NEW i \in 1 .. p PROVE ids[i] # id
    <3>1. i \in 1 .. Len(ids) /\ ids[i] # 0
      BY <1>1
    <3>2. ids[i] \in 1 .. Len(log)
      BY <1>1, <1>2, <3>1 DEF S
    <3> QED BY <1>6, <3>2
  <2> QED BY <1>5, <2>1
<1>7. ASSUME HitsIn(R, {id}) = 0 PROVE HitsIn(d, {id}) = 0
  <2>1. \A i \in 1 .. Len(R) : R[i] \notin {id}
    BY <1>1, <1>7, HitsNone
  <2>2. \A i \in 1 .. p : ids[i] # id
    BY <1>1, <1>2, <2>1
  <2> QED BY <1>5, <2>2
<1> QED BY <1>4, <1>6, <1>7 DEF d

\* A kick that fails leaves command id in the same places, or more of them, and
\* may add to the queue of the surface what it has submitted.
Strays(s, v, A, Z, h, id) ==
  /\ Waiting(v, id) + Beyond(v, A, Z, id) <= Waiting(s, id) + Beyond(s, A, Z, id) + h
  /\ Beyond(v, A, Z, id) >= Beyond(s, A, Z, id)

\* After such a kick.
LEMMA HandFails ==
  ASSUME NEW A, NEW Z, NEW R, NEW P, NEW b, Around(A, Z, R, P, b), NEW F,
         Hand(log, uapi, A, Z, R, F, P, b),
         NEW ids, Part(ids, R), NEW p \in 0 .. Len(ids), \A i \in 1 .. p : ids[i] # 0,
         NEW v \in Surface, OneGuest(log, v), v.service = NoService,
         \A id : Strays(uapi, v, A, Z, HitsIn(SubSeq(ids, 1, p), {id}), id),
         Lined(uapi, R) => Lined(v, R), NEW G, G # {}
  PROVE  Hand(log, v, A, Z, R, G, P, b)
<1>1. log \in Seq(Command) /\ A \in Seq(EventType) /\ Z \in Seq(EventType) /\ uapi \in Surface
      /\ Len(log) \in Nat /\ b.log \in 0 .. Len(log) /\ P \subseteq 1 .. Len(log)
  BY LenProperties DEF Around, Between
<1> DEFINE h(id) == HitsIn(SubSeq(ids, 1, p), {id})
           w(id) == Waiting(uapi, id)
           y(id) == Beyond(uapi, A, Z, id)
           w2(id) == Waiting(v, id)
           y2(id) == Beyond(v, A, Z, id)
           r(id) == HitsIn(R, {id})
<1>2. ASSUME NEW id
      PROVE  /\ h(id) \in Nat /\ w(id) \in Nat /\ y(id) \in Nat /\ w2(id) \in Nat
             /\ y2(id) \in Nat /\ r(id) \in Nat
             /\ w2(id) + y2(id) <= w(id) + y(id) + h(id) /\ y2(id) >= y(id)
             /\ id \notin 1 .. Len(log) => h(id) = 0
             /\ r(id) = 0 => h(id) = 0
  <2>1. h(id) \in Nat /\ r(id) \in Nat /\ (id \notin 1 .. Len(log) => h(id) = 0)
        /\ (r(id) = 0 => h(id) = 0)
    BY <1>1, PartHits
  <2>2. w(id) \in Nat /\ y(id) \in Nat /\ w2(id) \in Nat /\ y2(id) \in Nat
    BY <1>1, PlacesType
  <2>3. w2(id) + y2(id) <= w(id) + y(id) + h(id) /\ y2(id) >= y(id)
    BY DEF Strays
  <2> QED BY <2>1, <2>2, <2>3
<1>3. /\ \A id \in Nat \ (1 .. Len(log)) : w(id) + y(id) = 0
      /\ ~b.dirty => \A id \in 1 .. b.log : w(id) + y(id) + r(id) = 0
      /\ ~b.dirty => (\A id \in P : y(id) >= 1) /\ Lined(uapi, R)
  BY DEF Hand, Counted, HandedAll, InAll
<1> HIDE DEF h, w, y, w2, y2, r
<1>4. ASSUME NEW id \in Nat \ (1 .. Len(log)) PROVE w2(id) + y2(id) = 0
  <2>1. w(id) + y(id) = 0 /\ h(id) = 0
    BY <1>2, <1>3
  <2>2. /\ w(id) \in Nat /\ y(id) \in Nat /\ w2(id) \in Nat /\ y2(id) \in Nat
        /\ w2(id) + y2(id) <= w(id) + y(id) + h(id)
    BY <1>2
  <2> QED BY <2>1, <2>2
<1>5. ASSUME ~b.dirty, NEW id \in 1 .. b.log PROVE w2(id) + y2(id) + r(id) = 0
  <2>1. w(id) + y(id) + r(id) = 0
    BY <1>3, <1>5
  <2>2. w(id) = 0 /\ y(id) = 0 /\ r(id) = 0
    BY <1>2, <2>1
  <2> QED BY <1>2, <2>2
<1>6. ASSUME ~b.dirty, NEW id \in P PROVE y2(id) >= 1
  BY <1>2, <1>3, <1>6
<1>7. Counted(log, v, A, Z, R, G, b)
  BY <1>4, <1>5 DEF Counted, InAll, w2, y2, r
<1>8. HandedAll(v, A, Z, R, G, P, b)
  BY <1>3, <1>6 DEF HandedAll, y2
<1> QED BY <1>7, <1>8 DEF Hand

\* What a kick has submitted strays.
LEMMA AddedStrays ==
  ASSUME NEW x \in Surface, uapi \in Surface, NEW ids, NEW p, NEW id, Added(uapi, ids, p, x, id),
         HitsIn(SubSeq(ids, 1, p), {id}) \in Nat,
         NEW A \in Seq(EventType), NEW Z \in Seq(EventType)
  PROVE  Strays(uapi, x, A, Z, HitsIn(SubSeq(ids, 1, p), {id}), id)
<1> DEFINE h == HitsIn(SubSeq(ids, 1, p), {id})
           w == Waiting(uapi, id)
           y == Beyond(uapi, A, Z, id)
           w2 == Waiting(x, id)
           y2 == Beyond(x, A, Z, id)
<1>1. w2 = w + h /\ y2 = y /\ h \in Nat
  BY DEF Added
<1>2. w \in Nat /\ y \in Nat
  BY PlacesType
<1> HIDE DEF h, w, y, w2, y2
<1>3. w2 + y2 <= w + y + h /\ y2 >= y
  BY <1>1, <1>2
<1> QED BY <1>3 DEF Strays, h, w, y, w2, y2

\* A kick that fails to submit.
LEMMA HandSubmit ==
  ASSUME NEW A, NEW Z, NEW R, NEW P, NEW b, Around(A, Z, R, P, b), NEW F,
         Hand(log, uapi, A, Z, R, F, P, b),
         NEW e, NEW ids, Part(ids, R), NEW k, KickSubmit(endpoint1, e, ids, k)
  PROVE  Hand(log, k.uapi, A, Z, R, F \cup {"submit"}, P, b)
<1> DEFINE v == k.uapi
<1>1. /\ log \in Seq(Command) /\ Numbered(log) /\ uapi \in Surface
      /\ A \in Seq(EventType) /\ Z \in Seq(EventType) /\ ids \in Seq(0 .. Len(log))
      /\ OneGuest(log, uapi) /\ uapi.service = NoService
  BY DEF Around, Between, Part, Hand
<1>2. PICK p \in 0 .. Len(ids) - 1 :
        /\ Gives(uapi, endpoint1, ids, p, v)
        /\ ids[p + 1] = 0 \/ Len(uapi.cmdq[endpoint1]) + p >= CmdDepth
  BY DEF KickSubmit
<1> HIDE DEF v
<1>3. /\ p \in 0 .. Len(ids) /\ (\A i \in 1 .. p : ids[i] # 0) /\ v \in Surface
      /\ v.runtime = uapi.runtime /\ v.service = NoService
  BY <1>1, <1>2 DEF Gives
<1>4. OneGuest(log, v)
  BY <1>1, <1>2, GivesGuest
<1>5. ASSUME NEW id PROVE Strays(uapi, v, A, Z, HitsIn(SubSeq(ids, 1, p), {id}), id)
  <2>1. Added(uapi, ids, p, v, id)
    BY <1>1, <1>2, GivesCounts
  <2>2. HitsIn(SubSeq(ids, 1, p), {id}) \in Nat
    BY <1>1, <1>3, PartHits
  <2> QED BY <1>1, <1>3, <2>1, <2>2, AddedStrays
<1>6. Lined(uapi, R) => Lined(v, R)
  <2>1. Follows(uapi.cmdq[endpoint1], ids, p, v.cmdq[endpoint1])
    BY <1>1, <1>2, GivesFollows
  <2> QED BY <1>2, <1>3, <2>1, LinedSubmit
<1>7. F \cup {"submit"} # {}
  OBVIOUS
<1>8. Hand(log, v, A, Z, R, F \cup {"submit"}, P, b)
  <2> DEFINE G == F \cup {"submit"}
  <2>1. G # {}
    BY <1>7
  <2> HIDE DEF G
  <2>2. Hand(log, v, A, Z, R, G, P, b)
    BY <1>3, <1>4, <1>5, <1>6, <2>1, HandFails
  <2> QED BY <2>2 DEF G
<1> QED BY <1>8 DEF v

\* What a doorbell of the surface takes strays, also what it drops.
LEMMA CarriedStrays ==
  ASSUME NEW x \in Surface, NEW v \in Surface, uapi \in Surface, NEW ids, NEW p, NEW id,
         Added(uapi, ids, p, x, id), NEW m, NEW n, Carried(x, m, n, v, id), v.cq = x.cq,
         HitsIn(SubSeq(ids, 1, p), {id}) \in Nat,
         NEW A \in Seq(EventType), NEW Z \in Seq(EventType)
  PROVE  Strays(uapi, v, A, Z, HitsIn(SubSeq(ids, 1, p), {id}), id)
<1>1. PICK a, b \in Nat :
        /\ Waiting(x, id) = a + b + Waiting(v, id)
        /\ Total(v, endpoint1, id) = Total(x, endpoint1, id) + a
  BY DEF Carried
<1> DEFINE h == HitsIn(SubSeq(ids, 1, p), {id})
           w == Waiting(uapi, id)
           y == Beyond(uapi, A, Z, id)
           w1 == Waiting(x, id)
           w2 == Waiting(v, id)
           y2 == Beyond(v, A, Z, id)
           t == Total(x, endpoint1, id)
           c == HitsIn(A, IdEvents(id))
           d == HitsIn(Z, IdEvents(id))
<1>2. w1 = w + h /\ h \in Nat /\ y = t + c + d
  BY DEF Added, Beyond
<1>3. w \in Nat /\ y \in Nat /\ t \in Nat /\ c \in Nat /\ d \in Nat /\ w1 \in Nat /\ w2 \in Nat
  BY PlacesType
<1>4. w1 = a + b + w2 /\ y2 = (t + a) + c + d
  BY <1>1 DEF Beyond
<1> HIDE DEF h, w, y, w1, w2, y2, t, c, d
<1>5. w2 + y2 <= w + y + h /\ y2 >= y
  BY <1>1, <1>2, <1>3, <1>4
<1> QED BY <1>5 DEF Strays, h, w, y, w2, y2

\* A kick whose doorbell fails: it has taken the commands from the queue, and
\* the runtime queue is full.
LEMMA HandDoorbell ==
  ASSUME NEW A, NEW Z, NEW R, NEW P, NEW b, Around(A, Z, R, P, b), NEW F,
         Hand(log, uapi, A, Z, R, F, P, b),
         NEW e, NEW ids, Part(ids, R), NEW k, KickDoorbell(endpoint1, e, ids, k)
  PROVE  Hand(log, k.uapi, A, Z, R, F \cup {"doorbell"}, P, b)
<1> DEFINE v == k.uapi
           n == Len(ids)
<1>1. /\ log \in Seq(Command) /\ Numbered(log) /\ uapi \in Surface
      /\ A \in Seq(EventType) /\ Z \in Seq(EventType) /\ ids \in Seq(0 .. Len(log))
      /\ OneGuest(log, uapi) /\ uapi.service = NoService
      /\ n \in 0 .. Len(R) /\ Len(R) \in Nat
  BY LenProperties DEF Around, Between, Part, Hand
<1>2. PICK x, j : /\ Gives(uapi, endpoint1, ids, n, x)
                  /\ Rings(x, endpoint1, n, j, v)
                  /\ j < n
                  /\ Len(x.runtime) + j = RuntimeDepth
  BY DEF KickDoorbell
<1> HIDE DEF v
<1>3. /\ n \in 0 .. Len(ids) /\ (\A i \in 1 .. n : ids[i] # 0) /\ x \in Surface
      /\ x.runtime = uapi.runtime /\ x.service = NoService
  BY <1>1, <1>2 DEF Gives
<1>4. /\ v \in Surface /\ v.service = NoService /\ v.cq = x.cq /\ j \in 0 .. n
      /\ v.runtime = x.runtime \o Fresh(x.cmdq[endpoint1], j)
      /\ n \in 0 .. Len(x.cmdq[endpoint1])
  BY <1>2, <1>3 DEF Rings
<1>5. OneGuest(log, x)
  BY <1>1, <1>2, GivesGuest
<1>6. OneGuest(log, v)
  BY <1>2, <1>3, <1>5, RingsGuest
<1>7. ASSUME NEW id PROVE Strays(uapi, v, A, Z, HitsIn(SubSeq(ids, 1, n), {id}), id)
  <2>1. Added(uapi, ids, n, x, id)
    BY <1>1, <1>2, GivesCounts
  <2>2. HitsIn(SubSeq(ids, 1, n), {id}) \in Nat
    BY <1>1, <1>3, PartHits
  <2>3. Carried(x, n, j, v, id)
    BY <1>2, <1>3, RingsCounts
  <2> QED BY <1>1, <1>3, <1>4, <2>1, <2>2, <2>3, CarriedStrays
<1>8. Lined(v, R)
  <2> DEFINE q == x.cmdq[endpoint1]
             f == Fresh(q, j)
  <2>1. q \in Seq(Command) /\ x.runtime \in Seq(Entry)
    BY <1>3, LinquUbAssumption, SurfaceFields
  <2>2. j \in 0 .. Len(q)
    BY <1>1, <1>4, <2>1, LenProperties
  <2>3. f \in Seq(Entry) /\ Len(f) = j
    BY <2>1, <2>2, FreshIs
  <2>4. Len(v.runtime) = Len(x.runtime) + Len(f)
    <3> HIDE DEF f
    <3> QED BY <1>4, <2>1, <2>3, ConcatProperties DEF f
  <2>5. Len(v.runtime) = RuntimeDepth /\ RuntimeDepth \in Nat
    BY <1>2, <2>3, <2>4, SurfaceAssumption
  <2>6. Len(R) >= 1
    BY <1>1, <1>2, <1>4
  <2> QED BY <2>5, <2>6 DEF Lined, Jammed
<1>9. Hand(log, v, A, Z, R, F \cup {"doorbell"}, P, b)
  <2> DEFINE G == F \cup {"doorbell"}
  <2>1. G # {}
    OBVIOUS
  <2> HIDE DEF G, n
  <2>2. Hand(log, v, A, Z, R, G, P, b)
    BY <1>3, <1>4, <1>6, <1>7, <1>8, <2>1, HandFails
  <2> QED BY <2>2 DEF G
<1> QED BY <1>9 DEF v

\* What a kick has not read.
Rest(ids, R) == SubSeq(R, Len(ids) + 1, Len(R))

\* A kick that succeeds: command ring R becomes Q, and the completions in the
\* ring become B.
HandedOk(ids, k, x, A, B, Z, R, Q) ==
  /\ \A id : /\ HandedOn(ids, x, k.uapi, A, B, Z, id)
             /\ HitsIn(R, {id}) = HitsIn(ids, {id}) + HitsIn(Q, {id})
             /\ HitsIn(ids, {id}) \in Nat /\ HitsIn(Q, {id}) \in Nat
             /\ id \notin 1 .. Len(log) => HitsIn(ids, {id}) = 0
  /\ k.uapi \in Surface /\ B \in Seq(EventType) /\ Q \in Seq(0 .. Len(log))
  /\ OneGuest(log, k.uapi) /\ k.uapi.service = NoService
  /\ Lined(uapi, R) =>
       /\ \A i \in 1 .. Len(ids) : x.cmdq[endpoint1][i].id = ids[i]
       /\ Lined(k.uapi, Q)
       /\ uapi.cmdq[endpoint1] = <<>> => k.uapi.cmdq[endpoint1] = <<>>

\* So does every kick that hands on what it has read.
LEMMA OkHands ==
  ASSUME NEW A, NEW Z, NEW R, NEW P, NEW b, Around(A, Z, R, P, b), NEW F,
         Hand(log, uapi, A, Z, R, F, P, b),
         NEW e, NEW ids, Part(ids, R), NEW k, NEW x, NEW y, NEW z, NEW m,
         Hands(endpoint1, e, ids, k, x, y, z, m),
         Len(ids) >= 1 => Len(uapi.cmdq[endpoint1]) + Len(ids) <= CmdDepth
  PROVE  HandedOk(ids, k, x, A, A \o SubSeq(z.cq[endpoint1], 1, m), Z, R, Rest(ids, R))
<1> DEFINE v == k.uapi
           n == Len(ids)
           c == SubSeq(z.cq[endpoint1], 1, m)
           B == A \o c
           Q == SubSeq(R, n + 1, Len(R))
<1>1. /\ log \in Seq(Command) /\ Numbered(log) /\ Between(uapi) /\ uapi \in Surface
      /\ A \in Seq(EventType) /\ Z \in Seq(EventType) /\ ids \in Seq(0 .. Len(log))
      /\ R \in Seq(0 .. Len(log)) /\ n \in 0 .. Len(R) /\ ids = SubSeq(R, 1, n)
      /\ OneGuest(log, uapi) /\ uapi.service = NoService
      /\ Len(uapi.runtime) <= RuntimeDepth
  BY DEF Around, Between, Part, Hand
<1>2. /\ Gives(uapi, endpoint1, ids, n, x) /\ Rings(x, endpoint1, n, n, y)
      /\ Between(z) /\ Takes(z, endpoint1, m, v)
  BY DEF Hands
<1>3. /\ \A i \in 1 .. n : ids[i] # 0
      /\ x.runtime = uapi.runtime /\ z \in Surface /\ v \in Surface
      /\ m \in 0 .. Len(z.cq[endpoint1])
  BY <1>2 DEF Gives, Takes, Between
<1>4. B \in Seq(EventType)
  <2>1. z.cq[endpoint1] \in Seq(EventType)
    BY <1>3, LinquUbAssumption, SurfaceFields
  <2>2. c \in Seq(EventType)
    BY <1>3, <2>1, HitsSplit
  <2> QED BY <1>1, <2>2, ConcatProperties
<1>5. ASSUME NEW id
      PROVE  /\ HitsIn(R, {id}) = HitsIn(ids, {id}) + HitsIn(Q, {id})
             /\ HitsIn(ids, {id}) \in Nat /\ HitsIn(Q, {id}) \in Nat
             /\ Q \in Seq(0 .. Len(log))
  <2>1. HitsIn(R, {id}) = HitsIn(SubSeq(R, 1, n), {id}) + HitsIn(Q, {id})
        /\ Q \in Seq(0 .. Len(log))
    BY <1>1, HitsSplit
  <2>2. HitsIn(ids, {id}) \in Nat /\ HitsIn(Q, {id}) \in Nat
    BY <1>1, <2>1, HitsType
  <2> QED BY <1>1, <2>1, <2>2
<1>6. ASSUME NEW id, id \notin 1 .. Len(log) PROVE HitsIn(ids, {id}) = 0
  <2>1. n \in 0 .. Len(ids)
    BY <1>1, LenProperties
  <2>2. HitsIn(SubSeq(ids, 1, n), {id}) = 0
    BY <1>1, <1>3, <1>6, <2>1, PartHits
  <2>3. HitsIn(SubSeq(ids, 1, n), {id}) = HitsIn(ids, {id})
    BY <1>1, HitsPrefix
  <2> QED BY <2>2, <2>3
<1>7. ASSUME NEW id PROVE HandedOn(ids, x, v, A, B, Z, id)
  BY <1>1, HandsCounts
<1>8. OneGuest(log, v) /\ v.service = NoService /\ v.cmdq[endpoint1] = y.cmdq[endpoint1]
  BY <1>1, HandsGuest
<1>9. ASSUME Lined(uapi, R)
      PROVE  /\ \A i \in 1 .. n : x.cmdq[endpoint1][i].id = ids[i]
             /\ Lined(v, Q)
             /\ uapi.cmdq[endpoint1] = <<>> => v.cmdq[endpoint1] = <<>>
  <2>1. Follows(uapi.cmdq[endpoint1], ids, n, x.cmdq[endpoint1])
    BY <1>1, <1>2, GivesFollows
  <2>2. /\ \A i \in 1 .. n : x.cmdq[endpoint1][i].id = ids[i]
        /\ y.cmdq[endpoint1] = <<>> \/ Aligned(y, Q)
        /\ uapi.cmdq[endpoint1] = <<>> => y.cmdq[endpoint1] = <<>>
    <3> DEFINE q == uapi.cmdq[endpoint1]
    <3>1. /\ uapi \in Surface /\ Part(ids, R) /\ (\A i \in 1 .. Len(ids) : ids[i] # 0)
          /\ Follows(q, ids, Len(ids), x.cmdq[endpoint1])
          /\ x.runtime = uapi.runtime /\ Len(uapi.runtime) <= RuntimeDepth
          /\ Rings(x, endpoint1, Len(ids), Len(ids), y)
          /\ (Len(ids) >= 1 => Len(q) + Len(ids) <= CmdDepth)
          /\ Lined(uapi, R)
      BY <1>1, <1>2, <1>3, <1>9, <2>1
    <3>2. LinesUp(uapi, R, ids, x, y)
      BY <3>1, LinedOk
    <3> QED BY <3>2 DEF LinesUp
  <2>3. Aligned(y, Q) => Aligned(v, Q)
    BY <1>8 DEF Aligned
  <2> QED BY <1>8, <2>2, <2>3 DEF Lined
<1> HIDE DEF v, B
<1> SUFFICES HandedOk(ids, k, x, A, B, Z, R, Q)
  BY DEF B, Rest
<1> QED BY <1>3, <1>4, <1>5, <1>6, <1>7, <1>8, <1>9 DEF HandedOk, v

\* The commands it has read are passed.
Passes(P, ids, D) == D = P \cup {ids[i] : i \in DOMAIN ids}

\* A kick that succeeds.
LEMMA HandOk ==
  ASSUME NEW A, NEW Z, NEW R, NEW P, NEW b, Around(A, Z, R, P, b), NEW F,
         Hand(log, uapi, A, Z, R, F, P, b),
         NEW ids \in Seq(0 .. Len(log)), NEW k, NEW x, NEW B, NEW Q,
         HandedOk(ids, k, x, A, B, Z, R, Q),
         NEW D, Passes(P, ids, D)
  PROVE  Hand(log, k.uapi, B, Z, Q, F, D, b)
<1> DEFINE v == k.uapi
           h(id) == HitsIn(ids, {id})
           q(id) == HitsIn(Q, {id})
           r(id) == HitsIn(R, {id})
           w(id) == Waiting(uapi, id)
           y(id) == Beyond(uapi, A, Z, id)
           w2(id) == Waiting(v, id)
           y2(id) == Beyond(v, B, Z, id)
<1>1. /\ uapi \in Surface /\ v \in Surface /\ A \in Seq(EventType) /\ B \in Seq(EventType)
      /\ Z \in Seq(EventType) /\ Len(log) \in Nat /\ b.log \in 0 .. Len(log)
      /\ OneGuest(log, v) /\ v.service = NoService
  BY LenProperties DEF Around, Between, HandedOk
<1>2. ASSUME NEW id
      PROVE  /\ h(id) \in Nat /\ q(id) \in Nat /\ w(id) \in Nat /\ y(id) \in Nat
             /\ w2(id) \in Nat /\ y2(id) \in Nat
             /\ r(id) = h(id) + q(id) /\ (id \notin 1 .. Len(log) => h(id) = 0)
             /\ w2(id) + y2(id) = w(id) + y(id) + h(id) /\ y2(id) >= y(id)
             /\ (\E i \in 1 .. Len(ids) : x.cmdq[endpoint1][i].id = id) => y2(id) >= 1
  <2>1. w(id) \in Nat /\ y(id) \in Nat /\ w2(id) \in Nat /\ y2(id) \in Nat
    BY <1>1, PlacesType
  <2>2. r(id) = h(id) + q(id) /\ (id \notin 1 .. Len(log) => h(id) = 0)
        /\ h(id) \in Nat /\ q(id) \in Nat
    BY DEF HandedOk
  <2>3. HandedOn(ids, x, v, A, B, Z, id)
    BY DEF HandedOk
  <2> QED BY <2>1, <2>2, <2>3 DEF HandedOn
<1>3. /\ \A id \in Nat \ (1 .. Len(log)) : w(id) + y(id) = 0
      /\ F = {} => \A id \in b.log + 1 .. Len(log) : w(id) + y(id) + r(id) <= 1
      /\ ~b.dirty => \A id \in 1 .. b.log : w(id) + y(id) + r(id) = 0
  BY DEF Hand, Counted, InAll
<1>4. ~b.dirty => /\ \A id \in P : y(id) >= 1
                  /\ Lined(uapi, R)
                  /\ F = {} => uapi.cmdq[endpoint1] = <<>>
  BY DEF Hand, HandedAll
<1>5. Lined(uapi, R) =>
        /\ \A i \in 1 .. Len(ids) : x.cmdq[endpoint1][i].id = ids[i]
        /\ Lined(v, Q)
        /\ uapi.cmdq[endpoint1] = <<>> => v.cmdq[endpoint1] = <<>>
  BY DEF HandedOk
<1> HIDE DEF v, h, q, r, w, y, w2, y2
<1>6. ASSUME NEW id \in Nat \ (1 .. Len(log)) PROVE w2(id) + y2(id) = 0
  <2>1. w(id) + y(id) = 0
    BY <1>3
  <2>3. h(id) = 0
    BY <1>2
  <2>2. w2(id) + y2(id) = w(id) + y(id) + h(id) /\ w2(id) \in Nat /\ y2(id) \in Nat
        /\ w(id) \in Nat /\ y(id) \in Nat
    BY <1>2
  <2> QED BY <2>1, <2>2, <2>3
<1>7. ASSUME NEW id PROVE w2(id) + y2(id) + q(id) = w(id) + y(id) + r(id)
  <2>1. /\ h(id) \in Nat /\ q(id) \in Nat /\ w(id) \in Nat /\ y(id) \in Nat
        /\ w2(id) \in Nat /\ y2(id) \in Nat /\ r(id) = h(id) + q(id)
        /\ w2(id) + y2(id) = w(id) + y(id) + h(id)
    BY <1>2
  <2> QED BY <2>1
<1>8. Counted(log, v, B, Z, Q, F, b)
  <2>1. \A id \in Nat \ (1 .. Len(log)) : Waiting(v, id) + Beyond(v, B, Z, id) = 0
    BY <1>6 DEF w2, y2
  <2>2. \A id : InAll(v, B, Z, Q, id) = w(id) + y(id) + r(id)
    BY <1>7 DEF InAll, w2, y2, q
  <2> QED BY <1>3, <2>1, <2>2 DEF Counted
<1>9. ASSUME ~b.dirty, NEW id \in D PROVE y2(id) >= 1
  <2>0. D = P \cup {ids[i] : i \in DOMAIN ids}
    BY DEF Passes
  <2>1. CASE id \in P
    <3>1. y(id) >= 1 /\ y2(id) >= y(id) /\ y(id) \in Nat /\ y2(id) \in Nat
      BY <1>2, <1>4, <1>9, <2>1
    <3> QED BY <3>1
  <2>2. CASE \E i \in DOMAIN ids : id = ids[i]
    <3>1. PICK i \in 1 .. Len(ids) : id = ids[i]
      BY <2>2, LenProperties
    <3>2. x.cmdq[endpoint1][i].id = id
      BY <1>4, <1>5, <1>9, <3>1
    <3> QED BY <1>2, <3>2
  <2> QED BY <1>9, <2>0, <2>1, <2>2
<1>10. HandedAll(v, B, Z, Q, F, D, b)
  BY <1>4, <1>5, <1>9 DEF HandedAll, y2
<1> QED BY <1>1, <1>8, <1>10 DEF Hand, v

\* What is left of the command ring after its head has moved.
LEMMA RingRest ==
  ASSUME NEW e \in Endpoint, NEW x \in Endpoint, NEW ids, NEW batch \in Batches0,
         ids = Batch(e, batch), x.cmdq = e.cmdq, x.cmdq_tail = e.cmdq_tail,
         x.cmdq_head = (e.cmdq_head + Len(ids)) % cmdq_depth
  PROVE  Batch(x, 0) = Rest(ids, Batch(e, 0))
<1> DEFINE d == cmdq_depth
           f == e.cmdq
           h == e.cmdq_head
           t == e.cmdq_tail
           P == Pending(h, t, d)
           n == Len(ids)
           u == (h + n) % d
           q == Batch(e, 0)
           r == Batch(x, 0)
           S == 0 .. MaxCmds
<1>1. /\ d \in Nat \ {0} /\ h \in 0 .. d - 1 /\ t \in 0 .. d - 1 /\ f \in [0 .. d - 1 -> S]
  BY EndpointFields
<1>2. P \in 0 .. d - 1 /\ n \in 0 .. P /\ q = Slots(f, h, P, d) /\ Len(q) = P
  BY <1>1, BatchIs
<1>3. r = Slots(x.cmdq, x.cmdq_head, Pending(x.cmdq_head, x.cmdq_tail, d), d)
  BY EndpointFields, BatchIs
<1>4. x.cmdq = f /\ x.cmdq_head = u /\ x.cmdq_tail = t
  OBVIOUS
<1> HIDE DEF d, f, h, t, n, q, r, S
<1>5. Pending(u, t, d) = P - n
  BY <1>1, <1>2, PendingIs
<1>6. r = Slots(f, u, P - n, d)
  BY <1>3, <1>4, <1>5
<1> HIDE DEF P
<1>7. P \in 0 .. d
  BY <1>1, <1>2
<1>8. Splits(f, h, P, n, d)
  BY <1>1, <1>2, <1>7, SlotsSplit
<1>9. r = SubSeq(q, n + 1, Len(q))
  BY <1>2, <1>6, <1>8 DEF Splits
<1> QED BY <1>9 DEF Rest, q, r, n

HandNow == Hand(log, uapi, Arrived, seen[endpoint1], Ring, failed, passed, boot)

HandAfter ==
  Hand(log', uapi', ArrivedIn(ep'[endpoint1], probe'), seen'[endpoint1],
       Batch(ep'[endpoint1], 0), failed', passed', boot')

\* The surroundings are as they should be, and a kick reads a part of the ring.
LEMMA AroundIs ==
  ASSUME DevInv
  PROVE  /\ Around(Arrived, seen[endpoint1], Ring, passed, boot)
         /\ \A batch \in Batches0 : Part(Batch(E1, batch), Ring)
<1>1. /\ E1 \in Endpoint /\ E1.cmdq \in [0 .. cmdq_depth - 1 -> 0 .. Len(log)]
      /\ log \in Seq(Command) /\ Numbered(log) /\ Between(uapi)
      /\ seen \in [Guests -> Seq(EventType)] /\ probe \in Program
      /\ passed \subseteq 1 .. Len(log) /\ Reader(E1, probe)
      /\ boot \in [log: 0 .. Len(log), dirty: BOOLEAN] /\ endpoint1 \in Guests
  BY LinquUbAssumption DEF DevInv, Inv, Types, E1
<1>2. Arrived \in Seq(EventType)
  <2>1. ArrivedOK(E1, probe)
    BY <1>1, ArrivedIs DEF Reader
  <2> QED BY <2>1 DEF ArrivedOK, Arrived
<1>3. Ring \in Seq(0 .. Len(log))
  BY <1>1, BatchIs DEF Ring, Batches0
<1>4. ASSUME NEW batch \in Batches0 PROVE Part(Batch(E1, batch), Ring)
  <2> DEFINE P == Pending(E1.cmdq_head, E1.cmdq_tail, cmdq_depth)
             n == Len(Batch(E1, batch))
  <2>1. /\ P \in 0 .. cmdq_depth - 1 /\ n \in 0 .. P /\ (P >= 1 => n >= 1)
        /\ Len(Batch(E1, 0)) = P /\ Batch(E1, batch) \in Seq(0 .. Len(log))
        /\ Batch(E1, batch) = SubSeq(Batch(E1, 0), 1, n)
    BY <1>1, BatchIs
  <2> HIDE DEF P
  <2> QED BY <1>3, <2>1 DEF Part, Ring
<1> QED BY <1>1, <1>2, <1>3, <1>4 DEF Around

\* A kick that fails leaves the rings alone.
LEMMA FailedRings ==
  ASSUME NEW e \in Endpoint, NEW p \in Program, NEW r \in Program, r.next = p.next
  PROVE  /\ Batch(set_error(e), 0) = Batch(e, 0)
         /\ ArrivedIn(set_error(e), r) = ArrivedIn(e, p)
<1> DEFINE x == set_error(e)
<1>1. /\ x.cmdq = e.cmdq /\ x.cmdq_head = e.cmdq_head /\ x.cmdq_tail = e.cmdq_tail
      /\ x.cq = e.cq /\ x.cq_tail = e.cq_tail
  BY DEF set_error, Endpoint
<1> HIDE DEF x
<1>2. Batch(x, 0) = Batch(e, 0)
  BY <1>1 DEF Batch
<1>3. ArrivedIn(x, r) = ArrivedIn(e, p)
  BY <1>1 DEF ArrivedIn, UnreadIn
<1> QED BY <1>2, <1>3 DEF x

\* The doorbell is rung.
LEMMA DoorbellHands ==
  ASSUME DevInv, HandNow, NEW batch \in Batches0, NEW wait \in BOOLEAN, Doorbell(batch, wait)
  PROVE  HandAfter
<1> DEFINE k == kick(endpoint1, E1, batch)
           ids == Batch(E1, batch)
           p == IF wait THEN [probe EXCEPT !.pc = "polling"] ELSE probe
           A == Arrived
           Z == seen[endpoint1]
<1>1. /\ E1 \in Endpoint /\ log \in Seq(Command) /\ Between(uapi)
      /\ ep \in [Guests -> Endpoint] /\ probe \in Program /\ Reader(E1, probe)
      /\ endpoint1 \in Guests
  BY LinquUbAssumption DEF DevInv, Inv, Types, E1
<1>2. /\ Updates(k.ep) /\ uapi' = k.uapi /\ probe' = p
      /\ passed' = passed \cup k.ids /\ failed' = failed \cup ({k.rc} \ {"ok"})
      /\ log' = log /\ seen' = seen /\ boot' = boot
  BY DEF Doorbell
<1>3. /\ KickSubmit(endpoint1, E1, ids, k)
         \/ KickDoorbell(endpoint1, E1, ids, k)
         \/ KickOk(endpoint1, E1, ids, k)
      /\ ids \in Seq(0 .. Len(log)) /\ Len(ids) <= cmdq_depth
  BY BatchType, KickIs
<1>4. Around(A, Z, Ring, passed, boot) /\ Part(ids, Ring)
  BY AroundIs
<1>5. Hand(log, uapi, A, Z, Ring, failed, passed, boot)
  BY DEF HandNow
<1>6. p \in Program /\ p.next = probe.next
  BY <1>1 DEF Program
<1>7. ep'[endpoint1] = k.ep
  BY <1>1, <1>2 DEF Updates
<1>8. Batch(E1, 0) = Ring /\ ArrivedIn(E1, probe) = A
  BY DEF Ring, Arrived
<1>a. ids = Batch(E1, batch)
  OBVIOUS
<1> HIDE DEF k, p, ids, A, Z
<1>9. CASE KickSubmit(endpoint1, E1, ids, k)
  <2>1. Hand(log, k.uapi, A, Z, Ring, failed \cup {"submit"}, passed, boot)
    BY <1>4, <1>5, <1>9, HandSubmit
  <2>2. k.ids = {} /\ k.rc = "submit" /\ k.ep = set_error(E1)
    BY <1>9 DEF KickSubmit
  <2>3. Batch(k.ep, 0) = Ring /\ ArrivedIn(k.ep, p) = A
    BY <1>1, <1>6, <1>8, <2>2, FailedRings
  <2>4. passed' = passed /\ failed' = failed \cup {"submit"}
    BY <1>2, <2>2
  <2> QED BY <1>2, <1>7, <2>1, <2>3, <2>4 DEF HandAfter, Z
<1>10. CASE KickDoorbell(endpoint1, E1, ids, k)
  <2>1. Hand(log, k.uapi, A, Z, Ring, failed \cup {"doorbell"}, passed, boot)
    BY <1>4, <1>5, <1>10, HandDoorbell
  <2>2. k.ids = {} /\ k.rc = "doorbell" /\ k.ep = set_error(E1)
    BY <1>10 DEF KickDoorbell
  <2>3. Batch(k.ep, 0) = Ring /\ ArrivedIn(k.ep, p) = A
    BY <1>1, <1>6, <1>8, <2>2, FailedRings
  <2>4. passed' = passed /\ failed' = failed \cup {"doorbell"}
    BY <1>2, <2>2
  <2> QED BY <1>2, <1>7, <2>1, <2>3, <2>4 DEF HandAfter, Z
<1>11. CASE KickOk(endpoint1, E1, ids, k)
  <2>1. PICK x, y, z, m : Hands(endpoint1, E1, ids, k, x, y, z, m)
    BY <1>1, <1>3, <1>11, KickHands
  <2>2. /\ k.rc = "ok" /\ k.ids = {ids[i] : i \in DOMAIN ids}
        /\ Len(ids) >= 1 => Len(uapi.cmdq[endpoint1]) + Len(ids) <= CmdDepth
    BY <1>11 DEF KickOk
  <2> DEFINE B == A \o SubSeq(z.cq[endpoint1], 1, m)
             Q == Rest(ids, Ring)
  <2>3. HandedOk(ids, k, x, A, B, Z, Ring, Q)
    BY <1>4, <1>5, <2>1, <2>2, OkHands
  <2>4. /\ Copied(E1, k.ep, z.cq[endpoint1], m)
        /\ k.ep.cmdq_head = (E1.cmdq_head + Len(ids)) % cmdq_depth
    BY <2>1 DEF Hands
  <2>5. ArrivedIn(k.ep, p) = B
    <3>1. Found(E1, k.ep, z.cq[endpoint1], m, probe)
      BY <1>1, <2>4, ReaderMoves
    <3>2. ArrivedIn(k.ep, p) = ArrivedIn(k.ep, probe)
      BY <1>6 DEF ArrivedIn, UnreadIn
    <3> QED BY <1>8, <3>1, <3>2 DEF Found
  <2>6. Batch(k.ep, 0) = Q
    <3>1. k.ep \in Endpoint /\ k.ep.cmdq = E1.cmdq /\ k.ep.cmdq_tail = E1.cmdq_tail
      BY <2>4 DEF Copied
    <3> QED BY <1>1, <1>8, <1>a, <2>4, <3>1, RingRest
  <2> HIDE DEF B, Q
  <2> DEFINE D == passed \cup {ids[i] : i \in DOMAIN ids}
  <2>a. Passes(passed, ids, D)
    BY DEF Passes
  <2> HIDE DEF D
  <2>7. Hand(log, k.uapi, B, Z, Q, failed, D, boot)
    BY <1>3, <1>4, <1>5, <2>3, <2>a, HandOk
  <2>8. passed' = D /\ failed' = failed
    BY <1>2, <2>2, <2>a DEF Passes
  <2> QED BY <1>2, <1>7, <2>5, <2>6, <2>7, <2>8 DEF HandAfter, Z
<1> QED BY <1>3, <1>9, <1>10, <1>11

\* The program puts descriptor id into the command ring; the log becomes L.
Issues(id, L) ==
  \/ L = log /\ id = 0
  \/ \E c \in Command : Grown(log, c, L) /\ id = c.id /\ c.guest = endpoint1

\* Where a command is, after that.
LEMMA FillCounts ==
  ASSUME NEW A, NEW Z, NEW R, NEW P, NEW b, Around(A, Z, R, P, b), NEW F,
         Hand(log, uapi, A, Z, R, F, P, b), NEW id, NEW L, Issues(id, L)
  PROVE  Counted(L, uapi, A, Z, Append(R, id), F, b)
<1> DEFINE n == Len(log)
           S == 0 .. Len(L)
           Q == Append(R, id)
           w(j) == Waiting(uapi, j)
           y(j) == Beyond(uapi, A, Z, j)
           r(j) == HitsIn(R, {j})
           q(j) == HitsIn(Q, {j})
<1>1. /\ A \in Seq(EventType) /\ Z \in Seq(EventType) /\ R \in Seq(0 .. n) /\ uapi \in Surface
      /\ n \in Nat /\ b.log \in 0 .. n
  BY LenProperties DEF Around, Between
<1>2. /\ Len(L) \in {n, n + 1} /\ id \in S
      /\ (Len(L) = n => id = 0) /\ (Len(L) = n + 1 => id = n + 1)
  <2>1. CASE L = log /\ id = 0
    BY <1>1, <2>1
  <2>2. CASE \E c \in Command : Grown(log, c, L) /\ id = c.id
    BY <1>1, <2>2 DEF Grown
  <2> QED BY <2>1, <2>2 DEF Issues
<1>3. R \in Seq(S)
  <2>1. Len(R) \in Nat /\ \A i \in 1 .. Len(R) : R[i] \in 0 .. n
    BY <1>1, LenProperties, ElementOfSeq
  <2>2. 0 .. n \subseteq S
    BY <1>1, <1>2
  <2>3. R \in [1 .. Len(R) -> S]
    <3>1. R \in [1 .. Len(R) -> 0 .. n]
      BY <1>1, LenProperties, ElementOfSeq
    <3> QED BY <2>2, <3>1
  <2> HIDE DEF S
  <2> QED BY <2>1, <2>3, SeqDef
<1>4. ASSUME NEW j
      PROVE  /\ w(j) \in Nat /\ y(j) \in Nat /\ r(j) \in Nat
             /\ q(j) = r(j) + (IF j = id THEN 1 ELSE 0)
  <2>1. w(j) \in Nat /\ y(j) \in Nat
    BY <1>1, PlacesType
  <2>2. r(j) \in Nat
    BY <1>1, HitsType
  <2>3. q(j) = r(j) + (IF id \in {j} THEN 1 ELSE 0)
    <3> HIDE DEF S
    <3> QED BY <1>2, <1>3, HitsAppend
  <2>4. id \in {j} <=> j = id
    OBVIOUS
  <2> HIDE DEF w, y, r, q
  <2> QED BY <2>1, <2>2, <2>3, <2>4
<1>5. ASSUME NEW j, j \notin 0 .. n PROVE r(j) = 0
  <2>1. \A i \in 1 .. Len(R) : R[i] \in 0 .. n
    BY <1>1, ElementOfSeq
  <2>2. \A i \in 1 .. Len(R) : R[i] \notin {j}
    BY <1>5, <2>1
  <2> QED BY <1>1, <2>2, HitsNone
<1>6. /\ \A j \in Nat \ (1 .. n) : w(j) + y(j) = 0
      /\ F = {} => \A j \in b.log + 1 .. n : w(j) + y(j) + r(j) <= 1
      /\ ~b.dirty => \A j \in 1 .. b.log : w(j) + y(j) + r(j) = 0
  BY DEF Hand, Counted, InAll
<1> HIDE DEF n, S, Q, w, y, r, q
<1>7. ASSUME NEW j \in Nat \ (1 .. Len(L)) PROVE w(j) + y(j) = 0
  <2>1. j \in Nat \ (1 .. n)
    BY <1>1, <1>2
  <2> QED BY <1>6, <2>1
<1>8. ASSUME F = {}, NEW j \in b.log + 1 .. Len(L) PROVE w(j) + y(j) + q(j) <= 1
  <2>1. CASE j \in b.log + 1 .. n
    <3>1. w(j) + y(j) + r(j) <= 1
      BY <1>6, <1>8, <2>1
    <3>2. j # id
      BY <1>1, <1>2, <2>1
    <3>3. q(j) = r(j)
      BY <1>4, <3>2
    <3> QED BY <3>1, <3>3
  <2>2. CASE j \notin b.log + 1 .. n
    <3>1. j = n + 1
      BY <1>1, <1>2, <2>2
    <3>2. j \in Nat \ (1 .. n) /\ j \notin 0 .. n
      BY <1>1, <3>1
    <3>3. w(j) + y(j) = 0
      BY <1>6, <3>2
    <3>4. r(j) = 0
      BY <1>5, <3>2
    <3>5. q(j) \in 0 .. 1
      BY <1>4, <3>4
    <3>6. w(j) \in Nat /\ y(j) \in Nat
      BY <1>4
    <3> QED BY <3>3, <3>5, <3>6
  <2> QED BY <2>1, <2>2
<1>9. ASSUME ~b.dirty, NEW j \in 1 .. b.log PROVE w(j) + y(j) + q(j) = 0
  <2>1. w(j) + y(j) + r(j) = 0
    BY <1>6, <1>9
  <2>2. j # id
    BY <1>1, <1>2
  <2>3. q(j) = r(j)
    BY <1>4, <2>2
  <2> QED BY <2>1, <2>3
<1>10. Counted(L, uapi, A, Z, Q, F, b)
  <2>1. \A j \in Nat \ (1 .. Len(L)) : Waiting(uapi, j) + Beyond(uapi, A, Z, j) = 0
    BY <1>7 DEF w, y
  <2>2. \A j : InAll(uapi, A, Z, Q, j) = w(j) + y(j) + q(j)
    BY DEF InAll, w, y, q
  <2>3. \A j : r(j) = HitsIn(R, {j})
    BY DEF r
  <2> QED BY <1>8, <1>9, <2>1, <2>2 DEF Counted
<1> QED BY <1>10 DEF Q

\* A ring that is longer.
LEMMA LinedLonger ==
  ASSUME NEW R \in Seq(Nat), NEW id \in Nat, Lined(uapi, R)
  PROVE  Lined(uapi, Append(R, id))
<1> DEFINE Q == Append(R, id)
<1>1. Len(R) \in Nat /\ Len(Q) = Len(R) + 1 /\ \A i \in 1 .. Len(R) : Q[i] = R[i]
  BY LenProperties, AppendIs
<1> HIDE DEF Q
<1>2. CASE Clogged(uapi, R)
  BY <1>1, <1>2 DEF Lined, Clogged
<1>3. CASE Jammed(uapi, R)
  BY <1>1, <1>3 DEF Lined, Jammed
<1>4. CASE Aligned(uapi, R)
  <2> DEFINE q == uapi.cmdq[endpoint1]
  <2>1. PICK j \in 1 .. Len(R) : Matches(q, R, j)
    BY <1>4 DEF Aligned
  <2>2. j \in 1 .. Len(Q) /\ \A i \in 1 .. j - 1 : i \in 1 .. Len(R)
    BY <1>1
  <2>3. Matches(q, Q, j)
    BY <1>1, <2>1, <2>2 DEF Matches
  <2>4. Aligned(uapi, Q)
    BY <2>2, <2>3, Zenon DEF Aligned
  <2> QED BY <2>4 DEF Lined, Q
<1> QED BY <1>2, <1>3, <1>4 DEF Lined, Q

\* The invariant, after that.
LEMMA HandFilled ==
  ASSUME NEW A, NEW Z, NEW R, NEW P, NEW b, Around(A, Z, R, P, b), NEW F,
         Hand(log, uapi, A, Z, R, F, P, b), NEW id, NEW L, Issues(id, L)
  PROVE  Hand(L, uapi, A, Z, Append(R, id), F, P, b)
<1>1. R \in Seq(0 .. Len(log)) /\ Len(log) \in Nat
  BY LenProperties DEF Around
<1>2. id \in Nat /\ \A i \in 1 .. Len(L) : L[i].guest = endpoint1
  <2>1. \A i \in 1 .. Len(log) : log[i].guest = endpoint1
    BY DEF Hand, OneGuest
  <2>2. CASE L = log /\ id = 0
    BY <2>1, <2>2
  <2>3. CASE \E c \in Command : Grown(log, c, L) /\ id = c.id /\ c.guest = endpoint1
    <3>1. PICK c \in Command : Grown(log, c, L) /\ id = c.id /\ c.guest = endpoint1
      BY <2>3
    <3>2. ASSUME NEW i \in 1 .. Len(L) PROVE L[i].guest = endpoint1
      <4>1. i \in 1 .. Len(log) \/ i = c.id
        BY <3>1 DEF Grown
      <4>2. CASE i \in 1 .. Len(log)
        BY <2>1, <3>1, <4>2 DEF Grown
      <4>3. CASE i = c.id
        BY <3>1, <4>3 DEF Grown
      <4> QED BY <4>1, <4>2, <4>3
    <3>3. id \in Nat
      BY <3>1 DEF Grown
    <3> QED BY <3>2, <3>3
  <2> QED BY <2>2, <2>3 DEF Issues
<1>3. OneGuest(L, uapi)
  BY <1>2 DEF Hand, OneGuest
<1>4. Counted(L, uapi, A, Z, Append(R, id), F, b)
  BY FillCounts
<1>5. R \in Seq(Nat)
  <2>1. R \in [1 .. Len(R) -> 0 .. Len(log)] /\ Len(R) \in Nat
    BY <1>1, LenProperties, ElementOfSeq
  <2>2. R \in [1 .. Len(R) -> Nat]
    BY <1>1, <2>1
  <2> QED BY <2>1, <2>2, SeqDef
<1>6. Lined(uapi, R) => Lined(uapi, Append(R, id))
  BY <1>2, <1>5, LinedLonger
<1>7. HandedAll(uapi, A, Z, Append(R, id), F, P, b)
  BY <1>6 DEF Hand, HandedAll
<1> QED BY <1>3, <1>4, <1>7 DEF Hand

\* The command ring of an endpoint.
LEMMA BatchSlots ==
  ASSUME NEW e \in Endpoint
  PROVE  LET P == Pending(e.cmdq_head, e.cmdq_tail, cmdq_depth)
         IN  P \in 0 .. cmdq_depth - 1 /\ Batch(e, 0) = Slots(e.cmdq, e.cmdq_head, P, cmdq_depth)
<1>1. e.cmdq \in [0 .. cmdq_depth - 1 -> 0 .. MaxCmds] /\ 0 \in Batches0
  BY EndpointFields DEF Batches0
<1> QED BY <1>1, BatchIs

\* The slot at the tail of the command ring is filled.
LEMMA RingAdds ==
  ASSUME NEW e \in Endpoint, NEW id \in 0 .. MaxCmds, NEW x \in Endpoint,
         (e.cmdq_tail + 1) % cmdq_depth # e.cmdq_head,
         x.cmdq = [e.cmdq EXCEPT ![e.cmdq_tail] = id],
         x.cmdq_head = e.cmdq_head, x.cmdq_tail = (e.cmdq_tail + 1) % cmdq_depth
  PROVE  Batch(x, 0) = Append(Batch(e, 0), id)
<1> DEFINE d == cmdq_depth
           f == e.cmdq
           h == e.cmdq_head
           t == e.cmdq_tail
           P == Pending(h, t, d)
           u == (t + 1) % d
           S == 0 .. MaxCmds
           F == [f EXCEPT ![t] = id]
           q == Batch(e, 0)
           r == Batch(x, 0)
<1>1. /\ d \in Nat \ {0} /\ h \in 0 .. d - 1 /\ t \in 0 .. d - 1 /\ f \in [0 .. d - 1 -> S]
      /\ id \in S
  BY EndpointFields
<1>2. P \in 0 .. d - 1 /\ q = Slots(f, h, P, d)
  BY BatchSlots
<1>3. r = Slots(x.cmdq, x.cmdq_head, Pending(x.cmdq_head, x.cmdq_tail, d), d)
  <2>1. x \in Endpoint
    OBVIOUS
  <2> QED BY <2>1, BatchSlots
<1>4. x.cmdq = F /\ x.cmdq_head = h /\ x.cmdq_tail = u /\ u # h
  OBVIOUS
<1> HIDE DEF d, f, h, t, q, r, S, u
<1>5. P + 1 <= d - 1
  <2>1. P = IF t >= h THEN t - h ELSE d - h + t
    BY DEF Pending
  <2>2. u = IF t + 1 = d THEN 0 ELSE t + 1
    BY <1>1, NextIs DEF u
  <2> HIDE DEF P
  <2> QED BY <1>1, <1>2, <1>4, <2>1, <2>2
<1>6. (h + P) % d = t
  BY <1>1, PendingEnds
<1>7. Pending(h, u, d) = P + 1
  <2>1. 1 \in Nat
    OBVIOUS
  <2> QED BY <1>1, <1>5, <2>1, PendingGrows DEF u
<1> HIDE DEF P
<1>8. Slots(F, h, P + 1, d) = Append(Slots(f, h, P, d), id)
  <2>1. F = [f EXCEPT ![t] = id]
    OBVIOUS
  <2> HIDE DEF F
  <2>2. SlotAdds(F, f, h, P, id, d)
    <3>1. t = (h + P) % d
      BY <1>6
    <3> QED BY <1>1, <1>2, <2>1, <3>1, SlotsAppend
  <2> QED BY <2>2, Zenon DEF SlotAdds
<1> HIDE DEF F
<1> QED BY <1>2, <1>3, <1>4, <1>7, <1>8 DEF q, r

\* What the program fills a slot with.
LEMMA IssuesId ==
  ASSUME NEW id, NEW L, Issues(id, L)
  PROVE  id \in 0 .. MaxCmds
<1>1. CASE id = 0
  BY <1>1, SurfaceAssumption
<1>2. CASE \E c \in Command : id = c.id
  BY <1>2, SurfaceAssumption DEF Command
<1> QED BY <1>1, <1>2 DEF Issues

\* A slot of the command ring is filled.
LEMMA FillRings ==
  ASSUME DevInv, NEW id \in 0 .. MaxCmds, FillSlot(id)
  PROVE  /\ Batch(ep'[endpoint1], 0) = Append(Ring, id)
         /\ ArrivedIn(ep'[endpoint1], probe') = Arrived
         /\ uapi' = uapi /\ seen' = seen /\ failed' = failed /\ passed' = passed
         /\ boot' = boot
<1> DEFINE e == [E1 EXCEPT !.cmdq[E1.cmdq_tail] = id, !.cmdq_tail = (@ + 1) % cmdq_depth]
           p == [probe EXCEPT !.pc = "run"]
           F == [E1.cmdq EXCEPT ![E1.cmdq_tail] = id]
           t == (E1.cmdq_tail + 1) % cmdq_depth
<1>1. /\ E1 \in Endpoint /\ ep \in [Guests -> Endpoint] /\ probe \in Program
      /\ endpoint1 \in Guests
  BY LinquUbAssumption DEF DevInv, Inv, Types, E1
<1>2. /\ ep' = [ep EXCEPT ![endpoint1] = e] /\ probe' = p /\ t # E1.cmdq_head
      /\ uapi' = uapi /\ seen' = seen /\ failed' = failed /\ passed' = passed
      /\ boot' = boot
  BY DEF FillSlot, Writes, CmdqSpace
<1>3. e = [E1 EXCEPT !.cmdq = F, !.cmdq_tail = t]
  BY <1>1 DEF Endpoint
<1>4. F \in [0 .. cmdq_depth - 1 -> 0 .. MaxCmds] /\ t \in 0 .. cmdq_depth - 1
  <2>1. cmdq_depth \in Nat \ {0} /\ E1.cmdq_tail \in 0 .. cmdq_depth - 1
        /\ E1.cmdq \in [0 .. cmdq_depth - 1 -> 0 .. MaxCmds]
    BY <1>1, EndpointFields
  <2>2. t \in 0 .. cmdq_depth - 1
    BY <2>1, NextIs
  <2> QED BY <2>1, <2>2
<1> HIDE DEF e, F, t
<1>5. /\ e \in Endpoint /\ e.cmdq = F /\ e.cmdq_head = E1.cmdq_head /\ e.cmdq_tail = t
      /\ e.cq_tail = E1.cq_tail /\ e.cq = E1.cq
  BY <1>1, <1>3, <1>4 DEF Endpoint
<1>6. p.next = probe.next
  BY <1>1 DEF Program
<1> HIDE DEF p
<1>7. ArrivedIn(e, p) = Arrived
  BY <1>5, <1>6 DEF Arrived, ArrivedIn, UnreadIn
<1>8. Batch(e, 0) = Append(Ring, id)
  <2>1. Batch(e, 0) = Append(Batch(E1, 0), id)
    BY <1>1, <1>2, <1>5, RingAdds DEF F, t
  <2> QED BY <2>1 DEF Ring
<1>9. ep'[endpoint1] = e
  BY <1>1, <1>2
<1> QED BY <1>2, <1>7, <1>8, <1>9

\* The program fills a slot.
LEMMA FillHands ==
  ASSUME DevInv, HandNow, NEW id, FillSlot(id), Issues(id, log'),
         log' \in Seq(Command), Numbered(log')
  PROVE  HandAfter
<1> DEFINE A == Arrived
           Z == seen[endpoint1]
<1>1. id \in 0 .. MaxCmds
  BY IssuesId
<1>2. /\ Batch(ep'[endpoint1], 0) = Append(Ring, id)
      /\ ArrivedIn(ep'[endpoint1], probe') = A
      /\ uapi' = uapi /\ seen' = seen /\ failed' = failed /\ passed' = passed
      /\ boot' = boot
  BY <1>1, FillRings
<1>3. Around(A, Z, Ring, passed, boot)
  BY AroundIs
<1>4. Hand(log, uapi, A, Z, Ring, failed, passed, boot)
  BY DEF HandNow
<1> HIDE DEF A, Z
<1>5. Hand(log', uapi, A, Z, Append(Ring, id), failed, passed, boot)
  BY <1>3, <1>4, HandFilled
<1> QED BY <1>2, <1>5 DEF HandAfter, Z

\* A command is issued.
LEMMA BuildHands ==
  ASSUME DevInv, HandNow, NEW op \in Ops, NEW key \in Keys, build_descriptor(op, key)
  PROVE  HandAfter
<1> DEFINE c == NewCmd(endpoint1, op, key, FALSE)
<1>1. log \in Seq(Command) /\ Numbered(log)
  BY DEF DevInv, Inv, Types
<1>2. Len(log) < MaxCmds /\ log' = Append(log, c) /\ FillSlot(c.id)
  BY DEF build_descriptor, Issue
<1>3. c \in Command /\ c.guest = endpoint1
  BY <1>1, <1>2, NewCmdIs, LinquUbAssumption DEF NewCmd
<1>4. c.id = Len(log) + 1
  BY DEF NewCmd
<1> HIDE DEF c
<1>5. Grown(log, c, Append(log, c))
  BY <1>1, <1>3, <1>4, LogGrows
<1>6. Grown(log, c, log')
  BY <1>2, <1>5
<1>7. Issues(c.id, log')
  BY <1>3, <1>6 DEF Issues
<1>8. log' \in Seq(Command) /\ Numbered(log')
  BY <1>1, <1>6 DEF Grown
<1> QED BY <1>2, <1>7, <1>8, FillHands

\* A descriptor that does not decode.
LEMMA BuildInvalidHands ==
  ASSUME DevInv, HandNow, build_invalid_descriptor
  PROVE  HandAfter
<1>1. log \in Seq(Command) /\ Numbered(log)
  BY DEF DevInv, Inv, Types
<1>2. FillSlot(0) /\ log' = log
  BY DEF build_invalid_descriptor
<1>3. Issues(0, log') /\ log' \in Seq(Command) /\ Numbered(log')
  BY <1>1, <1>2 DEF Issues
<1> QED BY <1>2, <1>3, FillHands

\* Completions are read.
LEMMA ConsumeHands ==
  ASSUME DevInv, HandNow, NEW n, Consume(n)
  PROVE  HandAfter
<1> DEFINE A == Arrived
           Z == seen[endpoint1]
           B == SubSeq(A, n + 1, Len(A))
           r == SubSeq(A, 1, n)
           Y == Z \o r
<1>1. /\ n \in 0 .. Len(A) /\ ArrivedIn(ep'[endpoint1], probe') = B
      /\ seen' = [seen EXCEPT ![endpoint1] = Y]
      /\ Batch(ep'[endpoint1], 0) = Ring
      /\ log' = log /\ uapi' = uapi /\ failed' = failed /\ passed' = passed
      /\ boot' = boot
  BY ConsumeKeeps
<1>2. A \in Seq(EventType) /\ Z \in Seq(EventType) /\ uapi \in Surface
  BY AroundIs DEF Around, Between
<1>3. seen'[endpoint1] = Y
  <2>1. seen \in [Guests -> Seq(EventType)] /\ endpoint1 \in Guests
    BY LinquUbAssumption DEF DevInv, Inv, Types
  <2> HIDE DEF Y
  <2> QED BY <1>1, <2>1
<1> HIDE DEF A, Z
<1>4. ASSUME NEW id PROVE Beyond(uapi, B, Y, id) = Beyond(uapi, A, Z, id)
  <2> DEFINE T == IdEvents(id)
             a == HitsIn(A, T)
             b == HitsIn(B, T)
             c == HitsIn(r, T)
             d == HitsIn(Z, T)
             y == HitsIn(Y, T)
             t == Total(uapi, endpoint1, id)
  <2>1. a = c + b /\ r \in Seq(EventType) /\ B \in Seq(EventType)
    <3> HIDE DEF T
    <3> QED BY <1>1, <1>2, HitsSplit
  <2>2. y = d + c
    <3> HIDE DEF T, r
    <3> QED BY <1>2, <2>1, HitsConcat
  <2>3. b \in Nat /\ c \in Nat /\ d \in Nat
    <3> HIDE DEF T, r, B
    <3> QED BY <1>2, <2>1, HitsType
  <2>4. t \in Nat
    BY <1>2, PlacesType
  <2> HIDE DEF a, b, c, d, y, t
  <2>5. t + b + y = t + a + d
    BY <2>1, <2>2, <2>3, <2>4
  <2> QED BY <2>5 DEF Beyond, a, b, d, y, t
<1> HIDE DEF B, Y
<1>5. Hand(log, uapi, A, Z, Ring, failed, passed, boot)
  BY DEF HandNow, A, Z
<1>6. Hand(log, uapi, B, Y, Ring, failed, passed, boot)
  BY <1>4, <1>5 DEF Hand, Counted, HandedAll, InAll
<1> QED BY <1>1, <1>3, <1>6 DEF HandAfter

\* Nothing that counts happens.
LEMMA StillHands ==
  ASSUME HandNow, Still \/ UNCHANGED devVars
  PROVE  HandAfter
<1>1. /\ log' = log /\ uapi' = uapi /\ seen' = seen /\ failed' = failed /\ passed' = passed
      /\ boot' = boot
      /\ Batch(ep'[endpoint1], 0) = Ring /\ ArrivedIn(ep'[endpoint1], probe') = Arrived
  BY DEF Still, Apart, devVars, Ring, Arrived, E1
<1> QED BY <1>1 DEF HandNow, HandAfter

\* Nothing is anywhere in a surface with empty queues.
LEMMA NothingAnywhere ==
  ASSUME NEW s, s.cmdq[endpoint1] = <<>>, s.cq[endpoint1] = <<>>, s.runtime = <<>>,
         s.failures = <<>>, s.service = NoService, NEW id
  PROVE  Waiting(s, id) + Beyond(s, <<>>, <<>>, id) = 0
<1>1. \A v \in Services : s.service[v] = <<>>
  BY DEF NoService
<1>2. s.service["block"] = <<>> /\ s.service["shmem"] = <<>> /\ s.service["dfs"] = <<>>
      /\ s.service["db"] = <<>>
  BY <1>1 DEF Services
<1>3. Settled(s, endpoint1, IdEvents(id)) = 0
  BY <1>2, HitsEmpty DEF Settled
<1>4. Total(s, endpoint1, id) = 0
  BY <1>3, HitsEmpty DEF Total
<1> QED BY <1>4, HitsEmpty DEF Waiting, Beyond

\* The machine is reset.
LEMMA ResetHands ==
  ASSUME DevInv, HandNow, SystemReset
  PROVE  HandAfter
<1> DEFINE v == uapi'
           b == boot'
           E == <<>>
           A == Arrived
           Z == seen[endpoint1]
<1>1. /\ Forgets(uapi, v) /\ Batch(ep'[endpoint1], 0) = E
      /\ ArrivedIn(ep'[endpoint1], probe') = E /\ seen'[endpoint1] = E
  BY ResetKeeps
<1>2. /\ log' = log /\ failed' = {} /\ passed' = {} /\ b.log = Len(log)
      /\ b.dirty = \E g \in Guests : uapi.cmdq[g] # <<>> \/ uapi.cq[g] # <<>>
                                     \/ uapi.runtime # <<>>
  BY DEF SystemReset
<1>3. /\ A \in Seq(EventType) /\ Z \in Seq(EventType) /\ uapi \in Surface
      /\ uapi.failures = <<>> /\ Len(log) \in Nat
  BY AroundIs, LenProperties DEF Around, Between
<1>4. Hand(log, uapi, A, Z, Ring, failed, passed, boot)
  BY DEF HandNow
<1>5. /\ v \in Surface /\ v.cmdq = uapi.cmdq /\ v.runtime = uapi.runtime
      /\ v.service = uapi.service /\ v.cq = uapi.cq /\ v.failures = uapi.failures
  BY <1>1 DEF Forgets
<1> HIDE DEF v, b, A, Z
<1>6. OneGuest(log, v) /\ v.service = NoService
  BY <1>4, <1>5 DEF Hand, OneGuest
<1>7. ASSUME NEW id \in Nat \ (1 .. Len(log)) PROVE Waiting(v, id) + Beyond(v, E, E, id) = 0
  <2> DEFINE w == Waiting(uapi, id)
             t == Total(uapi, endpoint1, id)
             a == HitsIn(A, IdEvents(id))
             z == HitsIn(Z, IdEvents(id))
  <2>1. w + (t + a + z) = 0
    BY <1>4 DEF Hand, Counted, Beyond
  <2>2. w \in Nat /\ t \in Nat /\ a \in Nat /\ z \in Nat
    BY <1>3, PlacesType
  <2>3. Waiting(v, id) = w /\ Total(v, endpoint1, id) = t
    BY <1>5 DEF Waiting, Total, Settled
  <2>4. Beyond(v, E, E, id) = t + 0 + 0
    BY <2>3, HitsEmpty DEF Beyond
  <2> HIDE DEF w, t, a, z
  <2> QED BY <2>1, <2>2, <2>3, <2>4
<1>8. ASSUME ~b.dirty PROVE /\ v.cmdq[endpoint1] = <<>>
                            /\ \A id : Waiting(v, id) + Beyond(v, E, E, id) = 0
  <2>1. uapi.cmdq[endpoint1] = <<>> /\ uapi.cq[endpoint1] = <<>> /\ uapi.runtime = <<>>
    BY <1>2, <1>8, LinquUbAssumption
  <2>2. v.cmdq[endpoint1] = <<>> /\ v.cq[endpoint1] = <<>> /\ v.runtime = <<>>
        /\ v.failures = <<>>
    BY <1>3, <1>5, <2>1
  <2> QED BY <1>6, <2>2, NothingAnywhere
<1>9. Counted(log, v, E, E, E, {}, b)
  <2>1. b.log + 1 .. Len(log) = {}
    BY <1>2, <1>3
  <2>2. ASSUME ~b.dirty, NEW id PROVE InAll(v, E, E, E, id) = 0
    BY <1>8, <2>2, HitsEmpty DEF InAll
  <2> QED BY <1>7, <2>1, <2>2 DEF Counted
<1>10. HandedAll(v, E, E, E, {}, {}, b)
  BY <1>8 DEF HandedAll, Lined
<1>11. Hand(log, v, E, E, E, {}, {}, b)
  BY <1>6, <1>9, <1>10 DEF Hand
<1> QED BY <1>1, <1>2, <1>11 DEF HandAfter, v, b

\* Every step keeps what has been said of handing over.
LEMMA HandNextKeeps == DevInv /\ HandNow /\ [DevNext]_devVars => HandNow'
<1> SUFFICES ASSUME DevInv, HandNow, [DevNext]_devVars PROVE HandAfter
  BY DEF HandNow, HandAfter, Arrived, ArrivedIn, UnreadIn, Pending, Ring, Batch, Min, E1, Hand,
         OneGuest, AllOf, Counted, InAll, Waiting, Beyond, Total, Settled, HitsIn, HandedAll,
         Lined, Clogged, Jammed, Aligned, Matches
<1>1. ASSUME NEW op \in Ops, NEW key \in Keys, build_descriptor(op, key) PROVE HandAfter
  BY <1>1, BuildHands
<1>2. CASE build_invalid_descriptor
  BY <1>2, BuildInvalidHands
<1>3. ASSUME NEW n \in Batches0, NEW wait \in BOOLEAN, Doorbell(n, wait) PROVE HandAfter
  BY <1>3, DoorbellHands
<1>4. ASSUME NEW n \in 0 .. Unread, Consume(n) PROVE HandAfter
  BY <1>4, ConsumeHands
<1>5. CASE RewindHead \/ AckIrq \/ RefusedWrite \/ AckStatus
  <2>1. Still
    BY <1>5, RegistersKeep
  <2> QED BY <2>1, StillHands
<1>6. CASE irq_primary \/ ReadStatus \/ Publish \/ ReadEvent \/ PollTimeout
  <2>1. Still
    BY <1>6, DriverKeeps
  <2> QED BY <2>1, StillHands
<1>7. CASE SystemReset
  BY <1>7, ResetHands
<1>8. CASE UNCHANGED devVars
  BY <1>8, StillHands
<1> QED BY <1>1, <1>2, <1>3, <1>4, <1>5, <1>6, <1>7, <1>8 DEF DevNext, ProbeStep, irq_thread

\* Nothing has been handed over at the start.
LEMMA HandInitIs == DevInit => HandNow
<1> SUFFICES ASSUME DevInit PROVE HandNow
  OBVIOUS
<1> DEFINE E == <<>>
           e == ResetEndpoint
           p == FreshProbe
<1>1. /\ endpoint1 \in Guests /\ cmdq_depth \in Nat \ {0} /\ cq_depth \in Nat \ {0}
  BY LinquUbAssumption
<1>2. /\ ep = [g \in Guests |-> e] /\ probe = p /\ failed = {} /\ passed = {}
      /\ seen = [g \in Guests |-> <<>>] /\ log = E
      /\ boot = [log |-> 0, dirty |-> FALSE] /\ uapi = EmptySurface
  BY DEF DevInit, Init
<1>3. /\ uapi.cmdq[endpoint1] = <<>> /\ uapi.cq[endpoint1] = <<>> /\ uapi.runtime = <<>>
      /\ uapi.failures = <<>> /\ uapi.service = NoService
  BY <1>1, <1>2 DEF EmptySurface, NoService
<1>4. /\ e.cmdq_head = 0 /\ e.cmdq_tail = 0 /\ e.cq_head = 0 /\ e.cq_tail = 0 /\ p.next = 0
  BY DEF ResetEndpoint, FreshProbe
<1>5. E1 = e /\ seen[endpoint1] = E
  BY <1>1, <1>2 DEF E1
<1> HIDE DEF e, p
<1>6. Arrived = E
  <2>1. UnreadIn(e, p) = 0
    BY <1>4 DEF UnreadIn, Pending
  <2>2. ArrivedIn(e, p) = <<>>
    BY <2>1 DEF ArrivedIn
  <2> QED BY <1>2, <1>5, <2>2 DEF Arrived
<1>7. Ring = E
  <2>1. e \in Endpoint
    BY <1>1, <1>2, DevInitIs DEF DevInv, Inv, Types
  <2>2. Pending(e.cmdq_head, e.cmdq_tail, cmdq_depth) = 0
    BY <1>4 DEF Pending
  <2>3. Batch(e, 0) = Slots(e.cmdq, e.cmdq_head, 0, cmdq_depth)
    BY <2>1, <2>2, BatchSlots
  <2>4. Batch(e, 0) = <<>>
    BY <2>3 DEF Slots
  <2> QED BY <1>5, <2>4 DEF Ring
<1>8. \A id : Waiting(uapi, id) + Beyond(uapi, E, E, id) = 0
  BY <1>3, NothingAnywhere
<1>9. Counted(log, uapi, E, E, E, {}, boot)
  <2>1. ASSUME NEW id PROVE InAll(uapi, E, E, E, id) = 0
    BY <1>8, HitsEmpty DEF InAll
  <2>2. 1 .. boot.log = {} /\ boot.log + 1 .. Len(log) = {}
    BY <1>2
  <2> QED BY <1>8, <2>2 DEF Counted
<1>10. HandedAll(uapi, E, E, E, {}, {}, boot)
  BY <1>3 DEF HandedAll, Lined
<1>11. OneGuest(log, uapi)
  BY <1>2, <1>3 DEF OneGuest, AllOf
<1> QED BY <1>2, <1>3, <1>5, <1>6, <1>7, <1>9, <1>10, <1>11 DEF HandNow, Hand

\* The counts of the properties.
LEMMA CopiesAre ==
  ASSUME DevInv, HandNow, NEW id
  PROVE  /\ Copies(id) = Waiting(uapi, id) + Total(uapi, endpoint1, id)
         /\ Answers(id) = HitsIn(seen[endpoint1], IdEvents(id)) + HitsIn(Arrived, IdEvents(id))
<1>1. /\ E1 \in Endpoint /\ uapi \in Surface /\ uapi.failures = <<>>
      /\ seen[endpoint1] \in Seq(EventType) /\ probe \in Program /\ Reader(E1, probe)
      /\ endpoint1 \in Guests
  BY LinquUbAssumption DEF DevInv, Inv, Types, Between, E1
<1>2. /\ uapi.cmdq[endpoint1] \in Seq(Command) /\ uapi.cq[endpoint1] \in Seq(EventType)
      /\ uapi.runtime \in Seq(Entry)
  BY <1>1, SurfaceFields
<1>3. uapi.service["block"] = <<>> /\ uapi.service["shmem"] = <<>>
      /\ uapi.service["dfs"] = <<>> /\ uapi.service["db"] = <<>>
  BY DEF HandNow, Hand, NoService, Services
<1> DEFINE T == IdEvents(id)
           w == Waiting(uapi, id)
           r == HitsIn(uapi.runtime, IdEntries(id))
           c == HitsIn(uapi.cq[endpoint1], T)
<1>4. w \in Nat /\ r \in Nat /\ c \in Nat
  BY <1>1, <1>2, PlacesType, HitsType
<1>5. Total(uapi, endpoint1, id) = c + r
  <2>1. Settled(uapi, endpoint1, T) = c + 0 + 0 + 0 + 0 + 0
    BY <1>1, <1>3, HitsEmpty DEF Settled
  <2>2. Settled(uapi, endpoint1, T) = c
    BY <1>4, <2>1
  <2> QED BY <2>2 DEF Total
<1>6. Copies(id) = w + r + 0 + c
  <2>1. Count(uapi.cmdq[endpoint1], id) = w /\ Count(uapi.cq[endpoint1], id) = c
        /\ RuntimeCount(id) = r
    BY <1>2, CountIs DEF Waiting
  <2>2. Count(uapi.service["db"], id) = 0
    <3>1. <<>> \in Seq(EventType)
      OBVIOUS
    <3>2. Count(<<>>, id) = HitsIn(<<>>, T)
      BY <3>1, CountIs
    <3> QED BY <1>3, <3>2, HitsEmpty
  <2> QED BY <2>1, <2>2 DEF Copies
<1>7. InRing(id) = HitsIn(Arrived, T)
  <2> DEFINE n == UnreadIn(E1, probe)
             x(i) == E1.cq[(probe.next + i - 1) % cq_depth][1]
  <2>1. Arrived \in Seq(EventType) /\ Len(Arrived) = n /\ n \in Nat
    BY <1>1, ArrivedIs, CqFreeIs DEF ArrivedOK, Arrived, Reader
  <2>2. Arrived = [i \in 1 .. n |-> x(i)] /\ Unread = n
    BY DEF Arrived, ArrivedIn, Unread, UnreadIn
  <2> HIDE DEF n, x
  <2>3. \A i \in 1 .. n : Arrived[i] = x(i) /\ Arrived[i] \in EventType
    BY <2>1, <2>2, ElementOfSeq
  <2>4. {i \in 1 .. n : x(i).id = id} = {i \in DOMAIN Arrived : Arrived[i] \in T}
    <3>1. DOMAIN Arrived = 1 .. n
      BY <2>2
    <3>2. \A i \in 1 .. n : Arrived[i] \in T <=> x(i).id = id
      BY <2>3 DEF IdEvents
    <3> HIDE DEF T
    <3> QED BY <3>1, <3>2
  <2>5. InRing(id) = Cardinality({i \in 1 .. n : x(i).id = id})
    BY <2>2 DEF InRing, x
  <2> QED BY <2>4, <2>5 DEF HitsIn
<1>8. Count(seen[endpoint1], id) = HitsIn(seen[endpoint1], T)
  BY <1>1, CountIs
<1>9. Copies(id) = w + (c + r)
  <2> HIDE DEF w, r, c
  <2> QED BY <1>4, <1>6
<1> QED BY <1>5, <1>7, <1>8, <1>9 DEF Answers

\* The invariant of handing over holds.
THEOREM HandHolds == DevSpec => [](DevInv /\ HandNow)
<1>1. DevInit => DevInv /\ HandNow
  BY DevInitIs, HandInitIs
<1>2. DevInv /\ HandNow /\ [DevNext]_devVars => (DevInv /\ HandNow)'
  BY DevNextKeeps, HandNextKeeps
<1> QED BY <1>1, <1>2, PTL DEF DevSpec

\* A command reaches the surface once, with the kick it belongs to
\* (linqu_ub_kick submits the descriptors between CMDQ_HEAD and CMDQ_TAIL and
\* moves CMDQ_HEAD past them): it is submitted and answered at most once unless
\* a kick failed, it is not lost once CMDQ_HEAD has passed it, and no kick
\* leaves it behind in the queue of the surface, unless one failed or a reset
\* has left something there.
THEOREM HandedOver == DevSpec => []HandedOverOnce
<1>1. DevInv /\ HandNow => HandedOverOnce
  <2> SUFFICES ASSUME DevInv, HandNow PROVE HandedOverOnce
    OBVIOUS
  <2> DEFINE A == Arrived
             Z == seen[endpoint1]
             w(id) == Waiting(uapi, id)
             y(id) == Beyond(uapi, A, Z, id)
             r(id) == HitsIn(Ring, {id})
             c(id) == Copies(id) + Answers(id)
  <2>1. /\ A \in Seq(EventType) /\ Z \in Seq(EventType) /\ Ring \in Seq(0 .. Len(log))
        /\ Between(uapi)
    BY AroundIs DEF Around
  <2>2. uapi \in Surface
    BY <2>1 DEF Between
  <2>3. ASSUME NEW id PROVE w(id) \in Nat /\ y(id) \in Nat /\ r(id) \in Nat
    BY <2>1, <2>2, PlacesType, HitsType
  <2>4. ASSUME NEW id PROVE c(id) = w(id) + y(id)
    <3> DEFINE t == Total(uapi, endpoint1, id)
               a == HitsIn(A, IdEvents(id))
               z == HitsIn(Z, IdEvents(id))
    <3>1. t \in Nat /\ a \in Nat /\ z \in Nat /\ w(id) \in Nat
      BY <2>1, <2>2, PlacesType
    <3>2. Copies(id) = w(id) + t /\ Answers(id) = z + a
      BY CopiesAre
    <3>3. y(id) = t + a + z
      BY DEF Beyond
    <3> HIDE DEF t, a, z, w, y, A, Z
    <3> QED BY <3>1, <3>2, <3>3
  <2>5. Counted(log, uapi, A, Z, Ring, failed, boot)
        /\ HandedAll(uapi, A, Z, Ring, failed, passed, boot)
    BY DEF HandNow, Hand
  <2>6. AtMostOnce
    <3> SUFFICES ASSUME failed = {}, NEW id \in boot.log + 1 .. Len(log) PROVE c(id) <= 1
      BY DEF AtMostOnce
    <3>1. w(id) + y(id) + r(id) <= 1
      BY <2>5 DEF Counted, InAll
    <3>2. w(id) \in Nat /\ y(id) \in Nat /\ r(id) \in Nat /\ c(id) = w(id) + y(id)
      BY <2>3, <2>4
    <3> HIDE DEF w, y, r, c
    <3> QED BY <3>1, <3>2
  <2>7. NoneLost
    <3> SUFFICES ASSUME ~boot.dirty, NEW id \in passed PROVE c(id) >= 1
      BY DEF NoneLost
    <3>1. y(id) >= 1
      BY <2>5 DEF HandedAll
    <3>2. w(id) \in Nat /\ y(id) \in Nat /\ c(id) = w(id) + y(id)
      BY <2>3, <2>4
    <3> HIDE DEF w, y, c
    <3> QED BY <3>1, <3>2
  <2>8. NothingLeftBehind
    BY <2>5 DEF HandedAll, NothingLeftBehind
  <2> QED BY <2>6, <2>7, <2>8 DEF HandedOverOnce
<1> QED BY <1>1, HandHolds, PTL

\* The program reads no completion of a command from before a device reset
\* unless the reset (linqu_ub_reset empties the rings and leaves the surface
\* alone) left commands or completions in the surface.
THEOREM NoStaleAnswers == DevSpec => []StaleOnlyIfLeft
<1>1. DevInv /\ HandNow => StaleOnlyIfLeft
  <2> SUFFICES ASSUME DevInv, HandNow, NEW i \in DOMAIN seen[endpoint1],
                      seen[endpoint1][i].id <= boot.log, ~boot.dirty
               PROVE  FALSE
    BY DEF StaleOnlyIfLeft
  <2> DEFINE A == Arrived
             Z == seen[endpoint1]
             id == Z[i].id
             w == Waiting(uapi, id)
             t == Total(uapi, endpoint1, id)
             a == HitsIn(A, IdEvents(id))
             z == HitsIn(Z, IdEvents(id))
             r == HitsIn(Ring, {id})
  <2>1. /\ A \in Seq(EventType) /\ Z \in Seq(EventType) /\ Ring \in Seq(0 .. Len(log))
        /\ Between(uapi) /\ boot.log \in 0 .. Len(log) /\ log \in Seq(Command)
    BY AroundIs DEF Around
  <2>2. uapi \in Surface
    BY <2>1 DEF Between
  <2>3. w \in Nat /\ t \in Nat /\ a \in Nat /\ z \in Nat /\ r \in Nat
    BY <2>1, <2>2, PlacesType, HitsType
  <2>4. i \in 1 .. Len(Z) /\ Z[i] \in EventType
    BY <2>1, LenProperties, ElementOfSeq
  <2>5. id \in 1 .. boot.log
    <3>1. id \in 1 .. MaxCmds
      BY <2>4 DEF EventType
    <3> QED BY <2>1, <3>1
  <2>6. w + (t + a + z) + r = 0
    BY <2>5 DEF HandNow, Hand, Counted, InAll, Beyond
  <2>7. z = 0
    <3> HIDE DEF w, t, a, z, r
    <3> QED BY <2>3, <2>6
  <2>8. Z[i] \in IdEvents(id)
    BY <2>4 DEF IdEvents
  <2>9. z >= 1
    <3> HIDE DEF A
    <3> QED BY <2>1, <2>4, <2>8, HitsNone
  <2> QED BY <2>7, <2>9
<1> QED BY <1>1, HandHolds, PTL

-----------------------------------------------------------------------------
(* Reading in order: from the program to the device *)

\* From the end: what has been read, the completion ring, the completion
\* queue, the runtime queue, the command ring.
Row(z, a, c, r, q) == (((z \o a) \o c) \o r) \o q

SeqsOver(S, F) == F \subseteq Seq(S)

\* Joining sequences is associative.
LEMMA Joined ==
  ASSUME NEW S, NEW x, NEW y, NEW w, SeqsOver(S, {x, y, w})
  PROVE  /\ x \in Seq(S) /\ y \in Seq(S) /\ w \in Seq(S)
         /\ x \o y \in Seq(S)
         /\ (x \o y) \o w = x \o (y \o w)
<1>1. x \in Seq(S) /\ y \in Seq(S) /\ w \in Seq(S)
  BY DEF SeqsOver
<1>2. x \o y \in Seq(S)
  BY <1>1, ConcatProperties
<1>3. (x \o y) \o w = x \o (y \o w)
  BY <1>1, ConcatAssociative
<1> QED BY <1>1, <1>2, <1>3

\* What a row holds.
Holds(z, a, c, r, q) ==
  Range(Row(z, a, c, r, q)) = Range(z) \cup Range(a) \cup Range(c) \cup Range(r) \cup Range(q)

\* The parts of a row, and what it holds.
LEMMA RowType ==
  ASSUME NEW S, NEW z, NEW a, NEW c, NEW r, NEW q, SeqsOver(S, {z, a, c, r, q})
  PROVE  /\ z \o a \in Seq(S) /\ (z \o a) \o c \in Seq(S) /\ ((z \o a) \o c) \o r \in Seq(S)
         /\ Row(z, a, c, r, q) \in Seq(S)
         /\ Holds(z, a, c, r, q)
         /\ \A L : Rising(L, Row(z, a, c, r, q)) => Rising(L, z) /\ Rising(L, r)
<1> DEFINE x == z \o a
           y == x \o c
           w == y \o r
           v == w \o q
<1>1. /\ x \in Seq(S) /\ Range(x) = Range(z) \cup Range(a)
      /\ \A L : Rising(L, x) => Rising(L, z)
  <2>1. z \in Seq(S) /\ a \in Seq(S)
    BY DEF SeqsOver
  <2>2. x \in Seq(S)
    BY <2>1, ConcatProperties
  <2>3. /\ \A L : Rising(L, x) <=> Rising(L, z) /\ Rising(L, a) /\ Lead(L, Range(z), Range(a))
        /\ Range(x) = Range(z) \cup Range(a)
    BY <2>1, RisingConcat
  <2> QED BY <2>2, <2>3
<1> HIDE DEF x
<1>2. /\ y \in Seq(S) /\ Range(y) = Range(x) \cup Range(c)
      /\ \A L : Rising(L, y) => Rising(L, x)
  <2>1. x \in Seq(S) /\ c \in Seq(S)
    BY <1>1 DEF SeqsOver
  <2>2. y \in Seq(S)
    BY <2>1, ConcatProperties
  <2>3. /\ \A L : Rising(L, y) <=> Rising(L, x) /\ Rising(L, c) /\ Lead(L, Range(x), Range(c))
        /\ Range(y) = Range(x) \cup Range(c)
    BY <2>1, RisingConcat
  <2> QED BY <2>2, <2>3
<1> HIDE DEF y
<1>3. /\ w \in Seq(S) /\ Range(w) = Range(y) \cup Range(r)
      /\ \A L : Rising(L, w) => Rising(L, y) /\ Rising(L, r)
  <2>1. y \in Seq(S) /\ r \in Seq(S)
    BY <1>2 DEF SeqsOver
  <2>2. w \in Seq(S)
    BY <2>1, ConcatProperties
  <2>3. /\ \A L : Rising(L, w) <=> Rising(L, y) /\ Rising(L, r) /\ Lead(L, Range(y), Range(r))
        /\ Range(w) = Range(y) \cup Range(r)
    BY <2>1, RisingConcat
  <2> QED BY <2>2, <2>3
<1> HIDE DEF w
<1>4. v \in Seq(S) /\ Range(v) = Range(w) \cup Range(q) /\ \A L : Rising(L, v) => Rising(L, w)
  <2>1. w \in Seq(S) /\ q \in Seq(S)
    BY <1>3 DEF SeqsOver
  <2>2. v \in Seq(S)
    BY <2>1, ConcatProperties
  <2>3. /\ \A L : Rising(L, v) <=> Rising(L, w) /\ Rising(L, q) /\ Lead(L, Range(w), Range(q))
        /\ Range(v) = Range(w) \cup Range(q)
    BY <2>1, RisingConcat
  <2> QED BY <2>2, <2>3
<1> HIDE DEF v
<1>5. Row(z, a, c, r, q) = v
  BY DEF Row, v, w, y, x
<1>6. \A L : Rising(L, v) => Rising(L, z) /\ Rising(L, r)
  BY <1>1, <1>2, <1>3, <1>4
<1>7. Range(v) = Range(z) \cup Range(a) \cup Range(c) \cup Range(r) \cup Range(q)
  BY <1>1, <1>2, <1>3, <1>4
<1>8. z \o a \in Seq(S) /\ (z \o a) \o c \in Seq(S) /\ ((z \o a) \o c) \o r \in Seq(S)
  BY <1>1, <1>2, <1>3 DEF x, y, w
<1> QED BY <1>4, <1>5, <1>6, <1>7, <1>8 DEF Holds

\* Between two places next to one another the border may be moved: to what is read.
LEMMA RowReads ==
  ASSUME NEW S, NEW z, NEW a, NEW c, NEW r, NEW q, NEW f, SeqsOver(S, {z, a, c, r, q, f})
  PROVE  Row(z \o f, a, c, r, q) = Row(z, f \o a, c, r, q)
<1>1. (z \o f) \o a = z \o (f \o a)
  <2>1. SeqsOver(S, {z, f, a})
    BY DEF SeqsOver
  <2> QED BY <2>1, Joined
<1> QED BY <1>1 DEF Row

\* The same for what has arrived.
LEMMA RowTakes ==
  ASSUME NEW S, NEW z, NEW a, NEW c, NEW r, NEW q, NEW f, SeqsOver(S, {z, a, c, r, q, f})
  PROVE  Row(z, a \o f, c, r, q) = Row(z, a, f \o c, r, q)
<1>1. (z \o (a \o f)) \o c = (z \o a) \o (f \o c)
  <2> DEFINE x == z \o a
  <2>1. SeqsOver(S, {z, a, f})
    BY DEF SeqsOver
  <2>2. x \in Seq(S)
    BY <2>1, Joined
  <2>5. (z \o a) \o f = z \o (a \o f)
    BY <2>1, Joined
  <2> HIDE DEF x
  <2>3. SeqsOver(S, {x, f, c})
    BY <2>2 DEF SeqsOver
  <2>4. (x \o f) \o c = x \o (f \o c)
    BY <2>3, Joined
  <2> QED BY <2>4, <2>5 DEF x
<1> QED BY <1>1 DEF Row

\* The same for what the runtime has been given.
LEMMA RowRings ==
  ASSUME NEW S, NEW z, NEW a, NEW c, NEW r, NEW q, NEW f, SeqsOver(S, {z, a, c, r, q, f})
  PROVE  Row(z, a, c, r \o f, q) = Row(z, a, c, r, f \o q)
<1>1. (((z \o a) \o c) \o (r \o f)) \o q = (((z \o a) \o c) \o r) \o (f \o q)
  <2> DEFINE y == (z \o a) \o c
             w == y \o r
  <2>1. y \in Seq(S)
    <3>1. SeqsOver(S, {z, a, c, r, q})
      BY DEF SeqsOver
    <3> QED BY <3>1, RowType
  <2> HIDE DEF y
  <2>2. SeqsOver(S, {y, r, f})
    BY <2>1 DEF SeqsOver
  <2>3. w \in Seq(S)
    BY <2>2, Joined
  <2>7. w \o f = y \o (r \o f)
    BY <2>2, Joined
  <2> HIDE DEF w
  <2>4. SeqsOver(S, {w, f, q})
    BY <2>3 DEF SeqsOver
  <2>5. (w \o f) \o q = w \o (f \o q)
    BY <2>4, Joined
  <2>6. (y \o (r \o f)) \o q = w \o (f \o q)
    BY <2>5, <2>7
  <2> QED BY <2>6 DEF y, w
<1> QED BY <1>1 DEF Row

\* A flush.
LEMMA RowFlush ==
  ASSUME NEW L, NEW S, NEW z, NEW a, NEW c, NEW r, NEW q, NEW d,
         SeqsOver(S, {z, a, c, r, q, d}),
         Rising(L, Row(z, a, c, r, q)), Rising(L, d), Range(d) \subseteq Range(r)
  PROVE  /\ Rising(L, Row(z, a, c \o d, <<>>, q))
         /\ Range(Row(z, a, c \o d, <<>>, q)) \subseteq Range(Row(z, a, c, r, q))
<1> DEFINE x == z \o a
           y == x \o c
           e == c \o d
           E == <<>>
<1>0. SeqsOver(S, {z, a, c, r, q})
  BY DEF SeqsOver
<1>1. x \in Seq(S) /\ y \in Seq(S)
  BY <1>0, RowType
<1>2. e \in Seq(S) /\ Range(e) = Range(c) \cup Range(d)
  <2>1. c \in Seq(S) /\ d \in Seq(S)
    BY DEF SeqsOver
  <2>2. e \in Seq(S)
    BY <2>1, ConcatProperties
  <2>3. /\ Rising(L, e) <=> Rising(L, c) /\ Rising(L, d) /\ Lead(L, Range(c), Range(d))
        /\ Range(e) = Range(c) \cup Range(d)
    BY <2>1, RisingConcat, ZenonT(60)
  <2> QED BY <2>2, <2>3
<1>3. Rising(L, (y \o r) \o q)
  BY DEF Row
<1>4. x \o e = y \o d
  <2> HIDE DEF x
  <2>1. SeqsOver(S, {x, c, d})
    BY <1>1 DEF SeqsOver
  <2>2. (x \o c) \o d = x \o (c \o d)
    BY <2>1, Joined
  <2> QED BY <2>2
<1> HIDE DEF y
<1>5. Rising(L, (y \o d) \o q)
  <2>1. y \in Seq(S) /\ r \in Seq(S) /\ q \in Seq(S) /\ d \in Seq(S)
    BY <1>1 DEF SeqsOver
  <2> QED BY <1>3, <2>1, RisingMiddle
<1>6. (y \o d) \o E = y \o d
  <2> DEFINE w == y \o d
  <2>1. d \in Seq(S)
    BY DEF SeqsOver
  <2>2. w \in Seq(S)
    BY <1>1, <2>1, ConcatProperties
  <2> HIDE DEF w
  <2>3. w \o <<>> = w
    BY <2>2, ConcatEmptySeq
  <2> QED BY <2>3 DEF w
<1>7. E \in Seq(S) /\ Range(E) = {}
  BY DEF Range
<1> HIDE DEF E
<1>8. Row(z, a, e, E, q) = (y \o d) \o q
  BY <1>4, <1>6 DEF Row, x
<1> HIDE DEF e
<1>9. Holds(z, a, e, E, q)
  <2>1. SeqsOver(S, {z, a, e, E, q})
    BY <1>2, <1>7 DEF SeqsOver
  <2> QED BY <2>1, RowType
<1>10. Holds(z, a, c, r, q)
  BY <1>0, RowType
<1>11. Range(Row(z, a, e, E, q)) \subseteq Range(Row(z, a, c, r, q))
  BY <1>2, <1>7, <1>9, <1>10 DEF Holds
<1> QED BY <1>5, <1>8, <1>11 DEF e, E

\* One more in the command ring.
LEMMA RowAppend ==
  ASSUME NEW S, NEW z, NEW a, NEW c, NEW r, NEW q, SeqsOver(S, {z, a, c, r, q}), NEW e \in S
  PROVE  Row(z, a, c, r, Append(q, e)) = Append(Row(z, a, c, r, q), e)
<1> DEFINE w == ((z \o a) \o c) \o r
           y == <<e>>
<1>1. w \in Seq(S) /\ q \in Seq(S)
  BY RowType DEF SeqsOver
<1>2. y \in Seq(S)
  OBVIOUS
<1> HIDE DEF w
<1>3. SeqsOver(S, {w, q, y})
  BY <1>1, <1>2 DEF SeqsOver
<1>4. w \o q \in Seq(S)
  BY <1>3, Joined
<1>5. Append(w \o q, e) = (w \o q) \o y /\ Append(q, e) = q \o y
  BY <1>1, <1>4, AppendIsConcat
<1> HIDE DEF y
<1>6. (w \o q) \o y = w \o (q \o y)
  BY <1>3, Joined
<1>7. w \o Append(q, e) = Append(w \o q, e)
  BY <1>5, <1>6
<1> QED BY <1>7 DEF Row, w

\* The commands of the program, from the completions it has read to the command
\* ring.
Line(s, A, Z, R) == Row(Ids(Z), Ids(A), Ids(s.cq[endpoint1]), RunIds(s.runtime), R)

InLine(L, s, A, Z, R) ==
  /\ Logged(L, s.runtime)
  /\ Range(Line(s, A, Z, R)) \subseteq 0 .. Len(L)
  /\ Rising(L, Line(s, A, Z, R))

\* The places are sequences of numbers.
LEMMA LinePlaces ==
  ASSUME NEW s \in Surface, NEW A \in Seq(EventType), NEW Z \in Seq(EventType),
         NEW N \in Nat, NEW R \in Seq(0 .. N)
  PROVE  /\ SeqsOver(Nat, {Ids(Z), Ids(A), Ids(s.cq[endpoint1]), RunIds(s.runtime), R})
         /\ s.cq[endpoint1] \in Seq(EventType) /\ s.runtime \in Seq(Entry) /\ R \in Seq(Nat)
<1>1. s.cq[endpoint1] \in Seq(EventType) /\ s.runtime \in Seq(Entry)
  BY SurfaceFields, LinquUbAssumption
<1>2. \A q : q \in Seq(1 .. MaxCmds) => q \in Seq(Nat)
  <2>1. 1 .. MaxCmds \subseteq Nat
    OBVIOUS
  <2> QED BY <2>1, SeqMonotonic
<1>3. R \in Seq(Nat)
  <2>1. 0 .. N \subseteq Nat
    OBVIOUS
  <2> QED BY <2>1, SeqMonotonic
<1>4. Ids(Z) \in Seq(Nat) /\ Ids(A) \in Seq(Nat)
  BY <1>2, IdsAre
<1>5. Ids(s.cq[endpoint1]) \in Seq(Nat)
  BY <1>1, <1>2, IdsAre
<1>6. RunIds(s.runtime) \in Seq(Nat)
  BY <1>1, <1>2, RunIdsAre
<1> QED BY <1>1, <1>3, <1>4, <1>5, <1>6 DEF SeqsOver

\* A flush.
LEMMA LineFlush ==
  ASSUME NEW L, NEW s \in Surface, s.failures = <<>>, s.service = NoService,
         AllOf(s.runtime, endpoint1), NEW A \in Seq(EventType), NEW Z \in Seq(EventType),
         NEW N \in Nat, NEW R \in Seq(0 .. N), InLine(L, s, A, Z, R), Flushed(s).refused = {}
  PROVE  InLine(L, Flushed(s), A, Z, R)
<1> DEFINE t == Flushed(s)
           z == Ids(Z)
           a == Ids(A)
           c == Ids(s.cq[endpoint1])
           r == RunIds(s.runtime)
<1>1. /\ SeqsOver(Nat, {z, a, c, r, R}) /\ s.cq[endpoint1] \in Seq(EventType)
      /\ s.runtime \in Seq(Entry)
  BY LinePlaces
<1>2. Rising(L, Row(z, a, c, r, R)) /\ Range(Row(z, a, c, r, R)) \subseteq 0 .. Len(L)
      /\ Logged(L, s.runtime)
  BY DEF InLine, Line
<1>3. Rising(L, r)
  <2> HIDE DEF z, a, c, r
  <2> QED BY <1>1, <1>2, RowType
<1>4. Ordinary(L, s, endpoint1, t)
  BY <1>2, <1>3, FlushStreams, LinquUbAssumption
<1>5. t.runtime = <<>>
  BY FlushedIs
<1> HIDE DEF t
<1>6. PICK w \in Seq(EventType) : /\ t.cq[endpoint1] = s.cq[endpoint1] \o w
                                  /\ Rising(L, Ids(w))
                                  /\ Range(Ids(w)) \subseteq Range(r)
  BY <1>4 DEF Ordinary
<1> DEFINE d == Ids(w)
<1>7. Ids(t.cq[endpoint1]) = c \o d
  BY <1>1, <1>6, IdsConcat
<1>8. RunIds(t.runtime) = <<>>
  BY <1>5 DEF RunIds
<1>9. d \in Seq(Nat)
  <2>1. 1 .. MaxCmds \subseteq Nat
    OBVIOUS
  <2>2. d \in Seq(1 .. MaxCmds)
    BY IdsAre
  <2> QED BY <2>1, <2>2, SeqMonotonic
<1>10. Line(t, A, Z, R) = Row(z, a, c \o d, <<>>, R)
  BY <1>7, <1>8 DEF Line
<1>11. Logged(L, t.runtime)
  BY <1>5 DEF Logged
<1>12. Rising(L, d) /\ Range(d) \subseteq Range(r)
  BY <1>6
<1> HIDE DEF z, a, c, r, d
<1>13. SeqsOver(Nat, {z, a, c, r, R, d})
  BY <1>1, <1>9 DEF SeqsOver
<1>14. /\ Rising(L, Row(z, a, c \o d, <<>>, R))
       /\ Range(Row(z, a, c \o d, <<>>, R)) \subseteq Range(Row(z, a, c, r, R))
  BY <1>2, <1>12, <1>13, RowFlush
<1>15. InLine(L, t, A, Z, R)
  BY <1>2, <1>10, <1>11, <1>14 DEF InLine
<1> QED BY <1>15 DEF t

\* The first n of a queue of completions and the others.
LEMMA IdsSplit ==
  ASSUME NEW q \in Seq(EventType), NEW n \in 0 .. Len(q)
  PROVE  /\ SubSeq(q, 1, n) \in Seq(EventType) /\ SubSeq(q, n + 1, Len(q)) \in Seq(EventType)
         /\ Ids(q) = Ids(SubSeq(q, 1, n)) \o Ids(SubSeq(q, n + 1, Len(q)))
<1> DEFINE f == SubSeq(q, 1, n)
           b == SubSeq(q, n + 1, Len(q))
<1>1. f \in Seq(EventType) /\ b \in Seq(EventType)
  BY HitsSplit
<1>2. q = f \o b
  <2>1. n \in 1 - 1 .. Len(q) /\ Len(q) \in n .. Len(q) /\ 1 \in 1 .. Len(q) + 1
    BY LenProperties
  <2>2. f \o b = SubSeq(q, 1, Len(q))
    BY <2>1, ConcatAdjacentSubSeq, Zenon
  <2> QED BY <2>2, SubSeqFull
<1> HIDE DEF f, b
<1>3. Ids(f \o b) = Ids(f) \o Ids(b)
  BY <1>1, IdsConcat
<1> QED BY <1>1, <1>2, <1>3 DEF f, b

\* Completions are copied into the completion ring.
LEMMA LineTake ==
  ASSUME NEW L, NEW s \in Surface, NEW A \in Seq(EventType), NEW Z \in Seq(EventType),
         NEW N \in Nat, NEW R \in Seq(0 .. N), InLine(L, s, A, Z, R),
         NEW m, NEW t, Takes(s, endpoint1, m, t)
  PROVE  InLine(L, t, A \o SubSeq(s.cq[endpoint1], 1, m), Z, R)
<1> DEFINE q == s.cq[endpoint1]
           f == SubSeq(q, 1, m)
           b == SubSeq(q, m + 1, Len(q))
           z == Ids(Z)
           a == Ids(A)
           r == RunIds(s.runtime)
<1>1. /\ SeqsOver(Nat, {z, a, Ids(q), r, R}) /\ q \in Seq(EventType)
  BY LinePlaces
<1>2. m \in 0 .. Len(q) /\ t.cq = [s.cq EXCEPT ![endpoint1] = b] /\ t.runtime = s.runtime
      /\ s.cq \in [Guests -> Seq(EventType)] /\ endpoint1 \in Guests
  BY SurfaceFields, LinquUbAssumption DEF Takes
<1> HIDE DEF q
<1>3. f \in Seq(EventType) /\ b \in Seq(EventType) /\ Ids(q) = Ids(f) \o Ids(b)
  BY <1>1, <1>2, IdsSplit
<1> HIDE DEF f, b
<1>4. t.cq[endpoint1] = b
  BY <1>2
<1>5. Ids(A \o f) = a \o Ids(f)
  BY <1>3, IdsConcat
<1>6. SeqsOver(Nat, {z, a, Ids(b), r, R, Ids(f)})
  <2>1. 1 .. MaxCmds \subseteq Nat
    OBVIOUS
  <2>2. Ids(f) \in Seq(1 .. MaxCmds) /\ Ids(b) \in Seq(1 .. MaxCmds)
    BY <1>3, IdsAre
  <2>3. Ids(f) \in Seq(Nat) /\ Ids(b) \in Seq(Nat)
    BY <2>1, <2>2, SeqMonotonic
  <2> QED BY <1>1, <2>3 DEF SeqsOver
<1>7. Line(t, A \o f, Z, R) = Row(z, a \o Ids(f), Ids(b), r, R)
  BY <1>2, <1>4, <1>5 DEF Line
<1>8. Line(s, A, Z, R) = Row(z, a, Ids(f) \o Ids(b), r, R)
  BY <1>3 DEF Line, q
<1> HIDE DEF z, a, r
<1>9. Row(z, a \o Ids(f), Ids(b), r, R) = Row(z, a, Ids(f) \o Ids(b), r, R)
  <2> DEFINE i == Ids(f)
             j == Ids(b)
  <2>1. SeqsOver(Nat, {z, a, j, r, R, i})
    BY <1>6
  <2> HIDE DEF i, j
  <2>2. Row(z, a \o i, j, r, R) = Row(z, a, i \o j, r, R)
    BY <2>1, RowTakes
  <2> QED BY <2>2 DEF i, j
<1>10. InLine(L, t, A \o f, Z, R)
  BY <1>2, <1>7, <1>8, <1>9 DEF InLine
<1> QED BY <1>10 DEF f, q

\* Completions are read.
LEMMA LineRead ==
  ASSUME NEW L, NEW s \in Surface, NEW A \in Seq(EventType), NEW Z \in Seq(EventType),
         NEW N \in Nat, NEW R \in Seq(0 .. N), InLine(L, s, A, Z, R), NEW n \in 0 .. Len(A)
  PROVE  InLine(L, s, SubSeq(A, n + 1, Len(A)), Z \o SubSeq(A, 1, n), R)
<1> DEFINE f == SubSeq(A, 1, n)
           b == SubSeq(A, n + 1, Len(A))
           z == Ids(Z)
           c == Ids(s.cq[endpoint1])
           r == RunIds(s.runtime)
<1>1. SeqsOver(Nat, {z, Ids(A), c, r, R})
  BY LinePlaces
<1>2. f \in Seq(EventType) /\ b \in Seq(EventType) /\ Ids(A) = Ids(f) \o Ids(b)
  BY IdsSplit
<1> HIDE DEF f, b
<1>3. Ids(Z \o f) = z \o Ids(f)
  BY <1>2, IdsConcat
<1>4. SeqsOver(Nat, {z, Ids(b), c, r, R, Ids(f)})
  <2>1. 1 .. MaxCmds \subseteq Nat
    OBVIOUS
  <2>2. Ids(f) \in Seq(1 .. MaxCmds) /\ Ids(b) \in Seq(1 .. MaxCmds)
    BY <1>2, IdsAre
  <2>3. Ids(f) \in Seq(Nat) /\ Ids(b) \in Seq(Nat)
    BY <2>1, <2>2, SeqMonotonic
  <2> QED BY <1>1, <2>3 DEF SeqsOver
<1>5. Line(s, b, Z \o f, R) = Row(z \o Ids(f), Ids(b), c, r, R)
  BY <1>3 DEF Line
<1>6. Line(s, A, Z, R) = Row(z, Ids(f) \o Ids(b), c, r, R)
  BY <1>2 DEF Line
<1> HIDE DEF z, c, r
<1>7. Row(z \o Ids(f), Ids(b), c, r, R) = Row(z, Ids(f) \o Ids(b), c, r, R)
  <2> DEFINE i == Ids(f)
             j == Ids(b)
  <2>1. SeqsOver(Nat, {z, j, c, r, R, i})
    BY <1>4
  <2> HIDE DEF i, j
  <2>2. Row(z \o i, j, c, r, R) = Row(z, i \o j, c, r, R)
    BY <2>1, RowReads
  <2> QED BY <2>2 DEF i, j
<1>8. InLine(L, s, b, Z \o f, R)
  BY <1>5, <1>6, <1>7 DEF InLine
<1> QED BY <1>8 DEF f, b

\* Numbers of runtime queues that are joined.
LEMMA RunIdsConcat ==
  ASSUME NEW q \in Seq(Entry), NEW r \in Seq(Entry)
  PROVE  RunIds(q \o r) = RunIds(q) \o RunIds(r)
<1> DEFINE c == q \o r
           a == RunIds(q)
           b == RunIds(r)
           x == a \o b
           m == Len(q)
           n == Len(r)
<1>1. /\ a \in Seq(1 .. MaxCmds) /\ Len(a) = m /\ m \in Nat
      /\ \A i \in 1 .. m : a[i] = q[i].cmd.id
  BY RunIdsAre, LenProperties
<1>2. /\ b \in Seq(1 .. MaxCmds) /\ Len(b) = n /\ n \in Nat
      /\ \A i \in 1 .. n : b[i] = r[i].cmd.id
  BY RunIdsAre, LenProperties
<1>3. /\ c \in Seq(Entry) /\ Len(c) = m + n
      /\ \A i \in 1 .. m + n : c[i] = IF i <= m THEN q[i] ELSE r[i - m]
  BY ConcatProperties
<1> HIDE DEF a, b, m, n
<1>4. /\ x \in Seq(1 .. MaxCmds) /\ Len(x) = m + n
      /\ \A i \in 1 .. m + n : x[i] = IF i <= m THEN a[i] ELSE b[i - m]
  <2>1. /\ x \in Seq(1 .. MaxCmds) /\ Len(x) = Len(a) + Len(b)
        /\ \A i \in 1 .. Len(a) + Len(b) : x[i] = IF i <= Len(a) THEN a[i] ELSE b[i - Len(a)]
    BY <1>1, <1>2, ConcatProperties
  <2> QED BY <1>1, <1>2, <2>1
<1> HIDE DEF c, x
<1>5. /\ RunIds(c) \in Seq(1 .. MaxCmds) /\ Len(RunIds(c)) = m + n
      /\ \A i \in 1 .. m + n : RunIds(c)[i] = c[i].cmd.id
  BY <1>3, RunIdsAre
<1>6. ASSUME NEW i \in 1 .. m + n PROVE RunIds(c)[i] = x[i]
  <2>1. RunIds(c)[i] = c[i].cmd.id
    BY <1>5
  <2>2. CASE i <= m
    <3>1. i \in 1 .. m /\ c[i] = q[i] /\ x[i] = a[i]
      BY <1>1, <1>3, <1>4, <2>2
    <3> QED BY <1>1, <2>1, <3>1
  <2>3. CASE ~(i <= m)
    <3>1. i - m \in 1 .. n /\ c[i] = r[i - m] /\ x[i] = b[i - m]
      BY <1>1, <1>2, <1>3, <1>4, <2>3
    <3> QED BY <1>2, <2>1, <3>1
  <2> QED BY <2>2, <2>3
<1>7. RunIds(c) = x
  BY <1>4, <1>5, <1>6, SeqEqual
<1> QED BY <1>7 DEF c, x, a, b

\* A doorbell: what the ring began with is behind the runtime queue.
LEMMA LineRing ==
  ASSUME log \in Seq(Command), Numbered(log), uapi \in Surface, uapi.cmdq[endpoint1] = <<>>,
         NEW A \in Seq(EventType), NEW Z \in Seq(EventType), NEW ids, NEW R, Part(ids, R),
         InLine(log, uapi, A, Z, R), NEW x, Gives(uapi, endpoint1, ids, Len(ids), x),
         NEW y, Rings(x, endpoint1, Len(ids), Len(ids), y)
  PROVE  InLine(log, y, A, Z, Rest(ids, R))
<1> DEFINE n == Len(ids)
           q == Cmds(ids, n)
           F == Fresh(q, n)
           r == uapi.runtime
           Q == Rest(ids, R)
<1>1. /\ ids \in Seq(0 .. Len(log)) /\ R \in Seq(0 .. Len(log)) /\ n \in 0 .. Len(R)
      /\ ids = SubSeq(R, 1, n) /\ n \in Nat /\ Len(log) \in Nat
  BY LenProperties DEF Part
<1>2. /\ \A i \in 1 .. n : ids[i] # 0
      /\ x.cmdq = [uapi.cmdq EXCEPT ![endpoint1] = uapi.cmdq[endpoint1] \o q]
      /\ x.runtime = r /\ x.cq = uapi.cq
  BY DEF Gives
<1>3. /\ q \in Seq(Command) /\ Len(q) = n
      /\ \A i \in 1 .. n : q[i] = log[ids[i]] /\ log[ids[i]] \in Command
  <2>1. n \in 0 .. Len(ids) /\ ids \in Seq(0 .. Len(log)) /\ log \in Seq(Command)
    BY <1>1
  <2>2. \A i \in 1 .. n : ids[i] # 0
    BY <1>2
  <2> HIDE DEF n
  <2>3. /\ Cmds(ids, n) \in Seq(Command) /\ Len(Cmds(ids, n)) = n
        /\ \A i \in 1 .. n : Cmds(ids, n)[i] = log[ids[i]] /\ log[ids[i]] \in Command
    BY <2>1, <2>2, CmdsType
  <2> QED BY <2>3
<1> HIDE DEF q
<1>4. x.cmdq[endpoint1] = q
  <2>1. uapi.cmdq \in [Guests -> Seq(Command)] /\ endpoint1 \in Guests
    BY SurfaceFields, LinquUbAssumption
  <2>2. <<>> \o q = q
    BY <1>3, ConcatEmptySeq
  <2> QED BY <1>2, <2>1, <2>2
<1>5. y.runtime = r \o F /\ y.cq = uapi.cq
  BY <1>2, <1>4 DEF Rings
<1>6. F \in Seq(Entry) /\ Len(F) = n /\ \A i \in 1 .. n : F[i].cmd = q[i]
  <2>1. n \in 0 .. Len(q)
    BY <1>1, <1>3
  <2> QED BY <1>3, <2>1, FreshIs
<1> HIDE DEF F, n
<1>7. \A i \in 1 .. n : ids[i] \in 1 .. Len(log) /\ F[i].cmd = log[ids[i]] /\ F[i].cmd.id = ids[i]
  <2> SUFFICES ASSUME NEW i \in 1 .. n
               PROVE  /\ ids[i] \in 1 .. Len(log) /\ F[i].cmd = log[ids[i]]
                      /\ F[i].cmd.id = ids[i]
    OBVIOUS
  <2>1. ids[i] \in 0 .. Len(log)
    BY <1>1, ElementOfSeq DEF n
  <2>2. ids[i] \in 1 .. Len(log)
    BY <1>1, <1>2, <2>1
  <2>3. log[ids[i]].id = ids[i]
    BY <2>2 DEF Numbered
  <2> QED BY <1>3, <1>6, <2>2, <2>3
<1>8. RunIds(F) = ids
  <2> DEFINE w == RunIds(F)
  <2>1. w \in Seq(1 .. MaxCmds) /\ Len(w) = n /\ \A i \in 1 .. n : w[i] = F[i].cmd.id
    BY <1>6, RunIdsAre
  <2> HIDE DEF w
  <2>2. \A i \in 1 .. n : w[i] = ids[i]
    BY <1>7, <2>1
  <2>3. w = ids
    BY <1>1, <2>1, <2>2, SeqEqual DEF n
  <2> QED BY <2>3 DEF w
<1>9. r \in Seq(Entry)
  BY SurfaceFields
<1> HIDE DEF r
<1>10. RunIds(r \o F) = RunIds(r) \o ids
  <2>1. RunIds(r \o F) = RunIds(r) \o RunIds(F)
    BY <1>6, <1>9, RunIdsConcat
  <2> QED BY <1>8, <2>1
<1>11. R = ids \o Q /\ Q \in Seq(0 .. Len(log))
  <2> DEFINE S == 0 .. Len(log)
  <2>1. R \in Seq(S) /\ n \in 0 .. Len(R) /\ Len(R) \in Nat
    BY <1>1, LenProperties
  <2> HIDE DEF S
  <2>2. n \in 1 - 1 .. Len(R) /\ Len(R) \in n .. Len(R) /\ 1 \in 1 .. Len(R) + 1
    BY <2>1
  <2>3. SubSeq(R, 1, n) \o SubSeq(R, n + 1, Len(R)) = SubSeq(R, 1, Len(R))
    BY <2>1, <2>2, ConcatAdjacentSubSeq, Zenon
  <2>4. SubSeq(R, 1, Len(R)) = R
    BY <2>1, SubSeqFull
  <2>5. SubSeq(R, n + 1, Len(R)) \in Seq(S)
    BY <2>1, HitsSplit
  <2> QED BY <1>1, <2>3, <2>4, <2>5 DEF Rest, n, S
<1> DEFINE z == Ids(Z)
           a == Ids(A)
           c == Ids(uapi.cq[endpoint1])
           s == RunIds(r)
<1>12. SeqsOver(Nat, {z, a, c, s, R})
  BY <1>1, LinePlaces DEF r
<1>13. Q \in Seq(Nat) /\ ids \in Seq(Nat)
  <2>1. 0 .. Len(log) \subseteq Nat
    OBVIOUS
  <2> QED BY <1>1, <1>11, <2>1, SeqMonotonic
<1>14. Line(y, A, Z, Q) = Row(z, a, c, s \o ids, Q)
  BY <1>5, <1>10 DEF Line
<1>15. Line(uapi, A, Z, R) = Row(z, a, c, s, ids \o Q)
  BY <1>11 DEF Line, r
<1> HIDE DEF z, a, c, s, Q
<1>16. Row(z, a, c, s \o ids, Q) = Row(z, a, c, s, ids \o Q)
  <2>1. SeqsOver(Nat, {z, a, c, s, Q, ids})
    BY <1>12, <1>13 DEF SeqsOver
  <2> QED BY <2>1, RowRings
<1>17. Logged(log, y.runtime)
  <2> DEFINE w == r \o F
  <2>1. \A i \in 1 .. Len(r) : r[i].cmd.id \in 1 .. Len(log) /\ log[r[i].cmd.id] = r[i].cmd
    BY DEF InLine, Logged, r
  <2>2. /\ Len(w) = Len(r) + n /\ Len(r) \in Nat
        /\ \A i \in 1 .. Len(r) + n : w[i] = IF i <= Len(r) THEN r[i] ELSE F[i - Len(r)]
    BY <1>6, <1>9, ConcatProperties, LenProperties
  <2> HIDE DEF w
  <2>3. ASSUME NEW i \in 1 .. Len(w)
        PROVE  w[i].cmd.id \in 1 .. Len(log) /\ log[w[i].cmd.id] = w[i].cmd
    <3>1. CASE i <= Len(r)
      <4>1. i \in 1 .. Len(r) /\ w[i] = r[i]
        BY <1>1, <2>2, <3>1 DEF n
      <4> QED BY <2>1, <4>1
    <3>2. CASE ~(i <= Len(r))
      <4>1. i - Len(r) \in 1 .. n /\ w[i] = F[i - Len(r)]
        BY <1>1, <2>2, <3>2 DEF n
      <4> QED BY <1>7, <4>1
    <3> QED BY <3>1, <3>2
  <2>4. Logged(log, w)
    BY <2>3 DEF Logged
  <2> QED BY <1>5, <2>4 DEF w
<1>18. InLine(log, y, A, Z, Q)
  BY <1>14, <1>15, <1>16, <1>17 DEF InLine
<1> QED BY <1>18 DEF Q

\* A kick that succeeds on a surface whose command queue is empty.
LEMMA LineOk ==
  ASSUME NEW A, NEW Z, NEW R, NEW P, NEW b, Around(A, Z, R, P, b),
         OneGuest(log, uapi), uapi.service = NoService, uapi.cmdq[endpoint1] = <<>>,
         InLine(log, uapi, A, Z, R),
         NEW e, NEW ids, Part(ids, R), NEW k, NEW x, NEW y, NEW z, NEW m,
         Hands(endpoint1, e, ids, k, x, y, z, m), k.uapi.refused = {}
  PROVE  InLine(log, k.uapi, A \o SubSeq(z.cq[endpoint1], 1, m), Z, Rest(ids, R))
<1> DEFINE Q == Rest(ids, R)
           v == k.uapi
           N == Len(log)
<1>1. /\ log \in Seq(Command) /\ Numbered(log) /\ Between(uapi) /\ uapi \in Surface
      /\ A \in Seq(EventType) /\ Z \in Seq(EventType)
  BY DEF Around, Between
<1>2. /\ Gives(uapi, endpoint1, ids, Len(ids), x) /\ Rings(x, endpoint1, Len(ids), Len(ids), y)
      /\ Between(y) /\ Between(z) /\ (z = y \/ z = Flushed(y)) /\ Takes(z, endpoint1, m, v)
  BY DEF Hands
<1>3. /\ x \in Surface /\ y \in Surface /\ z \in Surface /\ y.failures = <<>>
      /\ v.refused = z.refused /\ y.service = x.service /\ x.service = uapi.service
  BY <1>2 DEF Gives, Between, Takes, Rings
<1>4. InLine(log, y, A, Z, Q)
  BY <1>1, <1>2, LineRing
<1>5. AllOf(y.runtime, endpoint1)
  <2>1. ids \in Seq(0 .. Len(log))
    BY DEF Part
  <2>2. OneGuest(log, x)
    BY <1>1, <1>2, <2>1, GivesGuest
  <2>3. OneGuest(log, y)
    BY <1>2, <1>3, <2>2, RingsGuest
  <2> QED BY <2>3 DEF OneGuest
<1>6. N \in Nat /\ Q \in Seq(0 .. N)
  <2>1. R \in Seq(0 .. N) /\ Len(ids) \in 0 .. Len(R)
    BY DEF Part
  <2> DEFINE S == 0 .. N
  <2>2. R \in Seq(S)
    BY <2>1
  <2> HIDE DEF S
  <2>3. SubSeq(R, Len(ids) + 1, Len(R)) \in Seq(S)
    BY <2>1, <2>2, HitsSplit
  <2> QED BY <1>1, <2>3, LenProperties DEF Rest, S
<1> HIDE DEF Q, N, v
<1>7. InLine(log, z, A, Z, Q)
  <2>1. CASE z = y
    BY <1>4, <2>1
  <2>2. CASE z = Flushed(y)
    <3>1. y.service = NoService
      BY <1>3
    <3>2. Flushed(y).refused = {}
      BY <1>3, <2>2 DEF v
    <3>3. InLine(log, Flushed(y), A, Z, Q)
      BY <1>1, <1>3, <1>4, <1>5, <1>6, <3>1, <3>2, LineFlush
    <3> QED BY <2>2, <3>3
  <2> QED BY <1>2, <2>1, <2>2
<1>8. InLine(log, v, A \o SubSeq(z.cq[endpoint1], 1, m), Z, Q)
  BY <1>1, <1>2, <1>3, <1>6, <1>7, LineTake
<1> QED BY <1>8 DEF v, Q

\* The surface refuses no less than before.
LEMMA RefusedStays ==
  ASSUME Between(uapi), NEW e, NEW ids, NEW k, NEW x, NEW y, NEW z, NEW m,
         Hands(endpoint1, e, ids, k, x, y, z, m), k.uapi.refused = {}
  PROVE  uapi.refused = {}
<1>1. /\ Gives(uapi, endpoint1, ids, Len(ids), x) /\ Rings(x, endpoint1, Len(ids), Len(ids), y)
      /\ Between(y) /\ Between(z) /\ (z = y \/ z = Flushed(y)) /\ Takes(z, endpoint1, m, k.uapi)
  BY DEF Hands
<1>2. /\ y.refused = uapi.refused /\ y \in Surface /\ y.failures = <<>> /\ z.refused = {}
  BY <1>1 DEF Gives, Rings, Between, Takes
<1>3. CASE z = y
  BY <1>2, <1>3
<1>4. CASE z = Flushed(y)
  <2>1. Keeps(y, z)
    BY <1>2, <1>4, FlushedIs
  <2>2. y.refused \subseteq z.refused
    BY <2>1 DEF Keeps
  <2> QED BY <1>2, <2>2
<1> QED BY <1>1, <1>3, <1>4

\* Commands of a log that has grown go the way they went.
LEMMA RisingGrown ==
  ASSUME NEW L, NEW c, NEW M, Grown(L, c, M), NEW q \in Seq(Nat),
         Range(q) \subseteq 0 .. Len(L), Rising(L, q)
  PROVE  Rising(M, q)
<1>1. \A i \in 1 .. Len(L) : M[i] = L[i]
  BY DEF Grown
<1>2. ASSUME NEW i \in DOMAIN q PROVE q[i] \in 0 .. Len(L) /\ q[i] \in Nat
  BY <1>2 DEF Range
<1>3. ASSUME NEW i \in DOMAIN q, q[i] # 0 PROVE M[q[i]] = L[q[i]]
  <2>1. q[i] \in 0 .. Len(L) /\ q[i] \in Nat
    BY <1>2
  <2>2. Len(L) \in Nat
    BY DEF Grown
  <2>3. q[i] \in 1 .. Len(L)
    BY <1>3, <2>1, <2>2
  <2> QED BY <1>1, <2>3
<1>4. ASSUME NEW i \in DOMAIN q, NEW j \in DOMAIN q, Alike(M, q[i], q[j])
      PROVE  Alike(L, q[i], q[j])
  <2>1. q[i] # 0 /\ q[j] # 0
    BY <1>4 DEF Alike
  <2>2. M[q[i]] = L[q[i]] /\ M[q[j]] = L[q[j]]
    BY <1>3, <2>1
  <2> QED BY <1>4, <2>2 DEF Alike
<1> QED BY <1>4 DEF Rising

\* A descriptor is put at the end of the command ring.
LEMMA LineFilled ==
  ASSUME log \in Seq(Command), NEW s \in Surface, NEW A \in Seq(EventType),
         NEW Z \in Seq(EventType), NEW R \in Seq(0 .. Len(log)), InLine(log, s, A, Z, R),
         NEW id, NEW L, Issues(id, L)
  PROVE  InLine(L, s, A, Z, Append(R, id))
<1> DEFINE l == Line(s, A, Z, R)
           N == Len(log)
           z == Ids(Z)
           a == Ids(A)
           c == Ids(s.cq[endpoint1])
           r == RunIds(s.runtime)
<1>1. N \in Nat
  BY LenProperties
<1>2. SeqsOver(Nat, {z, a, c, r, R})
  BY <1>1, LinePlaces
<1>3. Logged(log, s.runtime) /\ Range(l) \subseteq 0 .. N /\ Rising(log, l)
  BY DEF InLine
<1>4. id \in Nat
  BY DEF Issues, Grown
<1>5. Line(s, A, Z, Append(R, id)) = Append(l, id) /\ l \in Seq(Nat)
  <2>1. l = Row(z, a, c, r, R) /\ Line(s, A, Z, Append(R, id)) = Row(z, a, c, r, Append(R, id))
    BY DEF Line
  <2> HIDE DEF l, z, a, c, r
  <2>2. Row(z, a, c, r, Append(R, id)) = Append(Row(z, a, c, r, R), id)
    BY <1>2, <1>4, RowAppend
  <2>3. Row(z, a, c, r, R) \in Seq(Nat)
    BY <1>2, RowType
  <2> QED BY <2>1, <2>2, <2>3
<1> HIDE DEF l
<1>6. Range(Append(l, id)) = Range(l) \cup {id}
  <2>1. /\ Range(Append(l, id)) = Range(l) \cup {id}
        /\ Rising(log, Append(l, id)) <=>
             Rising(log, l) /\ (\A w \in Range(l) : Alike(log, w, id) => w < id)
    BY <1>4, <1>5, RisingAppend
  <2> QED BY <2>1
<1>7. CASE L = log /\ id = 0
  <2>1. Rising(log, Append(l, id))
    <3>1. \A d \in Range(l) : Alike(log, d, id) => d < id
      BY <1>7 DEF Alike
    <3> QED BY <1>3, <1>4, <1>5, <3>1, RisingAppend
  <2>2. Range(l) \cup {id} \subseteq 0 .. N
    BY <1>1, <1>3, <1>7
  <2> QED BY <1>3, <1>5, <1>6, <1>7, <2>1, <2>2 DEF InLine
<1>8. ASSUME NEW d \in Command, Grown(log, d, L), id = d.id PROVE InLine(L, s, A, Z, Append(R, id))
  <2>1. id = N + 1 /\ Len(L) = N + 1
    BY <1>8 DEF Grown
  <2>2. Rising(L, l)
    BY <1>3, <1>5, <1>8, RisingGrown
  <2>3. Rising(L, Append(l, id))
    <3>1. \A w \in Range(l) : Alike(L, w, id) => w < id
      <4>1. ASSUME NEW w \in Range(l) PROVE w < id
        <5>1. w \in 0 .. N
          BY <1>3
        <5> HIDE DEF N
        <5> QED BY <1>1, <2>1, <5>1
      <4> QED BY <4>1
    <3> QED BY <1>4, <1>5, <2>2, <3>1, RisingAppend
  <2>4. Range(l) \cup {id} \subseteq 0 .. Len(L)
    <3> HIDE DEF N
    <3> QED BY <1>1, <1>3, <2>1
  <2>5. Logged(L, s.runtime)
    <3>1. \A i \in 1 .. Len(log) : L[i] = log[i] /\ i \in 1 .. Len(L)
      BY <1>8 DEF Grown
    <3> QED BY <1>3, <3>1 DEF Logged
  <2> QED BY <1>5, <1>6, <2>3, <2>4, <2>5 DEF InLine
<1> QED BY <1>7, <1>8 DEF Issues

-----------------------------------------------------------------------------
(* The order of completions: the invariant *)

\* As long as no kick has failed, no completion has been refused and nothing
\* was left at the reset, the commands stand in line: those that go the same way
\* in the order of their numbers, from what the program has read to what the
\* device has not.
Ordered(L, s, A, Z, R, F, b) ==
  F = {} /\ ~b.dirty /\ s.refused = {} => InLine(L, s, A, Z, R)

OrderNow == Ordered(log, uapi, Arrived, seen[endpoint1], Ring, failed, boot)

OrderAfter ==
  Ordered(log', uapi', ArrivedIn(ep'[endpoint1], probe'), seen'[endpoint1],
          Batch(ep'[endpoint1], 0), failed', boot')

\* The doorbell is rung.
LEMMA DoorbellOrders ==
  ASSUME DevInv, HandNow, OrderNow, NEW batch \in Batches0, NEW wait \in BOOLEAN,
         Doorbell(batch, wait)
  PROVE  OrderAfter
<1> DEFINE k == kick(endpoint1, E1, batch)
           ids == Batch(E1, batch)
           p == IF wait THEN [probe EXCEPT !.pc = "polling"] ELSE probe
           A == Arrived
           Z == seen[endpoint1]
<1>1. /\ E1 \in Endpoint /\ log \in Seq(Command) /\ Between(uapi)
      /\ ep \in [Guests -> Endpoint] /\ probe \in Program /\ Reader(E1, probe)
      /\ endpoint1 \in Guests
  BY LinquUbAssumption DEF DevInv, Inv, Types, E1
<1>2. /\ Updates(k.ep) /\ uapi' = k.uapi /\ probe' = p
      /\ failed' = failed \cup ({k.rc} \ {"ok"})
      /\ log' = log /\ seen' = seen /\ boot' = boot
  BY DEF Doorbell
<1>3. /\ KickSubmit(endpoint1, E1, ids, k)
         \/ KickDoorbell(endpoint1, E1, ids, k)
         \/ KickOk(endpoint1, E1, ids, k)
      /\ ids \in Seq(0 .. Len(log)) /\ Len(ids) <= cmdq_depth
  BY BatchType, KickIs
<1>4. Around(A, Z, Ring, passed, boot) /\ Part(ids, Ring)
  BY AroundIs
<1>5. Hand(log, uapi, A, Z, Ring, failed, passed, boot)
  BY DEF HandNow
<1>6. p \in Program /\ p.next = probe.next
  BY <1>1 DEF Program
<1>7. ep'[endpoint1] = k.ep
  BY <1>1, <1>2 DEF Updates
<1>8. Batch(E1, 0) = Ring /\ ArrivedIn(E1, probe) = A
  BY DEF Ring, Arrived
<1>a. ids = Batch(E1, batch)
  OBVIOUS
<1>b. Ordered(log, uapi, A, Z, Ring, failed, boot)
  BY DEF OrderNow
<1> HIDE DEF k, p, ids, A, Z
<1>9. CASE KickSubmit(endpoint1, E1, ids, k) \/ KickDoorbell(endpoint1, E1, ids, k)
  <2>1. k.rc # "ok"
    BY <1>9 DEF KickSubmit, KickDoorbell
  <2>2. failed' # {}
    BY <1>2, <2>1
  <2> QED BY <2>2 DEF OrderAfter, Ordered
<1>10. CASE KickOk(endpoint1, E1, ids, k)
  <2> SUFFICES ASSUME failed' = {}, ~boot'.dirty, uapi'.refused = {}
               PROVE  InLine(log', uapi', ArrivedIn(ep'[endpoint1], probe'), seen'[endpoint1],
                             Batch(ep'[endpoint1], 0))
    BY DEF OrderAfter, Ordered
  <2>1. PICK x, y, z, m : Hands(endpoint1, E1, ids, k, x, y, z, m)
    BY <1>1, <1>3, <1>10, KickHands
  <2>2. failed = {} /\ ~boot.dirty /\ k.uapi.refused = {}
    BY <1>2
  <2>3. uapi.refused = {}
    BY <1>1, <2>1, <2>2, RefusedStays
  <2>4. InLine(log, uapi, A, Z, Ring)
    BY <1>b, <2>2, <2>3 DEF Ordered
  <2>5. OneGuest(log, uapi) /\ uapi.service = NoService /\ uapi.cmdq[endpoint1] = <<>>
    BY <1>5, <2>2 DEF Hand, HandedAll
  <2> DEFINE B == A \o SubSeq(z.cq[endpoint1], 1, m)
             Q == Rest(ids, Ring)
  <2>6. InLine(log, k.uapi, B, Z, Q)
    BY <1>4, <2>1, <2>2, <2>4, <2>5, LineOk
  <2>7. /\ Copied(E1, k.ep, z.cq[endpoint1], m)
        /\ k.ep.cmdq_head = (E1.cmdq_head + Len(ids)) % cmdq_depth
    BY <2>1 DEF Hands
  <2>8. ArrivedIn(k.ep, p) = B
    <3>1. Found(E1, k.ep, z.cq[endpoint1], m, probe)
      BY <1>1, <2>7, ReaderMoves
    <3>2. ArrivedIn(k.ep, p) = ArrivedIn(k.ep, probe)
      BY <1>6 DEF ArrivedIn, UnreadIn
    <3> QED BY <1>8, <3>1, <3>2 DEF Found
  <2>9. Batch(k.ep, 0) = Q
    <3>1. k.ep \in Endpoint /\ k.ep.cmdq = E1.cmdq /\ k.ep.cmdq_tail = E1.cmdq_tail
      BY <2>7 DEF Copied
    <3> QED BY <1>1, <1>8, <1>a, <2>7, <3>1, RingRest
  <2> HIDE DEF B, Q
  <2> QED BY <1>2, <1>7, <2>6, <2>8, <2>9 DEF Z
<1> QED BY <1>3, <1>9, <1>10

\* The program fills a slot.
LEMMA FillOrders ==
  ASSUME DevInv, OrderNow, NEW id, FillSlot(id), Issues(id, log')
  PROVE  OrderAfter
<1> DEFINE A == Arrived
           Z == seen[endpoint1]
<1>1. id \in 0 .. MaxCmds
  BY IssuesId
<1>2. /\ Batch(ep'[endpoint1], 0) = Append(Ring, id)
      /\ ArrivedIn(ep'[endpoint1], probe') = A
      /\ uapi' = uapi /\ seen' = seen /\ failed' = failed /\ boot' = boot
  BY <1>1, FillRings
<1>3. /\ log \in Seq(Command) /\ uapi \in Surface /\ A \in Seq(EventType)
      /\ Z \in Seq(EventType) /\ Ring \in Seq(0 .. Len(log))
  BY AroundIs DEF Around, Between
<1>4. Ordered(log, uapi, A, Z, Ring, failed, boot)
  BY DEF OrderNow
<1> HIDE DEF A, Z
<1>5. ASSUME failed = {}, ~boot.dirty, uapi.refused = {}
      PROVE  InLine(log', uapi, A, Z, Append(Ring, id))
  <2>1. InLine(log, uapi, A, Z, Ring)
    BY <1>4, <1>5 DEF Ordered
  <2> QED BY <1>3, <2>1, LineFilled
<1>6. Ordered(log', uapi, A, Z, Append(Ring, id), failed, boot)
  BY <1>5 DEF Ordered
<1> QED BY <1>2, <1>6 DEF OrderAfter, Z

\* A command is issued.
LEMMA BuildOrders ==
  ASSUME DevInv, OrderNow, NEW op \in Ops, NEW key \in Keys, build_descriptor(op, key)
  PROVE  OrderAfter
<1> DEFINE c == NewCmd(endpoint1, op, key, FALSE)
<1>1. log \in Seq(Command)
  BY DEF DevInv, Inv, Types
<1>2. Len(log) < MaxCmds /\ log' = Append(log, c) /\ FillSlot(c.id)
  BY DEF build_descriptor, Issue
<1>3. c \in Command /\ c.guest = endpoint1
  BY <1>1, <1>2, NewCmdIs, LinquUbAssumption DEF NewCmd
<1>4. c.id = Len(log) + 1
  BY DEF NewCmd
<1> HIDE DEF c
<1>5. Grown(log, c, Append(log, c))
  BY <1>1, <1>3, <1>4, LogGrows
<1>6. Issues(c.id, log')
  BY <1>2, <1>3, <1>5 DEF Issues
<1> QED BY <1>2, <1>6, FillOrders

\* A descriptor that does not decode.
LEMMA BuildInvalidOrders ==
  ASSUME DevInv, OrderNow, build_invalid_descriptor
  PROVE  OrderAfter
<1>1. FillSlot(0) /\ log' = log
  BY DEF build_invalid_descriptor
<1>2. Issues(0, log')
  BY <1>1 DEF Issues
<1> QED BY <1>1, <1>2, FillOrders

\* Completions are read.
LEMMA ConsumeOrders ==
  ASSUME DevInv, OrderNow, NEW n, Consume(n)
  PROVE  OrderAfter
<1> DEFINE A == Arrived
           Z == seen[endpoint1]
           B == SubSeq(A, n + 1, Len(A))
           Y == Z \o SubSeq(A, 1, n)
<1>1. /\ n \in 0 .. Len(A) /\ ArrivedIn(ep'[endpoint1], probe') = B
      /\ seen' = [seen EXCEPT ![endpoint1] = Y]
      /\ Batch(ep'[endpoint1], 0) = Ring
      /\ log' = log /\ uapi' = uapi /\ failed' = failed /\ boot' = boot
  BY ConsumeKeeps
<1>2. /\ A \in Seq(EventType) /\ Z \in Seq(EventType) /\ uapi \in Surface
      /\ log \in Seq(Command) /\ Ring \in Seq(0 .. Len(log))
  BY AroundIs DEF Around, Between
<1>3. seen'[endpoint1] = Y
  <2>1. seen \in [Guests -> Seq(EventType)] /\ endpoint1 \in Guests
    BY LinquUbAssumption DEF DevInv, Inv, Types
  <2> HIDE DEF Y
  <2> QED BY <1>1, <2>1
<1>4. Ordered(log, uapi, A, Z, Ring, failed, boot)
  BY DEF OrderNow
<1> HIDE DEF A, Z
<1>5. ASSUME failed = {}, ~boot.dirty, uapi.refused = {} PROVE InLine(log, uapi, B, Y, Ring)
  <2>1. InLine(log, uapi, A, Z, Ring)
    BY <1>4, <1>5 DEF Ordered
  <2>2. Len(log) \in Nat
    BY <1>2, LenProperties
  <2> QED BY <1>1, <1>2, <2>1, <2>2, LineRead
<1> HIDE DEF B, Y
<1>6. Ordered(log, uapi, B, Y, Ring, failed, boot)
  BY <1>5 DEF Ordered
<1> QED BY <1>1, <1>3, <1>6 DEF OrderAfter

\* Nothing stands in line but what the queues hold.
LEMMA EmptyLine ==
  ASSUME NEW L, NEW s, s.cq[endpoint1] = <<>>, s.runtime = <<>>
  PROVE  InLine(L, s, <<>>, <<>>, <<>>)
<1> DEFINE E == <<>>
<1>1. Ids(E) = E /\ Ids(s.cq[endpoint1]) = E /\ RunIds(s.runtime) = E
  BY DEF Ids, RunIds
<1>2. Line(s, E, E, E) = (((E \o E) \o E) \o E) \o E
  BY <1>1 DEF Line, Row
<1>3. E \o E = E
  OBVIOUS
<1>4. Line(s, E, E, E) = E
  BY <1>2, <1>3
<1>5. Range(E) = {} /\ Rising(L, E) /\ Logged(L, s.runtime)
  BY DEF Range, Rising, Logged
<1> QED BY <1>4, <1>5 DEF InLine

\* The machine is reset.
LEMMA ResetOrders ==
  ASSUME DevInv, SystemReset
  PROVE  OrderAfter
<1> DEFINE E == <<>>
<1>1. /\ Forgets(uapi, uapi') /\ Batch(ep'[endpoint1], 0) = E
      /\ ArrivedIn(ep'[endpoint1], probe') = E /\ seen'[endpoint1] = E
  BY ResetKeeps
<1>2. boot'.dirty = \E g \in Guests : uapi.cmdq[g] # <<>> \/ uapi.cq[g] # <<>>
                                      \/ uapi.runtime # <<>>
  BY DEF SystemReset
<1>3. uapi'.runtime = uapi.runtime /\ uapi'.cq = uapi.cq
  BY <1>1 DEF Forgets
<1>4. ASSUME ~boot'.dirty PROVE InLine(log', uapi', E, E, E)
  <2>1. uapi'.cq[endpoint1] = <<>> /\ uapi'.runtime = <<>>
    BY <1>2, <1>3, <1>4, LinquUbAssumption
  <2> QED BY <2>1, EmptyLine
<1> QED BY <1>1, <1>4 DEF OrderAfter, Ordered

\* Nothing that counts happens.
LEMMA StillOrders ==
  ASSUME OrderNow, Still \/ UNCHANGED devVars
  PROVE  OrderAfter
<1>1. /\ log' = log /\ uapi' = uapi /\ seen' = seen /\ failed' = failed /\ boot' = boot
      /\ Batch(ep'[endpoint1], 0) = Ring /\ ArrivedIn(ep'[endpoint1], probe') = Arrived
  BY DEF Still, Apart, devVars, Ring, Arrived, E1
<1> QED BY <1>1 DEF OrderNow, OrderAfter

\* Every step keeps the order.
LEMMA OrderNextKeeps == DevInv /\ HandNow /\ OrderNow /\ [DevNext]_devVars => OrderNow'
<1> SUFFICES ASSUME DevInv, HandNow, OrderNow, [DevNext]_devVars PROVE OrderAfter
  BY DEF OrderNow, OrderAfter, Arrived, ArrivedIn, UnreadIn, Pending, Ring, Batch, Min, E1,
         Ordered, InLine, Line, Row, Ids, RunIds, Logged, Rising, Alike, Range, Channel, ServiceOf
<1>1. ASSUME NEW op \in Ops, NEW key \in Keys, build_descriptor(op, key) PROVE OrderAfter
  BY <1>1, BuildOrders
<1>2. CASE build_invalid_descriptor
  BY <1>2, BuildInvalidOrders
<1>3. ASSUME NEW n \in Batches0, NEW wait \in BOOLEAN, Doorbell(n, wait) PROVE OrderAfter
  BY <1>3, DoorbellOrders
<1>4. ASSUME NEW n \in 0 .. Unread, Consume(n) PROVE OrderAfter
  BY <1>4, ConsumeOrders
<1>5. CASE RewindHead \/ AckIrq \/ RefusedWrite \/ AckStatus
  <2>1. Still
    BY <1>5, RegistersKeep
  <2> QED BY <2>1, StillOrders
<1>6. CASE irq_primary \/ ReadStatus \/ Publish \/ ReadEvent \/ PollTimeout
  <2>1. Still
    BY <1>6, DriverKeeps
  <2> QED BY <2>1, StillOrders
<1>7. CASE SystemReset
  BY <1>7, ResetOrders
<1>8. CASE UNCHANGED devVars
  BY <1>8, StillOrders
<1> QED BY <1>1, <1>2, <1>3, <1>4, <1>5, <1>6, <1>7, <1>8 DEF DevNext, ProbeStep, irq_thread

\* Nothing stands in line at the start.
LEMMA OrderInitIs == DevInit => OrderNow
<1> SUFFICES ASSUME DevInit PROVE OrderNow
  OBVIOUS
<1> DEFINE E == <<>>
           e == ResetEndpoint
           p == FreshProbe
<1>1. /\ endpoint1 \in Guests /\ cmdq_depth \in Nat \ {0} /\ cq_depth \in Nat \ {0}
  BY LinquUbAssumption
<1>2. /\ ep = [g \in Guests |-> e] /\ probe = p /\ uapi = EmptySurface
      /\ seen = [g \in Guests |-> <<>>]
  BY DEF DevInit, Init
<1>3. uapi.cq[endpoint1] = <<>> /\ uapi.runtime = <<>>
  BY <1>1, <1>2 DEF EmptySurface
<1>4. /\ e.cmdq_head = 0 /\ e.cmdq_tail = 0 /\ e.cq_head = 0 /\ e.cq_tail = 0 /\ p.next = 0
  BY DEF ResetEndpoint, FreshProbe
<1>5. E1 = e /\ seen[endpoint1] = E
  BY <1>1, <1>2 DEF E1
<1> HIDE DEF e, p
<1>6. Arrived = E
  <2>1. UnreadIn(e, p) = 0
    BY <1>4 DEF UnreadIn, Pending
  <2>2. ArrivedIn(e, p) = <<>>
    BY <2>1 DEF ArrivedIn
  <2> QED BY <1>2, <1>5, <2>2 DEF Arrived
<1>7. Ring = E
  <2>1. e \in Endpoint
    BY <1>1, <1>2, DevInitIs DEF DevInv, Inv, Types
  <2>2. Pending(e.cmdq_head, e.cmdq_tail, cmdq_depth) = 0
    BY <1>4 DEF Pending
  <2>3. Batch(e, 0) = Slots(e.cmdq, e.cmdq_head, 0, cmdq_depth)
    BY <2>1, <2>2, BatchSlots
  <2>4. Batch(e, 0) = <<>>
    BY <2>3 DEF Slots
  <2> QED BY <1>5, <2>4 DEF Ring
<1>8. InLine(log, uapi, E, E, E)
  BY <1>3, EmptyLine
<1> QED BY <1>5, <1>6, <1>7, <1>8 DEF OrderNow, Ordered

\* The commands of the program stand in line in every state.
THEOREM OrderHolds == DevSpec => [](DevInv /\ HandNow /\ OrderNow)
<1>1. DevInit => DevInv /\ HandNow /\ OrderNow
  BY DevInitIs, HandInitIs, OrderInitIs
<1>2. DevInv /\ HandNow /\ OrderNow /\ [DevNext]_devVars => DevInv' /\ HandNow' /\ OrderNow'
  BY DevNextKeeps, HandNextKeeps, OrderNextKeeps
<1> QED BY <1>1, <1>2, PTL DEF DevSpec

\* What the program has read is in order.
LEMMA SeenInOrder == DevInv /\ OrderNow => ReadInOrder
<1> SUFFICES ASSUME DevInv, OrderNow, failed = {}, ~boot.dirty, uapi.refused = {},
                    NEW i \in DOMAIN seen[endpoint1], NEW j \in DOMAIN seen[endpoint1], i < j,
                    Channel(log[seen[endpoint1][i].id].op) = Channel(log[seen[endpoint1][j].id].op)
             PROVE  seen[endpoint1][i].id < seen[endpoint1][j].id
  BY DEF ReadInOrder
<1> DEFINE A == Arrived
           Z == seen[endpoint1]
           R == Ring
           q == Ids(Z)
<1>1. InLine(log, uapi, A, Z, R)
  BY DEF OrderNow, Ordered
<1>2. /\ A \in Seq(EventType) /\ Z \in Seq(EventType) /\ uapi \in Surface
      /\ R \in Seq(0 .. Len(log)) /\ Len(log) \in Nat
  BY AroundIs, LenProperties DEF Around, Between
<1> HIDE DEF A, R
<1>3. Rising(log, q)
  <2> DEFINE a == Ids(A)
             c == Ids(uapi.cq[endpoint1])
             r == RunIds(uapi.runtime)
  <2>1. SeqsOver(Nat, {q, a, c, r, R})
    <3> HIDE DEF Z
    <3> QED BY <1>2, LinePlaces
  <2>2. Rising(log, Row(q, a, c, r, R))
    BY <1>1 DEF InLine, Line
  <2> HIDE DEF q, a, c, r
  <2> QED BY <2>1, <2>2, RowType
<1>4. /\ DOMAIN q = DOMAIN Z /\ q[i] = Z[i].id /\ q[j] = Z[j].id
      /\ Z[i].id \in 1 .. MaxCmds /\ Z[j].id \in 1 .. MaxCmds
  <2>1. i \in 1 .. Len(Z) /\ j \in 1 .. Len(Z)
    BY <1>2
  <2>2. \A h \in 1 .. Len(Z) : q[h] = Z[h].id /\ Z[h].id \in 1 .. MaxCmds
    BY <1>2, IdsAre
  <2>3. DOMAIN q = DOMAIN Z
    BY DEF Ids
  <2> QED BY <2>1, <2>2, <2>3
<1>5. q[i] # 0 /\ q[j] # 0
  <2> HIDE DEF q
  <2> QED BY <1>4, SurfaceAssumption
<1>6. Alike(log, q[i], q[j])
  BY <1>4, <1>5 DEF Alike
<1> HIDE DEF q
<1>7. q[i] < q[j]
  BY <1>3, <1>4, <1>6 DEF Rising
<1> QED BY <1>4, <1>7

\* The program reads the completions of its commands, those that go the same way
\* in the order of the commands, and none of a program before the reset.
THEOREM ReadsInOrder == DevSpec => []ReadsOwnInOrder
<1>1. DevInv /\ OrderNow => ReadInOrder
  BY SeenInOrder
<1> QED BY <1>1, OrderHolds, NoStaleAnswers, PTL DEF ReadsOwnInOrder

=============================================================================
