------------------------- MODULE UapiSurfaceProofs -------------------------
(***************************************************************************)
(* Proofs about the surface of sim-uapi, for every number of guests, depth *)
(* of the queues, number of retries and commands.                          *)
(***************************************************************************)
EXTENDS UapiSurface, QueueLemmas

Statuses == {"Success", "Failure", "Invalid", "Exhausted"}

Entry == [cmd: Command, attempts: 0 .. MaxRetries]

\* The surface in the middle of a call, when drive_ready has collected
\* failures.
Surface ==
  [cmdq: [Guests -> Seq(Command)], runtime: Seq(Entry), service: [Services -> Seq(EventType)],
   store: [Services -> SUBSET Keys], cq: [Guests -> Seq(EventType)], failures: Seq(EventType),
   refused: SUBSET (1 .. MaxCmds), lost: SUBSET (1 .. MaxCmds)]

\* The completions of a set that the surface holds for guest g: in its
\* completion queue, in the services, among the failures.
Of(g, T) == {e \in T : e.guest = g}

Settled(s, g, T) ==
  HitsIn(s.cq[g], T) + HitsIn(s.failures, Of(g, T))
    + HitsIn(s.service["block"], Of(g, T)) + HitsIn(s.service["shmem"], Of(g, T))
    + HitsIn(s.service["dfs"], Of(g, T)) + HitsIn(s.service["db"], Of(g, T))

\* From s to t the completion e is added, or none.
Adds(s, t, e) ==
  \A g \in Guests : \A T : Settled(t, g, T) = Settled(s, g, T) + (IF e \in Of(g, T) THEN 1 ELSE 0)

SameEvents(s, t) == \A g \in Guests : \A T : Settled(t, g, T) = Settled(s, g, T)

NoService == [v \in Services |-> <<>>]

-----------------------------------------------------------------------------
(* One completion, and several *)

\* The parts of a surface.
LEMMA SurfaceFields ==
  ASSUME NEW s \in Surface
  PROVE  /\ s.cmdq \in [Guests -> Seq(Command)] /\ s.runtime \in Seq(Entry)
         /\ s.service \in [Services -> Seq(EventType)]
         /\ s.store \in [Services -> SUBSET Keys]
         /\ s.cq \in [Guests -> Seq(EventType)] /\ s.failures \in Seq(EventType)
         /\ s.refused \in SUBSET (1 .. MaxCmds) /\ s.lost \in SUBSET (1 .. MaxCmds)
         /\ s.service["block"] \in Seq(EventType) /\ s.service["shmem"] \in Seq(EventType)
         /\ s.service["dfs"] \in Seq(EventType) /\ s.service["db"] \in Seq(EventType)
         /\ \A g \in Guests : s.cq[g] \in Seq(EventType) /\ s.cmdq[g] \in Seq(Command)
  BY DEF Surface, Services

\* The numbers of completions are natural numbers.
LEMMA SettledType ==
  ASSUME NEW s \in Surface, NEW g \in Guests, NEW T
  PROVE  /\ Settled(s, g, T) \in Nat
         /\ HitsIn(s.cq[g], T) \in Nat /\ HitsIn(s.failures, Of(g, T)) \in Nat
         /\ \A v \in Services : HitsIn(s.service[v], Of(g, T)) \in Nat
         /\ HitsIn(s.service["block"], Of(g, T)) \in Nat
         /\ HitsIn(s.service["shmem"], Of(g, T)) \in Nat
         /\ HitsIn(s.service["dfs"], Of(g, T)) \in Nat
         /\ HitsIn(s.service["db"], Of(g, T)) \in Nat
<1>1. HitsIn(s.cq[g], T) \in Nat
  BY SurfaceFields, HitsType
<1>2. HitsIn(s.failures, Of(g, T)) \in Nat
  BY SurfaceFields, HitsType
<1>3. ASSUME NEW v \in Services PROVE HitsIn(s.service[v], Of(g, T)) \in Nat
  <2>1. s.service[v] \in Seq(EventType)
    BY SurfaceFields
  <2> QED BY <2>1, HitsType
<1> QED BY <1>1, <1>2, <1>3 DEF Settled, Services

\* The states of a loop over surfaces.
LEMMA SurfaceLoop ==
  ASSUME NEW s \in Surface, NEW n \in Nat, NEW F \in [1 .. n -> [Surface -> Surface]]
  PROVE  \E f \in [0 .. n -> Surface] :
           f[0] = s /\ \A k \in 1 .. n : f[k] = F[k][f[k - 1]]
  BY LoopRuns

\* A completion goes to its queue.
LEMMA RouteIs ==
  ASSUME NEW s \in Surface, NEW e \in EventType
  PROVE  LET t == route_completion_to_cq(s, e)
         IN  /\ t \in Surface
             /\ t.cq = [s.cq EXCEPT ![e.guest] = Append(s.cq[e.guest], e)]
             /\ t.cmdq = s.cmdq /\ t.runtime = s.runtime /\ t.service = s.service
             /\ t.store = s.store /\ t.failures = s.failures
             /\ t.refused = s.refused /\ t.lost = s.lost
<1> DEFINE q == [s.cq EXCEPT ![e.guest] = Append(s.cq[e.guest], e)]
<1>1. e.guest \in Guests
  BY DEF EventType
<1>2. s.cq[e.guest] \in Seq(EventType) /\ s.cq \in [Guests -> Seq(EventType)]
  BY <1>1, SurfaceFields
<1>3. Append(s.cq[e.guest], e) \in Seq(EventType)
  BY <1>2, AppendProperties
<1>4. q \in [Guests -> Seq(EventType)]
  BY <1>1, <1>2, <1>3
<1>5. route_completion_to_cq(s, e) = [s EXCEPT !.cq = q]
  BY DEF route_completion_to_cq, enqueue_to_cq, Surface
<1> HIDE DEF q
<1>6. LET t == [s EXCEPT !.cq = q]
      IN  /\ t \in Surface /\ t.cq = q
          /\ t.cmdq = s.cmdq /\ t.runtime = s.runtime /\ t.service = s.service
          /\ t.store = s.store /\ t.failures = s.failures
          /\ t.refused = s.refused /\ t.lost = s.lost
  BY <1>4 DEF Surface
<1> QED BY <1>5, <1>6 DEF q

\* The loop over several completions.
LEMMA RouteLoop ==
  ASSUME NEW s \in Surface, NEW events \in Seq(EventType)
  PROVE  \E f \in [0 .. Len(events) -> Surface] :
           /\ f[0] = s
           /\ \A k \in 1 .. Len(events) : f[k] = route_completion_to_cq(f[k - 1], events[k])
           /\ route_completions(s, events) = f[Len(events)]
<1> DEFINE n == Len(events)
           F == [k \in 1 .. n |-> [x \in Surface |-> route_completion_to_cq(x, events[k])]]
           Is(f) == f = [k \in 0 .. n |-> IF k = 0 THEN s
                                          ELSE route_completion_to_cq(f[k - 1], events[k])]
           acc == CHOOSE f : Is(f)
<1>1. n \in Nat /\ \A k \in 1 .. n : events[k] \in EventType
  BY LenProperties, ElementOfSeq
<1>2. \A k \in 1 .. n : \A x \in Surface : route_completion_to_cq(x, events[k]) \in Surface
  BY <1>1, RouteIs
<1>3. F \in [1 .. n -> [Surface -> Surface]]
  <2> HIDE DEF n
  <2> QED BY <1>2
<1>4. \A k \in 1 .. n : \A x \in Surface : F[k][x] = route_completion_to_cq(x, events[k])
  OBVIOUS
<1> HIDE DEF n, F
<1>5. PICK f \in [0 .. n -> Surface] : f[0] = s /\ \A k \in 1 .. n : f[k] = F[k][f[k - 1]]
  BY <1>1, <1>3, SurfaceLoop, Zenon
<1>6. ASSUME NEW k \in 1 .. n PROVE f[k] = route_completion_to_cq(f[k - 1], events[k])
  <2>1. f[k - 1] \in Surface
    BY <1>1, <1>5
  <2> QED BY <1>4, <1>5, <2>1
<1>7. Is(f)
  <2>1. ASSUME NEW k \in 0 .. n
        PROVE  f[k] = IF k = 0 THEN s ELSE route_completion_to_cq(f[k - 1], events[k])
    BY <1>1, <1>5, <1>6
  <2> QED BY <1>5, <2>1
<1>8. Is(acc)
  <2> HIDE DEF Is
  <2> QED BY <1>7, Zenon
<1>9. \A k \in 0 .. n : acc[k] = IF k = 0 THEN s
                                 ELSE route_completion_to_cq(acc[k - 1], events[k])
  BY <1>8
<1>10. \A k \in 0 .. n : acc[k] = f[k]
  <2> DEFINE T == {k \in 0 .. n : acc[k] = f[k]}
  <2>1. 0 \in T
    BY <1>1, <1>5, <1>9
  <2>2. ASSUME NEW k \in 0 .. n - 1, k \in T PROVE k + 1 \in T
    <3>1. k + 1 \in 1 .. n /\ k + 1 \in 0 .. n /\ (k + 1) - 1 = k /\ k + 1 # 0
      BY <1>1
    <3> HIDE DEF acc
    <3>2. acc[k + 1] = route_completion_to_cq(acc[k], events[k + 1])
      BY <1>9, <3>1
    <3>3. f[k + 1] = route_completion_to_cq(f[k], events[k + 1])
      BY <1>6, <3>1
    <3> QED BY <2>2, <3>1, <3>2, <3>3
  <2> HIDE DEF T
  <2>3. \A k \in 0 .. n : k \in T
    BY <1>1, <2>1, <2>2, UpTo
  <2> QED BY <2>3 DEF T
<1>11. route_completions(s, events) = acc[n]
  BY Zenon DEF route_completions, n
<1>12. route_completions(s, events) = f[n]
  <2> HIDE DEF acc
  <2> QED BY <1>1, <1>10, <1>11
<1> QED BY <1>5, <1>6, <1>12 DEF n

\* Several completions go to their queues.
LEMMA RouteAllIs ==
  ASSUME NEW s \in Surface, NEW events \in Seq(EventType)
  PROVE  LET t == route_completions(s, events)
         IN  /\ t \in Surface
             /\ t.cmdq = s.cmdq /\ t.runtime = s.runtime /\ t.service = s.service
             /\ t.store = s.store /\ t.failures = s.failures
             /\ t.refused = s.refused /\ t.lost = s.lost
             /\ \A g \in Guests : \A T :
                  HitsIn(t.cq[g], T) = HitsIn(s.cq[g], T) + HitsIn(events, Of(g, T))
<1> DEFINE n == Len(events)
           Same(t) == /\ t.cmdq = s.cmdq /\ t.runtime = s.runtime /\ t.service = s.service
                      /\ t.store = s.store /\ t.failures = s.failures
                      /\ t.refused = s.refused /\ t.lost = s.lost
           Routed(t, k) == \A g \in Guests : \A T :
                             HitsIn(t.cq[g], T)
                               = HitsIn(s.cq[g], T) + HitsIn(SubSeq(events, 1, k), Of(g, T))
<1>1. PICK f \in [0 .. n -> Surface] :
           /\ f[0] = s
           /\ \A k \in 1 .. n : f[k] = route_completion_to_cq(f[k - 1], events[k])
           /\ route_completions(s, events) = f[n]
  BY RouteLoop
<1>2. n \in Nat /\ n \in 0 .. n /\ \A k \in 1 .. n : events[k] \in EventType
  BY LenProperties, ElementOfSeq
<1>3. \A T : \A k \in 0 .. n - 1 :
        HitsIn(SubSeq(events, 1, k + 1), T)
          = HitsIn(SubSeq(events, 1, k), T) + (IF events[k + 1] \in T THEN 1 ELSE 0)
  BY HitsPrefix
<1> DEFINE K == {k \in 0 .. n : Same(f[k]) /\ Routed(f[k], k)}
<1>4. 0 \in K
  <2>1. Routed(s, 0)
    <3>1. ASSUME NEW g \in Guests, NEW T
          PROVE  HitsIn(s.cq[g], T)
                   = HitsIn(s.cq[g], T) + HitsIn(SubSeq(events, 1, 0), Of(g, T))
      BY HitsPrefix, SettledType
    <3> QED BY <3>1
  <2> QED BY <1>1, <1>2, <2>1
<1>5. ASSUME NEW k \in 0 .. n - 1, k \in K PROVE k + 1 \in K
  <2> DEFINE x == f[k]
             y == f[k + 1]
             e == events[k + 1]
  <2>1. k + 1 \in 1 .. n /\ (k + 1) - 1 = k /\ k \in 0 .. n /\ k + 1 \in 0 .. n
    BY <1>2
  <2>2. x \in Surface /\ e \in EventType /\ y = route_completion_to_cq(x, e)
    BY <1>1, <1>2, <2>1
  <2>3. Same(x) /\ Routed(x, k)
    BY <1>5
  <2> HIDE DEF x, y, e
  <2>4. /\ y.cq = [x.cq EXCEPT ![e.guest] = Append(x.cq[e.guest], e)]
        /\ y.cmdq = x.cmdq /\ y.runtime = x.runtime /\ y.service = x.service
        /\ y.store = x.store /\ y.failures = x.failures
        /\ y.refused = x.refused /\ y.lost = x.lost
    BY <2>2, RouteIs
  <2>5. Same(y)
    BY <2>3, <2>4
  <2>6. ASSUME NEW g \in Guests, NEW T
        PROVE  HitsIn(y.cq[g], T)
                 = HitsIn(s.cq[g], T) + HitsIn(SubSeq(events, 1, k + 1), Of(g, T))
    <3>1. HitsIn(x.cq[g], T) = HitsIn(s.cq[g], T) + HitsIn(SubSeq(events, 1, k), Of(g, T))
      BY <2>3
    <3>2. HitsIn(SubSeq(events, 1, k + 1), Of(g, T))
            = HitsIn(SubSeq(events, 1, k), Of(g, T)) + (IF e \in Of(g, T) THEN 1 ELSE 0)
      BY <1>3 DEF e
    <3>3. x.cq \in [Guests -> Seq(EventType)] /\ x.cq[g] \in Seq(EventType)
      BY <2>2, SurfaceFields
    <3>4. HitsIn(x.cq[g], T) \in Nat /\ HitsIn(s.cq[g], T) \in Nat
      BY <2>2, SettledType
    <3>5. HitsIn(SubSeq(events, 1, k), Of(g, T)) \in Nat
      <4>1. SubSeq(events, 1, k) \in Seq(EventType)
        BY <2>1, HitsSplit
      <4> QED BY <4>1, HitsType
    <3>6. HitsIn(y.cq[g], T) = HitsIn(x.cq[g], T) + (IF e \in Of(g, T) THEN 1 ELSE 0)
      <4>1. CASE e.guest = g
        <5>1. y.cq[g] = Append(x.cq[g], e)
          BY <2>4, <3>3, <4>1
        <5>2. HitsIn(Append(x.cq[g], e), T) = HitsIn(x.cq[g], T) + (IF e \in T THEN 1 ELSE 0)
          BY <2>2, <3>3, HitsAppend
        <5> QED BY <4>1, <5>1, <5>2 DEF Of
      <4>2. CASE e.guest # g
        <5>1. y.cq[g] = x.cq[g] /\ e \notin Of(g, T)
          BY <2>4, <3>3, <4>2 DEF Of
        <5> QED BY <3>4, <5>1
      <4> QED BY <4>1, <4>2
    <3> QED BY <3>1, <3>2, <3>4, <3>5, <3>6
  <2> QED BY <2>1, <2>5, <2>6 DEF y
<1> HIDE DEF K
<1>6. \A k \in 0 .. n : k \in K
  BY <1>2, <1>4, <1>5, UpTo
<1>7. Same(f[n]) /\ Routed(f[n], n)
  BY <1>2, <1>6 DEF K
<1>8. \A T : HitsIn(SubSeq(events, 1, n), T) = HitsIn(events, T)
  BY HitsPrefix
<1>9. f[n] \in Surface
  BY <1>1, <1>2
<1> QED BY <1>1, <1>7, <1>8, <1>9

-----------------------------------------------------------------------------
(* flush_services and drive_ready *)

\* flush_services empties the services and keeps the completions.
LEMMA FlushIs ==
  ASSUME NEW s \in Surface
  PROVE  LET t == flush_services(s)
         IN  /\ t \in Surface /\ t.service = NoService
             /\ t.cmdq = s.cmdq /\ t.runtime = s.runtime /\ t.store = s.store
             /\ t.failures = s.failures /\ t.refused = s.refused /\ t.lost = s.lost
             /\ SameEvents(s, t)
<1> DEFINE b == s.service["block"]
           m == s.service["shmem"]
           d == s.service["dfs"]
           r == s.service["db"]
           events == b \o m \o d \o r
           u == [s EXCEPT !.service = NoService]
           t == flush_services(s)
<1>1. b \in Seq(EventType) /\ m \in Seq(EventType) /\ d \in Seq(EventType)
      /\ r \in Seq(EventType)
  BY SurfaceFields
<1>2. /\ u \in Surface /\ u.service = NoService /\ u.cq = s.cq
      /\ u.cmdq = s.cmdq /\ u.runtime = s.runtime /\ u.store = s.store
      /\ u.failures = s.failures /\ u.refused = s.refused /\ u.lost = s.lost
  <2>1. NoService \in [Services -> Seq(EventType)]
    BY DEF NoService
  <2> QED BY <2>1 DEF Surface
<1>3. t = route_completions(u, events)
  BY DEF flush_services, NoService
<1> HIDE DEF b, m, d, r, u, t
<1>4. /\ b \o m \in Seq(EventType) /\ b \o m \o d \in Seq(EventType) /\ events \in Seq(EventType)
  BY <1>1, ConcatProperties
<1>5. \A T : HitsIn(events, T) = HitsIn(b, T) + HitsIn(m, T) + HitsIn(d, T) + HitsIn(r, T)
  <2> SUFFICES ASSUME NEW T
               PROVE  HitsIn(events, T)
                        = HitsIn(b, T) + HitsIn(m, T) + HitsIn(d, T) + HitsIn(r, T)
    OBVIOUS
  <2>1. HitsIn(b \o m, T) = HitsIn(b, T) + HitsIn(m, T)
    BY <1>1, HitsConcat
  <2>2. HitsIn(b \o m \o d, T) = HitsIn(b \o m, T) + HitsIn(d, T)
    BY <1>1, <1>4, HitsConcat
  <2>3. HitsIn(b \o m \o d \o r, T) = HitsIn(b \o m \o d, T) + HitsIn(r, T)
    BY <1>1, <1>4, HitsConcat
  <2> QED BY <2>1, <2>2, <2>3
<1> HIDE DEF events
<1>6. /\ t \in Surface /\ t.service = u.service
      /\ t.cmdq = u.cmdq /\ t.runtime = u.runtime /\ t.store = u.store
      /\ t.failures = u.failures /\ t.refused = u.refused /\ t.lost = u.lost
      /\ \A g \in Guests : \A T :
           HitsIn(t.cq[g], T) = HitsIn(u.cq[g], T) + HitsIn(events, Of(g, T))
  <2>1. u \in Surface
    BY <1>2
  <2> DEFINE z == route_completions(u, events)
  <2>2. /\ z \in Surface /\ z.service = u.service
        /\ z.cmdq = u.cmdq /\ z.runtime = u.runtime /\ z.store = u.store
        /\ z.failures = u.failures /\ z.refused = u.refused /\ z.lost = u.lost
        /\ \A g \in Guests : \A T :
             HitsIn(z.cq[g], T) = HitsIn(u.cq[g], T) + HitsIn(events, Of(g, T))
    BY <1>4, <2>1, RouteAllIs
  <2>3. t = z
    BY <1>3
  <2> HIDE DEF z
  <2> QED BY <2>2, <2>3
<1>7. ASSUME NEW g \in Guests, NEW T PROVE Settled(t, g, T) = Settled(s, g, T)
  <2> DEFINE O == Of(g, T)
  <2>1. HitsIn(t.cq[g], T)
          = HitsIn(s.cq[g], T) + (HitsIn(b, O) + HitsIn(m, O) + HitsIn(d, O) + HitsIn(r, O))
    BY <1>2, <1>5, <1>6
  <2>2. /\ HitsIn(t.service["block"], O) = 0 /\ HitsIn(t.service["shmem"], O) = 0
        /\ HitsIn(t.service["dfs"], O) = 0 /\ HitsIn(t.service["db"], O) = 0
    <3>1. /\ t.service["block"] = <<>> /\ t.service["shmem"] = <<>>
          /\ t.service["dfs"] = <<>> /\ t.service["db"] = <<>>
      BY <1>2, <1>6 DEF NoService, Services
    <3> QED BY <3>1, HitsEmpty
  <2>3. t.failures = s.failures
    BY <1>2, <1>6
  <2>4. /\ HitsIn(s.cq[g], T) \in Nat /\ HitsIn(s.failures, O) \in Nat
        /\ HitsIn(b, O) \in Nat /\ HitsIn(m, O) \in Nat /\ HitsIn(d, O) \in Nat
        /\ HitsIn(r, O) \in Nat
    BY SettledType DEF b, m, d, r
  <2>5. Settled(s, g, T) = HitsIn(s.cq[g], T) + HitsIn(s.failures, O)
                             + HitsIn(b, O) + HitsIn(m, O) + HitsIn(d, O) + HitsIn(r, O)
    BY DEF Settled, b, m, d, r
  <2>6. Settled(t, g, T) = HitsIn(t.cq[g], T) + HitsIn(t.failures, O)
                             + HitsIn(t.service["block"], O) + HitsIn(t.service["shmem"], O)
                             + HitsIn(t.service["dfs"], O) + HitsIn(t.service["db"], O)
    BY DEF Settled
  <2> HIDE DEF O
  <2> QED BY <2>1, <2>2, <2>3, <2>4, <2>5, <2>6
<1>8. SameEvents(s, t)
  BY <1>7 DEF SameEvents
<1> QED BY <1>2, <1>6, <1>8 DEF t

\* The completion of a command.
LEMMA EventIs ==
  ASSUME NEW cmd \in Command, NEW status \in Statuses
  PROVE  /\ Event(cmd, status) \in EventType
         /\ Event(cmd, status).id = cmd.id /\ Event(cmd, status).guest = cmd.guest
         /\ Event(cmd, status).status = status
         /\ cmd.id \in 1 .. MaxCmds /\ cmd.guest \in Guests /\ cmd.key \in Keys
         /\ cmd.op \in AllOps
  BY SurfaceAssumption DEF Event, Command, EventType, Statuses

\* A failure is collected.
LEMMA FailedIs ==
  ASSUME NEW s \in Surface, NEW cmd \in Command, NEW status \in Statuses
  PROVE  LET t == Failed(s, cmd, status)
         IN  /\ t \in Surface /\ t.service = s.service /\ t.cq = s.cq
             /\ t.cmdq = s.cmdq /\ t.runtime = s.runtime /\ t.store = s.store
             /\ t.refused = s.refused /\ t.lost = s.lost
             /\ Adds(s, t, Event(cmd, status))
<1> DEFINE e == Event(cmd, status)
           q == Append(s.failures, e)
           t == [s EXCEPT !.failures = q]
<1>1. e \in EventType
  BY EventIs
<1>2. s.failures \in Seq(EventType)
  BY SurfaceFields
<1> HIDE DEF e
<1>3. q \in Seq(EventType)
  BY <1>1, <1>2, AppendProperties
<1>4. \A T : HitsIn(q, T) = HitsIn(s.failures, T) + (IF e \in T THEN 1 ELSE 0)
  BY <1>1, <1>2, HitsAppend
<1>5. Failed(s, cmd, status) = t
  BY DEF Failed, e
<1> HIDE DEF q
<1>6. /\ t \in Surface /\ t.service = s.service /\ t.cq = s.cq /\ t.failures = q
      /\ t.cmdq = s.cmdq /\ t.runtime = s.runtime /\ t.store = s.store
      /\ t.refused = s.refused /\ t.lost = s.lost
  BY <1>3 DEF Surface
<1> HIDE DEF t
<1>7. ASSUME NEW g \in Guests, NEW T
      PROVE  Settled(t, g, T) = Settled(s, g, T) + (IF e \in Of(g, T) THEN 1 ELSE 0)
  <2>1. HitsIn(q, Of(g, T)) = HitsIn(s.failures, Of(g, T)) + (IF e \in Of(g, T) THEN 1 ELSE 0)
    BY <1>4
  <2> QED BY <1>6, <2>1, SettledType DEF Settled
<1> QED BY <1>5, <1>6, <1>7 DEF Adds, e

\* What a command that was taken is completed with.
DoneStatus(s, cmd) == IF cmd.op = "Dispatch" THEN "Success" ELSE StatusOf(s, cmd)

\* The service of a command.
LEMMA ServiceOfIs ==
  ASSUME NEW op \in AllOps
  PROVE  /\ op \in Inserts \cup Lookups \cup {"BigPut"} => ServiceOf(op) \in Services
         /\ op \in {"Dispatch", "Remote", "BadIo"} => ServiceOf(op) = "none"
         /\ ServiceOf(op) = "none" => op \in {"Dispatch", "Remote", "BadIo"}
         /\ "none" \notin Services
  BY DEF AllOps, Inserts, Lookups, ServiceOf, Services

\* A command is given to its service: the store changes, and its completion
\* is at the back of the FIFO.
LEMMA ServiceSubmitIs ==
  ASSUME NEW s \in Surface, NEW cmd \in Command, ServiceOf(cmd.op) \in Services
  PROVE  LET t == ServiceSubmit(s, cmd)
             v == ServiceOf(cmd.op)
         IN  /\ t \in Surface /\ t.cq = s.cq
             /\ t.cmdq = s.cmdq /\ t.runtime = s.runtime /\ t.failures = s.failures
             /\ t.refused = s.refused /\ t.lost = s.lost
             /\ t.store = [s.store EXCEPT ![v] = IF cmd.op \in Inserts THEN @ \cup {cmd.key} ELSE @]
             /\ t.service = [s.service EXCEPT ![v] = Append(@, Event(cmd, StatusOf(s, cmd)))]
             /\ Adds(s, t, Event(cmd, StatusOf(s, cmd)))
<1> DEFINE v == ServiceOf(cmd.op)
           e == Event(cmd, StatusOf(s, cmd))
           q == [s.service EXCEPT ![v] = Append(@, e)]
           p == [s.store EXCEPT ![v] = IF cmd.op \in Inserts THEN @ \cup {cmd.key} ELSE @]
           t == [s EXCEPT !.service = q, !.store = p]
<1>1. v \in Services
  OBVIOUS
<1>2. StatusOf(s, cmd) \in Statuses
  BY DEF StatusOf, Statuses
<1>3. e \in EventType /\ cmd.key \in Keys
  BY <1>2, EventIs
<1>4. ServiceSubmit(s, cmd) = t
  BY DEF ServiceSubmit, Surface
<1> HIDE DEF v, e
<1>5. s.service \in [Services -> Seq(EventType)] /\ s.store \in [Services -> SUBSET Keys]
  BY SurfaceFields
<1>6. q \in [Services -> Seq(EventType)]
  <2>1. s.service[v] \in Seq(EventType)
    BY <1>1, <1>5
  <2>2. Append(s.service[v], e) \in Seq(EventType)
    BY <1>3, <2>1, AppendProperties
  <2> QED BY <1>5, <2>2
<1>7. p \in [Services -> SUBSET Keys]
  BY <1>1, <1>3, <1>5
<1>8. ASSUME NEW w \in Services, NEW O
      PROVE  HitsIn(q[w], O) = HitsIn(s.service[w], O) + (IF w = v /\ e \in O THEN 1 ELSE 0)
  <2>1. s.service[w] \in Seq(EventType)
    BY <1>5
  <2>2. HitsIn(s.service[w], O) \in Nat
    BY <2>1, HitsType
  <2>3. HitsIn(Append(s.service[w], e), O) = HitsIn(s.service[w], O) + (IF e \in O THEN 1 ELSE 0)
    BY <1>3, <2>1, HitsAppend
  <2>4. q[w] = IF w = v THEN Append(s.service[w], e) ELSE s.service[w]
    BY <1>5
  <2> QED BY <2>2, <2>3, <2>4
<1> HIDE DEF q, p
<1>9. /\ t \in Surface /\ t.service = q /\ t.cq = s.cq /\ t.failures = s.failures
      /\ t.cmdq = s.cmdq /\ t.runtime = s.runtime /\ t.store = p
      /\ t.refused = s.refused /\ t.lost = s.lost
  BY <1>6, <1>7 DEF Surface
<1> HIDE DEF t
<1>10. ASSUME NEW g \in Guests, NEW T
       PROVE  Settled(t, g, T) = Settled(s, g, T) + (IF e \in Of(g, T) THEN 1 ELSE 0)
  <2> DEFINE O == Of(g, T)
             H(w) == HitsIn(s.service[w], O)
             x(w) == IF w = v /\ e \in O THEN 1 ELSE 0
  <2>1. /\ HitsIn(q["block"], O) = H("block") + x("block")
        /\ HitsIn(q["shmem"], O) = H("shmem") + x("shmem")
        /\ HitsIn(q["dfs"], O) = H("dfs") + x("dfs")
        /\ HitsIn(q["db"], O) = H("db") + x("db")
    BY <1>8 DEF Services
  <2>2. x("block") + x("shmem") + x("dfs") + x("db") = IF e \in O THEN 1 ELSE 0
    BY <1>1 DEF Services
  <2>3. /\ H("block") \in Nat /\ H("shmem") \in Nat /\ H("dfs") \in Nat /\ H("db") \in Nat
        /\ x("block") \in Nat /\ x("shmem") \in Nat /\ x("dfs") \in Nat /\ x("db") \in Nat
        /\ HitsIn(s.cq[g], T) \in Nat /\ HitsIn(s.failures, O) \in Nat
    BY SettledType
  <2>4. Settled(s, g, T) = HitsIn(s.cq[g], T) + HitsIn(s.failures, O)
                             + H("block") + H("shmem") + H("dfs") + H("db")
    BY DEF Settled
  <2>5. Settled(t, g, T) = HitsIn(s.cq[g], T) + HitsIn(s.failures, O)
                             + HitsIn(q["block"], O) + HitsIn(q["shmem"], O)
                             + HitsIn(q["dfs"], O) + HitsIn(q["db"], O)
    BY <1>9 DEF Settled
  <2> HIDE DEF O, H, x
  <2>6. Settled(t, g, T) = Settled(s, g, T) + (IF e \in O THEN 1 ELSE 0)
    BY <2>1, <2>2, <2>3, <2>4, <2>5
  <2> QED BY <2>6 DEF O
<1>11. Adds(s, t, e)
  BY <1>10 DEF Adds
<1> QED BY <1>4, <1>9, <1>11 DEF v, e, q, p

\* A completion goes straight to the queue.
LEMMA EnqueueIs ==
  ASSUME NEW s \in Surface, NEW e \in EventType
  PROVE  LET t == enqueue_to_cq(s, e.guest, e)
         IN  /\ t \in Surface /\ t.service = s.service
             /\ t.cmdq = s.cmdq /\ t.runtime = s.runtime /\ t.store = s.store
             /\ t.failures = s.failures /\ t.refused = s.refused /\ t.lost = s.lost
             /\ Adds(s, t, e)
<1> DEFINE t == enqueue_to_cq(s, e.guest, e)
<1>1. /\ t \in Surface /\ t.cq = [s.cq EXCEPT ![e.guest] = Append(s.cq[e.guest], e)]
      /\ t.cmdq = s.cmdq /\ t.runtime = s.runtime /\ t.service = s.service
      /\ t.store = s.store /\ t.failures = s.failures
      /\ t.refused = s.refused /\ t.lost = s.lost
  BY RouteIs DEF route_completion_to_cq
<1> HIDE DEF t
<1>2. ASSUME NEW g \in Guests, NEW T
      PROVE  Settled(t, g, T) = Settled(s, g, T) + (IF e \in Of(g, T) THEN 1 ELSE 0)
  <2>1. s.cq \in [Guests -> Seq(EventType)] /\ s.cq[g] \in Seq(EventType)
    BY SurfaceFields
  <2>2. HitsIn(Append(s.cq[g], e), T) = HitsIn(s.cq[g], T) + (IF e \in T THEN 1 ELSE 0)
    BY <2>1, HitsAppend
  <2>3. t.cq[g] = IF e.guest = g THEN Append(s.cq[g], e) ELSE s.cq[g]
    BY <1>1, <2>1
  <2>4. HitsIn(t.cq[g], T) = HitsIn(s.cq[g], T) + (IF e \in Of(g, T) THEN 1 ELSE 0)
    <3>1. HitsIn(s.cq[g], T) \in Nat
      BY SettledType
    <3>2. CASE e.guest = g
      BY <2>2, <2>3, <3>2 DEF Of
    <3>3. CASE e.guest # g
      BY <2>3, <3>1, <3>3 DEF Of
    <3> QED BY <3>2, <3>3
  <2> DEFINE O == Of(g, T)
             c == HitsIn(s.cq[g], T)
             x == HitsIn(s.failures, O) + HitsIn(s.service["block"], O)
                    + HitsIn(s.service["shmem"], O) + HitsIn(s.service["dfs"], O)
                    + HitsIn(s.service["db"], O)
             a == IF e \in O THEN 1 ELSE 0
  <2>5. c \in Nat /\ x \in Nat /\ a \in Nat
    BY SettledType
  <2>6. Settled(s, g, T) = c + x
    BY SettledType DEF Settled
  <2>7. Settled(t, g, T) = HitsIn(t.cq[g], T) + x
    <3>1. HitsIn(t.cq[g], T) \in Nat
      BY <1>1, SettledType
    <3>2. /\ HitsIn(s.failures, O) \in Nat /\ HitsIn(s.service["block"], O) \in Nat
          /\ HitsIn(s.service["shmem"], O) \in Nat /\ HitsIn(s.service["dfs"], O) \in Nat
          /\ HitsIn(s.service["db"], O) \in Nat
      BY SettledType
    <3>3. Settled(t, g, T) = HitsIn(t.cq[g], T) + HitsIn(s.failures, O)
                               + HitsIn(s.service["block"], O) + HitsIn(s.service["shmem"], O)
                               + HitsIn(s.service["dfs"], O) + HitsIn(s.service["db"], O)
      BY <1>1 DEF Settled
    <3> HIDE DEF O
    <3> QED BY <3>1, <3>2, <3>3
  <2>8. HitsIn(t.cq[g], T) = c + a
    BY <2>4
  <2> HIDE DEF c, x, a
  <2>9. Settled(t, g, T) = Settled(s, g, T) + a
    BY <2>5, <2>6, <2>7, <2>8
  <2> QED BY <2>9 DEF a
<1> QED BY <1>1, <1>2 DEF Adds, t

\* A command that finds room is completed, at once or by its service.
LEMMA SubmitIs ==
  ASSUME NEW s \in Surface, NEW cmd \in Command, cmd.op # "BadIo"
  PROVE  LET t == submit_descriptor_to_cq(s, cmd)
             e == Event(cmd, DoneStatus(s, cmd))
         IN  /\ t \in Surface
             /\ t.cmdq = s.cmdq /\ t.runtime = s.runtime /\ t.failures = s.failures
             /\ t.refused = s.refused /\ t.lost = s.lost
             /\ \A v \in Services :
                  /\ t.store[v] = IF cmd.op \in Inserts /\ v = ServiceOf(cmd.op)
                                  THEN s.store[v] \cup {cmd.key} ELSE s.store[v]
                  /\ t.service[v] = IF v = ServiceOf(cmd.op)
                                    THEN Append(s.service[v], e) ELSE s.service[v]
             /\ Adds(s, t, e)
<1> DEFINE t == submit_descriptor_to_cq(s, cmd)
           e == Event(cmd, DoneStatus(s, cmd))
<1>1. cmd.op \in AllOps /\ cmd.guest \in Guests
  BY EventIs DEF Statuses
<1>2. /\ Event(cmd, "Success") \in EventType /\ Event(cmd, "Success").guest = cmd.guest
      /\ Event(cmd, "Failure") \in EventType /\ Event(cmd, "Failure").guest = cmd.guest
  BY EventIs DEF Statuses
<1>3. CASE cmd.op \in {"Dispatch", "Remote"}
  <2>1. e \in EventType /\ t = enqueue_to_cq(s, e.guest, e)
    BY <1>2, <1>3 DEF submit_descriptor_to_cq, DoneStatus, StatusOf, Inserts, Lookups
  <2>2. ServiceOf(cmd.op) \notin Services /\ cmd.op \notin Inserts
    BY <1>1, <1>3, ServiceOfIs DEF Inserts
  <2> HIDE DEF e, t
  <2>3. /\ t \in Surface /\ t.service = s.service
        /\ t.cmdq = s.cmdq /\ t.runtime = s.runtime /\ t.store = s.store
        /\ t.failures = s.failures /\ t.refused = s.refused /\ t.lost = s.lost
        /\ Adds(s, t, e)
    BY <2>1, EnqueueIs
  <2>4. \A v \in Services : v # ServiceOf(cmd.op)
    BY <2>2
  <2> QED BY <2>2, <2>3, <2>4 DEF t, e
<1>4. CASE cmd.op \notin {"Dispatch", "Remote"}
  <2>1. DoneStatus(s, cmd) = StatusOf(s, cmd) /\ t = ServiceSubmit(s, cmd)
    BY <1>4 DEF submit_descriptor_to_cq, DoneStatus
  <2>2. ServiceOf(cmd.op) \in Services
    <3>1. cmd.op \in Inserts \cup Lookups \cup {"BigPut"}
      BY <1>1, <1>4 DEF AllOps
    <3> QED BY <1>1, <3>1, ServiceOfIs
  <2> DEFINE w == ServiceOf(cmd.op)
  <2> HIDE DEF t
  <2>3. /\ t \in Surface
        /\ t.cmdq = s.cmdq /\ t.runtime = s.runtime /\ t.failures = s.failures
        /\ t.refused = s.refused /\ t.lost = s.lost
        /\ t.store = [s.store EXCEPT ![w] = IF cmd.op \in Inserts THEN @ \cup {cmd.key} ELSE @]
        /\ t.service = [s.service EXCEPT ![w] = Append(@, e)]
        /\ Adds(s, t, e)
    <3> DEFINE z == ServiceSubmit(s, cmd)
               x == Event(cmd, StatusOf(s, cmd))
    <3>1. /\ z \in Surface
          /\ z.cmdq = s.cmdq /\ z.runtime = s.runtime /\ z.failures = s.failures
          /\ z.refused = s.refused /\ z.lost = s.lost
          /\ z.store = [s.store EXCEPT ![w] = IF cmd.op \in Inserts THEN @ \cup {cmd.key} ELSE @]
          /\ z.service = [s.service EXCEPT ![w] = Append(@, x)]
          /\ Adds(s, z, x)
      BY <2>2, ServiceSubmitIs
    <3>2. t = z /\ e = x
      BY <2>1
    <3> HIDE DEF z, x, e, w
    <3> QED BY <3>1, <3>2
  <2>4. s.service \in [Services -> Seq(EventType)] /\ s.store \in [Services -> SUBSET Keys]
    BY SurfaceFields
  <2> HIDE DEF e, w
  <2>5. ASSUME NEW v \in Services
        PROVE  /\ t.store[v] = IF cmd.op \in Inserts /\ v = w
                               THEN s.store[v] \cup {cmd.key} ELSE s.store[v]
               /\ t.service[v] = IF v = w THEN Append(s.service[v], e) ELSE s.service[v]
    BY <2>3, <2>4
  <2> QED BY <2>3, <2>5 DEF w, e, t
<1> QED BY <1>3, <1>4

-----------------------------------------------------------------------------
(* One entry of the runtime queue *)

\* What driving entry r can do to surface s, with outcome t.
Frame(s, t) == t \in Surface /\ t.cmdq = s.cmdq /\ t.lost = s.lost

Again(s, r, t) ==
  /\ r.attempts < MaxRetries
  /\ ServiceFull(s, r.cmd)
  /\ t.runtime = Append(s.runtime, [r EXCEPT !.attempts = @ + 1])
  /\ t.refused = s.refused \cup {r.cmd.id}
  /\ t.store = s.store
  /\ t.service = NoService
  /\ SameEvents(s, t)

GivenUp(s, r, t) ==
  /\ r.attempts >= MaxRetries
  /\ ServiceFull(s, r.cmd)
  /\ t.runtime = s.runtime
  /\ t.refused = s.refused \cup {r.cmd.id}
  /\ t.store = s.store
  /\ t.service = NoService
  /\ Adds(s, t, Event(r.cmd, "Exhausted"))

Rejected(s, r, t) ==
  /\ r.cmd.op = "BadIo"
  /\ t.runtime = s.runtime
  /\ t.refused = s.refused
  /\ t.store = s.store
  /\ t.service = s.service
  /\ Adds(s, t, Event(r.cmd, "Invalid"))

Completed(s, r, t) ==
  /\ r.cmd.op # "BadIo"
  /\ ~ServiceFull(s, r.cmd)
  /\ t.runtime = s.runtime
  /\ t.refused = s.refused
  /\ \A v \in Services :
       /\ t.store[v] = IF r.cmd.op \in Inserts /\ v = ServiceOf(r.cmd.op)
                       THEN s.store[v] \cup {r.cmd.key} ELSE s.store[v]
       /\ t.service[v] = IF v = ServiceOf(r.cmd.op)
                         THEN Append(s.service[v], Event(r.cmd, DoneStatus(s, r.cmd)))
                         ELSE s.service[v]
  /\ Adds(s, t, Event(r.cmd, DoneStatus(s, r.cmd)))

\* The history notes a refusal.
LEMMA RefusedIs ==
  ASSUME NEW s \in Surface, NEW r \in Entry
  PROVE  LET t == Refused(s, r)
         IN  /\ t \in Surface /\ t.service = s.service /\ t.cq = s.cq
             /\ t.cmdq = s.cmdq /\ t.runtime = s.runtime /\ t.store = s.store
             /\ t.failures = s.failures /\ t.lost = s.lost
             /\ t.refused = s.refused \cup {r.cmd.id}
<1> DEFINE x == s.refused \cup {r.cmd.id}
<1>1. r.cmd \in Command /\ r.cmd.id \in 1 .. MaxCmds
  BY DEF Entry, Command
<1>2. x \in SUBSET (1 .. MaxCmds)
  BY <1>1, SurfaceFields
<1>3. Refused(s, r) = [s EXCEPT !.refused = x]
  BY DEF Refused
<1> HIDE DEF x
<1>4. LET t == [s EXCEPT !.refused = x]
      IN  /\ t \in Surface /\ t.service = s.service /\ t.cq = s.cq
          /\ t.cmdq = s.cmdq /\ t.runtime = s.runtime /\ t.store = s.store
          /\ t.failures = s.failures /\ t.lost = s.lost
          /\ t.refused = x
  BY <1>2 DEF Surface
<1> QED BY <1>3, <1>4 DEF x

\* An entry goes to the back of the runtime queue.
LEMMA RetriedIs ==
  ASSUME NEW s \in Surface, NEW r \in Entry, r.attempts < MaxRetries
  PROVE  LET t == Retried(s, r)
             x == [r EXCEPT !.attempts = @ + 1]
         IN  /\ t \in Surface /\ t.service = s.service /\ t.cq = s.cq
             /\ t.cmdq = s.cmdq /\ t.refused = s.refused /\ t.store = s.store
             /\ t.failures = s.failures /\ t.lost = s.lost
             /\ t.runtime = Append(s.runtime, x)
             /\ x \in Entry /\ x.cmd = r.cmd /\ x.attempts = r.attempts + 1
<1> DEFINE x == [r EXCEPT !.attempts = @ + 1]
           q == Append(s.runtime, x)
<1>1. x \in Entry /\ x.cmd = r.cmd /\ x.attempts = r.attempts + 1
  BY SurfaceAssumption DEF Entry
<1>2. s.runtime \in Seq(Entry)
  BY SurfaceFields
<1>3. Retried(s, r) = [s EXCEPT !.runtime = q]
  BY DEF Retried
<1> HIDE DEF x
<1>4. q \in Seq(Entry)
  BY <1>1, <1>2, AppendProperties
<1> HIDE DEF q
<1>5. LET t == [s EXCEPT !.runtime = q]
      IN  /\ t \in Surface /\ t.service = s.service /\ t.cq = s.cq
          /\ t.cmdq = s.cmdq /\ t.refused = s.refused /\ t.store = s.store
          /\ t.failures = s.failures /\ t.lost = s.lost
          /\ t.runtime = q
  BY <1>4 DEF Surface
<1> QED BY <1>1, <1>3, <1>5 DEF q, x

\* Surfaces with the same completion queues, services and failures hold the
\* same completions.
LEMMA SameEventsIs ==
  ASSUME NEW s, NEW t, t.cq = s.cq, t.service = s.service, t.failures = s.failures
  PROVE  SameEvents(s, t) /\ SameEvents(t, s)
  BY DEF SameEvents, Settled

\* The four outcomes.
LEMMA DriveEntryIs ==
  ASSUME NEW s \in Surface, NEW r \in Entry
  PROVE  LET t == DriveEntry(s, r)
         IN  /\ Frame(s, t)
             /\ Again(s, r, t) \/ GivenUp(s, r, t) \/ Rejected(s, r, t) \/ Completed(s, r, t)
<1> DEFINE t == DriveEntry(s, r)
           u == flush_services(s)
           w == Refused(u, r)
<1>0. r.cmd \in Command /\ r.attempts \in 0 .. MaxRetries /\ MaxRetries \in Nat
  BY SurfaceAssumption DEF Entry
<1>1. CASE r.cmd.op = "BadIo"
  <2> DEFINE z == Failed(s, r.cmd, "Invalid")
  <2>0. ~ServiceFull(s, r.cmd)
    BY <1>1 DEF ServiceFull, ServiceOf
  <2>1. t = z
    BY <1>1, <2>0 DEF DriveEntry
  <2>2. /\ z \in Surface /\ z.service = s.service
        /\ z.cmdq = s.cmdq /\ z.runtime = s.runtime /\ z.store = s.store
        /\ z.refused = s.refused /\ z.lost = s.lost
        /\ Adds(s, z, Event(r.cmd, "Invalid"))
    BY <1>0, FailedIs DEF Statuses
  <2> HIDE DEF z
  <2>3. Frame(s, z) /\ Rejected(s, r, z)
    BY <1>1, <2>2 DEF Frame, Rejected
  <2> QED BY <2>1, <2>3
<1>2. CASE r.cmd.op # "BadIo" /\ ServiceFull(s, r.cmd)
  <2>1. /\ u \in Surface /\ u.service = NoService
        /\ u.cmdq = s.cmdq /\ u.runtime = s.runtime /\ u.store = s.store
        /\ u.failures = s.failures /\ u.refused = s.refused /\ u.lost = s.lost
        /\ SameEvents(s, u)
    BY FlushIs
  <2>2. t = IF r.attempts < MaxRetries THEN Retried(w, r) ELSE Failed(w, r.cmd, "Exhausted")
    BY <1>2 DEF DriveEntry
  <2> HIDE DEF u
  <2>3. /\ w \in Surface /\ w.service = u.service /\ w.cq = u.cq
        /\ w.cmdq = u.cmdq /\ w.runtime = u.runtime /\ w.store = u.store
        /\ w.failures = u.failures /\ w.lost = u.lost
        /\ w.refused = u.refused \cup {r.cmd.id}
    BY <2>1, RefusedIs
  <2> HIDE DEF w, t
  <2>4. SameEvents(s, w)
    <3>1. SameEvents(u, w)
      BY <2>3, SameEventsIs
    <3> QED BY <2>1, <3>1 DEF SameEvents
  <2>5. CASE r.attempts < MaxRetries
    <3> DEFINE z == Retried(w, r)
    <3>1. /\ z \in Surface /\ z.service = w.service /\ z.cq = w.cq
          /\ z.cmdq = w.cmdq /\ z.refused = w.refused /\ z.store = w.store
          /\ z.failures = w.failures /\ z.lost = w.lost
          /\ z.runtime = Append(w.runtime, [r EXCEPT !.attempts = @ + 1])
      BY <2>3, <2>5, RetriedIs
    <3>2. t = z
      BY <2>2, <2>5
    <3> HIDE DEF z
    <3>3. SameEvents(w, z)
      BY <3>1, SameEventsIs
    <3>4. SameEvents(s, z)
      BY <2>4, <3>3 DEF SameEvents
    <3>5. Frame(s, z)
      BY <2>1, <2>3, <3>1 DEF Frame
    <3>6. Again(s, r, z)
      BY <1>2, <2>1, <2>3, <2>5, <3>1, <3>4 DEF Again
    <3> QED BY <3>2, <3>5, <3>6 DEF t
  <2>6. CASE ~(r.attempts < MaxRetries)
    <3> DEFINE z == Failed(w, r.cmd, "Exhausted")
               e == Event(r.cmd, "Exhausted")
    <3>1. /\ z \in Surface /\ z.service = w.service
          /\ z.cmdq = w.cmdq /\ z.runtime = w.runtime /\ z.store = w.store
          /\ z.refused = w.refused /\ z.lost = w.lost
          /\ Adds(w, z, e)
      BY <1>0, <2>3, FailedIs DEF Statuses
    <3>2. t = z
      BY <2>2, <2>6
    <3> HIDE DEF z
    <3>3. Adds(s, z, e)
      <4> HIDE DEF e
      <4> QED BY <2>4, <3>1 DEF SameEvents, Adds
    <3>4. Frame(s, z)
      BY <2>1, <2>3, <3>1 DEF Frame
    <3>5. GivenUp(s, r, z)
      BY <1>0, <1>2, <2>1, <2>3, <2>6, <3>1, <3>3 DEF GivenUp
    <3> QED BY <3>2, <3>4, <3>5 DEF t
  <2> QED BY <2>5, <2>6
<1>3. CASE r.cmd.op # "BadIo" /\ ~ServiceFull(s, r.cmd)
  <2> DEFINE z == submit_descriptor_to_cq(s, r.cmd)
             e == Event(r.cmd, DoneStatus(s, r.cmd))
  <2>1. t = z
    BY <1>3 DEF DriveEntry
  <2>2. /\ z \in Surface
        /\ z.cmdq = s.cmdq /\ z.runtime = s.runtime /\ z.failures = s.failures
        /\ z.refused = s.refused /\ z.lost = s.lost
        /\ \A v \in Services :
             /\ z.store[v] = IF r.cmd.op \in Inserts /\ v = ServiceOf(r.cmd.op)
                             THEN s.store[v] \cup {r.cmd.key} ELSE s.store[v]
             /\ z.service[v] = IF v = ServiceOf(r.cmd.op)
                               THEN Append(s.service[v], e) ELSE s.service[v]
        /\ Adds(s, z, e)
    BY <1>0, <1>3, SubmitIs
  <2> HIDE DEF z
  <2>3. Frame(s, z) /\ Completed(s, r, z)
    BY <1>3, <2>2 DEF Frame, Completed
  <2> QED BY <2>1, <2>3
<1> QED BY <1>1, <1>2, <1>3

Outcome(s, r, t) ==
  /\ Frame(s, t)
  /\ Again(s, r, t) \/ GivenUp(s, r, t) \/ Rejected(s, r, t) \/ Completed(s, r, t)

Shallow(s) == \A v \in Services : Len(s.service[v]) <= ServiceDepth[v]

\* Whatever the outcome, the stores and the history of refusals only grow,
\* the services stay within their depths, and the runtime queue grows by the
\* same command with one more attempt, noted as refused, or not at all.
LEMMA OutcomeIs ==
  ASSUME NEW s \in Surface, NEW r \in Entry, NEW t, Outcome(s, r, t)
  PROVE  /\ t \in Surface /\ t.cmdq = s.cmdq /\ t.lost = s.lost
         /\ s.refused \subseteq t.refused
         /\ \A v \in Services : s.store[v] \subseteq t.store[v]
         /\ Shallow(s) => Shallow(t)
         /\ \/ t.runtime = s.runtime
            \/ \E x \in Entry : /\ x.cmd = r.cmd /\ x.attempts = r.attempts + 1
                                /\ t.runtime = Append(s.runtime, x)
                                /\ r.cmd.id \in t.refused
<1>1. t \in Surface /\ t.cmdq = s.cmdq /\ t.lost = s.lost
  BY DEF Outcome, Frame
<1>2. s.refused \subseteq t.refused /\ \A v \in Services : s.store[v] \subseteq t.store[v]
  BY DEF Outcome, Again, GivenUp, Rejected, Completed
<1>3. ASSUME Shallow(s), NEW v \in Services PROVE Len(t.service[v]) <= ServiceDepth[v]
  <2>1. s.service[v] \in Seq(EventType) /\ Len(s.service[v]) \in Nat
    BY SurfaceFields, LenProperties
  <2>2. ServiceDepth[v] \in Nat /\ Len(s.service[v]) <= ServiceDepth[v]
    BY <1>3, SurfaceAssumption DEF Shallow
  <2>3. CASE t.service = NoService
    <3>1. t.service[v] = <<>>
      BY <2>3 DEF NoService
    <3> QED BY <2>2, <3>1
  <2>4. CASE t.service = s.service
    BY <2>2, <2>4
  <2>5. CASE Completed(s, r, t)
    <3>1. CASE v = ServiceOf(r.cmd.op)
      <4> DEFINE e == Event(r.cmd, DoneStatus(s, r.cmd))
      <4>1. ServiceOf(r.cmd.op) # "none"
        BY <3>1 DEF Services
      <4>2. ~(Len(s.service[v]) >= ServiceDepth[v])
        BY <2>5, <3>1, <4>1 DEF Completed, ServiceFull
      <4>3. t.service[v] = Append(s.service[v], e)
        BY <2>5, <3>1 DEF Completed
      <4>4. Len(Append(s.service[v], e)) = Len(s.service[v]) + 1
        <5>1. e \in EventType
          BY EventIs DEF Entry, DoneStatus, StatusOf, Statuses
        <5> HIDE DEF e
        <5> QED BY <2>1, <5>1, AppendProperties
      <4> QED BY <2>1, <2>2, <4>2, <4>3, <4>4
    <3>2. CASE v # ServiceOf(r.cmd.op)
      BY <2>2, <2>5, <3>2 DEF Completed
    <3> QED BY <3>1, <3>2
  <2> QED BY <2>3, <2>4, <2>5 DEF Outcome, Again, GivenUp, Rejected
<1>4. \/ t.runtime = s.runtime
      \/ \E x \in Entry : /\ x.cmd = r.cmd /\ x.attempts = r.attempts + 1
                          /\ t.runtime = Append(s.runtime, x)
                          /\ r.cmd.id \in t.refused
  <2>1. CASE Again(s, r, t)
    <3> DEFINE x == [r EXCEPT !.attempts = @ + 1]
    <3>1. x \in Entry /\ x.cmd = r.cmd /\ x.attempts = r.attempts + 1
      BY <2>1, SurfaceAssumption DEF Again, Entry
    <3> QED BY <2>1, <3>1 DEF Again
  <2> QED BY <2>1 DEF Outcome, GivenUp, Rejected, Completed
<1> QED BY <1>1, <1>2, <1>3, <1>4 DEF Shallow

-----------------------------------------------------------------------------
(* The loop of drive_ready *)

\* f holds the surfaces between the entries of q.
Drives(s, q, f) ==
  /\ f \in [0 .. Len(q) -> Surface]
  /\ f[0] = s
  /\ \A k \in 1 .. Len(q) : Outcome(f[k - 1], q[k], f[k])

\* There is such an f, and it ends where DriveAll does.
LEMMA DriveLoop ==
  ASSUME NEW s \in Surface, NEW q \in Seq(Entry)
  PROVE  \E f : /\ Drives(s, q, f) /\ DriveAll(s, q) = f[Len(q)]
              /\ \A k \in 1 .. Len(q) : f[k] = DriveEntry(f[k - 1], q[k])
<1> DEFINE n == Len(q)
           F == [k \in 1 .. n |-> [x \in Surface |-> DriveEntry(x, q[k])]]
           Is(f) == f = [k \in 0 .. n |-> IF k = 0 THEN s ELSE DriveEntry(f[k - 1], q[k])]
           acc == CHOOSE f : Is(f)
<1>1. n \in Nat /\ \A k \in 1 .. n : q[k] \in Entry
  BY LenProperties, ElementOfSeq
<1>2. \A k \in 1 .. n : \A x \in Surface :
        DriveEntry(x, q[k]) \in Surface /\ Outcome(x, q[k], DriveEntry(x, q[k]))
  BY <1>1, DriveEntryIs DEF Frame, Outcome
<1>3. F \in [1 .. n -> [Surface -> Surface]]
  <2> HIDE DEF n
  <2> QED BY <1>2
<1>4. \A k \in 1 .. n : \A x \in Surface : F[k][x] = DriveEntry(x, q[k])
  OBVIOUS
<1> HIDE DEF n, F
<1>5. PICK f \in [0 .. n -> Surface] : f[0] = s /\ \A k \in 1 .. n : f[k] = F[k][f[k - 1]]
  BY <1>1, <1>3, SurfaceLoop, Zenon
<1>6. ASSUME NEW k \in 1 .. n
      PROVE  f[k] = DriveEntry(f[k - 1], q[k]) /\ Outcome(f[k - 1], q[k], f[k])
  <2>1. f[k - 1] \in Surface
    BY <1>1, <1>5
  <2> QED BY <1>2, <1>4, <1>5, <2>1
<1>7. Is(f)
  <2>1. ASSUME NEW k \in 0 .. n
        PROVE  f[k] = IF k = 0 THEN s ELSE DriveEntry(f[k - 1], q[k])
    BY <1>1, <1>5, <1>6
  <2> QED BY <1>5, <2>1
<1>8. Is(acc)
  <2> HIDE DEF Is
  <2> QED BY <1>7, Zenon
<1>9. \A k \in 0 .. n : acc[k] = IF k = 0 THEN s ELSE DriveEntry(acc[k - 1], q[k])
  BY <1>8
<1>10. \A k \in 0 .. n : acc[k] = f[k]
  <2> DEFINE T == {k \in 0 .. n : acc[k] = f[k]}
  <2>1. 0 \in T
    BY <1>1, <1>5, <1>9
  <2>2. ASSUME NEW k \in 0 .. n - 1, k \in T PROVE k + 1 \in T
    <3>1. k + 1 \in 1 .. n /\ k + 1 \in 0 .. n /\ (k + 1) - 1 = k /\ k + 1 # 0
      BY <1>1
    <3> HIDE DEF acc
    <3>2. acc[k + 1] = DriveEntry(acc[k], q[k + 1])
      BY <1>9, <3>1
    <3>3. f[k + 1] = DriveEntry(f[k], q[k + 1])
      BY <1>6, <3>1
    <3> QED BY <2>2, <3>1, <3>2, <3>3
  <2> HIDE DEF T
  <2>3. \A k \in 0 .. n : k \in T
    BY <1>1, <2>1, <2>2, UpTo
  <2> QED BY <2>3 DEF T
<1>11. DriveAll(s, q) = acc[n]
  BY Zenon DEF DriveAll, n
<1>12. DriveAll(s, q) = f[n]
  <2> HIDE DEF acc
  <2> QED BY <1>1, <1>10, <1>11
<1>13. Drives(s, q, f)
  BY <1>5, <1>6 DEF Drives, n
<1> QED BY <1>6, <1>12, <1>13 DEF n

\* One turn of the loop.
LEMMA DriveTurn ==
  ASSUME NEW s \in Surface, NEW q \in Seq(Entry), NEW f, Drives(s, q, f)
  PROVE  /\ Len(q) \in Nat /\ f[0] = s /\ f[Len(q)] \in Surface
         /\ \A k \in 0 .. Len(q) : f[k] \in Surface
         /\ \A k \in 0 .. Len(q) - 1 :
              /\ k + 1 \in 1 .. Len(q) /\ k \in 0 .. Len(q) /\ k + 1 \in 0 .. Len(q)
              /\ f[k] \in Surface /\ f[k + 1] \in Surface /\ q[k + 1] \in Entry
              /\ Outcome(f[k], q[k + 1], f[k + 1])
<1>1. Len(q) \in Nat /\ \A k \in 1 .. Len(q) : q[k] \in Entry
  BY LenProperties, ElementOfSeq
<1>2. f \in [0 .. Len(q) -> Surface] /\ f[0] = s
  BY DEF Drives
<1>3. ASSUME NEW k \in 0 .. Len(q) - 1
      PROVE  /\ k + 1 \in 1 .. Len(q) /\ k \in 0 .. Len(q) /\ k + 1 \in 0 .. Len(q)
             /\ f[k] \in Surface /\ f[k + 1] \in Surface /\ q[k + 1] \in Entry
             /\ Outcome(f[k], q[k + 1], f[k + 1])
  <2>1. /\ k + 1 \in 1 .. Len(q) /\ k \in 0 .. Len(q) /\ k + 1 \in 0 .. Len(q)
        /\ (k + 1) - 1 = k
    BY <1>1
  <2>2. Outcome(f[(k + 1) - 1], q[k + 1], f[k + 1])
    BY <2>1 DEF Drives
  <2> QED BY <1>1, <1>2, <2>1, <2>2
<1>4. Len(q) \in 0 .. Len(q)
  BY <1>1
<1> QED BY <1>1, <1>2, <1>3, <1>4

\* What holds after k entries, whatever they are.  All had at least a
\* attempts before.
Driven(s, q, a, t, k) ==
  /\ t \in Surface /\ t.cmdq = s.cmdq /\ t.lost = s.lost
  /\ s.refused \subseteq t.refused
  /\ \A v \in Services : s.store[v] \subseteq t.store[v]
  /\ Shallow(s) => Shallow(t)
  /\ Len(t.runtime) <= k
  /\ \A i \in 1 .. Len(t.runtime) :
       /\ t.runtime[i].attempts >= a + 1
       /\ t.runtime[i].cmd.id \in t.refused
       /\ \E j \in 1 .. Len(q) : t.runtime[i].cmd = q[j].cmd

\* It holds throughout the loop.
LEMMA DrivenAlways ==
  ASSUME NEW s \in Surface, NEW q \in Seq(Entry), NEW f, Drives(s, q, f), s.runtime = <<>>,
         NEW a \in Nat, \A i \in 1 .. Len(q) : q[i].attempts >= a
  PROVE  \A k \in 0 .. Len(q) : Driven(s, q, a, f[k], k)
<1> DEFINE n == Len(q)
           K == {k \in 0 .. n : Driven(s, q, a, f[k], k)}
<1>1. n \in Nat /\ f[0] = s
  BY DriveTurn
<1>2. 0 \in K
  <2>1. Len(s.runtime) = 0
    OBVIOUS
  <2> QED BY <1>1, <2>1 DEF Driven
<1>3. ASSUME NEW k \in 0 .. n - 1, k \in K PROVE k + 1 \in K
  <2> DEFINE x == f[k]
             y == f[k + 1]
             r == q[k + 1]
             X == x.runtime
             Y == y.runtime
  <2>1. /\ k + 1 \in 1 .. n /\ k + 1 \in 0 .. n /\ k \in Nat
        /\ x \in Surface /\ r \in Entry /\ Outcome(x, r, y)
    BY <1>1, DriveTurn
  <2>2. Driven(s, q, a, x, k)
    BY <1>3
  <2>3. r.attempts >= a /\ r.attempts \in Nat
    BY <2>1 DEF Entry
  <2>4. r = q[k + 1]
    OBVIOUS
  <2> HIDE DEF x, y, r, n
  <2>5. /\ y \in Surface /\ y.cmdq = x.cmdq /\ y.lost = x.lost
        /\ x.refused \subseteq y.refused
        /\ \A v \in Services : x.store[v] \subseteq y.store[v]
        /\ Shallow(x) => Shallow(y)
        /\ \/ Y = X
           \/ \E z \in Entry : /\ z.cmd = r.cmd /\ z.attempts = r.attempts + 1
                               /\ Y = Append(X, z)
                               /\ r.cmd.id \in y.refused
    BY <2>1, OutcomeIs
  <2>6. X \in Seq(Entry) /\ Len(X) \in Nat
    BY <2>1, SurfaceFields, LenProperties
  <2>7. /\ Len(X) <= k
        /\ \A i \in 1 .. Len(X) :
             /\ X[i].attempts >= a + 1
             /\ X[i].cmd.id \in x.refused
             /\ \E j \in 1 .. n : X[i].cmd = q[j].cmd
    BY <2>2 DEF Driven, n
  <2>8. /\ Len(Y) <= k + 1
        /\ \A i \in 1 .. Len(Y) :
             /\ Y[i].attempts >= a + 1
             /\ Y[i].cmd.id \in y.refused
             /\ \E j \in 1 .. n : Y[i].cmd = q[j].cmd
    <3>1. CASE Y = X
      <4> HIDE DEF X, Y
      <4> QED BY <2>1, <2>5, <2>6, <2>7, <3>1
    <3>2. CASE \E z \in Entry : /\ z.cmd = r.cmd /\ z.attempts = r.attempts + 1
                                /\ Y = Append(X, z) /\ r.cmd.id \in y.refused
      <4>1. PICK z \in Entry : /\ z.cmd = r.cmd /\ z.attempts = r.attempts + 1
                               /\ Y = Append(X, z) /\ r.cmd.id \in y.refused
        BY <3>2
      <4> HIDE DEF X, Y
      <4>2. /\ Len(Y) = Len(X) + 1 /\ Y[Len(X) + 1] = z
            /\ \A i \in 1 .. Len(X) : Y[i] = X[i]
        BY <2>6, <4>1, AppendProperties
      <4>3. ASSUME NEW i \in 1 .. Len(Y)
            PROVE  /\ Y[i].attempts >= a + 1
                   /\ Y[i].cmd.id \in y.refused
                   /\ \E j \in 1 .. n : Y[i].cmd = q[j].cmd
        <5>1. CASE i = Len(X) + 1
          <6>1. Y[i] = z /\ Y[i].cmd = q[k + 1].cmd
            BY <2>4, <4>1, <4>2, <5>1
          <6> QED BY <2>1, <2>3, <4>1, <6>1
        <5>2. CASE i # Len(X) + 1
          <6>1. i \in 1 .. Len(X)
            BY <2>6, <4>2, <5>2
          <6>2. Y[i] = X[i]
            BY <4>2, <6>1
          <6> QED BY <2>5, <2>7, <6>1, <6>2
        <5> QED BY <5>1, <5>2
      <4> QED BY <2>1, <2>6, <2>7, <4>2, <4>3
    <3> QED BY <2>5, <3>1, <3>2
  <2> HIDE DEF X, Y
  <2>9. Driven(s, q, a, y, k + 1)
    <3>1. y.cmdq = s.cmdq /\ y.lost = s.lost /\ s.refused \subseteq y.refused
          /\ (Shallow(s) => Shallow(y))
      BY <2>2, <2>5 DEF Driven
    <3>2. \A v \in Services : s.store[v] \subseteq y.store[v]
      BY <2>2, <2>5 DEF Driven
    <3> QED BY <2>5, <2>8, <3>1, <3>2 DEF Driven, X, Y, n
  <2> QED BY <2>1, <2>9 DEF y
<1> HIDE DEF K
<1>4. \A k \in 0 .. n : k \in K
  BY <1>1, <1>2, <1>3, UpTo
<1> QED BY <1>4 DEF K

-----------------------------------------------------------------------------
(* Nothing is lost or doubled in the loop *)

IdEvents(id) == {e \in EventType : e.id = id}

IdEntries(id) == {r \in Entry : r.cmd.id = id}

\* An entry is put back, or answered by one completion.
LEMMA OutcomeAdds ==
  ASSUME NEW s \in Surface, NEW r \in Entry, NEW t, Outcome(s, r, t)
  PROVE  \/ /\ SameEvents(s, t)
            /\ \E x \in Entry : x.cmd = r.cmd /\ t.runtime = Append(s.runtime, x)
         \/ /\ t.runtime = s.runtime
            /\ \E e \in EventType : e.id = r.cmd.id /\ e.guest = r.cmd.guest /\ Adds(s, t, e)
<1>1. CASE Again(s, r, t)
  <2> DEFINE x == [r EXCEPT !.attempts = @ + 1]
  <2>1. x \in Entry /\ x.cmd = r.cmd
    BY <1>1, SurfaceAssumption DEF Again, Entry
  <2> QED BY <1>1, <2>1 DEF Again
<1>2. ASSUME NEW status \in Statuses, t.runtime = s.runtime, Adds(s, t, Event(r.cmd, status))
      PROVE  /\ t.runtime = s.runtime
             /\ \E e \in EventType : e.id = r.cmd.id /\ e.guest = r.cmd.guest /\ Adds(s, t, e)
  <2>1. r.cmd \in Command
    BY DEF Entry
  <2>2. /\ Event(r.cmd, status) \in EventType /\ Event(r.cmd, status).id = r.cmd.id
        /\ Event(r.cmd, status).guest = r.cmd.guest
    BY <2>1, EventIs
  <2> QED BY <1>2, <2>2
<1>3. DoneStatus(s, r.cmd) \in Statuses /\ "Invalid" \in Statuses /\ "Exhausted" \in Statuses
  BY DEF DoneStatus, StatusOf, Statuses
<1>4. CASE GivenUp(s, r, t)
  BY <1>2, <1>3, <1>4 DEF GivenUp
<1>5. CASE Rejected(s, r, t)
  BY <1>2, <1>3, <1>5 DEF Rejected
<1>6. CASE Completed(s, r, t)
  BY <1>2, <1>3, <1>6 DEF Completed
<1> QED BY <1>1, <1>4, <1>5, <1>6 DEF Outcome

\* So a command is still in one place.
LEMMA OutcomeCounts ==
  ASSUME NEW s \in Surface, NEW r \in Entry, NEW t, Outcome(s, r, t),
         NEW g \in Guests, NEW id, r.cmd.id = id => r.cmd.guest = g
  PROVE  Settled(t, g, IdEvents(id)) + HitsIn(t.runtime, IdEntries(id))
           = Settled(s, g, IdEvents(id)) + HitsIn(s.runtime, IdEntries(id))
               + (IF r \in IdEntries(id) THEN 1 ELSE 0)
<1> DEFINE a == Settled(s, g, IdEvents(id))
           b == HitsIn(s.runtime, IdEntries(id))
<1>1. s.runtime \in Seq(Entry)
  BY SurfaceFields
<1>2. a \in Nat /\ b \in Nat
  BY <1>1, SettledType, HitsType
<1>3. CASE /\ SameEvents(s, t)
           /\ \E x \in Entry : x.cmd = r.cmd /\ t.runtime = Append(s.runtime, x)
  <2>1. PICK x \in Entry : x.cmd = r.cmd /\ t.runtime = Append(s.runtime, x)
    BY <1>3
  <2>2. x \in IdEntries(id) <=> r \in IdEntries(id)
    BY <2>1 DEF IdEntries
  <2>3. HitsIn(t.runtime, IdEntries(id)) = b + (IF x \in IdEntries(id) THEN 1 ELSE 0)
    BY <1>1, <2>1, HitsAppend
  <2>4. Settled(t, g, IdEvents(id)) = a
    BY <1>3 DEF SameEvents
  <2> HIDE DEF a, b
  <2> QED BY <1>2, <2>2, <2>3, <2>4 DEF a, b
<1>4. CASE /\ t.runtime = s.runtime
           /\ \E e \in EventType : e.id = r.cmd.id /\ e.guest = r.cmd.guest /\ Adds(s, t, e)
  <2>1. PICK e \in EventType : e.id = r.cmd.id /\ e.guest = r.cmd.guest /\ Adds(s, t, e)
    BY <1>4
  <2>2. e \in Of(g, IdEvents(id)) <=> r \in IdEntries(id)
    BY <2>1 DEF IdEntries, IdEvents, Of
  <2>3. Settled(t, g, IdEvents(id)) = a + (IF e \in Of(g, IdEvents(id)) THEN 1 ELSE 0)
    BY <2>1 DEF Adds
  <2>4. HitsIn(t.runtime, IdEntries(id)) = b
    BY <1>4
  <2> HIDE DEF a, b
  <2> QED BY <1>2, <2>2, <2>3, <2>4 DEF a, b
<1> QED BY <1>3, <1>4, OutcomeAdds

\* And so it is at the end of the loop.
LEMMA DriveCounts ==
  ASSUME NEW s \in Surface, NEW q \in Seq(Entry), NEW f, Drives(s, q, f), s.runtime = <<>>,
         NEW g \in Guests, NEW id, \A i \in 1 .. Len(q) : q[i].cmd.id = id => q[i].cmd.guest = g
  PROVE  Settled(f[Len(q)], g, IdEvents(id)) + HitsIn(f[Len(q)].runtime, IdEntries(id))
           = Settled(s, g, IdEvents(id)) + HitsIn(q, IdEntries(id))
<1> DEFINE n == Len(q)
           a == Settled(s, g, IdEvents(id))
           H(k) == HitsIn(SubSeq(q, 1, k), IdEntries(id))
           C(t) == Settled(t, g, IdEvents(id)) + HitsIn(t.runtime, IdEntries(id))
           K == {k \in 0 .. n : C(f[k]) = a + H(k)}
<1>1. n \in Nat /\ f[0] = s /\ n \in 0 .. n
  BY DriveTurn
<1>2. /\ H(0) = 0 /\ H(n) = HitsIn(q, IdEntries(id))
      /\ \A k \in 0 .. n - 1 : H(k + 1) = H(k) + (IF q[k + 1] \in IdEntries(id) THEN 1 ELSE 0)
  BY HitsPrefix
<1>3. a \in Nat
  BY SettledType
<1>4. 0 \in K
  <2>1. HitsIn(s.runtime, IdEntries(id)) = 0
    BY HitsEmpty
  <2> QED BY <1>1, <1>2, <1>3, <2>1
<1>5. ASSUME NEW k \in 0 .. n - 1, k \in K PROVE k + 1 \in K
  <2> DEFINE x == f[k]
             y == f[k + 1]
             r == q[k + 1]
             h == H(k)
             i == IF r \in IdEntries(id) THEN 1 ELSE 0
  <2>1. k + 1 \in 0 .. n /\ k + 1 \in 1 .. n /\ k \in 0 .. n
        /\ x \in Surface /\ r \in Entry /\ Outcome(x, r, y)
    BY <1>1, DriveTurn
  <2>2. r.cmd.id = id => r.cmd.guest = g
    BY <2>1
  <2>3. C(x) = a + h
    BY <1>5
  <2>4. h \in Nat
    <3>1. SubSeq(q, 1, k) \in Seq(Entry)
      BY <2>1, HitsSplit
    <3> QED BY <3>1, HitsType
  <2>5. H(k + 1) = h + i
    BY <1>2
  <2> HIDE DEF x, y, r, h
  <2>6. C(y) = C(x) + i
    BY <2>1, <2>2, OutcomeCounts
  <2> HIDE DEF C, H, a, i
  <2>7. i \in Nat
    BY DEF i
  <2>8. C(y) = a + H(k + 1)
    BY <1>3, <2>3, <2>4, <2>5, <2>6, <2>7
  <2> QED BY <2>1, <2>8 DEF y, C, H, a
<1> HIDE DEF K
<1>6. \A k \in 0 .. n : k \in K
  BY <1>1, <1>4, <1>5, UpTo
<1>7. n \in K
  BY <1>1, <1>6
<1> QED BY <1>2, <1>7 DEF K

-----------------------------------------------------------------------------
(* What a guest is told *)

\* The commands that met a full queue.
Held(s) == s.refused \cup s.lost

\* Completion e of a command in log L is right: it answers a command of its
\* guest, and if it says that a key was not found, the earlier commands that
\* should have put it there are all in R.
Right(L, R, e) ==
  /\ e.id \in 1 .. Len(L)
  /\ e.guest = L[e.id].guest
  /\ e.status = "Failure" /\ L[e.id].op \in Lookups =>
       \A w \in 1 .. e.id - 1 : Precedes(L[w], L[e.id]) => w \in R

\* The completions guest g must not get.
Wrong(L, R, g) == {e \in EventType : ~Right(L, R, e) \/ e.guest # g}

Clean(s, L) == \A g \in Guests : Settled(s, g, Wrong(L, Held(s), g)) = 0

\* An insert has taken effect, or met a full queue.
Done(s, L, w) == L[w].key \in s.store[ServiceOf(L[w].op)] \/ w \in Held(s)

\* A larger set of completions has no fewer in the surface.
LEMMA SettledSubset ==
  ASSUME NEW s \in Surface, NEW g \in Guests, NEW T, NEW U, T \subseteq U
  PROVE  Settled(s, g, T) <= Settled(s, g, U)
<1>1. Of(g, T) \subseteq Of(g, U)
  BY DEF Of
<1>2. HitsIn(s.cq[g], T) <= HitsIn(s.cq[g], U)
  BY SurfaceFields, HitsSubset
<1>3. HitsIn(s.failures, Of(g, T)) <= HitsIn(s.failures, Of(g, U))
  BY <1>1, SurfaceFields, HitsSubset
<1>4. /\ HitsIn(s.service["block"], Of(g, T)) <= HitsIn(s.service["block"], Of(g, U))
      /\ HitsIn(s.service["shmem"], Of(g, T)) <= HitsIn(s.service["shmem"], Of(g, U))
      /\ HitsIn(s.service["dfs"], Of(g, T)) <= HitsIn(s.service["dfs"], Of(g, U))
      /\ HitsIn(s.service["db"], Of(g, T)) <= HitsIn(s.service["db"], Of(g, U))
  BY <1>1, SurfaceFields, HitsSubset
<1>5. /\ HitsIn(s.cq[g], T) \in Nat /\ HitsIn(s.failures, Of(g, T)) \in Nat
      /\ HitsIn(s.service["block"], Of(g, T)) \in Nat
      /\ HitsIn(s.service["shmem"], Of(g, T)) \in Nat
      /\ HitsIn(s.service["dfs"], Of(g, T)) \in Nat /\ HitsIn(s.service["db"], Of(g, T)) \in Nat
  BY SettledType
<1>6. /\ HitsIn(s.cq[g], U) \in Nat /\ HitsIn(s.failures, Of(g, U)) \in Nat
      /\ HitsIn(s.service["block"], Of(g, U)) \in Nat
      /\ HitsIn(s.service["shmem"], Of(g, U)) \in Nat
      /\ HitsIn(s.service["dfs"], Of(g, U)) \in Nat /\ HitsIn(s.service["db"], Of(g, U)) \in Nat
  BY SettledType
<1> QED BY <1>2, <1>3, <1>4, <1>5, <1>6 DEF Settled

\* What is right stays right while the log and the refusals grow.
LEMMA RightStays ==
  ASSUME NEW L \in Seq(Command), NEW M \in Seq(Command), Len(L) <= Len(M),
         \A i \in 1 .. Len(L) : M[i] = L[i],
         NEW R, NEW Q, R \subseteq Q, NEW e \in EventType, Right(L, R, e)
  PROVE  Right(M, Q, e)
<1>1. Len(L) \in Nat /\ Len(M) \in Nat /\ e.id \in 1 .. Len(L)
  BY LenProperties DEF Right
<1>2. e.id \in 1 .. Len(M) /\ M[e.id] = L[e.id]
  BY <1>1
<1>3. ASSUME NEW w \in 1 .. e.id - 1 PROVE M[w] = L[w]
  <2>1. w \in 1 .. Len(L)
    BY <1>1
  <2> QED BY <2>1
<1> QED BY <1>2, <1>3 DEF Right

\* So what is wrong gets less.
LEMMA WrongShrinks ==
  ASSUME NEW L \in Seq(Command), NEW M \in Seq(Command), Len(L) <= Len(M),
         \A i \in 1 .. Len(L) : M[i] = L[i],
         NEW R, NEW Q, R \subseteq Q, NEW g
  PROVE  Wrong(M, Q, g) \subseteq Wrong(L, R, g)
  BY RightStays DEF Wrong

\* A surface that gets a right completion, or none, stays clean.
LEMMA CleanStays ==
  ASSUME NEW s \in Surface, NEW t \in Surface, NEW L \in Seq(Command), Clean(s, L),
         Held(s) \subseteq Held(t),
         \/ SameEvents(s, t)
         \/ \E e \in EventType : Right(L, Held(t), e) /\ Adds(s, t, e)
  PROVE  Clean(t, L)
<1> SUFFICES ASSUME NEW g \in Guests PROVE Settled(t, g, Wrong(L, Held(t), g)) = 0
  BY DEF Clean
<1> DEFINE T == Wrong(L, Held(s), g)
           U == Wrong(L, Held(t), g)
<1>1. U \subseteq T
  <2>1. Len(L) <= Len(L)
    BY LenProperties
  <2> QED BY <2>1, WrongShrinks
<1>2. Settled(s, g, T) = 0
  BY DEF Clean
<1>3. \A e \in EventType : Right(L, Held(t), e) => e \notin Of(g, U)
  BY DEF Of, Wrong
<1> HIDE DEF T, U
<1>4. Settled(s, g, U) <= Settled(s, g, T) /\ Settled(s, g, U) \in Nat
  BY <1>1, SettledSubset, SettledType
<1>5. Settled(s, g, U) = 0
  BY <1>2, <1>4
<1>6. CASE SameEvents(s, t)
  BY <1>5, <1>6 DEF SameEvents, U
<1>7. CASE \E e \in EventType : Right(L, Held(t), e) /\ Adds(s, t, e)
  <2>1. PICK e \in EventType : Right(L, Held(t), e) /\ Adds(s, t, e)
    BY <1>7
  <2>2. e \notin Of(g, U)
    BY <1>3, <2>1
  <2>3. Settled(t, g, U) = Settled(s, g, U) + (IF e \in Of(g, U) THEN 1 ELSE 0)
    BY <2>1 DEF Adds
  <2> QED BY <1>5, <2>2, <2>3 DEF U
<1> QED BY <1>6, <1>7

\* The completion of a command whose predecessors have all taken effect.
LEMMA DoneIsRight ==
  ASSUME NEW s \in Surface, NEW L \in Seq(Command), NEW c \in Command,
         c.id \in 1 .. Len(L), L[c.id] = c,
         \A w \in 1 .. c.id - 1 : Precedes(L[w], c) => Done(s, L, w),
         NEW R, Held(s) \subseteq R
  PROVE  Right(L, R, Event(c, DoneStatus(s, c))) /\ Event(c, DoneStatus(s, c)) \in EventType
<1> DEFINE e == Event(c, DoneStatus(s, c))
<1>1. /\ e \in EventType /\ e.id = c.id /\ e.guest = c.guest /\ e.status = DoneStatus(s, c)
      /\ c.op \in AllOps
  BY EventIs DEF DoneStatus, StatusOf, Statuses
<1> HIDE DEF e
<1>2. ASSUME e.status = "Failure", c.op \in Lookups, NEW w \in 1 .. c.id - 1, Precedes(L[w], c)
      PROVE  w \in R
  <2>1. c.key \notin s.store[ServiceOf(c.op)]
    <3>1. DoneStatus(s, c) = "Failure"
      BY <1>1, <1>2
    <3> QED BY <1>2, <3>1 DEF DoneStatus, StatusOf
  <2>2. L[w].key = c.key /\ ServiceOf(L[w].op) = ServiceOf(c.op)
    BY <1>2 DEF Precedes
  <2>3. Done(s, L, w)
    BY <1>2
  <2> QED BY <2>1, <2>2, <2>3 DEF Done
<1>3. Right(L, R, e)
  BY <1>1, <1>2 DEF Right
<1> QED BY <1>1, <1>3 DEF e

\* A completion that is not about a lookup that failed.
LEMMA OtherIsRight ==
  ASSUME NEW L \in Seq(Command), NEW c \in Command, c.id \in 1 .. Len(L), L[c.id] = c,
         NEW R, NEW status \in Statuses \ {"Failure"}
  PROVE  Right(L, R, Event(c, status)) /\ Event(c, status) \in EventType
<1> DEFINE e == Event(c, status)
<1>1. e \in EventType /\ e.id = c.id /\ e.guest = c.guest /\ e.status = status
  BY EventIs
<1> HIDE DEF e
<1>2. Right(L, R, e)
  BY <1>1 DEF Right
<1> QED BY <1>1, <1>2 DEF e

-----------------------------------------------------------------------------
(* The order of the queues *)

\* A command in a queue is the one the log has under its number.
Known(L, cmd) == cmd.id \in 1 .. Len(L) /\ L[cmd.id] = cmd /\ ~cmd.direct

\* A command queue holds commands of its guest in the order of their numbers.
CmdqOK(s, L) ==
  \A g \in Guests : \A i \in 1 .. Len(s.cmdq[g]) :
    /\ Known(L, s.cmdq[g][i])
    /\ s.cmdq[g][i].guest = g
    /\ \A j \in 1 .. Len(s.cmdq[g]) : i < j => s.cmdq[g][i].id < s.cmdq[g][j].id

\* The runtime queue q: the commands of a guest are older than the ones in
\* its command queue, and in order except behind one that was refused.
RunOK(s, L, q) ==
  \A i \in 1 .. Len(q) :
    /\ Known(L, q[i].cmd)
    /\ \A j \in 1 .. Len(s.cmdq[q[i].cmd.guest]) : q[i].cmd.id < s.cmdq[q[i].cmd.guest][j].id
    /\ \A j \in 1 .. Len(q) :
         q[i].cmd.guest = q[j].cmd.guest /\ q[i].cmd.id < q[j].cmd.id
           => i < j \/ q[i].cmd.id \in s.refused

InCmdq(s, L, w) ==
  \E i \in 1 .. Len(s.cmdq[L[w].guest]) : s.cmdq[L[w].guest][i].id = w

\* An insert has taken effect, or is still in a queue; of the runtime queue q
\* the first k entries are through.
Effect(s, L, q, k) ==
  \A w \in 1 .. Len(L) : L[w].op \in Inserts =>
    Done(s, L, w) \/ InCmdq(s, L, w) \/ \E i \in k + 1 .. Len(q) : q[i].cmd.id = w

\* When entry k + 1 is driven, the inserts before it have taken effect.
LEMMA EffectBefore ==
  ASSUME NEW s \in Surface, NEW L \in Seq(Command), NEW q \in Seq(Entry),
         NEW x \in Surface, x.cmdq = s.cmdq, s.refused \subseteq x.refused,
         NEW k \in 0 .. Len(q) - 1, RunOK(s, L, q), Effect(x, L, q, k),
         NEW w \in 1 .. q[k + 1].cmd.id - 1, Precedes(L[w], q[k + 1].cmd)
  PROVE  Done(x, L, w)
<1> DEFINE r == q[k + 1]
           c == r.cmd
<1>1. /\ Len(q) \in Nat /\ k + 1 \in 1 .. Len(q) /\ Len(L) \in Nat
      /\ \A i \in 1 .. Len(q) : q[i] \in Entry
  BY LenProperties, ElementOfSeq
<1>2. Known(L, c) /\ \A j \in 1 .. Len(s.cmdq[c.guest]) : c.id < s.cmdq[c.guest][j].id
  BY <1>1 DEF RunOK
<1>3. w \in 1 .. c.id - 1 /\ Precedes(L[w], c)
  OBVIOUS
<1>4. \A i \in 1 .. Len(q) :
        q[i].cmd.guest = c.guest /\ q[i].cmd.id < c.id => i < k + 1 \/ q[i].cmd.id \in s.refused
  BY <1>1 DEF RunOK
<1>5. \A i \in 1 .. Len(q) : Known(L, q[i].cmd)
  BY DEF RunOK
<1>6. q[k + 1].cmd = c
  OBVIOUS
<1> HIDE DEF c, r
<1>7. c.id \in 1 .. Len(L) /\ w \in 1 .. Len(L) /\ w < c.id /\ w # c.id /\ ~(c.id < w)
  BY <1>1, <1>2, <1>3 DEF Known
<1>8. L[w].op \in Inserts /\ L[w].guest = c.guest
  BY <1>3 DEF Precedes
<1>9. ~InCmdq(x, L, w)
  <2> SUFFICES ASSUME NEW i \in 1 .. Len(s.cmdq[c.guest]), s.cmdq[c.guest][i].id = w
               PROVE  FALSE
    BY <1>8 DEF InCmdq
  <2> QED BY <1>2, <1>7
<1>10. ASSUME NEW i \in k + 1 .. Len(q), q[i].cmd.id = w PROVE w \in x.refused
  <2>1. i \in 1 .. Len(q) /\ i # k + 1
    BY <1>1, <1>6, <1>7, <1>10
  <2>2. ~(i < k + 1)
    BY <1>1
  <2>3. q[i].cmd = L[w]
    BY <1>5, <1>10, <2>1 DEF Known
  <2> QED BY <1>4, <1>7, <1>8, <1>10, <2>1, <2>2, <2>3
<1>11. CASE \E i \in k + 1 .. Len(q) : q[i].cmd.id = w
  BY <1>10, <1>11 DEF Done, Held
<1> QED BY <1>7, <1>8, <1>9, <1>11 DEF Effect

\* Through the loop, inserts take effect and completions are right.
LEMMA DriveOrder ==
  ASSUME NEW s \in Surface, NEW q \in Seq(Entry), NEW f, Drives(s, q, f), s.runtime = <<>>,
         NEW L \in Seq(Command), RunOK(s, L, q), Effect(s, L, q, 0), Clean(s, L)
  PROVE  Effect(f[Len(q)], L, q, Len(q)) /\ Clean(f[Len(q)], L)
<1> DEFINE n == Len(q)
           K == {k \in 0 .. n : Effect(f[k], L, q, k) /\ Clean(f[k], L)}
<1>1. n \in Nat /\ f[0] = s /\ n \in 0 .. n /\ \A k \in 0 .. n : f[k] \in Surface
  BY DriveTurn
<1>2. \A k \in 0 .. n : Driven(s, q, 0, f[k], k)
  <2>1. \A i \in 1 .. n : q[i].attempts >= 0
    <3>1. \A i \in 1 .. n : q[i] \in Entry
      BY ElementOfSeq
    <3> QED BY <3>1 DEF Entry
  <2> QED BY <2>1, DrivenAlways
<1>3. 0 \in K
  BY <1>1
<1>4. ASSUME NEW k \in 0 .. n - 1, k \in K PROVE k + 1 \in K
  <2> DEFINE x == f[k]
             y == f[k + 1]
             r == q[k + 1]
             c == r.cmd
  <2>1. /\ k + 1 \in 0 .. n /\ k + 1 \in 1 .. n /\ k \in 0 .. n
        /\ x \in Surface /\ y \in Surface /\ r \in Entry /\ Outcome(x, r, y)
    BY <1>1, DriveTurn
  <2>2. Effect(x, L, q, k) /\ Clean(x, L)
    BY <1>4
  <2>3. x.cmdq = s.cmdq /\ s.refused \subseteq x.refused
    BY <1>2, <2>1 DEF Driven
  <2>4. c \in Command /\ c.id \in 1 .. Len(L) /\ L[c.id] = c
    BY <2>1 DEF RunOK, Known, Entry
  <2>5. \A w \in 1 .. c.id - 1 : Precedes(L[w], c) => Done(x, L, w)
    <3> HIDE DEF x
    <3> QED BY <2>1, <2>2, <2>3, EffectBefore
  <2>6. c = q[k + 1].cmd /\ c = r.cmd
    OBVIOUS
  <2> HIDE DEF x, y, r, c, n
  <2>7. /\ y.cmdq = x.cmdq /\ y.lost = x.lost /\ x.refused \subseteq y.refused
        /\ \A v \in Services : x.store[v] \subseteq y.store[v]
    BY <2>1, OutcomeIs
  <2>8. Held(x) \subseteq Held(y)
    BY <2>7 DEF Held
  <2>9. Effect(y, L, q, k + 1)
    <3> SUFFICES ASSUME NEW w \in 1 .. Len(L), L[w].op \in Inserts
                 PROVE  \/ Done(y, L, w) \/ InCmdq(y, L, w)
                        \/ \E i \in (k + 1) + 1 .. Len(q) : q[i].cmd.id = w
      BY DEF Effect
    <3>1. ServiceOf(L[w].op) \in Services /\ L[w].op # "BadIo"
      <4>1. L[w] \in Command
        BY ElementOfSeq
      <4>2. L[w].op \in AllOps
        BY <4>1, SurfaceAssumption DEF Command
      <4> QED BY <4>2, ServiceOfIs DEF Inserts
    <3>2. CASE Done(x, L, w)
      <4>1. x.store[ServiceOf(L[w].op)] \subseteq y.store[ServiceOf(L[w].op)]
        BY <2>7, <3>1
      <4>2. Done(y, L, w)
        BY <2>8, <3>2, <4>1 DEF Done
      <4> QED BY <4>2
    <3>3. CASE InCmdq(x, L, w)
      BY <2>7, <3>3 DEF InCmdq
    <3>4. CASE \E i \in k + 1 .. Len(q) : q[i].cmd.id = w
      <4>1. PICK i \in k + 1 .. Len(q) : q[i].cmd.id = w
        BY <3>4
      <4>2. CASE i = k + 1
        <5>1. c.id = w /\ c = L[w]
          BY <2>4, <2>6, <4>1, <4>2
        <5>2. Done(y, L, w)
          <6>1. CASE w \in y.refused
            BY <6>1 DEF Done, Held
          <6>2. CASE Completed(x, r, y)
            <7>1. y.store[ServiceOf(c.op)] = x.store[ServiceOf(c.op)] \cup {c.key}
              BY <2>6, <3>1, <5>1, <6>2 DEF Completed
            <7> QED BY <5>1, <7>1 DEF Done
          <6>3. ~Rejected(x, r, y)
            BY <2>6, <3>1, <5>1 DEF Rejected
          <6> QED BY <2>1, <2>6, <5>1, <6>1, <6>2, <6>3 DEF Outcome, Again, GivenUp
        <5> QED BY <5>2
      <4>3. CASE i # k + 1
        <5>1. i \in (k + 1) + 1 .. Len(q)
          BY <2>1, <4>3
        <5> QED BY <4>1, <5>1
      <4> QED BY <4>2, <4>3
    <3> QED BY <2>2, <3>2, <3>3, <3>4 DEF Effect
  <2>10. Clean(y, L)
    <3>1. CASE Again(x, r, y)
      <4>1. SameEvents(x, y)
        BY <3>1 DEF Again
      <4> QED BY <2>1, <2>2, <2>8, <4>1, CleanStays
    <3>2. ASSUME NEW status \in Statuses \ {"Failure"}, Adds(x, y, Event(c, status))
          PROVE  Clean(y, L)
      <4>1. Right(L, Held(y), Event(c, status)) /\ Event(c, status) \in EventType
        BY <2>4, OtherIsRight
      <4> QED BY <2>1, <2>2, <2>8, <3>2, <4>1, CleanStays
    <3>3. "Exhausted" \in Statuses \ {"Failure"} /\ "Invalid" \in Statuses \ {"Failure"}
      BY DEF Statuses
    <3>4. CASE GivenUp(x, r, y)
      BY <2>6, <3>2, <3>3, <3>4 DEF GivenUp
    <3>5. CASE Rejected(x, r, y)
      BY <2>6, <3>2, <3>3, <3>5 DEF Rejected
    <3>6. CASE Completed(x, r, y)
      <4> DEFINE e == Event(c, DoneStatus(x, c))
      <4>1. Right(L, Held(y), e) /\ e \in EventType
        BY <2>1, <2>4, <2>5, <2>8, DoneIsRight
      <4>2. Adds(x, y, e)
        BY <2>6, <3>6 DEF Completed
      <4> HIDE DEF e
      <4> QED BY <2>1, <2>2, <2>8, <4>1, <4>2, CleanStays
    <3> QED BY <2>1, <3>1, <3>4, <3>5, <3>6 DEF Outcome
  <2> QED BY <2>1, <2>9, <2>10 DEF y, n
<1> HIDE DEF K
<1>5. \A k \in 0 .. n : k \in K
  BY <1>1, <1>3, <1>4, UpTo
<1>6. n \in K
  BY <1>1, <1>5
<1> QED BY <1>6 DEF K

-----------------------------------------------------------------------------
(* drive_ready *)

\* The failures are reported.
LEMMA ReportIs ==
  ASSUME NEW t \in Surface
  PROVE  LET z == route_completions([t EXCEPT !.failures = <<>>], t.failures)
         IN  /\ z \in Surface /\ z.failures = <<>> /\ z.service = t.service
             /\ z.cmdq = t.cmdq /\ z.runtime = t.runtime /\ z.store = t.store
             /\ z.refused = t.refused /\ z.lost = t.lost
             /\ SameEvents(t, z)
<1> DEFINE u == [t EXCEPT !.failures = <<>>]
           z == route_completions(u, t.failures)
<1>1. t.failures \in Seq(EventType) /\ <<>> \in Seq(EventType)
  BY SurfaceFields
<1>2. /\ u \in Surface /\ u.failures = <<>> /\ u.service = t.service /\ u.cq = t.cq
      /\ u.cmdq = t.cmdq /\ u.runtime = t.runtime /\ u.store = t.store
      /\ u.refused = t.refused /\ u.lost = t.lost
  BY <1>1 DEF Surface
<1> HIDE DEF u
<1>3. /\ z \in Surface /\ z.failures = u.failures /\ z.service = u.service
      /\ z.cmdq = u.cmdq /\ z.runtime = u.runtime /\ z.store = u.store
      /\ z.refused = u.refused /\ z.lost = u.lost
      /\ \A g \in Guests : \A T :
           HitsIn(z.cq[g], T) = HitsIn(u.cq[g], T) + HitsIn(t.failures, Of(g, T))
  BY <1>1, <1>2, RouteAllIs
<1> HIDE DEF z
<1>4. ASSUME NEW g \in Guests, NEW T PROVE Settled(z, g, T) = Settled(t, g, T)
  <2> DEFINE O == Of(g, T)
  <2>1. /\ HitsIn(t.cq[g], T) \in Nat /\ HitsIn(t.failures, O) \in Nat
        /\ HitsIn(t.service["block"], O) \in Nat /\ HitsIn(t.service["shmem"], O) \in Nat
        /\ HitsIn(t.service["dfs"], O) \in Nat /\ HitsIn(t.service["db"], O) \in Nat
    BY SettledType
  <2>2. Settled(t, g, T) = HitsIn(t.cq[g], T) + HitsIn(t.failures, O)
                             + HitsIn(t.service["block"], O) + HitsIn(t.service["shmem"], O)
                             + HitsIn(t.service["dfs"], O) + HitsIn(t.service["db"], O)
    BY DEF Settled
  <2>3. Settled(z, g, T) = HitsIn(z.cq[g], T) + HitsIn(z.failures, O)
                             + HitsIn(t.service["block"], O) + HitsIn(t.service["shmem"], O)
                             + HitsIn(t.service["dfs"], O) + HitsIn(t.service["db"], O)
    BY <1>2, <1>3 DEF Settled
  <2>4. HitsIn(z.cq[g], T) = HitsIn(t.cq[g], T) + HitsIn(t.failures, O)
    BY <1>2, <1>3
  <2>5. HitsIn(z.failures, O) = 0
    BY <1>2, <1>3, HitsEmpty
  <2> HIDE DEF O
  <2> QED BY <2>1, <2>2, <2>3, <2>4, <2>5
<1>5. SameEvents(t, z)
  BY <1>4 DEF SameEvents
<1> QED BY <1>2, <1>3, <1>5 DEF z, u

\* A pass over the runtime queue, from s to z: b is s with the queue taken
\* out, f the surfaces between the entries, z the last with its failures
\* reported.
Pass(s, b, f, z) ==
  /\ b \in Surface /\ b.runtime = <<>> /\ b.cmdq = s.cmdq /\ b.lost = s.lost
  /\ b.refused = s.refused /\ b.store = s.store /\ b.service = s.service
  /\ SameEvents(s, b)
  /\ Drives(b, s.runtime, f)
  /\ LET t == f[Len(s.runtime)]
     IN  /\ z \in Surface /\ z.failures = <<>> /\ z.service = t.service
         /\ z.cmdq = t.cmdq /\ z.runtime = t.runtime /\ z.store = t.store
         /\ z.refused = t.refused /\ z.lost = t.lost
         /\ SameEvents(t, z)

\* DriveReady is a pass.
LEMMA DriveReadyIs ==
  ASSUME NEW s \in Surface
  PROVE  DriveReady(s) \in Surface /\ \E b, f : Pass(s, b, f, DriveReady(s))
<1> DEFINE b == [s EXCEPT !.runtime = <<>>]
           t == DriveAll(b, s.runtime)
           z == route_completions([t EXCEPT !.failures = <<>>], t.failures)
<1>1. s.runtime \in Seq(Entry) /\ <<>> \in Seq(Entry)
  BY SurfaceFields
<1>2. /\ b \in Surface /\ b.runtime = <<>> /\ b.cmdq = s.cmdq /\ b.lost = s.lost
      /\ b.refused = s.refused /\ b.store = s.store /\ b.service = s.service
      /\ b.cq = s.cq /\ b.failures = s.failures
  BY <1>1 DEF Surface
<1>3. DriveReady(s) = z
  BY DEF DriveReady
<1> HIDE DEF b
<1>4. PICK f : Drives(b, s.runtime, f) /\ t = f[Len(s.runtime)]
  BY <1>1, <1>2, DriveLoop
<1>5. f[Len(s.runtime)] \in Surface
  BY <1>1, <1>2, <1>4, DriveTurn
<1>6. t \in Surface
  BY <1>4, <1>5
<1> HIDE DEF t
<1>7. /\ z \in Surface /\ z.failures = <<>> /\ z.service = t.service
      /\ z.cmdq = t.cmdq /\ z.runtime = t.runtime /\ z.store = t.store
      /\ z.refused = t.refused /\ z.lost = t.lost
      /\ SameEvents(t, z)
  BY <1>6, ReportIs
<1>8. SameEvents(s, b)
  BY <1>2, SameEventsIs
<1> HIDE DEF z
<1>9. Pass(s, b, f, z)
  BY <1>2, <1>4, <1>7, <1>8 DEF Pass
<1> QED BY <1>3, <1>7, <1>9

Total(s, g, id) == Settled(s, g, IdEvents(id)) + HitsIn(s.runtime, IdEntries(id))

\* The order of the queues and what is in them.
Sound(s, L) ==
  CmdqOK(s, L) /\ RunOK(s, L, s.runtime) /\ Effect(s, L, s.runtime, 0) /\ Clean(s, L)

\* What passes keep, from s to t.
Keeps(s, t) ==
  /\ t \in Surface /\ t.failures = <<>> /\ t.cmdq = s.cmdq /\ t.lost = s.lost
  /\ s.refused \subseteq t.refused
  /\ Shallow(s) => Shallow(t)
  /\ Len(t.runtime) <= Len(s.runtime)

KeepsLog(s, t, L) ==
  Sound(s, L) =>
    /\ Sound(t, L)
    /\ \A id \in 1 .. Len(L) : Total(t, L[id].guest, id) = Total(s, L[id].guest, id)

\* Surfaces alike but for where completions are.
LEMMA SoundAlike ==
  ASSUME NEW s \in Surface, NEW t \in Surface, NEW L \in Seq(Command), SameEvents(s, t),
         t.cmdq = s.cmdq, t.lost = s.lost, t.refused = s.refused, t.store = s.store
  PROVE  /\ CmdqOK(s, L) => CmdqOK(t, L)
         /\ \A q : RunOK(s, L, q) => RunOK(t, L, q)
         /\ \A q, k : Effect(s, L, q, k) => Effect(t, L, q, k)
         /\ Clean(s, L) => Clean(t, L)
<1>1. CmdqOK(s, L) => CmdqOK(t, L)
  BY DEF CmdqOK
<1>2. \A q : RunOK(s, L, q) => RunOK(t, L, q)
  BY DEF RunOK
<1>3. \A q, k : Effect(s, L, q, k) => Effect(t, L, q, k)
  BY DEF Effect, Done, InCmdq, Held
<1>4. Held(s) \subseteq Held(t)
  BY DEF Held
<1>5. Clean(s, L) => Clean(t, L)
  BY <1>4, CleanStays
<1> QED BY <1>1, <1>2, <1>3, <1>5

\* The owner of a command in the runtime queue.
LEMMA RunOwner ==
  ASSUME NEW s, NEW L, NEW q, RunOK(s, L, q), NEW id
  PROVE  \A i \in 1 .. Len(q) : q[i].cmd.id = id => q[i].cmd.guest = L[id].guest
  BY DEF RunOK, Known

\* A pass keeps what it should, and uses up an attempt.
LEMMA PassKeeps ==
  ASSUME NEW s \in Surface, NEW b, NEW f, NEW z, Pass(s, b, f, z),
         NEW a \in Nat, \A i \in 1 .. Len(s.runtime) : s.runtime[i].attempts >= a
  PROVE  /\ Keeps(s, z)
         /\ \A i \in 1 .. Len(z.runtime) : z.runtime[i].attempts >= a + 1
<1> DEFINE q == s.runtime
           t == f[Len(q)]
<1>1. q \in Seq(Entry) /\ b \in Surface /\ b.runtime = <<>> /\ Drives(b, q, f)
  BY SurfaceFields DEF Pass
<1>2. Len(q) \in Nat /\ Len(q) \in 0 .. Len(q)
  BY <1>1, DriveTurn
<1>3. Driven(b, q, a, t, Len(q))
  BY <1>1, <1>2, DrivenAlways
<1>4. /\ z \in Surface /\ z.failures = <<>> /\ z.service = t.service
      /\ z.cmdq = t.cmdq /\ z.runtime = t.runtime /\ z.store = t.store
      /\ z.refused = t.refused /\ z.lost = t.lost
      /\ b.cmdq = s.cmdq /\ b.lost = s.lost /\ b.service = s.service
      /\ b.refused = s.refused
  BY DEF Pass
<1> HIDE DEF t
<1>5. /\ t.cmdq = b.cmdq /\ t.lost = b.lost /\ (Shallow(b) => Shallow(t))
      /\ b.refused \subseteq t.refused
      /\ Len(t.runtime) <= Len(q)
      /\ \A i \in 1 .. Len(t.runtime) : t.runtime[i].attempts >= a + 1
  BY <1>3 DEF Driven
<1>6. (Shallow(s) => Shallow(b)) /\ (Shallow(t) => Shallow(z))
  BY <1>4 DEF Shallow
<1> QED BY <1>4, <1>5, <1>6 DEF Keeps

\* The order and the count of a pass.
LEMMA PassKeepsLog ==
  ASSUME NEW s \in Surface, NEW b, NEW f, NEW z, Pass(s, b, f, z), NEW L \in Seq(Command)
  PROVE  KeepsLog(s, z, L)
<1> SUFFICES ASSUME Sound(s, L)
             PROVE  /\ Sound(z, L)
                    /\ \A id \in 1 .. Len(L) : Total(z, L[id].guest, id) = Total(s, L[id].guest, id)
  BY DEF KeepsLog
<1> DEFINE q == s.runtime
           t == f[Len(q)]
<1>1. q \in Seq(Entry) /\ b \in Surface /\ b.runtime = <<>> /\ Drives(b, q, f)
      /\ SameEvents(s, b) /\ b.cmdq = s.cmdq /\ b.lost = s.lost
      /\ b.refused = s.refused /\ b.store = s.store
  BY SurfaceFields DEF Pass
<1>2. Len(q) \in Nat /\ Len(q) \in 0 .. Len(q) /\ t \in Surface
  BY <1>1, DriveTurn
<1>3. Driven(b, q, 0, t, Len(q))
  <2>1. \A i \in 1 .. Len(q) : q[i] \in Entry
    BY <1>1, ElementOfSeq
  <2>2. \A i \in 1 .. Len(q) : q[i].attempts >= 0
    BY <2>1 DEF Entry
  <2> QED BY <1>1, <1>2, <2>2, DrivenAlways
<1>4. /\ z \in Surface /\ z.cmdq = t.cmdq /\ z.runtime = t.runtime /\ z.store = t.store
      /\ z.refused = t.refused /\ z.lost = t.lost /\ SameEvents(t, z)
  BY DEF Pass
<1>5. CmdqOK(b, L) /\ RunOK(b, L, q) /\ Effect(b, L, q, 0) /\ Clean(b, L)
  BY <1>1, SoundAlike DEF Sound
<1>6. Effect(t, L, q, Len(q)) /\ Clean(t, L)
  BY <1>1, <1>5, DriveOrder
<1> DEFINE r == t.runtime
<1>7. /\ t.cmdq = b.cmdq /\ b.refused \subseteq t.refused
      /\ \A i \in 1 .. Len(r) :
           r[i].cmd.id \in t.refused /\ \E j \in 1 .. Len(q) : r[i].cmd = q[j].cmd
  BY <1>3 DEF Driven
<1>8. CmdqOK(t, L)
  BY <1>5, <1>7 DEF CmdqOK
<1>9. RunOK(t, L, r)
  <2> SUFFICES ASSUME NEW i \in 1 .. Len(r)
               PROVE  /\ Known(L, r[i].cmd)
                      /\ \A j \in 1 .. Len(t.cmdq[r[i].cmd.guest]) :
                           r[i].cmd.id < t.cmdq[r[i].cmd.guest][j].id
                      /\ r[i].cmd.id \in t.refused
    BY DEF RunOK
  <2>1. PICK j \in 1 .. Len(q) : r[i].cmd = q[j].cmd
    BY <1>7
  <2> QED BY <1>5, <1>7, <2>1 DEF RunOK
<1>10. Effect(t, L, r, 0)
  <2>1. Len(q) + 1 .. Len(q) = {}
    BY <1>2
  <2> QED BY <1>6, <2>1 DEF Effect
<1>11. Sound(z, L)
  BY <1>2, <1>4, <1>6, <1>8, <1>9, <1>10, SoundAlike DEF Sound
<1>12. ASSUME NEW id \in 1 .. Len(L) PROVE Total(z, L[id].guest, id) = Total(s, L[id].guest, id)
  <2> DEFINE g == L[id].guest
  <2>1. g \in Guests
    <3>1. L[id] \in Command
      BY ElementOfSeq
    <3> QED BY <3>1 DEF Command
  <2> HIDE DEF g
  <2>2. \A i \in 1 .. Len(q) : q[i].cmd.id = id => q[i].cmd.guest = g
    BY <1>5, RunOwner DEF g
  <2>3. Settled(t, g, IdEvents(id)) + HitsIn(t.runtime, IdEntries(id))
          = Settled(b, g, IdEvents(id)) + HitsIn(q, IdEntries(id))
    <3> HIDE DEF q
    <3>1. q \in Seq(Entry) /\ b \in Surface /\ b.runtime = <<>> /\ Drives(b, q, f)
      BY <1>1
    <3> QED BY <2>1, <2>2, <3>1, DriveCounts
  <2>4. Settled(b, g, IdEvents(id)) = Settled(s, g, IdEvents(id))
    BY <1>1, <2>1 DEF SameEvents
  <2>5. Settled(z, g, IdEvents(id)) = Settled(t, g, IdEvents(id)) /\ z.runtime = t.runtime
    BY <1>4, <2>1 DEF SameEvents
  <2> HIDE DEF t
  <2>6. Total(z, g, id) = Total(s, g, id)
    BY <2>3, <2>4, <2>5 DEF Total
  <2> QED BY <2>6 DEF g
<1> QED BY <1>11, <1>12

-----------------------------------------------------------------------------
(* flush_runtime *)

\* The surfaces between the calls of flush_runtime.
LEMMA FlushLoop ==
  ASSUME NEW s \in Surface
  PROVE  \E f \in [0 .. MaxRetries + 1 -> Surface] :
           /\ f[0] = s
           /\ \A k \in 1 .. MaxRetries + 1 : f[k] = DriveReady(f[k - 1])
           /\ flush_runtime(s) = f[MaxRetries + 1]
<1> DEFINE n == MaxRetries + 1
           F == [k \in 1 .. n |-> [x \in Surface |-> DriveReady(x)]]
           Is(f) == f = [k \in 0 .. n |-> IF k = 0 THEN s ELSE DriveReady(f[k - 1])]
           acc == CHOOSE f : Is(f)
<1>1. n \in Nat
  BY SurfaceAssumption
<1>2. \A x \in Surface : DriveReady(x) \in Surface
  BY DriveReadyIs
<1>3. F \in [1 .. n -> [Surface -> Surface]]
  <2> HIDE DEF n
  <2> QED BY <1>2
<1>4. \A k \in 1 .. n : \A x \in Surface : F[k][x] = DriveReady(x)
  OBVIOUS
<1> HIDE DEF n, F
<1>5. PICK f \in [0 .. n -> Surface] : f[0] = s /\ \A k \in 1 .. n : f[k] = F[k][f[k - 1]]
  BY <1>1, <1>3, SurfaceLoop, Zenon
<1>6. ASSUME NEW k \in 1 .. n PROVE f[k] = DriveReady(f[k - 1])
  <2>1. f[k - 1] \in Surface
    BY <1>1, <1>5
  <2> QED BY <1>4, <1>5, <2>1
<1>7. Is(f)
  <2>1. ASSUME NEW k \in 0 .. n PROVE f[k] = IF k = 0 THEN s ELSE DriveReady(f[k - 1])
    BY <1>1, <1>5, <1>6
  <2> QED BY <1>5, <2>1
<1>8. Is(acc)
  <2> HIDE DEF Is
  <2> QED BY <1>7, Zenon
<1>9. \A k \in 0 .. n : acc[k] = IF k = 0 THEN s ELSE DriveReady(acc[k - 1])
  BY <1>8
<1>10. \A k \in 0 .. n : acc[k] = f[k]
  <2> DEFINE T == {k \in 0 .. n : acc[k] = f[k]}
  <2>1. 0 \in T
    BY <1>1, <1>5, <1>9
  <2>2. ASSUME NEW k \in 0 .. n - 1, k \in T PROVE k + 1 \in T
    <3>1. k + 1 \in 1 .. n /\ k + 1 \in 0 .. n /\ (k + 1) - 1 = k /\ k + 1 # 0
      BY <1>1
    <3> HIDE DEF acc
    <3>2. acc[k + 1] = DriveReady(acc[k])
      BY <1>9, <3>1
    <3>3. f[k + 1] = DriveReady(f[k])
      BY <1>6, <3>1
    <3> QED BY <2>2, <3>1, <3>2, <3>3
  <2> HIDE DEF T
  <2>3. \A k \in 0 .. n : k \in T
    BY <1>1, <2>1, <2>2, UpTo
  <2> QED BY <2>3 DEF T
<1>11. flush_runtime(s) = acc[n]
  BY Zenon DEF flush_runtime, n
<1>12. flush_runtime(s) = f[n]
  <2> HIDE DEF acc
  <2>1. n \in 0 .. n
    BY <1>1
  <2> QED BY <1>10, <1>11, <2>1
<1> QED BY <1>5, <1>6, <1>12 DEF n

\* What two passes keep.
LEMMA KeepsTwice ==
  ASSUME NEW s \in Surface, NEW x \in Surface, NEW y, Keeps(s, x), Keeps(x, y)
  PROVE  /\ Keeps(s, y)
         /\ \A L : KeepsLog(s, x, L) /\ KeepsLog(x, y, L) => KeepsLog(s, y, L)
<1>1. y \in Surface
  BY DEF Keeps
<1>2. Len(s.runtime) \in Nat /\ Len(x.runtime) \in Nat /\ Len(y.runtime) \in Nat
  BY <1>1, SurfaceFields, LenProperties
<1>3. Keeps(s, y)
  BY <1>2 DEF Keeps
<1>4. ASSUME NEW L, KeepsLog(s, x, L), KeepsLog(x, y, L) PROVE KeepsLog(s, y, L)
  BY <1>4 DEF KeepsLog
<1> QED BY <1>3, <1>4

\* flush_runtime leaves nothing in the runtime queue.
LEMMA FlushRuntimeIs ==
  ASSUME NEW s \in Surface, s.failures = <<>>
  PROVE  LET t == flush_runtime(s)
         IN  /\ Keeps(s, t) /\ t.runtime = <<>>
             /\ \A L \in Seq(Command) : KeepsLog(s, t, L)
<1> DEFINE n == MaxRetries + 1
<1>1. PICK f \in [0 .. n -> Surface] :
           /\ f[0] = s
           /\ \A k \in 1 .. n : f[k] = DriveReady(f[k - 1])
           /\ flush_runtime(s) = f[n]
  BY FlushLoop
<1>2. n \in Nat /\ n \in 0 .. n
  BY SurfaceAssumption
<1> DEFINE Tried(t, k) == \A i \in 1 .. Len(t.runtime) : t.runtime[i].attempts >= k
           Logs(t) == \A L \in Seq(Command) : KeepsLog(s, t, L)
           K == {k \in 0 .. n : Keeps(s, f[k]) /\ Tried(f[k], k) /\ Logs(f[k])}
<1>3. 0 \in K
  <2>1. s.runtime \in Seq(Entry) /\ Len(s.runtime) \in Nat
    BY SurfaceFields, LenProperties
  <2>2. \A i \in 1 .. Len(s.runtime) : s.runtime[i] \in Entry
    BY <2>1, ElementOfSeq
  <2>3. Tried(s, 0)
    BY <2>2 DEF Entry
  <2>4. Keeps(s, s)
    BY <2>1 DEF Keeps
  <2>5. Logs(s)
    BY DEF KeepsLog
  <2> QED BY <1>1, <1>2, <2>3, <2>4, <2>5
<1>4. ASSUME NEW k \in 0 .. n - 1, k \in K PROVE k + 1 \in K
  <2> DEFINE x == f[k]
             y == f[k + 1]
  <2>1. k \in Nat /\ k + 1 \in 0 .. n /\ k + 1 \in 1 .. n /\ k \in 0 .. n /\ (k + 1) - 1 = k
    BY <1>2
  <2>2. x \in Surface /\ y = DriveReady(x)
    BY <1>1, <2>1
  <2>3. Keeps(s, x) /\ Tried(x, k) /\ Logs(x)
    BY <1>4
  <2> HIDE DEF x, y
  <2>4. PICK b, d : Pass(x, b, d, y)
    BY <2>2, DriveReadyIs
  <2>5. Keeps(x, y) /\ Tried(y, k + 1)
    BY <2>1, <2>2, <2>3, <2>4, PassKeeps
  <2>6. \A L \in Seq(Command) : KeepsLog(x, y, L)
    BY <2>2, <2>4, PassKeepsLog
  <2>7. Keeps(s, y) /\ Logs(y)
    BY <2>2, <2>3, <2>5, <2>6, KeepsTwice
  <2> QED BY <2>1, <2>5, <2>7 DEF y
<1> HIDE DEF K
<1>5. \A k \in 0 .. n : k \in K
  BY <1>2, <1>3, <1>4, UpTo
<1>6. n \in K
  BY <1>2, <1>5
<1> DEFINE t == f[n]
<1>7. Keeps(s, t) /\ Tried(t, n) /\ Logs(t) /\ t \in Surface
  BY <1>1, <1>2, <1>6 DEF K
<1>8. t.runtime = <<>>
  <2> DEFINE r == t.runtime
  <2>1. r \in Seq(Entry) /\ Len(r) \in Nat
    BY <1>7, SurfaceFields, LenProperties
  <2>2. \A i \in 1 .. Len(r) : r[i] \in Entry /\ r[i].attempts >= MaxRetries + 1
    BY <1>7, <2>1, ElementOfSeq
  <2> HIDE DEF r
  <2>3. Len(r) = 0
    <3> SUFFICES ASSUME Len(r) # 0 PROVE FALSE
      OBVIOUS
    <3>1. 1 \in 1 .. Len(r)
      BY <2>1
    <3>2. r[1].attempts \in 0 .. MaxRetries
      BY <2>2, <3>1 DEF Entry
    <3> QED BY <2>2, <3>1, <3>2, SurfaceAssumption
  <2> QED BY <2>1, <2>3, EmptySeq DEF r
<1> QED BY <1>1, <1>7, <1>8

\* Every poll leaves nothing in the runtime queue and in the services.
LEMMA FlushedIs ==
  ASSUME NEW s \in Surface, s.failures = <<>>
  PROVE  LET t == Flushed(s)
         IN  /\ Keeps(s, t) /\ t.runtime = <<>> /\ t.service = NoService
             /\ \A L \in Seq(Command) : KeepsLog(s, t, L)
<1> DEFINE x == flush_runtime(s)
           t == flush_services(x)
<1>1. Flushed(s) = t
  BY DEF Flushed
<1>2. Keeps(s, x) /\ x.runtime = <<>> /\ \A L \in Seq(Command) : KeepsLog(s, x, L)
  BY FlushRuntimeIs
<1> HIDE DEF x
<1>3. x \in Surface /\ x.failures = <<>>
  BY <1>2 DEF Keeps
<1>4. /\ t \in Surface /\ t.service = NoService
      /\ t.cmdq = x.cmdq /\ t.runtime = x.runtime /\ t.store = x.store
      /\ t.failures = x.failures /\ t.refused = x.refused /\ t.lost = x.lost
      /\ SameEvents(x, t)
  BY <1>3, FlushIs
<1> HIDE DEF t
<1>5. Keeps(x, t)
  <2>1. Shallow(t)
    <3>1. \A v \in Services : t.service[v] = <<>> /\ ServiceDepth[v] \in Nat
      BY <1>4, SurfaceAssumption DEF NoService
    <3> QED BY <3>1 DEF Shallow
  <2>2. Len(t.runtime) <= Len(x.runtime)
    BY <1>2, <1>4
  <2> QED BY <1>3, <1>4, <2>1, <2>2 DEF Keeps
<1>6. ASSUME NEW L \in Seq(Command) PROVE KeepsLog(x, t, L)
  <2> SUFFICES ASSUME Sound(x, L)
               PROVE  /\ Sound(t, L)
                      /\ \A id \in 1 .. Len(L) :
                           Total(t, L[id].guest, id) = Total(x, L[id].guest, id)
    BY DEF KeepsLog
  <2>1. Sound(t, L)
    BY <1>3, <1>4, SoundAlike DEF Sound
  <2>2. ASSUME NEW id \in 1 .. Len(L)
        PROVE  Total(t, L[id].guest, id) = Total(x, L[id].guest, id)
    <3>1. L[id] \in Command
      BY ElementOfSeq
    <3>2. L[id].guest \in Guests
      BY <3>1 DEF Command
    <3> QED BY <1>4, <3>2 DEF Total, SameEvents
  <2> QED BY <2>1, <2>2
<1>7. Keeps(s, t) /\ \A L \in Seq(Command) : KeepsLog(s, t, L)
  BY <1>2, <1>3, <1>5, <1>6, KeepsTwice
<1> QED BY <1>1, <1>2, <1>4, <1>7

-----------------------------------------------------------------------------
(* The operations of guests *)

\* The smaller of two numbers.
LEMMA MinOfTwo ==
  ASSUME NEW a \in Int, NEW b \in Int
  PROVE  Min({a, b}) \in {a, b} /\ Min({a, b}) <= a /\ Min({a, b}) <= b
<1>1. \E x \in {a, b} : \A y \in {a, b} : x <= y
  <2>1. CASE a <= b
    BY <2>1
  <2>2. CASE b <= a
    BY <2>2
  <2> QED BY <2>1, <2>2
<1>2. Min({a, b}) \in {a, b} /\ \A y \in {a, b} : Min({a, b}) <= y
  BY <1>1, Zenon DEF Min
<1> QED BY <1>2

\* The surface between the operations.
Between(s) ==
  /\ s \in Surface
  /\ s.failures = <<>>
  /\ Len(s.runtime) <= RuntimeDepth
  /\ Shallow(s)

\* The type invariant, in these terms.
LEMMA TypeIs ==
  TypeOK <=> log \in Seq(Command) /\ Between(uapi) /\ seen \in [Guests -> Seq(EventType)]
<1>1. uapi \in SurfaceType <=> uapi \in Surface /\ uapi.failures = <<>>
  <2>1. uapi \in SurfaceType => uapi \in Surface /\ uapi.failures = <<>>
    <3> SUFFICES ASSUME uapi \in SurfaceType PROVE uapi \in Surface /\ uapi.failures = <<>>
      OBVIOUS
    <3>1. uapi.failures = <<>> /\ <<>> \in Seq(EventType)
      BY DEF SurfaceType
    <3> QED BY <3>1 DEF SurfaceType, Surface, Entry
  <2>2. uapi \in Surface /\ uapi.failures = <<>> => uapi \in SurfaceType
    BY DEF SurfaceType, Surface, Entry
  <2> QED BY <2>1, <2>2
<1> QED BY <1>1 DEF TypeOK, WithinDepths, Between, Shallow

\* A command is put into a command queue.
LEMMA EnqueueCmdIs ==
  ASSUME NEW s \in Surface, NEW g \in Guests, NEW c \in Command
  PROVE  LET t == enqueue_cmd(s, g, c)
         IN  /\ t \in Surface /\ t.cmdq = [s.cmdq EXCEPT ![g] = Append(s.cmdq[g], c)]
             /\ t.runtime = s.runtime /\ t.service = s.service /\ t.store = s.store
             /\ t.cq = s.cq /\ t.failures = s.failures
             /\ t.refused = s.refused /\ t.lost = s.lost
<1> DEFINE q == [s.cmdq EXCEPT ![g] = Append(s.cmdq[g], c)]
<1>1. s.cmdq \in [Guests -> Seq(Command)] /\ s.cmdq[g] \in Seq(Command)
  BY SurfaceFields
<1>2. Append(s.cmdq[g], c) \in Seq(Command)
  BY <1>1, AppendProperties
<1>3. q \in [Guests -> Seq(Command)]
  BY <1>1, <1>2
<1>4. enqueue_cmd(s, g, c) = [s EXCEPT !.cmdq = q]
  BY DEF enqueue_cmd, Surface
<1> HIDE DEF q
<1>5. LET t == [s EXCEPT !.cmdq = q]
      IN  /\ t \in Surface /\ t.cmdq = q
          /\ t.runtime = s.runtime /\ t.service = s.service /\ t.store = s.store
          /\ t.cq = s.cq /\ t.failures = s.failures
          /\ t.refused = s.refused /\ t.lost = s.lost
  BY <1>3 DEF Surface
<1> QED BY <1>4, <1>5 DEF q

\* A segment is created.
LEMMA CreateIs ==
  ASSUME NEW s \in Surface, NEW key \in Keys
  PROVE  LET t == [s EXCEPT !.store["shmem"] = @ \cup {key}]
         IN  /\ t \in Surface
             /\ \A v \in Services : s.store[v] \subseteq t.store[v]
             /\ t.cmdq = s.cmdq /\ t.runtime = s.runtime /\ t.service = s.service
             /\ t.cq = s.cq /\ t.failures = s.failures
             /\ t.refused = s.refused /\ t.lost = s.lost
<1> DEFINE p == [s.store EXCEPT !["shmem"] = @ \cup {key}]
<1>1. s.store \in [Services -> SUBSET Keys]
  BY SurfaceFields
<1>2. p \in [Services -> SUBSET Keys] /\ \A v \in Services : s.store[v] \subseteq p[v]
  BY <1>1 DEF Services
<1>3. [s EXCEPT !.store["shmem"] = @ \cup {key}] = [s EXCEPT !.store = p]
  BY DEF Surface
<1> HIDE DEF p
<1>4. LET t == [s EXCEPT !.store = p]
      IN  /\ t \in Surface /\ t.store = p
          /\ t.cmdq = s.cmdq /\ t.runtime = s.runtime /\ t.service = s.service
          /\ t.cq = s.cq /\ t.failures = s.failures
          /\ t.refused = s.refused /\ t.lost = s.lost
  BY <1>2 DEF Surface
<1> QED BY <1>2, <1>3, <1>4

\* The first n commands of a queue, as entries of the runtime queue.
Fresh(q, n) == [i \in 1 .. n |-> [cmd |-> q[i], attempts |-> 0]]

\* They are entries that have not been tried.
LEMMA FreshIs ==
  ASSUME NEW q \in Seq(Command), NEW n \in 0 .. Len(q)
  PROVE  /\ Fresh(q, n) \in Seq(Entry) /\ Len(Fresh(q, n)) = n
         /\ \A i \in 1 .. n : Fresh(q, n)[i].cmd = q[i] /\ Fresh(q, n)[i].attempts = 0
<1>1. n \in Nat /\ Len(q) \in Nat
  BY LenProperties
<1>2. \A i \in 1 .. n : q[i] \in Command
  BY <1>1, ElementOfSeq
<1>3. \A i \in 1 .. n : [cmd |-> q[i], attempts |-> 0] \in Entry
  BY <1>2, SurfaceAssumption DEF Entry
<1> DEFINE F == Fresh(q, n)
<1>4. F \in [1 .. n -> Entry]
  BY <1>3 DEF Fresh
<1>5. F \in Seq(Entry)
  BY <1>1, <1>4, SeqDef
<1>6. Len(F) = n
  <2>1. DOMAIN F = 1 .. n
    BY <1>4
  <2>2. Len(F) \in Nat /\ DOMAIN F = 1 .. Len(F)
    BY <1>5, LenProperties
  <2> HIDE DEF F
  <2> QED BY <1>1, <2>1, <2>2, LenProperties
<1> QED BY <1>5, <1>6 DEF Fresh

\* A doorbell takes m commands and stages the first n of them.
Rings(s, g, m, n, t) ==
  LET q == s.cmdq[g]
  IN  /\ m \in 0 .. Len(q)
      /\ n \in 0 .. m
      /\ Len(s.runtime) <= RuntimeDepth => Len(s.runtime) + n <= RuntimeDepth
      /\ t \in Surface
      /\ t.cmdq = [s.cmdq EXCEPT ![g] = SubSeq(q, m + 1, Len(q))]
      /\ t.runtime = s.runtime \o Fresh(q, n)
      /\ t.lost = s.lost \cup {q[i].id : i \in n + 1 .. m}
      /\ t.service = s.service /\ t.store = s.store /\ t.cq = s.cq
      /\ t.failures = s.failures /\ t.refused = s.refused

\* ring_doorbell does so: it takes the batch, or all there is, and when it
\* cannot stage what it takes, the runtime queue is full.
LEMMA RingExactly ==
  ASSUME NEW s \in Surface, NEW g \in Guests, NEW batch \in Nat,
         Len(s.runtime) <= RuntimeDepth
  PROVE  /\ Rings(s, g, Taken(s, g, batch), Staged(s, g, batch), ring_doorbell(s, g, batch))
         /\ Taken(s, g, batch) = IF batch <= Len(s.cmdq[g]) THEN batch ELSE Len(s.cmdq[g])
         /\ Staged(s, g, batch) < Taken(s, g, batch)
              => Len(s.runtime) + Staged(s, g, batch) = RuntimeDepth
<1> DEFINE q == s.cmdq[g]
           m == Taken(s, g, batch)
           n == Staged(s, g, batch)
           t == ring_doorbell(s, g, batch)
<1>1. /\ s.cmdq \in [Guests -> Seq(Command)] /\ q \in Seq(Command) /\ Len(q) \in Nat
      /\ s.runtime \in Seq(Entry) /\ Len(s.runtime) \in Nat /\ RuntimeDepth \in Nat
  BY SurfaceFields, LenProperties, SurfaceAssumption
<1>2. m \in 0 .. Len(q)
  <2>1. m \in {batch, Len(q)} /\ m <= batch /\ m <= Len(q)
    <3> DEFINE l == Len(q)
    <3>1. m = Min({batch, l})
      BY DEF Taken
    <3>2. batch \in Int /\ l \in Int
      BY <1>1
    <3> HIDE DEF l, m
    <3>3. m \in {batch, l} /\ m <= batch /\ m <= l
      BY <3>1, <3>2, MinOfTwo
    <3> QED BY <3>3 DEF l
  <2> QED BY <1>1, <2>1
<1>a. m = IF batch <= Len(q) THEN batch ELSE Len(q)
  <2> DEFINE l == Len(q)
  <2>1. m = Min({batch, l})
    BY DEF Taken
  <2>2. batch \in Int /\ l \in Int
    BY <1>1
  <2> HIDE DEF l, m
  <2>3. m \in {batch, l} /\ m <= batch /\ m <= l
    BY <2>1, <2>2, MinOfTwo
  <2>4. m = IF batch <= l THEN batch ELSE l
    BY <2>2, <2>3
  <2> QED BY <2>4 DEF l
<1>3. /\ n \in 0 .. m /\ Len(s.runtime) + n <= RuntimeDepth
      /\ n < m => Len(s.runtime) + n = RuntimeDepth
  <2> DEFINE d == RuntimeDepth - Len(s.runtime)
  <2>1. n = Min({m, d})
    BY DEF Staged
  <2>2. d \in Nat /\ m \in Nat
    BY <1>1, <1>2
  <2> HIDE DEF n, m
  <2>3. Min({m, d}) \in {m, d} /\ Min({m, d}) <= m /\ Min({m, d}) <= d
    <3> HIDE DEF d
    <3>1. d \in Int /\ m \in Int
      BY <2>2
    <3> QED BY <3>1, MinOfTwo
  <2>4. n \in Nat /\ n <= m /\ n <= d /\ n \in {m, d}
    BY <2>1, <2>2, <2>3
  <2> QED BY <1>1, <2>2, <2>4
<1> DEFINE Q == [s.cmdq EXCEPT ![g] = SubSeq(q, m + 1, Len(q))]
           R == s.runtime \o Fresh(q, n)
           X == s.lost \cup {q[i].id : i \in n + 1 .. m}
<1>4. t = [s EXCEPT !.cmdq = Q, !.runtime = R, !.lost = X]
  BY DEF ring_doorbell, Fresh, Surface
<1> HIDE DEF m, n, t
<1>5. Q \in [Guests -> Seq(Command)]
  <2>1. SubSeq(q, m + 1, Len(q)) \in Seq(Command)
    BY <1>1, <1>2, HitsSplit
  <2> QED BY <1>1, <2>1
<1>6. R \in Seq(Entry)
  <2>1. n \in 0 .. Len(q)
    BY <1>1, <1>2, <1>3
  <2>2. Fresh(q, n) \in Seq(Entry)
    <3> HIDE DEF q
    <3> QED BY <1>1, <2>1, FreshIs
  <2> QED BY <1>1, <2>2, ConcatProperties
<1>7. X \in SUBSET (1 .. MaxCmds)
  <2>1. ASSUME NEW i \in n + 1 .. m PROVE q[i].id \in 1 .. MaxCmds
    <3>1. i \in 1 .. Len(q)
      BY <1>1, <1>2, <1>3
    <3>2. q[i] \in Command
      BY <1>1, <3>1, ElementOfSeq
    <3> QED BY <3>2 DEF Command
  <2> QED BY <2>1, SurfaceFields
<1>8. Rings(s, g, m, n, t)
  <2> HIDE DEF Q, R, X
  <2>1. /\ t \in Surface /\ t.cmdq = Q /\ t.runtime = R /\ t.lost = X
        /\ t.service = s.service /\ t.store = s.store /\ t.cq = s.cq
        /\ t.failures = s.failures /\ t.refused = s.refused
    BY <1>4, <1>5, <1>6, <1>7 DEF Surface
  <2> QED BY <1>2, <1>3, <2>1 DEF Rings, Q, R, X
<1> QED BY <1>3, <1>8, <1>a DEF t, m, n

\* So there are two such numbers.
LEMMA RingIs ==
  ASSUME NEW s \in Surface, NEW g \in Guests, NEW batch \in Nat,
         Len(s.runtime) <= RuntimeDepth
  PROVE  \E m, n : Rings(s, g, m, n, ring_doorbell(s, g, batch))
  BY RingExactly, Zenon

\* A guest takes the first n completions of its queue.
Takes(s, g, n, t) ==
  LET q == s.cq[g]
  IN  /\ n \in 0 .. Len(q)
      /\ t \in Surface
      /\ t.cq = [s.cq EXCEPT ![g] = SubSeq(q, n + 1, Len(q))]
      /\ t.cmdq = s.cmdq /\ t.runtime = s.runtime /\ t.service = s.service
      /\ t.store = s.store /\ t.failures = s.failures
      /\ t.refused = s.refused /\ t.lost = s.lost

\* So does a poll that asks for max_entries, after the flush.
LEMMA TakeIs ==
  ASSUME NEW s \in Surface, NEW g \in Guests, NEW max_entries \in Nat
  PROVE  LET n == Min({max_entries, Len(s.cq[g])})
         IN  Takes(s, g, n, [s EXCEPT !.cq[g] = SubSeq(@, n + 1, Len(@))])
<1> DEFINE q == s.cq[g]
           l == Len(q)
           n == Min({max_entries, l})
           t == [s EXCEPT !.cq[g] = SubSeq(@, n + 1, Len(@))]
           Q == [s.cq EXCEPT ![g] = SubSeq(q, n + 1, l)]
<1>1. s.cq \in [Guests -> Seq(EventType)] /\ q \in Seq(EventType) /\ l \in Nat
  BY SurfaceFields, LenProperties
<1>2. n \in 0 .. l
  <2>1. max_entries \in Int /\ l \in Int
    BY <1>1
  <2>2. n \in {max_entries, l} /\ n <= max_entries /\ n <= l
    <3> HIDE DEF l
    <3> QED BY <2>1, MinOfTwo
  <2> HIDE DEF n
  <2> QED BY <1>1, <2>2
<1>3. t = [s EXCEPT !.cq = Q]
  BY DEF Surface
<1> HIDE DEF n, t
<1>4. Q \in [Guests -> Seq(EventType)]
  <2>1. SubSeq(q, n + 1, l) \in Seq(EventType)
    BY <1>1, <1>2, HitsSplit
  <2> QED BY <1>1, <2>1
<1>5. Takes(s, g, n, t)
  <2> HIDE DEF Q
  <2>1. /\ t \in Surface /\ t.cq = Q /\ t.cmdq = s.cmdq /\ t.runtime = s.runtime
        /\ t.service = s.service /\ t.store = s.store /\ t.failures = s.failures
        /\ t.refused = s.refused /\ t.lost = s.lost
    BY <1>3, <1>4 DEF Surface
  <2> QED BY <1>2, <2>1 DEF Takes, Q
<1> QED BY <1>5 DEF t, n

\* The new command.
LEMMA NewCmdIs ==
  ASSUME NEW L \in Seq(Command), Len(L) < MaxCmds,
         NEW g \in Guests, NEW op \in Ops, NEW key \in Keys, NEW direct \in BOOLEAN
  PROVE  LET c == [id |-> Len(L) + 1, guest |-> g, op |-> op, key |-> key, direct |-> direct]
         IN  c \in Command /\ Append(L, c) \in Seq(Command)
<1> DEFINE c == [id |-> Len(L) + 1, guest |-> g, op |-> op, key |-> key, direct |-> direct]
<1>1. Len(L) + 1 \in 1 .. MaxCmds
  BY LenProperties, SurfaceAssumption
<1>2. c \in Command
  BY <1>1 DEF Command
<1> HIDE DEF c
<1>3. Append(L, c) \in Seq(Command)
  BY <1>2, AppendProperties
<1> QED BY <1>2, <1>3 DEF c

\* The operations leave the surface between operations.
LEMMA BetweenSteps ==
  ASSUME NEW s, Between(s)
  PROVE  /\ \A g \in Guests, c \in Command : Between(enqueue_cmd(s, g, c))
         /\ \A g \in Guests : \A m, n, t : Rings(s, g, m, n, t) => Between(t)
         /\ \A c \in Command :
              c.op # "BadIo" /\ ~ServiceFull(s, c) => Between(submit_descriptor_to_cq(s, c))
         /\ \A key \in Keys : Between([s EXCEPT !.store["shmem"] = @ \cup {key}])
         /\ Between(Flushed(s)) /\ Flushed(s).runtime = <<>> /\ Flushed(s).service = NoService
         /\ \A g \in Guests : \A n, t : Takes(s, g, n, t) => Between(t)
<1>0. s \in Surface /\ s.failures = <<>> /\ Len(s.runtime) <= RuntimeDepth /\ Shallow(s)
      /\ s.runtime \in Seq(Entry) /\ Len(s.runtime) \in Nat
  BY SurfaceFields, LenProperties DEF Between
<1>1. ASSUME NEW t \in Surface, t.failures = s.failures, t.runtime = s.runtime,
             t.service = s.service
      PROVE  Between(t)
  BY <1>0, <1>1 DEF Between, Shallow
<1>2. ASSUME NEW g \in Guests, NEW c \in Command PROVE Between(enqueue_cmd(s, g, c))
  <2> DEFINE t == enqueue_cmd(s, g, c)
  <2>1. t \in Surface /\ t.failures = s.failures /\ t.runtime = s.runtime /\ t.service = s.service
    BY <1>0, EnqueueCmdIs
  <2> HIDE DEF t
  <2>2. Between(t)
    BY <1>1, <2>1
  <2> QED BY <2>2 DEF t
<1>3. ASSUME NEW g \in Guests, NEW m, NEW n, NEW t, Rings(s, g, m, n, t) PROVE Between(t)
  <2> DEFINE q == s.cmdq[g]
  <2>1. q \in Seq(Command) /\ Len(q) \in Nat
    BY <1>0, SurfaceFields, LenProperties
  <2>2. /\ m \in 0 .. Len(q) /\ n \in 0 .. m /\ Len(s.runtime) + n <= RuntimeDepth
        /\ t \in Surface /\ t.failures = s.failures /\ t.service = s.service
        /\ t.runtime = s.runtime \o Fresh(q, n)
    BY <1>0, <1>3 DEF Rings
  <2> HIDE DEF q
  <2>3. n \in 0 .. Len(q)
    BY <2>1, <2>2
  <2>4. Fresh(q, n) \in Seq(Entry) /\ Len(Fresh(q, n)) = n
    BY <2>1, <2>3, FreshIs
  <2>5. Len(t.runtime) = Len(s.runtime) + n
    <3> DEFINE a == s.runtime
               e == Fresh(q, n)
    <3>1. a \in Seq(Entry) /\ e \in Seq(Entry)
      BY <1>0, <2>4
    <3>2. Len(a \o e) = Len(a) + Len(e)
      <4> HIDE DEF a, e
      <4> QED BY <3>1, ConcatProperties
    <3> QED BY <2>2, <2>4, <3>2
  <2> QED BY <1>0, <2>2, <2>5 DEF Between, Shallow
<1>4. ASSUME NEW c \in Command, c.op # "BadIo", ~ServiceFull(s, c)
      PROVE  Between(submit_descriptor_to_cq(s, c))
  <2> DEFINE t == submit_descriptor_to_cq(s, c)
             r == [cmd |-> c, attempts |-> 0]
             e == Event(c, DoneStatus(s, c))
  <2>1. r \in Entry /\ r.cmd = c
    BY SurfaceAssumption DEF Entry
  <2>2. /\ t \in Surface
        /\ t.cmdq = s.cmdq /\ t.runtime = s.runtime /\ t.failures = s.failures
        /\ t.refused = s.refused /\ t.lost = s.lost
        /\ \A v \in Services :
             /\ t.store[v] = IF c.op \in Inserts /\ v = ServiceOf(c.op)
                             THEN s.store[v] \cup {c.key} ELSE s.store[v]
             /\ t.service[v] = IF v = ServiceOf(c.op)
                               THEN Append(s.service[v], e) ELSE s.service[v]
        /\ Adds(s, t, e)
    BY <1>0, <1>4, SubmitIs
  <2> HIDE DEF t, r
  <2>3. Completed(s, r, t)
    BY <1>4, <2>1, <2>2 DEF Completed
  <2>4. Outcome(s, r, t)
    BY <2>2, <2>3 DEF Outcome, Frame
  <2>5. Shallow(t)
    BY <1>0, <2>1, <2>4, OutcomeIs
  <2>6. Between(t)
    BY <1>0, <2>2, <2>5 DEF Between
  <2> QED BY <2>6 DEF t
<1>5. ASSUME NEW key \in Keys PROVE Between([s EXCEPT !.store["shmem"] = @ \cup {key}])
  <2> DEFINE t == [s EXCEPT !.store["shmem"] = @ \cup {key}]
  <2>1. t \in Surface /\ t.failures = s.failures /\ t.runtime = s.runtime /\ t.service = s.service
    BY <1>0, CreateIs
  <2> HIDE DEF t
  <2>2. Between(t)
    BY <1>1, <2>1
  <2> QED BY <2>2 DEF t
<1>6. Between(Flushed(s)) /\ Flushed(s).runtime = <<>> /\ Flushed(s).service = NoService
  <2> DEFINE t == Flushed(s)
  <2>1. Keeps(s, t) /\ t.runtime = <<>> /\ t.service = NoService
    BY <1>0, FlushedIs
  <2> HIDE DEF t
  <2>2. Len(t.runtime) <= RuntimeDepth
    BY <2>1, SurfaceAssumption
  <2>3. Between(t)
    BY <1>0, <2>1, <2>2 DEF Between, Keeps
  <2> QED BY <2>1, <2>3 DEF t
<1>7. ASSUME NEW g \in Guests, NEW n, NEW t, Takes(s, g, n, t) PROVE Between(t)
  <2>1. t \in Surface /\ t.failures = s.failures /\ t.runtime = s.runtime /\ t.service = s.service
    BY <1>7 DEF Takes
  <2> QED BY <1>1, <2>1
<1> QED BY <1>2, <1>3, <1>4, <1>5, <1>6, <1>7

-----------------------------------------------------------------------------
(* Types *)

\* The types hold at the start.
LEMMA InitType == Init => TypeOK
<1> SUFFICES ASSUME Init PROVE TypeOK
  OBVIOUS
<1>1. uapi \in Surface /\ uapi.failures = <<>> /\ uapi.runtime = <<>>
      /\ uapi.service = [v \in Services |-> <<>>]
  BY DEF Init, EmptySurface, Surface
<1>2. Between(uapi)
  <2>1. \A v \in Services : uapi.service[v] = <<>> /\ ServiceDepth[v] \in Nat
    BY <1>1, SurfaceAssumption
  <2>2. Shallow(uapi)
    BY <2>1 DEF Shallow
  <2> QED BY <1>1, <2>2, SurfaceAssumption DEF Between
<1>3. log \in Seq(Command) /\ seen \in [Guests -> Seq(EventType)]
  BY DEF Init
<1> QED BY <1>2, <1>3, TypeIs

\* What the actions do, in terms of the lemmas above.
LEMMA ActionsAre ==
  ASSUME log \in Seq(Command), Between(uapi), seen \in [Guests -> Seq(EventType)]
  PROVE  /\ \A g \in Guests, op \in Ops, key \in Keys : EnqueueCmd(g, op, key) =>
              \E c \in Command :
                /\ c.id = Len(log) + 1 /\ c.guest = g /\ ~c.direct
                /\ log' = Append(log, c) /\ log' \in Seq(Command)
                /\ uapi' = enqueue_cmd(uapi, g, c) /\ seen' = seen
         /\ \A op \in Ops, key \in Keys : SubmitDirect(op, key) =>
              \E c \in Command :
                /\ c.id = Len(log) + 1 /\ c.direct /\ c.op # "BadIo" /\ ~ServiceFull(uapi, c)
                /\ log' = Append(log, c) /\ log' \in Seq(Command)
                /\ uapi' = submit_descriptor_to_cq(uapi, c) /\ seen' = seen
         /\ \A g \in Guests, batch \in Batches : RingDoorbell(g, batch) =>
              /\ \E m, n : Rings(uapi, g, m, n, uapi')
              /\ log' = log /\ seen' = seen
         /\ \A g \in Guests, batch \in Batches : PollCq(g, batch) =>
              /\ \E n : /\ Takes(Flushed(uapi), g, n, uapi')
                        /\ seen' = [seen EXCEPT ![g] = @ \o SubSeq(Flushed(uapi).cq[g], 1, n)]
              /\ log' = log
<1>0. uapi \in Surface /\ Len(uapi.runtime) <= RuntimeDepth
  BY DEF Between
<1>1. ASSUME NEW g \in Guests, NEW op \in Ops, NEW key \in Keys, EnqueueCmd(g, op, key)
      PROVE  \E c \in Command :
                /\ c.id = Len(log) + 1 /\ c.guest = g /\ ~c.direct
                /\ log' = Append(log, c) /\ log' \in Seq(Command)
                /\ uapi' = enqueue_cmd(uapi, g, c) /\ seen' = seen
  <2> DEFINE c == NewCmd(g, op, key, FALSE)
  <2>1. /\ Len(log) < MaxCmds /\ log' = Append(log, c)
        /\ uapi' = enqueue_cmd(uapi, g, c) /\ seen' = seen
    BY <1>1 DEF EnqueueCmd, Issue
  <2>2. c \in Command /\ Append(log, c) \in Seq(Command)
    BY <2>1, NewCmdIs DEF NewCmd
  <2>3. c.id = Len(log) + 1 /\ c.guest = g /\ ~c.direct
    BY DEF NewCmd
  <2> HIDE DEF c
  <2> QED BY <2>1, <2>2, <2>3
<1>2. ASSUME NEW op \in Ops, NEW key \in Keys, SubmitDirect(op, key)
      PROVE  \E c \in Command :
                /\ c.id = Len(log) + 1 /\ c.direct /\ c.op # "BadIo" /\ ~ServiceFull(uapi, c)
                /\ log' = Append(log, c) /\ log' \in Seq(Command)
                /\ uapi' = submit_descriptor_to_cq(uapi, c) /\ seen' = seen
  <2> DEFINE c == NewCmd(default_cq, op, key, TRUE)
  <2>1. /\ op # "BadIo" /\ ~ServiceFull(uapi, c)
        /\ Len(log) < MaxCmds /\ log' = Append(log, c)
        /\ uapi' = submit_descriptor_to_cq(uapi, c) /\ seen' = seen
    BY <1>2 DEF SubmitDirect, Issue
  <2>2. c \in Command /\ Append(log, c) \in Seq(Command)
    BY <2>1, NewCmdIs, SurfaceAssumption DEF NewCmd
  <2>3. c.id = Len(log) + 1 /\ c.direct /\ c.op = op
    BY DEF NewCmd
  <2> HIDE DEF c
  <2> QED BY <2>1, <2>2, <2>3
<1>3. \A batch \in Batches : batch \in Nat
  BY SurfaceAssumption DEF Batches
<1>4. ASSUME NEW g \in Guests, NEW batch \in Batches, RingDoorbell(g, batch)
      PROVE  (\E m, n : Rings(uapi, g, m, n, uapi')) /\ log' = log /\ seen' = seen
  <2>1. uapi' = ring_doorbell(uapi, g, batch) /\ log' = log /\ seen' = seen
    BY <1>4 DEF RingDoorbell
  <2>2. \E m, n : Rings(uapi, g, m, n, ring_doorbell(uapi, g, batch))
    BY <1>0, <1>3, RingIs
  <2> QED BY <2>1, <2>2
<1>5. ASSUME NEW g \in Guests, NEW batch \in Batches, PollCq(g, batch)
      PROVE  /\ \E n : /\ Takes(Flushed(uapi), g, n, uapi')
                       /\ seen' = [seen EXCEPT ![g] = @ \o SubSeq(Flushed(uapi).cq[g], 1, n)]
             /\ log' = log
  <2> DEFINE s == Flushed(uapi)
             n == Min({batch, Len(s.cq[g])})
  <2>1. /\ seen' = [seen EXCEPT ![g] = @ \o SubSeq(s.cq[g], 1, n)]
        /\ uapi' = [s EXCEPT !.cq[g] = SubSeq(@, n + 1, Len(@))]
        /\ log' = log
    BY <1>5 DEF PollCq
  <2>2. s \in Surface
    BY BetweenSteps DEF Between
  <2> HIDE DEF s
  <2>3. Takes(s, g, n, [s EXCEPT !.cq[g] = SubSeq(@, n + 1, Len(@))])
    BY <1>3, <2>2, TakeIs
  <2>4. Takes(s, g, n, uapi')
    BY <2>1, <2>3
  <2> HIDE DEF n
  <2> QED BY <2>1, <2>4 DEF s
<1> QED BY <1>1, <1>2, <1>4, <1>5

\* Every step keeps the types.
LEMMA NextType == TypeOK /\ [Next]_vars => TypeOK'
<1> SUFFICES ASSUME TypeOK, [Next]_vars PROVE TypeOK'
  OBVIOUS
<1>1. log \in Seq(Command) /\ Between(uapi) /\ seen \in [Guests -> Seq(EventType)]
  BY TypeIs
<1> SUFFICES log' \in Seq(Command) /\ Between(uapi') /\ seen' \in [Guests -> Seq(EventType)]
  <2>1. (TypeOK <=> log \in Seq(Command) /\ Between(uapi)
                      /\ seen \in [Guests -> Seq(EventType)])'
    BY TypeIs, PTL
  <2> QED BY <2>1 DEF Between, Shallow
<1>2. ASSUME NEW g \in Guests, NEW op \in Ops, NEW key \in Keys, EnqueueCmd(g, op, key)
      PROVE  log' \in Seq(Command) /\ Between(uapi') /\ seen' \in [Guests -> Seq(EventType)]
  <2>1. PICK c \in Command : /\ log' \in Seq(Command) /\ uapi' = enqueue_cmd(uapi, g, c)
                             /\ seen' = seen
    BY <1>1, <1>2, ActionsAre
  <2>2. Between(enqueue_cmd(uapi, g, c))
    BY <1>1, BetweenSteps
  <2> QED BY <1>1, <2>1, <2>2
<1>3. ASSUME NEW op \in Ops, NEW key \in Keys, SubmitDirect(op, key)
      PROVE  log' \in Seq(Command) /\ Between(uapi') /\ seen' \in [Guests -> Seq(EventType)]
  <2>1. PICK c \in Command : /\ c.op # "BadIo" /\ ~ServiceFull(uapi, c)
                             /\ log' \in Seq(Command) /\ seen' = seen
                             /\ uapi' = submit_descriptor_to_cq(uapi, c)
    BY <1>1, <1>3, ActionsAre
  <2>2. Between(submit_descriptor_to_cq(uapi, c))
    BY <1>1, <2>1, BetweenSteps
  <2> QED BY <1>1, <2>1, <2>2
<1>4. ASSUME NEW g \in Guests, NEW batch \in Batches, RingDoorbell(g, batch)
      PROVE  log' \in Seq(Command) /\ Between(uapi') /\ seen' \in [Guests -> Seq(EventType)]
  <2>1. PICK m, n : Rings(uapi, g, m, n, uapi')
    BY <1>1, <1>4, ActionsAre
  <2>2. log' = log /\ seen' = seen
    BY <1>4 DEF RingDoorbell
  <2>3. Between(uapi')
    BY <1>1, <2>1, BetweenSteps
  <2> QED BY <1>1, <2>2, <2>3
<1>5. ASSUME NEW g \in Guests, NEW batch \in Batches, PollCq(g, batch)
      PROVE  log' \in Seq(Command) /\ Between(uapi') /\ seen' \in [Guests -> Seq(EventType)]
  <2> DEFINE s == Flushed(uapi)
  <2>1. log' = log
    BY <1>5 DEF PollCq
  <2>2. PICK n : /\ Takes(s, g, n, uapi')
                 /\ seen' = [seen EXCEPT ![g] = @ \o SubSeq(s.cq[g], 1, n)]
    BY <1>1, <1>5, ActionsAre
  <2>3. Between(s)
    BY <1>1, BetweenSteps
  <2> HIDE DEF s
  <2>4. Between(uapi')
    BY <2>2, <2>3, BetweenSteps
  <2>5. seen' \in [Guests -> Seq(EventType)]
    <3>1. s.cq[g] \in Seq(EventType) /\ n \in 0 .. Len(s.cq[g])
      BY <2>2, <2>3, SurfaceFields DEF Between, Takes
    <3>2. SubSeq(s.cq[g], 1, n) \in Seq(EventType)
      BY <3>1, HitsSplit
    <3>3. seen[g] \o SubSeq(s.cq[g], 1, n) \in Seq(EventType)
      BY <1>1, <3>2, ConcatProperties
    <3> QED BY <1>1, <2>2, <3>3
  <2> QED BY <1>1, <2>1, <2>4, <2>5
<1>6. ASSUME NEW key \in Keys, CreateSegment(key)
      PROVE  log' \in Seq(Command) /\ Between(uapi') /\ seen' \in [Guests -> Seq(EventType)]
  <2>1. Between([uapi EXCEPT !.store["shmem"] = @ \cup {key}])
    BY <1>1, BetweenSteps
  <2> QED BY <1>1, <1>6, <2>1 DEF CreateSegment
<1>7. CASE PollRefused
  <2>1. Between(Flushed(uapi))
    BY <1>1, BetweenSteps
  <2> QED BY <1>1, <1>7, <2>1 DEF PollRefused
<1>8. CASE UNCHANGED vars
  BY <1>1, <1>8 DEF vars
<1> QED BY <1>2, <1>3, <1>4, <1>5, <1>6, <1>7, <1>8 DEF Next

\* The queues hold commands and completions within their depths, no entry of
\* the runtime queue has had more attempts than runtime_max_retries, and no
\* failure collected by drive_ready is left unreported.
THEOREM TypeCorrect == Spec => []TypeOK
  BY InitType, NextType, PTL DEF Spec

\* A guest that receives completions leaves nothing behind in the runtime
\* queue or in a service: every command has used up its retries when
\* flush_runtime comes back.
THEOREM PollsSettle == Spec => PollSettles
<1>1. TypeOK /\ [Next]_vars =>
        [seen' # seen => /\ uapi'.runtime = <<>>
                         /\ \A v \in Services : uapi'.service[v] = <<>>]_vars
  <2> SUFFICES ASSUME TypeOK, Next, seen' # seen
               PROVE  /\ uapi'.runtime = <<>>
                      /\ \A v \in Services : uapi'.service[v] = <<>>
    BY DEF vars
  <2>1. log \in Seq(Command) /\ Between(uapi) /\ seen \in [Guests -> Seq(EventType)]
    BY TypeIs
  <2>2. PICK g \in Guests, batch \in Batches : PollCq(g, batch)
    BY DEF Next, EnqueueCmd, SubmitDirect, RingDoorbell, CreateSegment, PollRefused
  <2> DEFINE s == Flushed(uapi)
  <2>3. PICK n : Takes(s, g, n, uapi')
    BY <2>1, <2>2, ActionsAre
  <2>4. s.runtime = <<>> /\ s.service = NoService
    BY <2>1, BetweenSteps
  <2> HIDE DEF s
  <2> QED BY <2>3, <2>4 DEF Takes, NoService
<1> QED BY <1>1, TypeCorrect, PTL DEF Spec, PollSettles

-----------------------------------------------------------------------------
(* The ledger: the commands issued against where they are *)

IdCmds(id) == {c \in Command : c.id = id}

Numbered(L) == \A i \in 1 .. Len(L) : L[i].id = i

\* What guests have seen is right.
SeenOK(s, S, L) == \A g \in Guests : HitsIn(S[g], Wrong(L, Held(s), g)) = 0

\* Command id is in one place.
Once(s, S, L, id) ==
  1 = Total(s, L[id].guest, id) + HitsIn(S[L[id].guest], IdEvents(id))
        + HitsIn(s.cmdq[L[id].guest], IdCmds(id)) + (IF id \in s.lost THEN 1 ELSE 0)

Ledger(s, S, L) ==
  /\ Numbered(L)
  /\ s.lost \subseteq 1 .. Len(L)
  /\ Sound(s, L)
  /\ SeenOK(s, S, L)
  /\ \A id \in 1 .. Len(L) : Once(s, S, L, id)

\* The commands of a log.
LEMMA LogIs ==
  ASSUME NEW L \in Seq(Command)
  PROVE  Len(L) \in Nat /\ \A i \in 1 .. Len(L) : L[i] \in Command /\ L[i].guest \in Guests
<1>1. Len(L) \in Nat /\ \A i \in 1 .. Len(L) : L[i] \in Command
  BY LenProperties, ElementOfSeq
<1> QED BY <1>1 DEF Command

\* M is log L with command c at the end.
Grown(L, c, M) ==
  /\ M \in Seq(Command) /\ Len(M) = Len(L) + 1 /\ Len(L) \in Nat /\ Len(L) <= Len(M)
  /\ \A i \in 1 .. Len(L) : M[i] = L[i] /\ i \in 1 .. Len(M) /\ i # c.id
  /\ c.id = Len(L) + 1 /\ M[c.id] = c /\ c.id \in 1 .. Len(M) /\ c.id \notin 1 .. Len(L)
  /\ \A i \in 1 .. Len(M) : i \in 1 .. Len(L) \/ i = c.id
  /\ Numbered(L) => Numbered(M)

\* So it is when c is issued.
LEMMA LogGrows ==
  ASSUME NEW L \in Seq(Command), NEW c \in Command, c.id = Len(L) + 1
  PROVE  Grown(L, c, Append(L, c))
<1> DEFINE M == Append(L, c)
<1>1. /\ M \in Seq(Command) /\ Len(M) = Len(L) + 1 /\ Len(L) \in Nat
      /\ \A i \in 1 .. Len(L) : M[i] = L[i]
      /\ M[Len(L) + 1] = c
  BY AppendProperties, LenProperties
<1> HIDE DEF M
<1>2. /\ \A i \in 1 .. Len(L) : i \in 1 .. Len(M) /\ i # c.id
      /\ c.id \in 1 .. Len(M) /\ c.id \notin 1 .. Len(L) /\ Len(L) <= Len(M)
      /\ \A i \in 1 .. Len(M) : i \in 1 .. Len(L) \/ i = c.id
  BY <1>1
<1>3. Numbered(L) => Numbered(M)
  BY <1>1, <1>2 DEF Numbered
<1>4. Grown(L, c, M)
  BY <1>1, <1>2, <1>3 DEF Grown
<1> QED BY <1>4 DEF M

\* The numbers of completions are natural numbers.
LEMMA OnceType ==
  ASSUME NEW s \in Surface, NEW S \in [Guests -> Seq(EventType)], NEW g \in Guests, NEW id
  PROVE  /\ Settled(s, g, IdEvents(id)) \in Nat /\ HitsIn(s.runtime, IdEntries(id)) \in Nat
         /\ HitsIn(S[g], IdEvents(id)) \in Nat /\ HitsIn(s.cmdq[g], IdCmds(id)) \in Nat
         /\ Total(s, g, id) \in Nat
<1>1. Settled(s, g, IdEvents(id)) \in Nat
  BY SettledType
<1>2. HitsIn(s.runtime, IdEntries(id)) \in Nat
  BY SurfaceFields, HitsType
<1>3. S[g] \in Seq(EventType) /\ s.cmdq[g] \in Seq(Command)
  BY SurfaceFields
<1>4. HitsIn(S[g], IdEvents(id)) \in Nat /\ HitsIn(s.cmdq[g], IdCmds(id)) \in Nat
  BY <1>3, HitsType
<1> QED BY <1>1, <1>2, <1>4 DEF Total

\* A number that was not given out yet is nowhere.
LEMMA NewIsNowhere ==
  ASSUME NEW s \in Surface, NEW S \in [Guests -> Seq(EventType)], NEW L \in Seq(Command),
         Ledger(s, S, L), NEW id, id \notin 1 .. Len(L), NEW g \in Guests
  PROVE  /\ Settled(s, g, IdEvents(id)) = 0 /\ HitsIn(s.runtime, IdEntries(id)) = 0
         /\ HitsIn(S[g], IdEvents(id)) = 0 /\ HitsIn(s.cmdq[g], IdCmds(id)) = 0
         /\ Total(s, g, id) = 0 /\ id \notin s.lost
<1> DEFINE W == Wrong(L, Held(s), g)
<1>1. IdEvents(id) \subseteq W
  BY DEF IdEvents, Wrong, Right
<1>2. Settled(s, g, W) = 0 /\ HitsIn(S[g], W) = 0
  BY DEF Ledger, Sound, Clean, SeenOK
<1> HIDE DEF W
<1>3. Settled(s, g, IdEvents(id)) = 0
  <2>1. Settled(s, g, IdEvents(id)) <= Settled(s, g, W) /\ Settled(s, g, IdEvents(id)) \in Nat
    BY <1>1, SettledSubset, SettledType
  <2> QED BY <1>2, <2>1
<1>4. HitsIn(S[g], IdEvents(id)) = 0
  <2>1. S[g] \in Seq(EventType)
    OBVIOUS
  <2>2. HitsIn(S[g], IdEvents(id)) <= HitsIn(S[g], W) /\ HitsIn(S[g], IdEvents(id)) \in Nat
    BY <1>1, <2>1, HitsSubset, HitsType
  <2> QED BY <1>2, <2>2
<1>5. HitsIn(s.runtime, IdEntries(id)) = 0
  <2>1. s.runtime \in Seq(Entry)
    BY SurfaceFields
  <2>2. \A i \in 1 .. Len(s.runtime) : s.runtime[i] \notin IdEntries(id)
    BY DEF Ledger, Sound, RunOK, Known, IdEntries
  <2> QED BY <2>1, <2>2, HitsNone
<1>6. HitsIn(s.cmdq[g], IdCmds(id)) = 0
  <2>1. s.cmdq[g] \in Seq(Command)
    BY SurfaceFields
  <2>2. \A i \in 1 .. Len(s.cmdq[g]) : s.cmdq[g][i] \notin IdCmds(id)
    BY DEF Ledger, Sound, CmdqOK, Known, IdCmds
  <2> QED BY <2>1, <2>2, HitsNone
<1> QED BY <1>3, <1>4, <1>5, <1>6 DEF Total, Ledger

\* What guests have seen stays right.
LEMMA SeenStays ==
  ASSUME NEW S \in [Guests -> Seq(EventType)], NEW L \in Seq(Command), NEW M \in Seq(Command),
         Len(L) <= Len(M), \A i \in 1 .. Len(L) : M[i] = L[i],
         NEW s, NEW t, Held(s) \subseteq Held(t), SeenOK(s, S, L)
  PROVE  SeenOK(t, S, M)
<1> SUFFICES ASSUME NEW g \in Guests PROVE HitsIn(S[g], Wrong(M, Held(t), g)) = 0
  BY DEF SeenOK
<1> DEFINE T == Wrong(L, Held(s), g)
           U == Wrong(M, Held(t), g)
<1>1. U \subseteq T
  BY WrongShrinks
<1>2. HitsIn(S[g], T) = 0 /\ S[g] \in Seq(EventType)
  BY DEF SeenOK
<1> HIDE DEF T, U
<1>3. HitsIn(S[g], U) <= HitsIn(S[g], T) /\ HitsIn(S[g], U) \in Nat
  BY <1>1, <1>2, HitsSubset, HitsType
<1>4. HitsIn(S[g], U) = 0
  BY <1>2, <1>3
<1> QED BY <1>4 DEF U

\* A clean surface stays clean while the log grows.
LEMMA CleanGrows ==
  ASSUME NEW s \in Surface, NEW L \in Seq(Command), NEW M \in Seq(Command),
         Len(L) <= Len(M), \A i \in 1 .. Len(L) : M[i] = L[i], Clean(s, L)
  PROVE  Clean(s, M)
<1> SUFFICES ASSUME NEW g \in Guests PROVE Settled(s, g, Wrong(M, Held(s), g)) = 0
  BY DEF Clean
<1> DEFINE T == Wrong(L, Held(s), g)
           U == Wrong(M, Held(s), g)
<1>1. U \subseteq T
  BY WrongShrinks
<1>2. Settled(s, g, T) = 0
  BY DEF Clean
<1> HIDE DEF T, U
<1>3. Settled(s, g, U) <= Settled(s, g, T) /\ Settled(s, g, U) \in Nat
  BY <1>1, SettledSubset, SettledType
<1>4. Settled(s, g, U) = 0
  BY <1>2, <1>3
<1> QED BY <1>4 DEF U

\* A command of a grown log that was known stays known.
LEMMA KnownStays ==
  ASSUME NEW L \in Seq(Command), NEW c \in Command, NEW M, Grown(L, c, M), NEW d, Known(L, d)
  PROVE  Known(M, d) /\ d.id < c.id
  BY DEF Known, Grown

\* Command c is at the back of the command queue of its guest.
Queued(s, g, c, t) ==
  /\ t \in Surface
  /\ t.cmdq = [s.cmdq EXCEPT ![g] = Append(s.cmdq[g], c)]
  /\ t.runtime = s.runtime /\ t.service = s.service /\ t.store = s.store
  /\ t.cq = s.cq /\ t.failures = s.failures
  /\ t.refused = s.refused /\ t.lost = s.lost

\* A guest enqueues a command.
LEMMA LedgerEnqueue ==
  ASSUME NEW s \in Surface, NEW S \in [Guests -> Seq(EventType)], NEW L \in Seq(Command),
         Ledger(s, S, L), NEW g \in Guests, NEW c \in Command, c.guest = g,
         NEW M, Grown(L, c, M), Known(M, c), NEW t, Queued(s, g, c, t)
  PROVE  Ledger(t, S, M)
<1> DEFINE q == s.cmdq[g]
           p == Append(q, c)
<1>1. /\ t \in Surface /\ t.cmdq = [s.cmdq EXCEPT ![g] = p]
      /\ t.runtime = s.runtime /\ t.service = s.service /\ t.store = s.store
      /\ t.cq = s.cq /\ t.failures = s.failures
      /\ t.refused = s.refused /\ t.lost = s.lost
  BY DEF Queued
<1>2. /\ M \in Seq(Command) /\ Len(M) = Len(L) + 1 /\ Len(L) \in Nat /\ Len(L) <= Len(M)
      /\ \A i \in 1 .. Len(L) : M[i] = L[i] /\ i \in 1 .. Len(M) /\ i # c.id
      /\ M[c.id] = c /\ c.id \in 1 .. Len(M) /\ c.id \notin 1 .. Len(L)
      /\ \A i \in 1 .. Len(M) : i \in 1 .. Len(L) \/ i = c.id
      /\ Numbered(M)
  BY DEF Ledger, Grown
<1>3. /\ s.cmdq \in [Guests -> Seq(Command)] /\ q \in Seq(Command) /\ Len(q) \in Nat
  BY SurfaceFields, LenProperties
<1>4. /\ p \in Seq(Command) /\ Len(p) = Len(q) + 1 /\ p[Len(q) + 1] = c
      /\ \A i \in 1 .. Len(q) : p[i] = q[i]
  BY <1>3, AppendProperties
<1>5. /\ t.cmdq[g] = p
      /\ \A h \in Guests : h # g => t.cmdq[h] = s.cmdq[h]
  BY <1>1, <1>3
<1>6. /\ CmdqOK(s, L) /\ RunOK(s, L, s.runtime) /\ Effect(s, L, s.runtime, 0) /\ Clean(s, L)
      /\ SeenOK(s, S, L)
  BY DEF Ledger, Sound
<1>7. SameEvents(s, t) /\ Held(t) = Held(s)
  BY <1>1, SameEventsIs DEF Held
<1>8. \A d : Known(L, d) => Known(M, d) /\ d.id < c.id
  BY KnownStays
<1> HIDE DEF p
<1>9. CmdqOK(t, M)
  <2> SUFFICES ASSUME NEW h \in Guests, NEW i \in 1 .. Len(t.cmdq[h])
               PROVE  /\ Known(M, t.cmdq[h][i])
                      /\ t.cmdq[h][i].guest = h
                      /\ \A j \in 1 .. Len(t.cmdq[h]) : i < j => t.cmdq[h][i].id < t.cmdq[h][j].id
    BY DEF CmdqOK
  <2>1. CASE h # g
    <3>1. t.cmdq[h] = s.cmdq[h]
      BY <1>5, <2>1
    <3> QED BY <1>6, <1>8, <3>1 DEF CmdqOK
  <2>2. CASE h = g
    <3>1. \A j \in 1 .. Len(q) : /\ Known(L, q[j]) /\ q[j].guest = g
                                 /\ \A k \in 1 .. Len(q) : j < k => q[j].id < q[k].id
      BY <1>6 DEF CmdqOK
    <3>2. i \in 1 .. Len(p)
      BY <1>5, <2>2
    <3>3. Known(M, c)
      OBVIOUS
    <3> HIDE DEF q
    <3>4. Known(M, p[i]) /\ p[i].guest = g
      <4>1. CASE i = Len(q) + 1
        BY <1>4, <3>3, <4>1
      <4>2. CASE i # Len(q) + 1
        <5>1. i \in 1 .. Len(q) /\ p[i] = q[i]
          BY <1>3, <1>4, <3>2, <4>2
        <5> QED BY <1>8, <3>1, <5>1
      <4> QED BY <4>1, <4>2
    <3>5. ASSUME NEW j \in 1 .. Len(p), i < j PROVE p[i].id < p[j].id
      <4>1. i \in 1 .. Len(q) /\ p[i] = q[i]
        BY <1>3, <1>4, <3>2, <3>5
      <4>2. CASE j = Len(q) + 1
        BY <1>4, <1>8, <3>1, <4>1, <4>2
      <4>3. CASE j # Len(q) + 1
        <5>1. j \in 1 .. Len(q) /\ p[j] = q[j]
          BY <1>3, <1>4, <4>3
        <5> QED BY <3>1, <3>5, <4>1, <5>1
      <4> QED BY <4>2, <4>3
    <3> QED BY <1>5, <2>2, <3>4, <3>5
  <2> QED BY <2>1, <2>2
<1>10. RunOK(t, M, t.runtime)
  <2> DEFINE r == s.runtime
  <2> SUFFICES ASSUME NEW i \in 1 .. Len(r)
               PROVE  /\ Known(M, r[i].cmd)
                      /\ \A j \in 1 .. Len(t.cmdq[r[i].cmd.guest]) :
                           r[i].cmd.id < t.cmdq[r[i].cmd.guest][j].id
                      /\ \A j \in 1 .. Len(r) :
                           r[i].cmd.guest = r[j].cmd.guest /\ r[i].cmd.id < r[j].cmd.id
                             => i < j \/ r[i].cmd.id \in s.refused
    BY <1>1 DEF RunOK
  <2>1. /\ Known(L, r[i].cmd)
        /\ \A j \in 1 .. Len(s.cmdq[r[i].cmd.guest]) :
             r[i].cmd.id < s.cmdq[r[i].cmd.guest][j].id
        /\ \A j \in 1 .. Len(r) :
             r[i].cmd.guest = r[j].cmd.guest /\ r[i].cmd.id < r[j].cmd.id
               => i < j \/ r[i].cmd.id \in s.refused
    BY <1>6 DEF RunOK
  <2> DEFINE d == r[i].cmd
             h == d.guest
  <2>2. h \in Guests
    <3>1. d = L[d.id] /\ d.id \in 1 .. Len(L)
      BY <2>1 DEF Known
    <3> QED BY <3>1, LogIs
  <2>3. ASSUME NEW j \in 1 .. Len(t.cmdq[h]) PROVE d.id < t.cmdq[h][j].id
    <3>1. CASE h # g
      BY <1>5, <2>1, <2>2, <3>1
    <3>2. CASE h = g
      <4>1. \A k \in 1 .. Len(q) : d.id < q[k].id
        BY <2>1, <3>2
      <4>2. d.id < c.id
        BY <1>8, <2>1
      <4>3. t.cmdq[h] = p /\ j \in 1 .. Len(p)
        BY <1>5, <3>2
      <4> HIDE DEF q, d, h
      <4>4. CASE j = Len(q) + 1
        BY <1>4, <4>2, <4>3, <4>4
      <4>5. CASE j # Len(q) + 1
        <5>1. j \in 1 .. Len(q) /\ p[j] = q[j]
          BY <1>3, <1>4, <4>3, <4>5
        <5> QED BY <4>1, <4>3, <5>1
      <4> QED BY <4>4, <4>5
    <3> QED BY <3>1, <3>2
  <2> QED BY <1>8, <2>1, <2>3
<1>11. Effect(t, M, t.runtime, 0)
  <2> SUFFICES ASSUME NEW w \in 1 .. Len(M), M[w].op \in Inserts
               PROVE  \/ Done(t, M, w) \/ InCmdq(t, M, w)
                      \/ \E i \in 0 + 1 .. Len(s.runtime) : s.runtime[i].cmd.id = w
    BY <1>1 DEF Effect
  <2>1. CASE w = c.id
    <3>1. M[w].guest = g /\ t.cmdq[g] = p /\ Len(q) + 1 \in 1 .. Len(p) /\ p[Len(q) + 1].id = w
      BY <1>2, <1>3, <1>4, <1>5, <2>1
    <3>2. InCmdq(t, M, w)
      BY <3>1 DEF InCmdq
    <3> QED BY <3>2
  <2>2. CASE w \in 1 .. Len(L)
    <3>1. M[w] = L[w]
      BY <1>2, <2>2
    <3>2. \/ Done(s, L, w) \/ InCmdq(s, L, w)
          \/ \E i \in 0 + 1 .. Len(s.runtime) : s.runtime[i].cmd.id = w
      BY <1>6, <2>2, <3>1 DEF Effect
    <3>3. Done(s, L, w) => Done(t, M, w)
      BY <1>1, <1>7, <3>1 DEF Done
    <3>4. ASSUME InCmdq(s, L, w) PROVE InCmdq(t, M, w)
      <4> DEFINE h == L[w].guest
      <4>1. h \in Guests
        BY <2>2, LogIs
      <4>2. PICK i \in 1 .. Len(s.cmdq[h]) : s.cmdq[h][i].id = w
        BY <3>4 DEF InCmdq
      <4>3. i \in 1 .. Len(t.cmdq[h]) /\ t.cmdq[h][i] = s.cmdq[h][i]
        <5>1. CASE h # g
          BY <1>5, <4>1, <4>2, <5>1
        <5>2. CASE h = g
          BY <1>3, <1>4, <1>5, <4>2, <5>2
        <5> QED BY <5>1, <5>2
      <4> QED BY <3>1, <4>2, <4>3 DEF InCmdq
    <3> QED BY <3>2, <3>3, <3>4
  <2> QED BY <1>2, <2>1, <2>2
<1>12. Clean(t, M)
  <2>1. Clean(s, M)
    BY <1>2, <1>6, CleanGrows
  <2> QED BY <1>1, <1>2, <1>7, <2>1, CleanStays
<1>13. SeenOK(t, S, M)
  BY <1>2, <1>6, <1>7, SeenStays
<1>14. ASSUME NEW id \in 1 .. Len(M) PROVE Once(t, S, M, id)
  <2> DEFINE h == M[id].guest
             x == IF c \in IdCmds(id) THEN 1 ELSE 0
  <2>1. h \in Guests
    BY <1>2, LogIs
  <2>2. Total(t, h, id) = Total(s, h, id)
    BY <1>1, <1>7, <2>1 DEF Total, SameEvents
  <2>3. HitsIn(p, IdCmds(id)) = HitsIn(q, IdCmds(id)) + x
    BY <1>3, HitsAppend DEF p
  <2>4. Total(s, h, id) \in Nat /\ HitsIn(S[h], IdEvents(id)) \in Nat
        /\ HitsIn(s.cmdq[h], IdCmds(id)) \in Nat
    BY <2>1, OnceType
  <2>5. CASE id = c.id
    <3>1. h = g
      BY <1>2, <2>5
    <3>2. /\ Total(s, g, id) = 0 /\ HitsIn(S[g], IdEvents(id)) = 0
          /\ HitsIn(q, IdCmds(id)) = 0 /\ id \notin s.lost
      BY <1>2, <2>5, NewIsNowhere
    <3>3. x = 1
      BY <2>5 DEF IdCmds
    <3> HIDE DEF h, x, q
    <3>4. HitsIn(t.cmdq[h], IdCmds(id)) = 1
      BY <1>5, <2>3, <3>1, <3>2, <3>3
    <3> QED BY <1>1, <2>2, <3>1, <3>2, <3>4 DEF Once, h
  <2>6. CASE id \in 1 .. Len(L)
    <3>1. h = L[id].guest /\ M[id] = L[id]
      BY <1>2, <2>6
    <3>2. Once(s, S, L, id)
      BY <2>6 DEF Ledger
    <3>3. x = 0
      BY <1>2, <2>6 DEF IdCmds
    <3>4. HitsIn(t.cmdq[h], IdCmds(id)) = HitsIn(s.cmdq[h], IdCmds(id))
      <4>1. CASE h = g
        <5> HIDE DEF x
        <5> QED BY <1>5, <2>3, <2>4, <3>3, <4>1
      <4>2. CASE h # g
        BY <1>5, <2>1, <4>2
      <4> QED BY <4>1, <4>2
    <3> HIDE DEF h
    <3>5. Once(t, S, M, id)
      BY <1>1, <2>2, <3>1, <3>2, <3>4 DEF Once
    <3> QED BY <3>5
  <2> QED BY <1>2, <2>5, <2>6
<1>15. t.lost \subseteq 1 .. Len(M)
  BY <1>1, <1>2 DEF Ledger
<1> QED BY <1>2, <1>9, <1>10, <1>11, <1>12, <1>13, <1>14, <1>15 DEF Ledger, Sound

\* A command issued directly has taken effect: it is in no queue.
LEMMA DirectIsDone ==
  ASSUME NEW s \in Surface, NEW L \in Seq(Command), Sound(s, L),
         NEW w \in 1 .. Len(L), L[w].op \in Inserts, L[w].direct
  PROVE  Done(s, L, w)
<1>1. ~InCmdq(s, L, w)
  <2> SUFFICES ASSUME NEW i \in 1 .. Len(s.cmdq[L[w].guest]), s.cmdq[L[w].guest][i].id = w
               PROVE  FALSE
    BY DEF InCmdq
  <2>1. L[w].guest \in Guests
    BY LogIs
  <2>2. Known(L, s.cmdq[L[w].guest][i])
    BY <2>1 DEF Sound, CmdqOK
  <2> QED BY <2>2 DEF Known
<1>2. ASSUME NEW i \in 0 + 1 .. Len(s.runtime), s.runtime[i].cmd.id = w PROVE FALSE
  <2>1. Known(L, s.runtime[i].cmd)
    BY DEF Sound, RunOK
  <2> QED BY <1>2, <2>1 DEF Known
<1> QED BY <1>1, <1>2 DEF Sound, Effect

\* A guest submits a command directly.
LEMMA LedgerSubmit ==
  ASSUME NEW s \in Surface, NEW S \in [Guests -> Seq(EventType)], NEW L \in Seq(Command),
         Ledger(s, S, L), NEW r \in Entry, r.cmd.direct, NEW M, Grown(L, r.cmd, M),
         NEW t, Frame(s, t), Completed(s, r, t)
  PROVE  Ledger(t, S, M)
<1> DEFINE c == r.cmd
           e == Event(c, DoneStatus(s, c))
<1>0. c \in Command /\ c.guest \in Guests /\ c.direct
  BY DEF Entry, Command
<1>1. /\ t \in Surface /\ t.cmdq = s.cmdq /\ t.runtime = s.runtime
      /\ t.refused = s.refused /\ t.lost = s.lost
      /\ \A v \in Services : t.store[v] = IF c.op \in Inserts /\ v = ServiceOf(c.op)
                                          THEN s.store[v] \cup {c.key} ELSE s.store[v]
      /\ Adds(s, t, e)
  BY DEF Frame, Completed
<1>2. /\ M \in Seq(Command) /\ Len(M) = Len(L) + 1 /\ Len(L) \in Nat /\ Len(L) <= Len(M)
      /\ \A i \in 1 .. Len(L) : M[i] = L[i] /\ i \in 1 .. Len(M) /\ i # c.id
      /\ c.id = Len(L) + 1 /\ M[c.id] = c /\ c.id \in 1 .. Len(M) /\ c.id \notin 1 .. Len(L)
      /\ \A i \in 1 .. Len(M) : i \in 1 .. Len(L) \/ i = c.id
      /\ Numbered(M)
  BY DEF Ledger, Grown
<1>3. Grown(L, c, M)
  OBVIOUS
<1>4. e \in EventType /\ e.id = c.id /\ e.guest = c.guest
  BY <1>0, EventIs DEF DoneStatus, StatusOf, Statuses
<1>5. /\ CmdqOK(s, L) /\ RunOK(s, L, s.runtime) /\ Effect(s, L, s.runtime, 0) /\ Clean(s, L)
      /\ SeenOK(s, S, L) /\ Sound(s, L)
  BY DEF Ledger, Sound
<1>6. Held(t) = Held(s)
  BY <1>1 DEF Held
<1> HIDE DEF c
<1>7. \A d : Known(L, d) => Known(M, d)
  BY <1>0, <1>3, KnownStays
<1>8. CmdqOK(t, M)
  BY <1>1, <1>5, <1>7 DEF CmdqOK
<1>9. RunOK(t, M, t.runtime)
  BY <1>1, <1>5, <1>7 DEF RunOK
<1>10. Effect(t, M, t.runtime, 0)
  <2> SUFFICES ASSUME NEW w \in 1 .. Len(M), M[w].op \in Inserts
               PROVE  \/ Done(t, M, w) \/ InCmdq(t, M, w)
                      \/ \E i \in 0 + 1 .. Len(s.runtime) : s.runtime[i].cmd.id = w
    BY <1>1 DEF Effect
  <2>0. ServiceOf(M[w].op) \in Services
    <3>1. M[w] \in Command
      BY <1>2, LogIs
    <3>2. M[w].op \in AllOps
      BY <3>1, SurfaceAssumption DEF Command
    <3> QED BY <3>2, ServiceOfIs
  <2>1. CASE w = c.id
    <3>1. M[w] = c /\ c.op \in Inserts /\ ServiceOf(c.op) \in Services
      BY <1>2, <2>0, <2>1
    <3>2. c.key \in t.store[ServiceOf(c.op)]
      BY <1>1, <3>1
    <3> QED BY <3>1, <3>2 DEF Done
  <2>2. CASE w \in 1 .. Len(L)
    <3>1. M[w] = L[w]
      BY <1>2, <2>2
    <3>2. \/ Done(s, L, w) \/ InCmdq(s, L, w)
          \/ \E i \in 0 + 1 .. Len(s.runtime) : s.runtime[i].cmd.id = w
      BY <1>5, <2>2, <3>1 DEF Effect
    <3>3. s.store[ServiceOf(M[w].op)] \subseteq t.store[ServiceOf(M[w].op)]
      BY <1>1, <2>0
    <3>4. Done(s, L, w) => Done(t, M, w)
      BY <1>6, <3>1, <3>3 DEF Done
    <3>5. InCmdq(s, L, w) => InCmdq(t, M, w)
      BY <1>1, <3>1 DEF InCmdq
    <3> QED BY <3>2, <3>4, <3>5
  <2> QED BY <1>2, <2>1, <2>2
<1>11. Clean(t, M)
  <2>1. Clean(s, M)
    BY <1>2, <1>5, CleanGrows
  <2>2. ASSUME NEW w \in 1 .. c.id - 1, Precedes(M[w], c) PROVE Done(s, M, w)
    <3>1. w \in 1 .. Len(L)
      BY <1>2
    <3>2. M[w] = L[w]
      BY <1>2, <3>1
    <3>3. L[w].op \in Inserts /\ L[w].direct
      BY <1>0, <2>2, <3>2 DEF Precedes
    <3>4. Done(s, L, w)
      BY <1>5, <3>1, <3>3, DirectIsDone
    <3> QED BY <3>2, <3>4 DEF Done
  <2>3. Right(M, Held(t), e)
    BY <1>0, <1>2, <1>6, <2>2, DoneIsRight
  <2> HIDE DEF e
  <2> QED BY <1>1, <1>2, <1>4, <1>6, <2>1, <2>3, CleanStays
<1>12. SeenOK(t, S, M)
  BY <1>2, <1>5, <1>6, SeenStays
<1> HIDE DEF e
<1>13. ASSUME NEW id \in 1 .. Len(M) PROVE Once(t, S, M, id)
  <2> DEFINE h == M[id].guest
             T == IdEvents(id)
             x == IF e \in Of(h, T) THEN 1 ELSE 0
  <2>1. h \in Guests
    BY <1>2, LogIs
  <2>2. Settled(t, h, T) = Settled(s, h, T) + x
    BY <1>1, <2>1 DEF Adds
  <2>3. /\ Settled(s, h, T) \in Nat /\ HitsIn(s.runtime, IdEntries(id)) \in Nat
        /\ HitsIn(S[h], IdEvents(id)) \in Nat /\ HitsIn(s.cmdq[h], IdCmds(id)) \in Nat
        /\ x \in Nat
    BY <2>1, OnceType
  <2>4. Total(t, h, id) = Total(s, h, id) + x
    <3> HIDE DEF x, h
    <3> QED BY <1>1, <2>2, <2>3 DEF Total
  <2>5. CASE id = c.id
    <3>1. h = c.guest /\ x = 1
      BY <1>2, <1>4, <2>5 DEF IdEvents, Of
    <3>2. /\ Total(s, h, id) = 0 /\ HitsIn(S[h], IdEvents(id)) = 0
          /\ HitsIn(s.cmdq[h], IdCmds(id)) = 0 /\ id \notin s.lost
      BY <1>2, <2>1, <2>5, NewIsNowhere
    <3> HIDE DEF h, x
    <3> QED BY <1>1, <2>4, <3>1, <3>2 DEF Once, h
  <2>6. CASE id \in 1 .. Len(L)
    <3>1. M[id] = L[id] /\ x = 0
      BY <1>2, <1>4, <2>6 DEF IdEvents, Of
    <3>2. Once(s, S, L, id)
      BY <2>6 DEF Ledger
    <3>3. Total(s, h, id) \in Nat
      BY <2>1, OnceType
    <3> HIDE DEF x
    <3>4. Total(t, h, id) = Total(s, h, id)
      BY <2>4, <3>1, <3>3
    <3> QED BY <1>1, <3>1, <3>2, <3>4 DEF Once
  <2> QED BY <1>2, <2>5, <2>6
<1>14. t.lost \subseteq 1 .. Len(M)
  BY <1>1, <1>2 DEF Ledger
<1> QED BY <1>2, <1>8, <1>9, <1>10, <1>11, <1>12, <1>13, <1>14 DEF Ledger, Sound

\* A store grows, and nothing else changes.
LEMMA LedgerCreate ==
  ASSUME NEW s \in Surface, NEW S \in [Guests -> Seq(EventType)], NEW L \in Seq(Command),
         Ledger(s, S, L), NEW t \in Surface,
         \A v \in Services : s.store[v] \subseteq t.store[v],
         t.cmdq = s.cmdq, t.runtime = s.runtime, t.service = s.service, t.cq = s.cq,
         t.failures = s.failures, t.refused = s.refused, t.lost = s.lost
  PROVE  Ledger(t, S, L)
<1>1. SameEvents(s, t) /\ Held(t) = Held(s)
  BY SameEventsIs DEF Held
<1>2. /\ CmdqOK(s, L) /\ RunOK(s, L, s.runtime) /\ Effect(s, L, s.runtime, 0) /\ Clean(s, L)
      /\ SeenOK(s, S, L)
  BY DEF Ledger, Sound
<1>3. CmdqOK(t, L) /\ RunOK(t, L, t.runtime)
  BY <1>2 DEF CmdqOK, RunOK
<1>4. Effect(t, L, t.runtime, 0)
  <2> SUFFICES ASSUME NEW w \in 1 .. Len(L), L[w].op \in Inserts
               PROVE  \/ Done(t, L, w) \/ InCmdq(t, L, w)
                      \/ \E i \in 0 + 1 .. Len(s.runtime) : s.runtime[i].cmd.id = w
    BY DEF Effect
  <2>1. ServiceOf(L[w].op) \in Services
    <3>1. L[w] \in Command
      BY LogIs
    <3>2. L[w].op \in AllOps
      BY <3>1, SurfaceAssumption DEF Command
    <3> QED BY <3>2, ServiceOfIs
  <2>2. s.store[ServiceOf(L[w].op)] \subseteq t.store[ServiceOf(L[w].op)]
    BY <2>1
  <2>3. Done(s, L, w) => Done(t, L, w)
    BY <1>1, <2>2 DEF Done
  <2>4. InCmdq(s, L, w) => InCmdq(t, L, w)
    BY DEF InCmdq
  <2> QED BY <1>2, <2>3, <2>4 DEF Effect
<1>5. Clean(t, L)
  BY <1>1, <1>2, CleanStays
<1>6. SeenOK(t, S, L)
  BY <1>1, <1>2 DEF SeenOK
<1>7. ASSUME NEW id \in 1 .. Len(L) PROVE Once(t, S, L, id)
  <2>1. L[id].guest \in Guests
    BY LogIs
  <2>2. Total(t, L[id].guest, id) = Total(s, L[id].guest, id)
    BY <1>1, <2>1 DEF Total, SameEvents
  <2> QED BY <2>2 DEF Once, Ledger
<1> QED BY <1>3, <1>4, <1>5, <1>6, <1>7 DEF Ledger, Sound

\* How often a command is in the part of a queue that a doorbell stages, the
\* part it drops and the part it leaves.
LEMMA RingCounts ==
  ASSUME NEW q \in Seq(Command), NEW m \in 0 .. Len(q), NEW n \in 0 .. m, NEW id
  PROVE  \E a, b, c \in Nat :
           /\ HitsIn(q, IdCmds(id)) = a + b + c
           /\ HitsIn(Fresh(q, n), IdEntries(id)) = a
           /\ HitsIn(SubSeq(q, m + 1, Len(q)), IdCmds(id)) = c
           /\ b = 0 <=> \A i \in n + 1 .. m : q[i].id # id
<1> DEFINE p == SubSeq(q, 1, m)
           z == SubSeq(q, m + 1, Len(q))
           x == SubSeq(p, 1, n)
           y == SubSeq(p, n + 1, Len(p))
           I == IdCmds(id)
<1>1. /\ p \in Seq(Command) /\ z \in Seq(Command) /\ Len(p) = m
      /\ \A i \in 1 .. m : p[i] = q[i]
      /\ HitsIn(q, I) = HitsIn(p, I) + HitsIn(z, I)
  BY HitsSplit
<1>2. Len(q) \in Nat /\ m \in Nat /\ n \in Nat /\ n \in 0 .. Len(p) /\ n \in 0 .. Len(q)
  BY <1>1, LenProperties
<1> HIDE DEF p, z
<1>3. /\ x \in Seq(Command) /\ y \in Seq(Command) /\ Len(x) = n /\ Len(y) = m - n
      /\ \A i \in 1 .. n : x[i] = p[i]
      /\ \A i \in 1 .. m - n : y[i] = p[n + i]
      /\ HitsIn(p, I) = HitsIn(x, I) + HitsIn(y, I)
  <2> HIDE DEF I
  <2>1. p \in Seq(Command) /\ n \in 0 .. Len(p)
    BY <1>1, <1>2
  <2>2. /\ x \in Seq(Command) /\ y \in Seq(Command) /\ Len(x) = n /\ Len(y) = Len(p) - n
        /\ \A i \in 1 .. n : x[i] = p[i]
        /\ \A i \in 1 .. Len(p) - n : y[i] = p[n + i]
        /\ HitsIn(p, I) = HitsIn(x, I) + HitsIn(y, I)
    BY <2>1, HitsSplit
  <2> HIDE DEF x, y
  <2> QED BY <1>1, <2>2
<1> HIDE DEF x, y, I
<1>4. HitsIn(x, I) \in Nat /\ HitsIn(y, I) \in Nat /\ HitsIn(z, I) \in Nat
  BY <1>1, <1>3, HitsType
<1>5. HitsIn(Fresh(q, n), IdEntries(id)) = HitsIn(x, I)
  <2> DEFINE f == Fresh(q, n)
  <2>1. /\ f \in Seq(Entry) /\ Len(f) = n /\ \A i \in 1 .. n : f[i].cmd = q[i]
    BY <1>2, FreshIs
  <2> HIDE DEF f
  <2>2. DOMAIN f = 1 .. n /\ DOMAIN x = 1 .. n
    BY <1>3, <2>1, LenProperties
  <2>3. ASSUME NEW i \in 1 .. n PROVE f[i] \in IdEntries(id) <=> x[i] \in I
    <3>1. f[i] \in Entry /\ x[i] \in Command
      BY <1>3, <2>1, ElementOfSeq
    <3>2. i \in 1 .. m
      BY <1>2
    <3>3. x[i] = q[i]
      BY <1>1, <1>3, <3>2
    <3> QED BY <2>1, <3>1, <3>3 DEF IdEntries, IdCmds, I
  <2>4. {i \in DOMAIN f : f[i] \in IdEntries(id)} = {i \in DOMAIN x : x[i] \in I}
    BY <2>2, <2>3
  <2>5. HitsIn(f, IdEntries(id)) = HitsIn(x, I)
    BY <2>4, Zenon DEF HitsIn
  <2> QED BY <2>5 DEF f
<1>6. HitsIn(y, I) = 0 <=> \A i \in n + 1 .. m : q[i].id # id
  <2>1. HitsIn(y, I) = 0 <=> \A i \in 1 .. m - n : y[i] \notin I
    BY <1>3, HitsNone
  <2>2. ASSUME NEW i \in 1 .. m - n PROVE n + i \in n + 1 .. m /\ y[i] = q[n + i]
    <3>1. n + i \in n + 1 .. m /\ n + i \in 1 .. m
      BY <1>2
    <3> QED BY <1>1, <1>3, <3>1
  <2>3. ASSUME NEW i \in n + 1 .. m PROVE i - n \in 1 .. m - n /\ y[i - n] = q[i] /\ q[i] \in Command
    <3>1. i - n \in 1 .. m - n /\ n + (i - n) = i /\ i \in 1 .. Len(q)
      BY <1>2
    <3>2. y[i - n] = q[n + (i - n)]
      BY <2>2, <3>1
    <3>3. q[i] \in Command
      BY <3>1, ElementOfSeq
    <3> QED BY <3>1, <3>2, <3>3
  <2>4. (\A i \in 1 .. m - n : y[i] \notin I) => \A i \in n + 1 .. m : q[i].id # id
    BY <2>3 DEF I, IdCmds
  <2>5. (\A i \in n + 1 .. m : q[i].id # id) => \A i \in 1 .. m - n : y[i] \notin I
    BY <2>2 DEF I, IdCmds
  <2> QED BY <2>1, <2>4, <2>5
<1>7. HitsIn(q, I) = HitsIn(x, I) + HitsIn(y, I) + HitsIn(z, I)
  BY <1>1, <1>3, <1>4
<1> QED BY <1>4, <1>5, <1>6, <1>7 DEF z, I

\* A doorbell keeps the order of the queues.
LEMMA RingOrder ==
  ASSUME NEW s \in Surface, NEW L \in Seq(Command), CmdqOK(s, L), RunOK(s, L, s.runtime),
         NEW g \in Guests, NEW m, NEW n, NEW t, Rings(s, g, m, n, t)
  PROVE  CmdqOK(t, L) /\ RunOK(t, L, t.runtime)
<1> DEFINE q == s.cmdq[g]
           p == SubSeq(q, m + 1, Len(q))
           r == s.runtime
           f == Fresh(q, n)
           R == t.runtime
           a == Len(r)
<1>1. /\ m \in 0 .. Len(q) /\ n \in 0 .. m /\ t \in Surface
      /\ t.cmdq = [s.cmdq EXCEPT ![g] = p] /\ R = r \o f /\ t.refused = s.refused
  BY DEF Rings
<1>2. /\ s.cmdq \in [Guests -> Seq(Command)] /\ q \in Seq(Command) /\ Len(q) \in Nat
      /\ r \in Seq(Entry) /\ a \in Nat
  BY SurfaceFields, LenProperties
<1>3. t.cmdq[g] = p /\ \A h \in Guests : h # g => t.cmdq[h] = s.cmdq[h]
  BY <1>1, <1>2
<1>4. \A i \in 1 .. Len(q) : /\ Known(L, q[i]) /\ q[i].guest = g
                             /\ \A j \in 1 .. Len(q) : i < j => q[i].id < q[j].id
  BY DEF CmdqOK
<1>5. \A i \in 1 .. a :
        /\ Known(L, r[i].cmd)
        /\ \A j \in 1 .. Len(s.cmdq[r[i].cmd.guest]) : r[i].cmd.id < s.cmdq[r[i].cmd.guest][j].id
        /\ \A j \in 1 .. a :
             r[i].cmd.guest = r[j].cmd.guest /\ r[i].cmd.id < r[j].cmd.id
               => i < j \/ r[i].cmd.id \in s.refused
  BY DEF RunOK
<1>6. \A i \in 1 .. a : \A j \in 1 .. Len(q) : r[i].cmd.guest = g => r[i].cmd.id < q[j].id
  BY <1>5
<1>7. Len(p) = Len(q) - m /\ \A i \in 1 .. Len(q) - m : p[i] = q[m + i]
  BY <1>1, <1>2, HitsSplit
<1>8. n \in 0 .. Len(q) /\ n \in Nat /\ m \in Nat
  BY <1>1, <1>2
<1> HIDE DEF q
<1>9. f \in Seq(Entry) /\ Len(f) = n /\ \A i \in 1 .. n : f[i].cmd = q[i]
  BY <1>2, <1>8, FreshIs
<1> HIDE DEF r, f, p
<1>10. /\ Len(R) = a + n
       /\ \A i \in 1 .. a + n : R[i] = IF i <= a THEN r[i] ELSE f[i - a]
  <2>1. r \in Seq(Entry) /\ f \in Seq(Entry) /\ Len(r) = a /\ Len(f) = n
    BY <1>2, <1>9
  <2>2. /\ Len(r \o f) = Len(r) + Len(f)
        /\ \A i \in 1 .. Len(r) + Len(f) :
             (r \o f)[i] = IF i <= Len(r) THEN r[i] ELSE f[i - Len(r)]
    BY <2>1, ConcatProperties
  <2>3. R = r \o f
    BY <1>1
  <2> HIDE DEF R, a
  <2> QED BY <2>1, <2>2, <2>3
<1> HIDE DEF a, R
<1>11. ASSUME NEW i \in 1 .. Len(p) PROVE m + i \in 1 .. Len(q) /\ p[i] = q[m + i] /\ n < m + i
  BY <1>1, <1>2, <1>7, <1>8
<1>12. ASSUME NEW i \in 1 .. Len(R)
       PROVE  \/ i \in 1 .. a /\ R[i] = r[i]
              \/ i - a \in 1 .. n /\ i - a \in 1 .. Len(q) /\ R[i].cmd = q[i - a]
  <2>1. CASE i <= a
    BY <1>2, <1>8, <1>10, <2>1
  <2>2. CASE ~(i <= a)
    <3>1. i - a \in 1 .. n /\ i - a \in 1 .. Len(q) /\ i \in 1 .. a + n
      BY <1>2, <1>8, <1>10, <2>2
    <3>2. R[i] = f[i - a]
      BY <1>10, <2>2, <3>1
    <3> QED BY <1>9, <3>1, <3>2
  <2> QED BY <2>1, <2>2
<1>13. \A h \in Guests : h # g => t.cmdq[h] = s.cmdq[h]
  BY <1>3
<1>14. CmdqOK(t, L)
  <2> SUFFICES ASSUME NEW h \in Guests, NEW i \in 1 .. Len(t.cmdq[h])
               PROVE  /\ Known(L, t.cmdq[h][i])
                      /\ t.cmdq[h][i].guest = h
                      /\ \A j \in 1 .. Len(t.cmdq[h]) : i < j => t.cmdq[h][i].id < t.cmdq[h][j].id
    BY DEF CmdqOK
  <2>1. CASE h # g
    BY <1>3, <2>1 DEF CmdqOK
  <2>2. CASE h = g
    <3>1. t.cmdq[h] = p /\ i \in 1 .. Len(p)
      BY <1>3, <2>2
    <3>2. Known(L, p[i]) /\ p[i].guest = g
      BY <1>4, <1>11, <3>1
    <3>3. ASSUME NEW j \in 1 .. Len(p), i < j PROVE p[i].id < p[j].id
      <4>1. m + i < m + j
        BY <1>8, <3>1, <3>3
      <4> QED BY <1>4, <1>11, <3>1, <4>1
    <3> QED BY <2>2, <3>1, <3>2, <3>3
  <2> QED BY <2>1, <2>2
<1>15. RunOK(t, L, R)
  <2> SUFFICES ASSUME NEW i \in 1 .. Len(R)
               PROVE  /\ Known(L, R[i].cmd)
                      /\ \A j \in 1 .. Len(t.cmdq[R[i].cmd.guest]) :
                           R[i].cmd.id < t.cmdq[R[i].cmd.guest][j].id
                      /\ \A j \in 1 .. Len(R) :
                           R[i].cmd.guest = R[j].cmd.guest /\ R[i].cmd.id < R[j].cmd.id
                             => i < j \/ R[i].cmd.id \in s.refused
    BY <1>1 DEF RunOK
  <2> DEFINE d == R[i].cmd
             h == d.guest
  <2>1. Known(L, d)
    BY <1>4, <1>5, <1>12
  <2>2. h \in Guests
    BY <2>1, LogIs DEF Known
  <2>3. ASSUME NEW j \in 1 .. Len(t.cmdq[h]) PROVE d.id < t.cmdq[h][j].id
    <3>1. CASE h # g
      <4>1. t.cmdq[h] = s.cmdq[h]
        BY <1>3, <2>2, <3>1
      <4>2. i \in 1 .. a /\ R[i] = r[i]
        BY <1>4, <1>12, <3>1
      <4> QED BY <1>5, <4>1, <4>2
    <3>2. CASE h = g
      <4>1. t.cmdq[h] = p /\ j \in 1 .. Len(p)
        BY <1>3, <3>2
      <4>2. m + j \in 1 .. Len(q) /\ p[j] = q[m + j] /\ n < m + j
        BY <1>11, <4>1
      <4>3. CASE i \in 1 .. a /\ R[i] = r[i]
        BY <1>6, <3>2, <4>1, <4>2, <4>3
      <4>4. CASE i - a \in 1 .. n /\ i - a \in 1 .. Len(q) /\ R[i].cmd = q[i - a]
        <5>1. i - a < m + j
          BY <1>8, <4>2, <4>4
        <5> QED BY <1>4, <4>1, <4>2, <4>4, <5>1
      <4> QED BY <1>12, <4>3, <4>4
    <3> QED BY <3>1, <3>2
  <2>4. ASSUME NEW j \in 1 .. Len(R), R[i].cmd.guest = R[j].cmd.guest, R[i].cmd.id < R[j].cmd.id
        PROVE  i < j \/ R[i].cmd.id \in s.refused
    <3>1. CASE (i \in 1 .. a /\ R[i] = r[i]) /\ (j \in 1 .. a /\ R[j] = r[j])
      BY <1>5, <2>4, <3>1
    <3>2. CASE (i \in 1 .. a /\ R[i] = r[i]) /\ j - a \in 1 .. n
      BY <1>2, <1>8, <3>2 DEF a
    <3>3. CASE /\ i - a \in 1 .. n /\ i - a \in 1 .. Len(q) /\ R[i].cmd = q[i - a]
               /\ j \in 1 .. a /\ R[j] = r[j]
      <4>1. r[j].cmd.guest = g /\ q[i - a].id < r[j].cmd.id
        BY <1>4, <2>4, <3>3
      <4>2. r[j].cmd.id < q[i - a].id
        BY <1>6, <3>3, <4>1
      <4>3. q[i - a].id \in Nat /\ r[j].cmd.id \in Nat
        BY <1>4, <1>5, <3>3 DEF Known
      <4> QED BY <4>1, <4>2, <4>3
    <3>4. CASE /\ i - a \in 1 .. n /\ i - a \in 1 .. Len(q) /\ R[i].cmd = q[i - a]
               /\ j - a \in 1 .. n /\ j - a \in 1 .. Len(q) /\ R[j].cmd = q[j - a]
      <4> DEFINE x == i - a
                 y == j - a
      <4>1. x \in 1 .. Len(q) /\ y \in 1 .. Len(q) /\ q[x].id < q[y].id
        BY <2>4, <3>4
      <4>2. q[x].id \in Nat /\ q[y].id \in Nat
        BY <1>4, <4>1 DEF Known
      <4>3. ~(y < x) /\ y # x
        <5> HIDE DEF x, y
        <5> QED BY <1>4, <4>1, <4>2
      <4>4. x < y
        <5> HIDE DEF x, y
        <5> QED BY <1>2, <4>1, <4>3
      <4> QED BY <1>2, <1>10, <4>4 DEF a
    <3> QED BY <1>12, <3>1, <3>2, <3>3, <3>4
  <2> QED BY <2>1, <2>3, <2>4
<1> QED BY <1>14, <1>15 DEF R

\* A doorbell moves commands and drops those that find no room.
LEMMA LedgerRing ==
  ASSUME NEW s \in Surface, NEW S \in [Guests -> Seq(EventType)], NEW L \in Seq(Command),
         Ledger(s, S, L), NEW g \in Guests, NEW m, NEW n, NEW t, Rings(s, g, m, n, t)
  PROVE  Ledger(t, S, L)
<1> DEFINE q == s.cmdq[g]
           p == SubSeq(q, m + 1, Len(q))
           r == s.runtime
           f == Fresh(q, n)
           D == {q[i].id : i \in n + 1 .. m}
<1>1. /\ m \in 0 .. Len(q) /\ n \in 0 .. m /\ t \in Surface
      /\ t.cmdq = [s.cmdq EXCEPT ![g] = p] /\ t.runtime = r \o f
      /\ t.lost = s.lost \cup D
      /\ t.service = s.service /\ t.store = s.store /\ t.cq = s.cq
      /\ t.failures = s.failures /\ t.refused = s.refused
  BY DEF Rings
<1>2. /\ s.cmdq \in [Guests -> Seq(Command)] /\ q \in Seq(Command) /\ Len(q) \in Nat
      /\ r \in Seq(Entry) /\ Len(r) \in Nat
  BY SurfaceFields, LenProperties
<1>3. t.cmdq[g] = p /\ \A h \in Guests : h # g => t.cmdq[h] = s.cmdq[h]
  BY <1>1, <1>2
<1>4. /\ CmdqOK(s, L) /\ RunOK(s, L, r) /\ Effect(s, L, r, 0) /\ Clean(s, L)
      /\ SeenOK(s, S, L) /\ Numbered(L) /\ s.lost \subseteq 1 .. Len(L)
  BY DEF Ledger, Sound
<1>5. \A i \in 1 .. Len(q) : Known(L, q[i]) /\ q[i].guest = g
  BY <1>4 DEF CmdqOK
<1>6. CmdqOK(t, L) /\ RunOK(t, L, t.runtime)
  BY <1>4, RingOrder
<1>7. n \in 0 .. Len(q) /\ n \in Nat /\ m \in Nat
  BY <1>1, <1>2
<1>8. Len(p) = Len(q) - m /\ \A i \in 1 .. Len(q) - m : p[i] = q[m + i]
  BY <1>1, <1>2, HitsSplit
<1> HIDE DEF q
<1>9. f \in Seq(Entry) /\ Len(f) = n /\ \A i \in 1 .. n : f[i].cmd = q[i]
  BY <1>2, <1>7, FreshIs
<1> HIDE DEF r, f, p
<1>10. /\ Len(r \o f) = Len(r) + n
       /\ \A i \in 1 .. Len(r) + n : (r \o f)[i] = IF i <= Len(r) THEN r[i] ELSE f[i - Len(r)]
  <2>1. /\ Len(r \o f) = Len(r) + Len(f)
        /\ \A i \in 1 .. Len(r) + Len(f) :
             (r \o f)[i] = IF i <= Len(r) THEN r[i] ELSE f[i - Len(r)]
    BY <1>2, <1>9, ConcatProperties
  <2> QED BY <1>9, <2>1
<1>11. SameEvents(s, t) /\ Held(s) \subseteq Held(t) /\ D \subseteq Held(t)
  BY <1>1, SameEventsIs DEF Held
<1>12. Effect(t, L, t.runtime, 0)
  <2> DEFINE R == r \o f
  <2> SUFFICES ASSUME NEW w \in 1 .. Len(L), L[w].op \in Inserts
               PROVE  \/ Done(t, L, w) \/ InCmdq(t, L, w)
                      \/ \E i \in 0 + 1 .. Len(R) : R[i].cmd.id = w
    BY <1>1 DEF Effect
  <2> HIDE DEF R
  <2>1. \/ Done(s, L, w) \/ InCmdq(s, L, w) \/ \E i \in 0 + 1 .. Len(r) : r[i].cmd.id = w
    BY <1>4 DEF Effect
  <2>2. Done(s, L, w) => Done(t, L, w)
    BY <1>1, <1>11 DEF Done
  <2>3. ASSUME NEW i \in 0 + 1 .. Len(r), r[i].cmd.id = w
        PROVE  \E j \in 0 + 1 .. Len(R) : R[j].cmd.id = w
    <3>1. i \in 0 + 1 .. Len(R) /\ R[i] = r[i]
      BY <1>2, <1>7, <1>10 DEF R
    <3> QED BY <2>3, <3>1
  <2>4. ASSUME InCmdq(s, L, w), L[w].guest # g PROVE InCmdq(t, L, w)
    <3>1. t.cmdq[L[w].guest] = s.cmdq[L[w].guest]
      BY <1>3, <2>4, LogIs
    <3> QED BY <2>4, <3>1 DEF InCmdq
  <2>5. ASSUME InCmdq(s, L, w), L[w].guest = g
        PROVE  \/ Done(t, L, w) \/ InCmdq(t, L, w)
               \/ \E i \in 0 + 1 .. Len(R) : R[i].cmd.id = w
    <3>1. PICK i \in 1 .. Len(q) : q[i].id = w
      BY <2>5 DEF InCmdq, q
    <3>2. CASE i <= n
      <4> DEFINE j == Len(r) + i
      <4>1. j \in 0 + 1 .. Len(R) /\ j \in 1 .. Len(r) + n /\ ~(j <= Len(r)) /\ j - Len(r) = i
            /\ i \in 1 .. n
        BY <1>2, <1>7, <1>10, <3>2 DEF R
      <4> HIDE DEF j
      <4>2. R[j] = f[i]
        BY <1>10, <4>1 DEF R
      <4> QED BY <1>9, <3>1, <4>1, <4>2
    <3>3. CASE n < i /\ i <= m
      <4>1. i \in n + 1 .. m
        BY <1>7, <3>3
      <4>2. w \in Held(t)
        BY <1>11, <3>1, <4>1
      <4> QED BY <4>2 DEF Done
    <3>4. CASE m < i
      <4>1. i - m \in 1 .. Len(p) /\ m + (i - m) = i /\ i - m \in 1 .. Len(q) - m
        BY <1>2, <1>7, <1>8, <3>4
      <4>2. p[i - m].id = w
        BY <1>8, <3>1, <4>1
      <4>3. InCmdq(t, L, w)
        BY <1>3, <2>5, <4>1, <4>2 DEF InCmdq
      <4> QED BY <4>3
    <3> QED BY <1>2, <1>7, <3>2, <3>3, <3>4
  <2> QED BY <2>1, <2>2, <2>3, <2>4, <2>5
<1>13. Clean(t, L)
  BY <1>1, <1>4, <1>11, CleanStays
<1>14. SeenOK(t, S, L)
  <2>1. Len(L) <= Len(L)
    BY LogIs
  <2> QED BY <1>4, <1>11, <2>1, SeenStays
<1>15. D \subseteq 1 .. Len(L)
  <2> SUFFICES ASSUME NEW i \in n + 1 .. m PROVE q[i].id \in 1 .. Len(L)
    OBVIOUS
  <2>1. i \in 1 .. Len(q)
    BY <1>1, <1>2, <1>7
  <2> QED BY <1>5, <2>1 DEF Known
<1>16. ASSUME NEW id \in 1 .. Len(L) PROVE Once(t, S, L, id)
  <2> DEFINE h == L[id].guest
             l == IF id \in s.lost THEN 1 ELSE 0
             k == IF id \in t.lost THEN 1 ELSE 0
             u == Settled(s, h, IdEvents(id))
             v == HitsIn(r, IdEntries(id))
             x == HitsIn(S[h], IdEvents(id))
  <2>1. h \in Guests
    BY LogIs
  <2>2. u \in Nat /\ v \in Nat /\ x \in Nat /\ l \in Nat /\ HitsIn(s.cmdq[h], IdCmds(id)) \in Nat
    BY <2>1, OnceType DEF r
  <2>3. Settled(t, h, IdEvents(id)) = u
    BY <1>11, <2>1 DEF SameEvents
  <2>4. PICK a \in Nat, b \in Nat, c \in Nat :
           /\ HitsIn(q, IdCmds(id)) = a + b + c
           /\ HitsIn(f, IdEntries(id)) = a
           /\ HitsIn(p, IdCmds(id)) = c
           /\ b = 0 <=> \A i \in n + 1 .. m : q[i].id # id
    <3>1. \E a, b, c \in Nat :
             /\ HitsIn(q, IdCmds(id)) = a + b + c
             /\ HitsIn(Fresh(q, n), IdEntries(id)) = a
             /\ HitsIn(SubSeq(q, m + 1, Len(q)), IdCmds(id)) = c
             /\ b = 0 <=> \A i \in n + 1 .. m : q[i].id # id
      <4>1. m \in 0 .. Len(q) /\ n \in 0 .. m /\ q \in Seq(Command)
        BY <1>1, <1>2
      <4> QED BY <4>1, RingCounts
    <3> QED BY <3>1 DEF f, p
  <2>5. HitsIn(t.runtime, IdEntries(id)) = v + a
    <3>1. HitsIn(r \o f, IdEntries(id)) = HitsIn(r, IdEntries(id)) + HitsIn(f, IdEntries(id))
      BY <1>2, <1>9, HitsConcat
    <3> QED BY <1>1, <2>4, <3>1
  <2>6. 1 = (u + v) + x + HitsIn(s.cmdq[h], IdCmds(id)) + l
    <3>1. Once(s, S, L, id)
      BY DEF Ledger
    <3> QED BY <3>1 DEF Once, Total, r
  <2>7. id \in t.lost <=> id \in s.lost \/ b # 0
    BY <1>1, <2>4
  <2>8. (u + (v + a)) + x + HitsIn(t.cmdq[h], IdCmds(id)) + k = 1
    <3>1. CASE h = g
      <4>1. 1 = (u + v) + x + (a + b + c) + l
        BY <2>4, <2>6, <3>1 DEF q
      <4>2. HitsIn(t.cmdq[h], IdCmds(id)) = c
        BY <1>3, <2>4, <3>1
      <4>3. k = l + b
        <5> HIDE DEF u, v, x
        <5>1. CASE b = 0
          BY <2>2, <2>7, <5>1
        <5>2. CASE b # 0
          <6>1. b >= 1
            BY <5>2
          <6>2. b = 1 /\ l = 0
            <7> HIDE DEF l
            <7> QED BY <2>2, <4>1, <6>1
          <6> QED BY <2>7, <6>2
        <5> QED BY <5>1, <5>2
      <4>4. u \in Nat /\ v \in Nat /\ x \in Nat /\ l \in Nat
        BY <2>2
      <4> DEFINE y == HitsIn(t.cmdq[h], IdCmds(id))
      <4> HIDE DEF u, v, x, l, k, y
      <4>5. (u + (v + a)) + x + y + k = 1
        <5>1. y = c /\ a \in Nat /\ b \in Nat /\ c \in Nat
          BY <4>2 DEF y
        <5>2. (u + (v + a)) + x + c + (l + b) = 1
          BY <4>1, <4>4, <5>1
        <5> QED BY <4>3, <5>1, <5>2
      <4> QED BY <4>5 DEF y
    <3>2. CASE h # g
      <4>1. \A i \in 1 .. Len(q) : q[i] \notin IdCmds(id)
        BY <1>5, <3>2 DEF Known, IdCmds
      <4>2. HitsIn(q, IdCmds(id)) = 0
        BY <1>2, <4>1, HitsNone
      <4>3. a = 0 /\ b = 0
        BY <2>4, <4>2
      <4>4. k = l
        BY <2>7, <4>3
      <4>5. t.cmdq[h] = s.cmdq[h]
        BY <1>3, <2>1, <3>2
      <4> HIDE DEF u, v, x, l, k
      <4> QED BY <2>2, <2>6, <4>3, <4>4, <4>5
    <3> QED BY <3>1, <3>2
  <2>9. Total(t, h, id) = u + (v + a)
    BY <2>3, <2>5 DEF Total
  <2> HIDE DEF u, v
  <2> QED BY <2>8, <2>9 DEF Once
<1> QED BY <1>1, <1>4, <1>6, <1>12, <1>13, <1>14, <1>15, <1>16 DEF Ledger, Sound

\* A flush keeps the ledger.
LEMMA LedgerFlush ==
  ASSUME NEW s \in Surface, s.failures = <<>>, NEW S \in [Guests -> Seq(EventType)],
         NEW L \in Seq(Command), Ledger(s, S, L)
  PROVE  Ledger(Flushed(s), S, L)
<1> DEFINE t == Flushed(s)
<1>1. Keeps(s, t) /\ KeepsLog(s, t, L)
  BY FlushedIs
<1> HIDE DEF t
<1>2. Sound(t, L) /\ \A id \in 1 .. Len(L) : Total(t, L[id].guest, id) = Total(s, L[id].guest, id)
  BY <1>1 DEF KeepsLog, Ledger
<1>3. t.cmdq = s.cmdq /\ t.lost = s.lost /\ Held(s) \subseteq Held(t)
  BY <1>1 DEF Keeps, Held
<1>4. SeenOK(t, S, L)
  <2>1. Len(L) <= Len(L)
    BY LogIs
  <2> QED BY <1>3, <2>1, SeenStays DEF Ledger
<1>5. \A id \in 1 .. Len(L) : Once(t, S, L, id)
  BY <1>2, <1>3 DEF Ledger, Once
<1>6. Ledger(t, S, L)
  BY <1>2, <1>3, <1>4, <1>5 DEF Ledger
<1> QED BY <1>6 DEF t

\* A guest takes completions from its queue.
LEMMA TakeMoves ==
  ASSUME NEW s \in Surface, NEW g \in Guests, NEW n, NEW t, Takes(s, g, n, t),
         NEW h \in Guests, NEW T
  PROVE  Settled(s, h, T)
           = Settled(t, h, T) + (IF h = g THEN HitsIn(SubSeq(s.cq[g], 1, n), T) ELSE 0)
<1> DEFINE q == s.cq[g]
           a == HitsIn(SubSeq(q, 1, n), T)
           b == HitsIn(SubSeq(q, n + 1, Len(q)), T)
           O == Of(h, T)
<1>1. /\ n \in 0 .. Len(q) /\ t \in Surface
      /\ t.cq = [s.cq EXCEPT ![g] = SubSeq(q, n + 1, Len(q))]
      /\ t.service = s.service /\ t.failures = s.failures
  BY DEF Takes
<1>2. s.cq \in [Guests -> Seq(EventType)] /\ q \in Seq(EventType)
  BY SurfaceFields
<1>3. /\ SubSeq(q, 1, n) \in Seq(EventType) /\ SubSeq(q, n + 1, Len(q)) \in Seq(EventType)
      /\ HitsIn(q, T) = a + b
  BY <1>1, <1>2, HitsSplit
<1>4. a \in Nat /\ b \in Nat
  BY <1>3, HitsType
<1>5. HitsIn(s.cq[h], T) = HitsIn(t.cq[h], T) + (IF h = g THEN a ELSE 0)
  <2>1. CASE h = g
    <3>1. t.cq[h] = SubSeq(q, n + 1, Len(q))
      BY <1>1, <1>2, <2>1
    <3>2. HitsIn(t.cq[h], T) = b /\ HitsIn(s.cq[h], T) = a + b
      BY <1>3, <2>1, <3>1
    <3> HIDE DEF a, b
    <3> QED BY <1>4, <2>1, <3>2
  <2>2. CASE h # g
    <3>1. t.cq[h] = s.cq[h] /\ HitsIn(s.cq[h], T) \in Nat
      BY <1>1, <1>2, <2>2, SettledType
    <3> QED BY <2>2, <3>1
  <2> QED BY <2>1, <2>2
<1> DEFINE x == IF h = g THEN a ELSE 0
           y == HitsIn(s.failures, O) + HitsIn(s.service["block"], O)
                  + HitsIn(s.service["shmem"], O) + HitsIn(s.service["dfs"], O)
                  + HitsIn(s.service["db"], O)
<1>6. /\ HitsIn(s.failures, O) \in Nat /\ HitsIn(s.service["block"], O) \in Nat
      /\ HitsIn(s.service["shmem"], O) \in Nat /\ HitsIn(s.service["dfs"], O) \in Nat
      /\ HitsIn(s.service["db"], O) \in Nat
      /\ HitsIn(s.cq[h], T) \in Nat /\ HitsIn(t.cq[h], T) \in Nat /\ x \in Nat
  BY <1>1, <1>4, SettledType
<1>7. Settled(s, h, T) = HitsIn(s.cq[h], T) + HitsIn(s.failures, O)
                           + HitsIn(s.service["block"], O) + HitsIn(s.service["shmem"], O)
                           + HitsIn(s.service["dfs"], O) + HitsIn(s.service["db"], O)
  BY DEF Settled
<1>8. Settled(t, h, T) = HitsIn(t.cq[h], T) + HitsIn(s.failures, O)
                           + HitsIn(s.service["block"], O) + HitsIn(s.service["shmem"], O)
                           + HitsIn(s.service["dfs"], O) + HitsIn(s.service["db"], O)
  BY <1>1 DEF Settled
<1> HIDE DEF O, x, a
<1>9. Settled(s, h, T) = HitsIn(s.cq[h], T) + y
  BY <1>6, <1>7
<1>10. Settled(t, h, T) = HitsIn(t.cq[h], T) + y
  BY <1>6, <1>8
<1>11. y \in Nat
  BY <1>6
<1>12. HitsIn(s.cq[h], T) = HitsIn(t.cq[h], T) + x
  BY <1>5 DEF x
<1> HIDE DEF y
<1>13. Settled(s, h, T) = Settled(t, h, T) + x
  BY <1>6, <1>9, <1>10, <1>11, <1>12
<1> QED BY <1>13 DEF x, a

\* So the ledger is kept.
LEMMA LedgerTake ==
  ASSUME NEW s \in Surface, NEW S \in [Guests -> Seq(EventType)], NEW L \in Seq(Command),
         Ledger(s, S, L), NEW g \in Guests, NEW n, NEW t, Takes(s, g, n, t)
  PROVE  Ledger(t, [S EXCEPT ![g] = @ \o SubSeq(s.cq[g], 1, n)], L)
<1> DEFINE q == s.cq[g]
           p == SubSeq(q, 1, n)
           U == [S EXCEPT ![g] = @ \o p]
           X(h, T) == IF h = g THEN HitsIn(p, T) ELSE 0
<1>1. /\ n \in 0 .. Len(q) /\ t \in Surface
      /\ t.cmdq = s.cmdq /\ t.runtime = s.runtime /\ t.service = s.service
      /\ t.store = s.store /\ t.failures = s.failures
      /\ t.refused = s.refused /\ t.lost = s.lost
  BY DEF Takes
<1>2. q \in Seq(EventType) /\ p \in Seq(EventType) /\ S[g] \in Seq(EventType)
  <2>1. q \in Seq(EventType)
    BY SurfaceFields
  <2> QED BY <1>1, <2>1, HitsSplit
<1>3. Held(t) = Held(s)
  BY <1>1 DEF Held
<1>4. \A h \in Guests : \A T : Settled(s, h, T) = Settled(t, h, T) + X(h, T)
  BY TakeMoves
<1> HIDE DEF p
<1>5. \A h \in Guests : \A T : X(h, T) \in Nat
  BY <1>2, HitsType
<1>6. ASSUME NEW h \in Guests, NEW T PROVE HitsIn(U[h], T) = HitsIn(S[h], T) + X(h, T)
  <2>1. CASE h = g
    <3>1. U[h] = S[g] \o p
      BY <2>1
    <3>2. HitsIn(S[g] \o p, T) = HitsIn(S[g], T) + HitsIn(p, T)
      BY <1>2, HitsConcat
    <3> QED BY <2>1, <3>1, <3>2
  <2>2. CASE h # g
    <3>1. U[h] = S[h] /\ S[h] \in Seq(EventType)
      BY <2>2
    <3>2. HitsIn(S[h], T) \in Nat
      BY <3>1, HitsType
    <3> QED BY <2>2, <3>1, <3>2
  <2> QED BY <2>1, <2>2
<1> HIDE DEF X
<1>7. \A h \in Guests : \A T : HitsIn(S[h], T) \in Nat /\ Settled(t, h, T) \in Nat
  <2>1. \A h \in Guests : S[h] \in Seq(EventType)
    OBVIOUS
  <2> QED BY <1>1, <2>1, HitsType, SettledType
<1>8. /\ CmdqOK(s, L) /\ RunOK(s, L, s.runtime) /\ Effect(s, L, s.runtime, 0) /\ Clean(s, L)
      /\ SeenOK(s, S, L)
  BY DEF Ledger, Sound
<1>9. CmdqOK(t, L) /\ RunOK(t, L, t.runtime) /\ Effect(t, L, t.runtime, 0)
  <2>1. CmdqOK(t, L)
    BY <1>1, <1>8 DEF CmdqOK
  <2>2. RunOK(t, L, t.runtime)
    BY <1>1, <1>8 DEF RunOK
  <2>3. Effect(t, L, t.runtime, 0)
    BY <1>1, <1>3, <1>8 DEF Effect, Done, InCmdq
  <2> QED BY <2>1, <2>2, <2>3
<1>10. ASSUME NEW h \in Guests
       PROVE  /\ Settled(t, h, Wrong(L, Held(t), h)) = 0
              /\ HitsIn(U[h], Wrong(L, Held(t), h)) = 0
  <2> DEFINE W == Wrong(L, Held(t), h)
  <2>1. Settled(s, h, W) = 0 /\ HitsIn(S[h], W) = 0
    BY <1>3, <1>8 DEF Clean, SeenOK
  <2> HIDE DEF W, U
  <2>2. Settled(t, h, W) + X(h, W) = 0 /\ Settled(t, h, W) \in Nat /\ X(h, W) \in Nat
    BY <1>4, <1>5, <1>7, <2>1
  <2>3. Settled(t, h, W) = 0 /\ X(h, W) = 0
    BY <2>2
  <2>4. HitsIn(U[h], W) = 0
    BY <1>6, <2>1, <2>3
  <2> QED BY <2>3, <2>4 DEF W
<1>11. ASSUME NEW id \in 1 .. Len(L) PROVE Once(t, U, L, id)
  <2> DEFINE h == L[id].guest
             T == IdEvents(id)
             a == HitsIn(s.runtime, IdEntries(id))
             b == HitsIn(s.cmdq[h], IdCmds(id))
             l == IF id \in s.lost THEN 1 ELSE 0
  <2>1. h \in Guests
    BY LogIs
  <2>2. 1 = (Settled(s, h, T) + a) + HitsIn(S[h], T) + b + l
    <3>1. Once(s, S, L, id)
      BY DEF Ledger
    <3> QED BY <3>1 DEF Once, Total
  <2>3. a \in Nat /\ b \in Nat /\ l \in Nat
    BY <2>1, OnceType
  <2>4. Settled(s, h, T) = Settled(t, h, T) + X(h, T) /\ HitsIn(U[h], T) = HitsIn(S[h], T) + X(h, T)
    BY <1>4, <1>6, <2>1
  <2>5. HitsIn(S[h], T) \in Nat /\ Settled(t, h, T) \in Nat /\ X(h, T) \in Nat
    BY <1>5, <1>7, <2>1
  <2> DEFINE u == HitsIn(S[h], T)
             v == Settled(t, h, T)
             x == X(h, T)
             y == HitsIn(U[h], T)
  <2>6. 1 = (v + a) + y + b + l
    <3>1. 1 = ((v + x) + a) + u + b + l /\ y = u + x
      BY <2>2, <2>4
    <3>2. u \in Nat /\ v \in Nat /\ x \in Nat
      BY <2>5
    <3> HIDE DEF u, v, x, y, a, b, l
    <3> QED BY <2>3, <3>1, <3>2
  <2> QED BY <1>1, <2>6 DEF Once, Total
<1>12. Sound(t, L) /\ SeenOK(t, U, L)
  <2> HIDE DEF U
  <2> QED BY <1>9, <1>10 DEF Sound, Clean, SeenOK
<1>13. Ledger(t, U, L)
  <2> HIDE DEF U
  <2> QED BY <1>1, <1>11, <1>12 DEF Ledger
<1> QED BY <1>13 DEF p

\* At the start the ledger is empty.
LEMMA LedgerInit == Init => Ledger(uapi, seen, log)
<1> SUFFICES ASSUME Init PROVE Ledger(uapi, seen, log)
  OBVIOUS
<1>1. /\ log = <<>> /\ Len(log) = 0 /\ log \in Seq(Command)
      /\ uapi.lost = {} /\ uapi.runtime = <<>> /\ Len(uapi.runtime) = 0
      /\ uapi.failures = <<>>
      /\ \A v \in Services : uapi.service[v] = <<>>
      /\ \A g \in Guests : /\ uapi.cmdq[g] = <<>> /\ Len(uapi.cmdq[g]) = 0
                           /\ uapi.cq[g] = <<>> /\ seen[g] = <<>>
  BY DEF Init, EmptySurface
<1>2. Numbered(log) /\ uapi.lost \subseteq 1 .. Len(log)
  BY <1>1 DEF Numbered
<1>3. \A id \in 1 .. Len(log) : Once(uapi, seen, log, id)
  BY <1>1
<1>4. CmdqOK(uapi, log) /\ RunOK(uapi, log, uapi.runtime) /\ Effect(uapi, log, uapi.runtime, 0)
  BY <1>1 DEF CmdqOK, RunOK, Effect
<1>5. Clean(uapi, log)
  <2>1. ASSUME NEW g \in Guests, NEW T PROVE Settled(uapi, g, T) = 0
    <3>1. \A O : HitsIn(uapi.failures, O) = 0 /\ HitsIn(uapi.cq[g], O) = 0
      BY <1>1, HitsEmpty
    <3>2. \A O : /\ HitsIn(uapi.service["block"], O) = 0 /\ HitsIn(uapi.service["shmem"], O) = 0
                 /\ HitsIn(uapi.service["dfs"], O) = 0 /\ HitsIn(uapi.service["db"], O) = 0
      BY <1>1, HitsEmpty DEF Services
    <3> QED BY <3>1, <3>2 DEF Settled
  <2> QED BY <2>1 DEF Clean
<1>6. SeenOK(uapi, seen, log)
  BY <1>1, HitsEmpty DEF SeenOK
<1> QED BY <1>2, <1>3, <1>4, <1>5, <1>6 DEF Ledger, Sound

\* A command that goes straight to its service is completed there.
LEMMA SubmitCompletes ==
  ASSUME NEW s \in Surface, NEW c \in Command, c.op # "BadIo", ~ServiceFull(s, c)
  PROVE  LET r == [cmd |-> c, attempts |-> 0]
             t == submit_descriptor_to_cq(s, c)
         IN  r \in Entry /\ r.cmd = c /\ Frame(s, t) /\ Completed(s, r, t)
<1> DEFINE t == submit_descriptor_to_cq(s, c)
           r == [cmd |-> c, attempts |-> 0]
           e == Event(c, DoneStatus(s, c))
<1>1. r \in Entry /\ r.cmd = c
  BY SurfaceAssumption DEF Entry
<1>2. /\ t \in Surface
      /\ t.cmdq = s.cmdq /\ t.runtime = s.runtime /\ t.failures = s.failures
      /\ t.refused = s.refused /\ t.lost = s.lost
      /\ \A v \in Services :
           /\ t.store[v] = IF c.op \in Inserts /\ v = ServiceOf(c.op)
                           THEN s.store[v] \cup {c.key} ELSE s.store[v]
           /\ t.service[v] = IF v = ServiceOf(c.op)
                             THEN Append(s.service[v], e) ELSE s.service[v]
      /\ Adds(s, t, e)
  BY SubmitIs
<1> HIDE DEF t, r
<1>3. Completed(s, r, t)
  BY <1>1, <1>2 DEF Completed
<1>4. Frame(s, t)
  BY <1>2 DEF Frame
<1> QED BY <1>1, <1>3, <1>4 DEF t, r

\* Every step keeps the ledger.
LEMMA LedgerNext ==
  TypeOK /\ Ledger(uapi, seen, log) /\ [Next]_vars => Ledger(uapi, seen, log)'
<1> SUFFICES ASSUME TypeOK, Ledger(uapi, seen, log), [Next]_vars
             PROVE  Ledger(uapi', seen', log')
  BY DEF Ledger, Numbered, Sound, CmdqOK, RunOK, Effect, Clean, SeenOK, Once, Known, InCmdq,
         Done, Held, Settled, Wrong, Right, Total
<1>1. log \in Seq(Command) /\ Between(uapi) /\ seen \in [Guests -> Seq(EventType)]
  BY TypeIs
<1>2. uapi \in Surface /\ uapi.failures = <<>>
  BY <1>1 DEF Between
<1>3. ASSUME NEW g \in Guests, NEW op \in Ops, NEW key \in Keys, EnqueueCmd(g, op, key)
      PROVE  Ledger(uapi', seen', log')
  <2>1. PICK c \in Command :
          /\ c.id = Len(log) + 1 /\ c.guest = g /\ ~c.direct
          /\ log' = Append(log, c) /\ uapi' = enqueue_cmd(uapi, g, c) /\ seen' = seen
    BY <1>1, <1>3, ActionsAre
  <2> DEFINE M == Append(log, c)
             t == enqueue_cmd(uapi, g, c)
  <2>2. Grown(log, c, M)
    BY <1>1, <2>1, LogGrows
  <2>3. Queued(uapi, g, c, t)
    BY <1>2, EnqueueCmdIs DEF Queued
  <2> HIDE DEF M, t
  <2>4. Known(M, c)
    BY <2>1, <2>2 DEF Known, Grown
  <2>5. Ledger(t, seen, M)
    BY <1>1, <1>2, <2>1, <2>2, <2>3, <2>4, LedgerEnqueue
  <2> QED BY <2>1, <2>5 DEF M, t
<1>4. ASSUME NEW op \in Ops, NEW key \in Keys, SubmitDirect(op, key)
      PROVE  Ledger(uapi', seen', log')
  <2>1. PICK c \in Command :
          /\ c.id = Len(log) + 1 /\ c.direct /\ c.op # "BadIo" /\ ~ServiceFull(uapi, c)
          /\ log' = Append(log, c) /\ uapi' = submit_descriptor_to_cq(uapi, c) /\ seen' = seen
    BY <1>1, <1>4, ActionsAre
  <2> DEFINE M == Append(log, c)
             t == submit_descriptor_to_cq(uapi, c)
             r == [cmd |-> c, attempts |-> 0]
  <2>2. Grown(log, c, M)
    BY <1>1, <2>1, LogGrows
  <2>3. r \in Entry /\ r.cmd = c /\ Frame(uapi, t) /\ Completed(uapi, r, t)
    BY <1>2, <2>1, SubmitCompletes
  <2> HIDE DEF M, t, r
  <2>4. r.cmd.direct /\ Grown(log, r.cmd, M)
    BY <2>1, <2>2, <2>3
  <2>5. Ledger(t, seen, M)
    BY <1>1, <1>2, <2>3, <2>4, LedgerSubmit
  <2> QED BY <2>1, <2>5 DEF M, t
<1>5. ASSUME NEW g \in Guests, NEW batch \in Batches, RingDoorbell(g, batch)
      PROVE  Ledger(uapi', seen', log')
  <2>1. PICK m, n : Rings(uapi, g, m, n, uapi')
    BY <1>1, <1>5, ActionsAre
  <2>2. log' = log /\ seen' = seen
    BY <1>5 DEF RingDoorbell
  <2>3. Ledger(uapi', seen, log)
    BY <1>1, <1>2, <2>1, LedgerRing
  <2> QED BY <2>2, <2>3
<1>6. ASSUME NEW g \in Guests, NEW batch \in Batches, PollCq(g, batch)
      PROVE  Ledger(uapi', seen', log')
  <2> DEFINE s == Flushed(uapi)
  <2>1. log' = log
    BY <1>6 DEF PollCq
  <2>2. PICK n : /\ Takes(s, g, n, uapi')
                 /\ seen' = [seen EXCEPT ![g] = @ \o SubSeq(s.cq[g], 1, n)]
    BY <1>1, <1>6, ActionsAre
  <2>3. s \in Surface
    BY <1>1, BetweenSteps DEF Between
  <2>4. Ledger(s, seen, log)
    BY <1>1, <1>2, LedgerFlush
  <2> HIDE DEF s
  <2>5. Ledger(uapi', [seen EXCEPT ![g] = @ \o SubSeq(s.cq[g], 1, n)], log)
    BY <1>1, <2>2, <2>3, <2>4, LedgerTake
  <2> QED BY <2>1, <2>2, <2>5
<1>7. ASSUME NEW key \in Keys, CreateSegment(key)
      PROVE  Ledger(uapi', seen', log')
  <2> DEFINE t == [uapi EXCEPT !.store["shmem"] = @ \cup {key}]
  <2>1. uapi' = t /\ log' = log /\ seen' = seen
    BY <1>7 DEF CreateSegment
  <2>2. /\ t \in Surface
        /\ \A v \in Services : uapi.store[v] \subseteq t.store[v]
        /\ t.cmdq = uapi.cmdq /\ t.runtime = uapi.runtime /\ t.service = uapi.service
        /\ t.cq = uapi.cq /\ t.failures = uapi.failures
        /\ t.refused = uapi.refused /\ t.lost = uapi.lost
    BY <1>2, CreateIs
  <2> HIDE DEF t
  <2>3. Ledger(t, seen, log)
    BY <1>1, <1>2, <2>2, LedgerCreate
  <2> QED BY <2>1, <2>3
<1>8. CASE PollRefused
  <2>1. uapi' = Flushed(uapi) /\ log' = log /\ seen' = seen
    BY <1>8 DEF PollRefused
  <2>2. Ledger(Flushed(uapi), seen, log)
    BY <1>1, <1>2, LedgerFlush
  <2> QED BY <2>1, <2>2
<1>9. CASE UNCHANGED vars
  BY <1>9 DEF vars
<1> QED BY <1>3, <1>4, <1>5, <1>6, <1>7, <1>8, <1>9 DEF Next

\* The inductive invariant: the queues are in order, every insert has taken
\* effect or is in a queue, all completions are right, and every command
\* issued is in one place.
THEOREM LedgerHolds == Spec => [](TypeOK /\ Ledger(uapi, seen, log))
<1>1. Spec => []TypeOK
  BY TypeCorrect
<1> QED BY <1>1, LedgerInit, LedgerNext, PTL DEF Spec

-----------------------------------------------------------------------------
(* What the ledger says *)

\* A queue without wrong completions for g holds the right ones.
LEMMA NoWrongIs ==
  ASSUME NEW q \in Seq(EventType), NEW L, NEW R, NEW g, HitsIn(q, Wrong(L, R, g)) = 0,
         NEW i \in 1 .. Len(q)
  PROVE  Right(L, R, q[i]) /\ q[i].guest = g
<1>1. q[i] \in EventType
  BY ElementOfSeq
<1>2. q[i] \notin Wrong(L, R, g)
  <2> DEFINE W == Wrong(L, R, g)
  <2> HIDE DEF W
  <2>1. HitsIn(q, W) = 0
    BY DEF W
  <2>2. q[i] \notin W
    BY <2>1, HitsNone
  <2> QED BY <2>2 DEF W
<1> QED BY <1>1, <1>2 DEF Wrong

\* On a clean surface the completions in the completion queues are right, and
\* so are the ones in the services.
LEMMA CleanIs ==
  ASSUME NEW s \in Surface, NEW L \in Seq(Command), Clean(s, L)
  PROVE  /\ \A g \in Guests : HitsIn(s.cq[g], Wrong(L, Held(s), g)) = 0
         /\ \A v \in Services : \A i \in 1 .. Len(s.service[v]) :
              Right(L, Held(s), s.service[v][i])
<1>1. ASSUME NEW g \in Guests
      PROVE  /\ HitsIn(s.cq[g], Wrong(L, Held(s), g)) = 0
             /\ \A v \in Services : HitsIn(s.service[v], Of(g, Wrong(L, Held(s), g))) = 0
  <2> DEFINE W == Wrong(L, Held(s), g)
             a == HitsIn(s.cq[g], W)
             b == HitsIn(s.failures, Of(g, W))
             c == HitsIn(s.service["block"], Of(g, W))
             d == HitsIn(s.service["shmem"], Of(g, W))
             e == HitsIn(s.service["dfs"], Of(g, W))
             f == HitsIn(s.service["db"], Of(g, W))
  <2>1. a + b + c + d + e + f = 0
    BY DEF Clean, Settled
  <2>2. /\ a \in Nat /\ b \in Nat /\ c \in Nat /\ d \in Nat /\ e \in Nat /\ f \in Nat
    <3> HIDE DEF W
    <3> QED BY SettledType DEF Services
  <2>3. a = 0 /\ c = 0 /\ d = 0 /\ e = 0 /\ f = 0
    <3> HIDE DEF a, b, c, d, e, f
    <3> QED BY <2>1, <2>2
  <2> HIDE DEF W
  <2> QED BY <2>3 DEF Services, W
<1>2. ASSUME NEW v \in Services, NEW i \in 1 .. Len(s.service[v])
      PROVE  Right(L, Held(s), s.service[v][i])
  <2> DEFINE q == s.service[v]
             g == q[i].guest
             W == Wrong(L, Held(s), g)
  <2>1. q \in Seq(EventType) /\ i \in 1 .. Len(q)
    BY SurfaceFields
  <2>2. q[i] \in EventType /\ g \in Guests
    <3>1. q[i] \in EventType
      BY <2>1, ElementOfSeq
    <3> QED BY <3>1 DEF EventType
  <2>3. HitsIn(q, Of(g, W)) = 0
    BY <1>1, <2>2
  <2>4. q[i] \notin Of(g, W)
    <3> DEFINE O == Of(g, W)
    <3> HIDE DEF O, q
    <3>1. HitsIn(q, O) = 0
      BY <2>3 DEF O
    <3>2. q[i] \notin O
      BY <2>1, <3>1, HitsNone
    <3> QED BY <3>2 DEF O
  <2> QED BY <2>2, <2>4 DEF Of, Wrong
<1> QED BY <1>1, <1>2

\* The places of a command are counted by its number.
LEMMA CountIs ==
  ASSUME NEW id
  PROVE  /\ \A q \in Seq(EventType) : Count(q, id) = HitsIn(q, IdEvents(id))
         /\ \A q \in Seq(Command) : Count(q, id) = HitsIn(q, IdCmds(id))
         /\ uapi.runtime \in Seq(Entry) => RuntimeCount(id) = HitsIn(uapi.runtime, IdEntries(id))
<1>1. ASSUME NEW q \in Seq(EventType) PROVE Count(q, id) = HitsIn(q, IdEvents(id))
  <2>1. \A i \in DOMAIN q : q[i] \in EventType
    BY LenProperties, ElementOfSeq
  <2>2. {i \in DOMAIN q : q[i].id = id} = {i \in DOMAIN q : q[i] \in IdEvents(id)}
    BY <2>1 DEF IdEvents
  <2> QED BY <2>2 DEF Count, HitsIn
<1>2. ASSUME NEW q \in Seq(Command) PROVE Count(q, id) = HitsIn(q, IdCmds(id))
  <2>1. \A i \in DOMAIN q : q[i] \in Command
    BY LenProperties, ElementOfSeq
  <2>2. {i \in DOMAIN q : q[i].id = id} = {i \in DOMAIN q : q[i] \in IdCmds(id)}
    BY <2>1 DEF IdCmds
  <2> QED BY <2>2 DEF Count, HitsIn
<1>3. ASSUME uapi.runtime \in Seq(Entry)
      PROVE  RuntimeCount(id) = HitsIn(uapi.runtime, IdEntries(id))
  <2> DEFINE q == uapi.runtime
  <2>1. \A i \in DOMAIN q : q[i] \in Entry
    BY <1>3, LenProperties, ElementOfSeq
  <2>2. {i \in DOMAIN q : q[i].cmd.id = id} = {i \in DOMAIN q : q[i] \in IdEntries(id)}
    BY <2>1 DEF IdEntries
  <2> QED BY <2>2 DEF RuntimeCount, HitsIn
<1> QED BY <1>1, <1>2, <1>3

\* The services hold a command only for the guest that issued it.
LEMMA ServiceOwner ==
  ASSUME NEW s \in Surface, NEW L \in Seq(Command), Clean(s, L), NEW id \in 1 .. Len(L),
         NEW v \in Services
  PROVE  HitsIn(s.service[v], Of(L[id].guest, IdEvents(id))) = HitsIn(s.service[v], IdEvents(id))
<1> DEFINE q == s.service[v]
           g == L[id].guest
<1>1. q \in Seq(EventType) /\ DOMAIN q = 1 .. Len(q)
  BY SurfaceFields, LenProperties
<1>2. \A i \in DOMAIN q : Right(L, Held(s), q[i])
  BY <1>1, CleanIs
<1>3. \A i \in DOMAIN q : q[i] \in IdEvents(id) <=> q[i] \in Of(g, IdEvents(id))
  BY <1>2 DEF Right, IdEvents, Of
<1>4. {i \in DOMAIN q : q[i] \in IdEvents(id)} = {i \in DOMAIN q : q[i] \in Of(g, IdEvents(id))}
  BY <1>3
<1> QED BY <1>4 DEF HitsIn

\* No other guest has a command in its queues.
LEMMA OthersHaveNone ==
  ASSUME NEW s \in Surface, NEW S \in [Guests -> Seq(EventType)], NEW L \in Seq(Command),
         Ledger(s, S, L), NEW id \in 1 .. Len(L), NEW g \in Guests, g # L[id].guest
  PROVE  /\ HitsIn(s.cmdq[g], IdCmds(id)) = 0 /\ HitsIn(s.cq[g], IdEvents(id)) = 0
         /\ HitsIn(S[g], IdEvents(id)) = 0
<1>1. HitsIn(s.cmdq[g], IdCmds(id)) = 0
  <2>1. s.cmdq[g] \in Seq(Command)
    BY SurfaceFields
  <2>2. \A i \in 1 .. Len(s.cmdq[g]) : s.cmdq[g][i] \notin IdCmds(id)
    BY DEF Ledger, Sound, CmdqOK, Known, IdCmds
  <2> QED BY <2>1, <2>2, HitsNone
<1>2. ASSUME NEW q \in Seq(EventType), HitsIn(q, Wrong(L, Held(s), g)) = 0
      PROVE  HitsIn(q, IdEvents(id)) = 0
  <2>1. \A i \in 1 .. Len(q) : Right(L, Held(s), q[i]) /\ q[i].guest = g
    BY <1>2, NoWrongIs
  <2>2. \A i \in 1 .. Len(q) : q[i] \notin IdEvents(id)
    BY <2>1 DEF Right, IdEvents
  <2> QED BY <2>2, HitsNone
<1>3. HitsIn(s.cq[g], Wrong(L, Held(s), g)) = 0 /\ HitsIn(S[g], Wrong(L, Held(s), g)) = 0
  <2>1. Clean(s, L)
    BY DEF Ledger, Sound
  <2> QED BY <2>1, CleanIs DEF Ledger, SeenOK
<1>4. s.cq[g] \in Seq(EventType) /\ S[g] \in Seq(EventType)
  BY SurfaceFields
<1> QED BY <1>1, <1>2, <1>3, <1>4

\* Every command is in exactly one place, and in no queue of a guest that did
\* not issue it: a retry does not duplicate it, and only a doorbell that
\* failed loses it.
THEOREM EachInOnePlaceHolds == Spec => []EachInOnePlace
<1>1. TypeOK /\ Ledger(uapi, seen, log) => EachInOnePlace
  <2> SUFFICES ASSUME TypeOK, Ledger(uapi, seen, log), NEW id \in 1 .. Len(log)
               PROVE  LET lost == IF id \in uapi.lost THEN 1 ELSE 0
                          own  == Places(log[id].guest, id)
                      IN  /\ \A g \in Guests \ {log[id].guest} : Places(g, id) = 0
                          /\ 1 = own + RuntimeCount(id) + lost
                                   + Count(uapi.service["block"], id)
                                   + Count(uapi.service["shmem"], id)
                                   + Count(uapi.service["dfs"], id)
                                   + Count(uapi.service["db"], id)
    BY DEF EachInOnePlace
  <2>1. log \in Seq(Command) /\ Between(uapi) /\ seen \in [Guests -> Seq(EventType)]
    BY TypeIs
  <2>2. uapi \in Surface /\ uapi.failures = <<>> /\ Clean(uapi, log)
    BY <2>1 DEF Between, Ledger, Sound
  <2>3. ASSUME NEW g \in Guests
        PROVE  Places(g, id) = HitsIn(uapi.cmdq[g], IdCmds(id)) + HitsIn(uapi.cq[g], IdEvents(id))
                                 + HitsIn(seen[g], IdEvents(id))
    <3>1. uapi.cmdq[g] \in Seq(Command) /\ uapi.cq[g] \in Seq(EventType)
          /\ seen[g] \in Seq(EventType)
      BY <2>1, <2>2, SurfaceFields
    <3> QED BY <3>1, CountIs DEF Places
  <2>4. ASSUME NEW g \in Guests \ {log[id].guest} PROVE Places(g, id) = 0
    <3>1. /\ HitsIn(uapi.cmdq[g], IdCmds(id)) = 0 /\ HitsIn(uapi.cq[g], IdEvents(id)) = 0
          /\ HitsIn(seen[g], IdEvents(id)) = 0
      BY <2>1, <2>2, OthersHaveNone
    <3> QED BY <2>3, <3>1
  <2> DEFINE g == log[id].guest
             T == IdEvents(id)
             l == IF id \in uapi.lost THEN 1 ELSE 0
             r == HitsIn(uapi.runtime, IdEntries(id))
             c == HitsIn(uapi.cmdq[g], IdCmds(id))
             q == HitsIn(uapi.cq[g], T)
             n == HitsIn(seen[g], T)
             w == HitsIn(uapi.service["block"], T)
             x == HitsIn(uapi.service["shmem"], T)
             y == HitsIn(uapi.service["dfs"], T)
             z == HitsIn(uapi.service["db"], T)
  <2>5. g \in Guests
    BY <2>1, LogIs
  <2>6. Settled(uapi, g, T) = q + 0 + w + x + y + z
    <3>1. HitsIn(uapi.failures, Of(g, T)) = 0
      BY <2>2, HitsEmpty
    <3>2. /\ HitsIn(uapi.service["block"], Of(g, T)) = w
          /\ HitsIn(uapi.service["shmem"], Of(g, T)) = x
          /\ HitsIn(uapi.service["dfs"], Of(g, T)) = y
          /\ HitsIn(uapi.service["db"], Of(g, T)) = z
      BY <2>1, <2>2, ServiceOwner DEF Services
    <3> QED BY <3>1, <3>2 DEF Settled
  <2>7. 1 = (Settled(uapi, g, T) + r) + n + c + l
    <3>1. Once(uapi, seen, log, id)
      BY DEF Ledger
    <3> QED BY <3>1 DEF Once, Total
  <2>8. /\ Places(g, id) = c + q + n /\ RuntimeCount(id) = r
        /\ Count(uapi.service["block"], id) = w /\ Count(uapi.service["shmem"], id) = x
        /\ Count(uapi.service["dfs"], id) = y /\ Count(uapi.service["db"], id) = z
    <3>1. /\ uapi.service["block"] \in Seq(EventType) /\ uapi.service["shmem"] \in Seq(EventType)
          /\ uapi.service["dfs"] \in Seq(EventType) /\ uapi.service["db"] \in Seq(EventType)
          /\ uapi.runtime \in Seq(Entry)
      BY <2>2, SurfaceFields
    <3> QED BY <2>3, <2>5, <3>1, CountIs
  <2>9. /\ c \in Nat /\ q \in Nat /\ n \in Nat /\ r \in Nat /\ l \in Nat
        /\ w \in Nat /\ x \in Nat /\ y \in Nat /\ z \in Nat
    <3>1. c \in Nat /\ n \in Nat /\ r \in Nat
      BY <2>1, <2>2, <2>5, OnceType
    <3>2. /\ uapi.service["block"] \in Seq(EventType) /\ uapi.service["shmem"] \in Seq(EventType)
          /\ uapi.service["dfs"] \in Seq(EventType) /\ uapi.service["db"] \in Seq(EventType)
          /\ uapi.cq[g] \in Seq(EventType)
      BY <2>2, <2>5, SurfaceFields
    <3>3. w \in Nat /\ x \in Nat /\ y \in Nat /\ z \in Nat /\ q \in Nat
      BY <3>2, HitsType
    <3> QED BY <3>1, <3>3
  <2>10. 1 = (c + q + n) + r + l + w + x + y + z
    <3> HIDE DEF c, q, n, r, l, w, x, y, z, g, T
    <3> QED BY <2>6, <2>7, <2>9
  <2> QED BY <2>4, <2>8, <2>10
<1> QED BY <1>1, LedgerHolds, PTL

\* A guest's lookup finds what the guest's earlier command inserted, unless
\* that command met a full queue on its way.
THEOREM ReadsOwnWritesHolds == Spec => []ReadsOwnWrites
<1>1. TypeOK /\ Ledger(uapi, seen, log) => ReadsOwnWrites
  <2> SUFFICES ASSUME TypeOK, Ledger(uapi, seen, log),
                      NEW g \in Guests, NEW i \in DOMAIN seen[g],
                      seen[g][i].status = "Failure", log[seen[g][i].id].op \in Lookups,
                      NEW w \in 1 .. seen[g][i].id - 1,
                      Precedes(log[w], log[seen[g][i].id])
               PROVE  w \in uapi.refused \cup uapi.lost
    BY DEF ReadsOwnWrites
  <2>1. seen \in [Guests -> Seq(EventType)]
    BY TypeIs
  <2>2. seen[g] \in Seq(EventType) /\ i \in 1 .. Len(seen[g])
    BY <2>1, LenProperties
  <2>3. HitsIn(seen[g], Wrong(log, Held(uapi), g)) = 0
    BY DEF Ledger, SeenOK
  <2>4. Right(log, Held(uapi), seen[g][i])
    BY <2>2, <2>3, NoWrongIs
  <2> QED BY <2>4 DEF Right, Held
<1> QED BY <1>1, LedgerHolds, PTL

-----------------------------------------------------------------------------
(* Commands given up *)

GaveUp == {e \in EventType : e.status = "Exhausted"}

\* The same commands have been given up.
SameGivenUp(s, t) ==
  \A g \in Guests : \A T : T \subseteq GaveUp => Settled(t, g, T) = Settled(s, g, T)

\* No completion of a command that was given up waits in a service.
Quiet(s) == \A v \in Services : \A i \in 1 .. Len(s.service[v]) : s.service[v][i] \notin GaveUp

\* The entries for service v, and what the service has to get through.
ForService(v) == {r \in Entry : ServiceOf(r.cmd.op) = v}

Loaded(s, v) == Len(s.service[v]) + HitsIn(s.runtime, ForService(v))

\* An entry that may be tried again, or that finds room, is not given up.
LEMMA OutcomeGivesUp ==
  ASSUME NEW s \in Surface, NEW r \in Entry, NEW t, Outcome(s, r, t),
         r.attempts < MaxRetries \/ ~ServiceFull(s, r.cmd)
  PROVE  SameGivenUp(s, t)
<1>1. r.attempts \in Nat /\ MaxRetries \in Nat /\ r.cmd \in Command
  BY SurfaceAssumption DEF Entry
<1>2. ~GivenUp(s, r, t)
  BY <1>1 DEF GivenUp
<1>3. CASE Again(s, r, t)
  BY <1>3 DEF Again, SameEvents, SameGivenUp
<1>4. ASSUME NEW status \in Statuses, status # "Exhausted", Adds(s, t, Event(r.cmd, status))
      PROVE  SameGivenUp(s, t)
  <2> DEFINE e == Event(r.cmd, status)
  <2>1. e \notin GaveUp
    BY <1>4 DEF GaveUp, Event
  <2> HIDE DEF e
  <2>2. ASSUME NEW g \in Guests, NEW T, T \subseteq GaveUp
        PROVE  Settled(t, g, T) = Settled(s, g, T)
    <3>1. e \notin Of(g, T)
      BY <2>1, <2>2 DEF Of
    <3>2. Settled(t, g, T) = Settled(s, g, T) + (IF e \in Of(g, T) THEN 1 ELSE 0)
      BY <1>4 DEF Adds, e
    <3>3. Settled(s, g, T) \in Nat
      BY SettledType
    <3> QED BY <3>1, <3>2, <3>3
  <2> QED BY <2>2 DEF SameGivenUp
<1>5. /\ DoneStatus(s, r.cmd) \in Statuses /\ DoneStatus(s, r.cmd) # "Exhausted"
      /\ "Invalid" \in Statuses
  BY DEF DoneStatus, StatusOf, Statuses
<1>6. CASE Rejected(s, r, t)
  BY <1>4, <1>5, <1>6 DEF Rejected
<1>7. CASE Completed(s, r, t)
  BY <1>4, <1>5, <1>7 DEF Completed
<1> QED BY <1>2, <1>3, <1>6, <1>7 DEF Outcome

\* What entry r does to the load of service v.
Loads(v, s, r, t) ==
  LET i == IF r \in ForService(v) THEN 1 ELSE 0
  IN  \/ /\ HitsIn(t.runtime, ForService(v)) = HitsIn(s.runtime, ForService(v))
         /\ Len(t.service[v]) <= Len(s.service[v]) + i
      \/ /\ HitsIn(t.runtime, ForService(v)) = HitsIn(s.runtime, ForService(v)) + 1
         /\ i = 1
         /\ Len(s.service[v]) >= ServiceDepth[v]
         /\ Len(t.service[v]) = 0

\* Every outcome does so.
LEMMA OutcomeLoad ==
  ASSUME NEW s \in Surface, NEW r \in Entry, NEW t, Outcome(s, r, t), NEW v \in Services
  PROVE  Loads(v, s, r, t)
<1> DEFINE F == ForService(v)
           i == IF r \in F THEN 1 ELSE 0
           l == Len(s.service[v])
           m == Len(t.service[v])
<1> SUFFICES \/ HitsIn(t.runtime, F) = HitsIn(s.runtime, F) /\ m <= l + i
             \/ /\ HitsIn(t.runtime, F) = HitsIn(s.runtime, F) + 1
                /\ i = 1 /\ l >= ServiceDepth[v] /\ m = 0
  BY DEF Loads
<1>0. i \in {0, 1}
  OBVIOUS
<1>1. /\ s.service[v] \in Seq(EventType) /\ Len(s.service[v]) \in Nat
      /\ s.runtime \in Seq(Entry) /\ HitsIn(s.runtime, F) \in Nat
  <2>1. s.service[v] \in Seq(EventType) /\ s.runtime \in Seq(Entry)
    BY SurfaceFields
  <2> QED BY <2>1, LenProperties, HitsType
<1>2. r \in F <=> ServiceOf(r.cmd.op) = v
  BY DEF ForService
<1>3. CASE Again(s, r, t)
  <2> DEFINE x == [r EXCEPT !.attempts = @ + 1]
  <2>1. x \in Entry /\ x.cmd = r.cmd
    BY <1>3, SurfaceAssumption DEF Again, Entry
  <2>2. t.runtime = Append(s.runtime, x) /\ ServiceFull(s, r.cmd)
    BY <1>3 DEF Again
  <2>3. x \in F <=> r \in F
    BY <2>1 DEF ForService
  <2>4. Len(t.service[v]) = 0
    <3>1. t.service[v] = <<>>
      BY <1>3 DEF Again, NoService
    <3> QED BY <3>1
  <2>5. r \in F => Len(s.service[v]) >= ServiceDepth[v]
    BY <1>2, <2>2 DEF ServiceFull
  <2> HIDE DEF x, F
  <2>6. HitsIn(t.runtime, F) = HitsIn(s.runtime, F) + (IF x \in F THEN 1 ELSE 0)
    BY <1>1, <2>1, <2>2, HitsAppend
  <2>7. CASE r \in F
    BY <2>3, <2>4, <2>5, <2>6, <2>7 DEF F
  <2>8. CASE r \notin F
    BY <1>1, <2>3, <2>4, <2>6, <2>8 DEF F
  <2> QED BY <2>7, <2>8
<1>4. CASE GivenUp(s, r, t)
  <2>1. t.service[v] = <<>> /\ t.runtime = s.runtime
    BY <1>4 DEF GivenUp, NoService
  <2>2. Len(t.service[v]) = 0
    BY <2>1
  <2>3. l \in Nat /\ m = 0
    BY <1>1, <2>2
  <2> HIDE DEF i, l, m
  <2> QED BY <1>0, <2>1, <2>3
<1>5. CASE Rejected(s, r, t)
  <2>1. t.runtime = s.runtime /\ m = l /\ l \in Nat
    BY <1>1, <1>5 DEF Rejected
  <2> HIDE DEF i, l, m
  <2> QED BY <1>0, <2>1
<1>6. CASE Completed(s, r, t)
  <2> DEFINE e == Event(r.cmd, DoneStatus(s, r.cmd))
  <2>1. t.runtime = s.runtime
        /\ t.service[v] = IF v = ServiceOf(r.cmd.op) THEN Append(s.service[v], e) ELSE s.service[v]
    BY <1>6 DEF Completed
  <2>2. Len(Append(s.service[v], e)) = Len(s.service[v]) + 1
    <3>1. e \in EventType
      BY EventIs DEF Entry, DoneStatus, StatusOf, Statuses
    <3> HIDE DEF e
    <3> QED BY <1>1, <3>1, AppendProperties
  <2> HIDE DEF e
  <2>3. CASE r \in F
    <3>1. m = l + 1 /\ i = 1 /\ l \in Nat
      BY <1>1, <1>2, <2>1, <2>2, <2>3
    <3> HIDE DEF i, l, m
    <3> QED BY <2>1, <3>1
  <2>4. CASE r \notin F
    <3>1. m = l /\ i = 0 /\ l \in Nat
      BY <1>1, <1>2, <2>1, <2>4
    <3> HIDE DEF i, l, m
    <3> QED BY <2>1, <3>1
  <2> QED BY <2>3, <2>4
<1> QED BY <1>3, <1>4, <1>5, <1>6 DEF Outcome

\* After the first k entries of q, seen from service v: none was refused, and
\* it holds no more than it was given; or one was, which took a full service,
\* and the service was flushed then.
LoadIs(s, q, v, t, k) ==
  LET given == Len(s.service[v]) + HitsIn(SubSeq(q, 1, k), ForService(v))
      put   == HitsIn(t.runtime, ForService(v))
  IN  \/ put = 0 /\ Len(t.service[v]) <= given
      \/ put >= 1 /\ Len(t.service[v]) + put + ServiceDepth[v] <= given

\* The entries in a part of the queue, one more at a time.
LEMMA PrefixEntries ==
  ASSUME NEW q \in Seq(Entry), NEW T
  PROVE  /\ HitsIn(SubSeq(q, 1, 0), T) = 0
         /\ \A k \in 0 .. Len(q) - 1 :
              HitsIn(SubSeq(q, 1, k + 1), T)
                = HitsIn(SubSeq(q, 1, k), T) + (IF q[k + 1] \in T THEN 1 ELSE 0)
  BY HitsPrefix

\* So it is throughout the loop.
LEMMA DriveLoad ==
  ASSUME NEW s \in Surface, NEW q \in Seq(Entry), NEW f, Drives(s, q, f), s.runtime = <<>>,
         NEW v \in Services
  PROVE  \A k \in 0 .. Len(q) : LoadIs(s, q, v, f[k], k)
<1> DEFINE n == Len(q)
           F == ForService(v)
           D == ServiceDepth[v]
           l == Len(s.service[v])
           H(k) == HitsIn(SubSeq(q, 1, k), F)
           K == {k \in 0 .. n : LoadIs(s, q, v, f[k], k)}
<1>1. n \in Nat /\ f[0] = s /\ n \in 0 .. n
  BY DriveTurn
<1>2. /\ H(0) = 0
      /\ \A k \in 0 .. n - 1 : H(k + 1) = H(k) + (IF q[k + 1] \in F THEN 1 ELSE 0)
  <2> HIDE DEF F
  <2> QED BY PrefixEntries
<1>3. l \in Nat /\ D \in Nat
  BY SurfaceFields, LenProperties, SurfaceAssumption
<1>4. 0 \in K
  <2>1. HitsIn(s.runtime, F) = 0
    BY HitsEmpty
  <2>2. LoadIs(s, q, v, s, 0)
    BY <1>2, <1>3, <2>1 DEF LoadIs
  <2> QED BY <1>1, <2>2
<1>5. ASSUME NEW k \in 0 .. n - 1, k \in K PROVE k + 1 \in K
  <2> DEFINE x == f[k]
             y == f[k + 1]
             r == q[k + 1]
             h == H(k)
             i == IF r \in F THEN 1 ELSE 0
             a == HitsIn(x.runtime, F)
             b == HitsIn(y.runtime, F)
             c == Len(x.service[v])
             d == Len(y.service[v])
  <2>1. k + 1 \in 0 .. n /\ k + 1 \in 1 .. n /\ k \in 0 .. n
        /\ x \in Surface /\ y \in Surface /\ r \in Entry /\ Outcome(x, r, y)
    BY <1>1, DriveTurn
  <2>2. (a = 0 /\ c <= l + h) \/ (a >= 1 /\ c + a + D <= l + h)
    BY <1>5 DEF LoadIs
  <2>3. h \in Nat
    <3>1. SubSeq(q, 1, k) \in Seq(Entry)
      BY <2>1, HitsSplit
    <3> QED BY <3>1, HitsType
  <2>4. H(k + 1) = h + i
    BY <1>2
  <2> HIDE DEF x, y, r, h
  <2>5. \/ b = a /\ d <= c + i
        \/ b = a + 1 /\ i = 1 /\ c >= D /\ d = 0
    <3>1. Loads(v, x, r, y)
      BY <2>1, OutcomeLoad
    <3> QED BY <3>1 DEF Loads
  <2>6. a \in Nat /\ b \in Nat /\ c \in Nat /\ d \in Nat
    <3>1. x.runtime \in Seq(Entry) /\ y.runtime \in Seq(Entry)
          /\ x.service[v] \in Seq(EventType) /\ y.service[v] \in Seq(EventType)
      BY <2>1, SurfaceFields
    <3> QED BY <3>1, HitsType, LenProperties
  <2>7. i \in Nat
    OBVIOUS
  <2>8. (b = 0 /\ d <= l + (h + i)) \/ (b >= 1 /\ d + b + D <= l + (h + i))
    <3> HIDE DEF a, b, c, d, i, l, D
    <3>1. CASE b = a /\ d <= c + i
      <4>1. CASE a = 0 /\ c <= l + h
        BY <1>3, <2>3, <2>6, <2>7, <3>1, <4>1
      <4>2. CASE a >= 1 /\ c + a + D <= l + h
        BY <1>3, <2>3, <2>6, <2>7, <3>1, <4>2
      <4> QED BY <2>2, <4>1, <4>2
    <3>2. CASE b = a + 1 /\ i = 1 /\ c >= D /\ d = 0
      <4>1. CASE a = 0 /\ c <= l + h
        BY <1>3, <2>3, <2>6, <2>7, <3>2, <4>1
      <4>2. CASE a >= 1 /\ c + a + D <= l + h
        BY <1>3, <2>3, <2>6, <2>7, <3>2, <4>2
      <4> QED BY <2>2, <4>1, <4>2
    <3> QED BY <2>5, <3>1, <3>2
  <2>9. LoadIs(s, q, v, y, k + 1)
    BY <2>4, <2>8 DEF LoadIs
  <2> QED BY <2>1, <2>9 DEF y
<1> HIDE DEF K
<1>6. \A k \in 0 .. n : k \in K
  BY <1>1, <1>4, <1>5, UpTo
<1> QED BY <1>6 DEF K

\* The number of entries for a service, in a part of the queue.
LEMMA PartLoad ==
  ASSUME NEW q \in Seq(Entry), NEW v
  PROVE  /\ HitsIn(q, ForService(v)) \in Nat
         /\ \A k \in 0 .. Len(q) : /\ HitsIn(SubSeq(q, 1, k), ForService(v)) \in Nat
                                   /\ HitsIn(SubSeq(q, 1, k), ForService(v)) <= HitsIn(q, ForService(v))
<1> DEFINE F == ForService(v)
<1> HIDE DEF F
<1>1. HitsIn(q, F) \in Nat
  BY HitsType
<1>2. ASSUME NEW k \in 0 .. Len(q)
      PROVE  HitsIn(SubSeq(q, 1, k), F) \in Nat /\ HitsIn(SubSeq(q, 1, k), F) <= HitsIn(q, F)
  <2> DEFINE x == SubSeq(q, 1, k)
             y == SubSeq(q, k + 1, Len(q))
  <2>1. x \in Seq(Entry) /\ y \in Seq(Entry) /\ HitsIn(q, F) = HitsIn(x, F) + HitsIn(y, F)
    BY HitsSplit
  <2> HIDE DEF x, y
  <2>2. HitsIn(x, F) \in Nat /\ HitsIn(y, F) \in Nat
    BY <2>1, HitsType
  <2>3. HitsIn(x, F) <= HitsIn(q, F)
    BY <2>1, <2>2
  <2> QED BY <2>2, <2>3 DEF x
<1> QED BY <1>1, <1>2 DEF F

\* No command is given up in a loop over entries that may all be tried again,
\* or that all find room.
LEMMA DriveGivesUp ==
  ASSUME NEW s \in Surface, NEW q \in Seq(Entry), NEW f, Drives(s, q, f), s.runtime = <<>>,
         \/ \A i \in 1 .. Len(q) : q[i].attempts < MaxRetries
         \/ \A v \in Services :
              Len(s.service[v]) + HitsIn(q, ForService(v)) <= ServiceDepth[v]
  PROVE  SameGivenUp(s, f[Len(q)])
<1> DEFINE n == Len(q)
           K == {k \in 0 .. n : SameGivenUp(s, f[k])}
<1>1. n \in Nat /\ f[0] = s /\ n \in 0 .. n
  BY DriveTurn
<1>2. 0 \in K
  BY <1>1 DEF SameGivenUp
<1>3. ASSUME NEW k \in 0 .. n - 1, k \in K PROVE k + 1 \in K
  <2> DEFINE x == f[k]
             y == f[k + 1]
             r == q[k + 1]
  <2>1. k + 1 \in 0 .. n /\ k + 1 \in 1 .. n /\ k \in 0 .. n
        /\ x \in Surface /\ r \in Entry /\ Outcome(x, r, y)
    BY <1>1, DriveTurn
  <2>2. r.attempts < MaxRetries \/ ~ServiceFull(x, r.cmd)
    <3> SUFFICES ASSUME ~(r.attempts < MaxRetries), ServiceFull(x, r.cmd) PROVE FALSE
      OBVIOUS
    <3> DEFINE v == ServiceOf(r.cmd.op)
               F == ForService(v)
               l == Len(s.service[v])
               m == Len(x.service[v])
               D == ServiceDepth[v]
               h == HitsIn(SubSeq(q, 1, k), F)
               p == HitsIn(x.runtime, F)
    <3>1. \A w \in Services : Len(s.service[w]) + HitsIn(q, ForService(w)) <= ServiceDepth[w]
      BY <2>1
    <3>2. v \in Services
      <4>1. v # "none"
        BY DEF ServiceFull
      <4>2. r.cmd.op \in AllOps
        BY <2>1, SurfaceAssumption DEF Entry, Command
      <4> QED BY <4>1, <4>2, ServiceOfIs DEF AllOps
    <3>3. m >= D
      BY DEF ServiceFull
    <3>4. r \in F
      BY <2>1 DEF ForService
    <3>5. HitsIn(SubSeq(q, 1, k + 1), F) = h + 1
      <4>1. HitsIn(SubSeq(q, 1, k + 1), F) = h + (IF r \in F THEN 1 ELSE 0)
        <5> HIDE DEF F
        <5>1. \A j \in 0 .. Len(q) - 1 :
                HitsIn(SubSeq(q, 1, j + 1), F)
                  = HitsIn(SubSeq(q, 1, j), F) + (IF q[j + 1] \in F THEN 1 ELSE 0)
          BY PrefixEntries
        <5> QED BY <5>1
      <4> QED BY <3>4, <4>1
    <3>6. h + 1 <= HitsIn(q, F) /\ h \in Nat /\ HitsIn(q, F) \in Nat
      <4> HIDE DEF v
      <4> QED BY <2>1, <3>5, PartLoad
    <3>7. l + HitsIn(q, F) <= D
      BY <3>1, <3>2
    <3>8. (p = 0 /\ m <= l + h) \/ (p >= 1 /\ m + p + D <= l + h)
      <4>1. LoadIs(s, q, v, x, k)
        <5> HIDE DEF v
        <5> QED BY <2>1, <3>2, DriveLoad
      <4> QED BY <4>1 DEF LoadIs
    <3>9. l \in Nat /\ m \in Nat /\ D \in Nat /\ p \in Nat
      <4> HIDE DEF v, x
      <4>1. s.service[v] \in Seq(EventType) /\ x.service[v] \in Seq(EventType)
            /\ x.runtime \in Seq(Entry)
        BY <2>1, <3>2, SurfaceFields
      <4> QED BY <3>2, <4>1, LenProperties, HitsType, SurfaceAssumption
    <3> DEFINE t == HitsIn(q, F)
    <3> HIDE DEF l, m, D, h, p, t
    <3>10. h + 1 <= t /\ h \in Nat /\ t \in Nat /\ l + t <= D
      BY <3>6, <3>7 DEF t
    <3> QED BY <3>3, <3>8, <3>9, <3>10
  <2> HIDE DEF x, y, r
  <2>3. SameGivenUp(x, y)
    BY <2>1, <2>2, OutcomeGivesUp
  <2>4. SameGivenUp(s, x)
    BY <1>3 DEF x
  <2>5. SameGivenUp(s, y)
    BY <2>3, <2>4 DEF SameGivenUp
  <2> QED BY <2>1, <2>5 DEF y
<1> HIDE DEF K
<1>4. \A k \in 0 .. n : k \in K
  BY <1>1, <1>2, <1>3, UpTo
<1> QED BY <1>1, <1>4 DEF K

\* Every service can take what there is for it.
Light(s) == \A v \in Services : Loaded(s, v) <= ServiceDepth[v]

\* A pass gives no command up when every service can take its load, or when
\* all entries may be tried again; in the second case, up to a load of twice
\* the depth, the services can take what is left.
LEMMA PassGivesUp ==
  ASSUME NEW s \in Surface, NEW b, NEW f, NEW z, Pass(s, b, f, z), Shallow(s),
         \/ Light(s)
         \/ /\ \A i \in 1 .. Len(s.runtime) : s.runtime[i].attempts < MaxRetries
            /\ \A v \in Services : Loaded(s, v) <= 2 * ServiceDepth[v]
  PROVE  SameGivenUp(s, z) /\ Light(z)
<1> DEFINE q == s.runtime
           t == f[Len(q)]
<1>1. /\ q \in Seq(Entry) /\ b \in Surface /\ b.runtime = <<>> /\ Drives(b, q, f)
      /\ SameEvents(s, b) /\ b.service = s.service
  BY SurfaceFields DEF Pass
<1>2. Len(q) \in Nat /\ Len(q) \in 0 .. Len(q) /\ t \in Surface
  BY <1>1, DriveTurn
<1>3. z \in Surface /\ z.runtime = t.runtime /\ z.service = t.service /\ SameEvents(t, z)
  BY DEF Pass
<1>4. SameGivenUp(b, t)
  <2>1. Light(s) => \A v \in Services : Len(b.service[v]) + HitsIn(q, ForService(v)) <= ServiceDepth[v]
    BY <1>1 DEF Light, Loaded
  <2>2. \/ \A i \in 1 .. Len(q) : q[i].attempts < MaxRetries
        \/ \A v \in Services : Len(b.service[v]) + HitsIn(q, ForService(v)) <= ServiceDepth[v]
    BY <2>1
  <2> HIDE DEF q
  <2> QED BY <1>1, <2>2, DriveGivesUp
<1>5. SameGivenUp(s, z)
  BY <1>1, <1>3, <1>4 DEF SameGivenUp, SameEvents
<1>6. Shallow(z)
  <2>1. \A i \in 1 .. Len(q) : q[i] \in Entry
    BY <1>1, ElementOfSeq
  <2>2. \A i \in 1 .. Len(q) : q[i].attempts >= 0
    BY <2>1 DEF Entry
  <2>3. Keeps(s, z)
    BY <2>2, PassKeeps
  <2> QED BY <2>3 DEF Keeps
<1>7. ASSUME NEW v \in Services PROVE Loaded(z, v) <= ServiceDepth[v]
  <2> DEFINE F == ForService(v)
             D == ServiceDepth[v]
             l == Len(s.service[v])
             h == HitsIn(q, F)
             m == Len(z.service[v])
             p == HitsIn(z.runtime, F)
  <2>1. LoadIs(b, q, v, t, Len(q))
    <3> HIDE DEF q
    <3> QED BY <1>1, <1>2, DriveLoad
  <2>2. HitsIn(SubSeq(q, 1, Len(q)), F) = h
    <3>1. SubSeq(q, 1, Len(q)) = q
      BY <1>1, SubSeqFull
    <3> QED BY <3>1
  <2>3. (p = 0 /\ m <= l + h) \/ (p >= 1 /\ m + p + D <= l + h)
    <3> HIDE DEF t
    <3> QED BY <1>1, <1>3, <2>1, <2>2 DEF LoadIs
  <2>4. l \in Nat /\ h \in Nat /\ m \in Nat /\ p \in Nat /\ D \in Nat
    <3>1. /\ s.service[v] \in Seq(EventType) /\ z.service[v] \in Seq(EventType)
          /\ z.runtime \in Seq(Entry)
      BY <1>3, SurfaceFields
    <3> QED BY <1>1, <3>1, LenProperties, HitsType, SurfaceAssumption
  <2>5. m <= D
    BY <1>6 DEF Shallow
  <2>6. l + h <= D \/ l + h <= 2 * D
    BY DEF Light, Loaded
  <2>7. m + p <= D
    <3> HIDE DEF l, h, m, p, D
    <3> QED BY <2>3, <2>4, <2>5, <2>6
  <2> QED BY <2>7 DEF Loaded
<1> QED BY <1>5, <1>7 DEF Light

\* The entries of the runtime queue have not been tried.
Rested(s) == \A i \in 1 .. Len(s.runtime) : s.runtime[i].attempts = 0

\* A flush gives no command up when no service has a load of more than twice
\* its depth.
LEMMA FlushGivesUp ==
  ASSUME NEW s \in Surface, s.failures = <<>>, Shallow(s), Rested(s), MaxRetries >= 1,
         \A v \in Services : Loaded(s, v) <= 2 * ServiceDepth[v]
  PROVE  SameGivenUp(s, Flushed(s))
<1> DEFINE n == MaxRetries + 1
<1>1. PICK f \in [0 .. n -> Surface] :
           /\ f[0] = s
           /\ \A k \in 1 .. n : f[k] = DriveReady(f[k - 1])
           /\ flush_runtime(s) = f[n]
  BY FlushLoop
<1>2. n \in Nat /\ n \in 0 .. n
  BY SurfaceAssumption
<1> DEFINE K == {k \in 0 .. n : Shallow(f[k]) /\ SameGivenUp(s, f[k]) /\ (k # 0 => Light(f[k]))}
<1>3. 0 \in K
  BY <1>1, <1>2 DEF SameGivenUp
<1>4. ASSUME NEW k \in 0 .. n - 1, k \in K PROVE k + 1 \in K
  <2> DEFINE x == f[k]
             y == f[k + 1]
  <2>1. k \in Nat /\ k + 1 \in 0 .. n /\ k + 1 \in 1 .. n /\ k \in 0 .. n /\ (k + 1) - 1 = k
    BY <1>2
  <2>2. x \in Surface /\ y = DriveReady(x)
    BY <1>1, <2>1
  <2>3. Shallow(x) /\ SameGivenUp(s, x) /\ (k # 0 => Light(x))
    BY <1>4
  <2>4. k = 0 => x = s
    BY <1>1
  <2> HIDE DEF x, y
  <2>5. PICK b, d : Pass(x, b, d, y)
    BY <2>2, DriveReadyIs
  <2>6. Shallow(y)
    <3> DEFINE q == x.runtime
    <3>1. q \in Seq(Entry)
      BY <2>2, SurfaceFields
    <3>2. \A i \in 1 .. Len(q) : q[i] \in Entry
      BY <3>1, ElementOfSeq
    <3>3. \A i \in 1 .. Len(q) : q[i].attempts >= 0
      BY <3>2 DEF Entry
    <3>4. Keeps(x, y)
      BY <2>2, <2>5, <3>3, PassKeeps
    <3> QED BY <2>3, <3>4 DEF Keeps
  <2>7. \/ Light(x)
        \/ /\ \A i \in 1 .. Len(x.runtime) : x.runtime[i].attempts < MaxRetries
           /\ \A v \in Services : Loaded(x, v) <= 2 * ServiceDepth[v]
    <3>1. CASE k = 0
      <4>1. \A i \in 1 .. Len(s.runtime) : s.runtime[i].attempts < MaxRetries
        BY SurfaceAssumption DEF Rested
      <4> QED BY <2>4, <3>1, <4>1
    <3>2. CASE k # 0
      BY <2>3, <3>2
    <3> QED BY <3>1, <3>2
  <2>8. SameGivenUp(x, y) /\ Light(y)
    BY <2>2, <2>3, <2>5, <2>7, PassGivesUp
  <2>9. SameGivenUp(s, y)
    BY <2>3, <2>8 DEF SameGivenUp
  <2> QED BY <2>1, <2>6, <2>8, <2>9 DEF y
<1> HIDE DEF K
<1>5. \A k \in 0 .. n : k \in K
  BY <1>2, <1>3, <1>4, UpTo
<1> DEFINE x == f[n]
           t == flush_services(x)
<1>6. x \in Surface /\ SameGivenUp(s, x)
  BY <1>1, <1>2, <1>5 DEF K
<1>7. Flushed(s) = t
  BY <1>1 DEF Flushed
<1> HIDE DEF x
<1>8. SameEvents(x, t)
  BY <1>6, FlushIs
<1> HIDE DEF t
<1>9. SameGivenUp(s, t)
  BY <1>6, <1>8 DEF SameGivenUp, SameEvents
<1> QED BY <1>7, <1>9

\* Between the operations no completion of a command that was given up waits
\* in a service, and no entry of the runtime queue has been tried.
Calm(s) == Quiet(s) /\ Rested(s)

\* The operations keep it so.
LEMMA CalmSteps ==
  ASSUME NEW s \in Surface, Calm(s)
  PROVE  /\ \A t : t.service = s.service /\ t.runtime = s.runtime => Calm(t)
         /\ \A t : t.service = NoService /\ t.runtime = <<>> => Calm(t)
         /\ \A g \in Guests : \A m, n, t : Rings(s, g, m, n, t) => Calm(t)
         /\ \A r \in Entry : \A t : Completed(s, r, t) => Calm(t)
<1>1. ASSUME NEW t, t.service = s.service, t.runtime = s.runtime PROVE Calm(t)
  BY <1>1 DEF Calm, Quiet, Rested
<1>2. ASSUME NEW t, t.service = NoService, t.runtime = <<>> PROVE Calm(t)
  <2>1. \A v \in Services : Len(t.service[v]) = 0
    BY <1>2 DEF NoService
  <2>2. Len(t.runtime) = 0
    BY <1>2
  <2> QED BY <2>1, <2>2 DEF Calm, Quiet, Rested
<1>3. ASSUME NEW g \in Guests, NEW m, NEW n, NEW t, Rings(s, g, m, n, t) PROVE Calm(t)
  <2> DEFINE q == s.cmdq[g]
             a == s.runtime
             e == Fresh(q, n)
  <2>1. q \in Seq(Command) /\ Len(q) \in Nat /\ a \in Seq(Entry) /\ Len(a) \in Nat
    BY SurfaceFields, LenProperties
  <2>2. m \in 0 .. Len(q) /\ n \in 0 .. m /\ t.service = s.service /\ t.runtime = a \o e
    BY <1>3 DEF Rings
  <2>3. n \in 0 .. Len(q)
    BY <2>1, <2>2
  <2>4. e \in Seq(Entry) /\ Len(e) = n /\ \A i \in 1 .. n : e[i].attempts = 0
    <3>1. e \in Seq(Entry) /\ Len(e) = n
      <4> HIDE DEF q
      <4> QED BY <2>1, <2>3, FreshIs
    <3> QED BY <3>1 DEF Fresh
  <2>5. \A i \in 1 .. Len(a) : a[i].attempts = 0
    BY DEF Calm, Rested
  <2> HIDE DEF a, e
  <2>6. /\ Len(a \o e) = Len(a) + Len(e)
        /\ \A i \in 1 .. Len(a) + Len(e) : (a \o e)[i] = IF i <= Len(a) THEN a[i] ELSE e[i - Len(a)]
    BY <2>1, <2>4, ConcatProperties
  <2>7. ASSUME NEW i \in 1 .. Len(a \o e) PROVE (a \o e)[i].attempts = 0
    <3>1. CASE i <= Len(a)
      BY <2>1, <2>4, <2>5, <2>6, <3>1
    <3>2. CASE ~(i <= Len(a))
      <4>1. i - Len(a) \in 1 .. n /\ (a \o e)[i] = e[i - Len(a)]
        BY <2>1, <2>3, <2>4, <2>6, <3>2
      <4> QED BY <2>4, <4>1
    <3> QED BY <3>1, <3>2
  <2> QED BY <2>2, <2>7 DEF Calm, Quiet, Rested
<1>4. ASSUME NEW r \in Entry, NEW t, Completed(s, r, t) PROVE Calm(t)
  <2> DEFINE e == Event(r.cmd, DoneStatus(s, r.cmd))
  <2>1. /\ t.runtime = s.runtime
        /\ \A v \in Services : t.service[v] = IF v = ServiceOf(r.cmd.op)
                                              THEN Append(s.service[v], e) ELSE s.service[v]
    BY <1>4 DEF Completed
  <2>2. e \in EventType /\ e \notin GaveUp
    <3>1. e \in EventType
      BY EventIs DEF Entry, DoneStatus, StatusOf, Statuses
    <3>2. e.status # "Exhausted"
      BY DEF Event, DoneStatus, StatusOf
    <3> QED BY <3>1, <3>2 DEF GaveUp
  <2> HIDE DEF e
  <2>3. ASSUME NEW v \in Services, NEW i \in 1 .. Len(t.service[v])
        PROVE  t.service[v][i] \notin GaveUp
    <3> DEFINE a == s.service[v]
    <3>1. a \in Seq(EventType) /\ Len(a) \in Nat
      BY SurfaceFields, LenProperties
    <3>2. \A j \in 1 .. Len(a) : a[j] \notin GaveUp
      BY DEF Calm, Quiet
    <3>3. CASE t.service[v] = a
      BY <3>2, <3>3
    <3>4. CASE t.service[v] = Append(a, e)
      <4> HIDE DEF a
      <4>1. /\ Len(Append(a, e)) = Len(a) + 1 /\ Append(a, e)[Len(a) + 1] = e
            /\ \A j \in 1 .. Len(a) : Append(a, e)[j] = a[j]
        BY <2>2, <3>1, AppendProperties
      <4>2. i \in 1 .. Len(a) \/ i = Len(a) + 1
        BY <3>1, <3>4, <4>1
      <4> QED BY <2>2, <3>2, <3>4, <4>1, <4>2
    <3> QED BY <2>1, <3>3, <3>4
  <2> QED BY <2>1, <2>3 DEF Calm, Quiet, Rested
<1> QED BY <1>1, <1>2, <1>3, <1>4

\* Every step keeps it so.
LEMMA CalmNext == TypeOK /\ Calm(uapi) /\ [Next]_vars => Calm(uapi)'
<1> SUFFICES ASSUME TypeOK, Calm(uapi), [Next]_vars PROVE Calm(uapi')
  BY DEF Calm, Quiet, Rested
<1>1. log \in Seq(Command) /\ Between(uapi) /\ seen \in [Guests -> Seq(EventType)]
  BY TypeIs
<1>2. uapi \in Surface /\ uapi.failures = <<>>
  BY <1>1 DEF Between
<1>3. \A t : t.service = uapi.service /\ t.runtime = uapi.runtime => Calm(t)
  BY <1>2, CalmSteps
<1>4. ASSUME NEW g \in Guests, NEW op \in Ops, NEW key \in Keys, EnqueueCmd(g, op, key)
      PROVE  Calm(uapi')
  <2>1. PICK c \in Command : uapi' = enqueue_cmd(uapi, g, c)
    BY <1>1, <1>4, ActionsAre
  <2> DEFINE t == enqueue_cmd(uapi, g, c)
  <2>2. t.service = uapi.service /\ t.runtime = uapi.runtime
    BY <1>2, EnqueueCmdIs
  <2> HIDE DEF t
  <2>3. Calm(t)
    BY <1>3, <2>2
  <2> QED BY <2>1, <2>3 DEF t
<1>5. ASSUME NEW op \in Ops, NEW key \in Keys, SubmitDirect(op, key)
      PROVE  Calm(uapi')
  <2>1. PICK c \in Command : /\ c.op # "BadIo" /\ ~ServiceFull(uapi, c)
                             /\ uapi' = submit_descriptor_to_cq(uapi, c)
    BY <1>1, <1>5, ActionsAre
  <2> DEFINE t == submit_descriptor_to_cq(uapi, c)
             r == [cmd |-> c, attempts |-> 0]
  <2>2. r \in Entry /\ Completed(uapi, r, t)
    BY <1>2, <2>1, SubmitCompletes
  <2> HIDE DEF t, r
  <2>3. Calm(t)
    BY <1>2, <2>2, CalmSteps
  <2> QED BY <2>1, <2>3 DEF t
<1>6. ASSUME NEW g \in Guests, NEW batch \in Batches, RingDoorbell(g, batch)
      PROVE  Calm(uapi')
  <2>1. PICK m, n : Rings(uapi, g, m, n, uapi')
    BY <1>1, <1>6, ActionsAre
  <2> QED BY <1>2, <2>1, CalmSteps
<1> DEFINE s == Flushed(uapi)
<1>7. s.runtime = <<>> /\ s.service = NoService
  BY <1>1, BetweenSteps
<1> HIDE DEF s
<1>8. ASSUME NEW g \in Guests, NEW batch \in Batches, PollCq(g, batch)
      PROVE  Calm(uapi')
  <2>1. PICK n : Takes(s, g, n, uapi')
    BY <1>1, <1>8, ActionsAre DEF s
  <2>2. uapi'.service = NoService /\ uapi'.runtime = <<>>
    BY <1>7, <2>1 DEF Takes
  <2> QED BY <1>2, <2>2, CalmSteps
<1>9. ASSUME NEW key \in Keys, CreateSegment(key)
      PROVE  Calm(uapi')
  <2> DEFINE t == [uapi EXCEPT !.store["shmem"] = @ \cup {key}]
  <2>1. t.service = uapi.service /\ t.runtime = uapi.runtime
    BY <1>2, CreateIs
  <2>2. uapi' = t
    BY <1>9 DEF CreateSegment
  <2> HIDE DEF t
  <2> QED BY <1>3, <2>1, <2>2
<1>10. CASE PollRefused
  <2>1. uapi' = s
    BY <1>10 DEF PollRefused, s
  <2>2. Calm(s)
    BY <1>2, <1>7, CalmSteps
  <2> QED BY <2>1, <2>2
<1>11. CASE UNCHANGED vars
  BY <1>11 DEF vars
<1> QED BY <1>4, <1>5, <1>6, <1>8, <1>9, <1>10, <1>11 DEF Next

\* So it is always.
LEMMA CalmHolds == Spec => []Calm(uapi)
<1>1. Init => Calm(uapi)
  <2> SUFFICES ASSUME Init PROVE Calm(uapi)
    OBVIOUS
  <2>1. Len(uapi.runtime) = 0 /\ \A v \in Services : Len(uapi.service[v]) = 0
    BY DEF Init, EmptySurface
  <2> QED BY <2>1 DEF Calm, Quiet, Rested
<1> QED BY <1>1, TypeCorrect, CalmNext, PTL DEF Spec

GaveUpId(id) == {e \in GaveUp : e.id = id}

\* The commands of log L that were given up, wherever their completion is.
AllGivenUp(s, S, L) ==
  {id \in 1 .. Len(L) :
     \E g \in Guests : Settled(s, g, GaveUpId(id)) + HitsIn(S[g], GaveUpId(id)) >= 1}

\* On a quiet surface they are in the completion queues.
LEMMA ExhaustedIs == TypeOK /\ Quiet(uapi) => Exhausted = AllGivenUp(uapi, seen, log)
<1> SUFFICES ASSUME TypeOK, Quiet(uapi) PROVE Exhausted = AllGivenUp(uapi, seen, log)
  OBVIOUS
<1>1. Between(uapi) /\ seen \in [Guests -> Seq(EventType)]
  BY TypeIs
<1>2. uapi \in Surface /\ uapi.failures = <<>>
  BY <1>1 DEF Between
<1>3. ASSUME NEW g \in Guests, NEW id
      PROVE  (\E i \in DOMAIN (uapi.cq[g] \o seen[g]) :
                LET e == (uapi.cq[g] \o seen[g])[i] IN e.id = id /\ e.status = "Exhausted")
               <=> Settled(uapi, g, GaveUpId(id)) + HitsIn(seen[g], GaveUpId(id)) >= 1
  <2> DEFINE T == GaveUpId(id)
             q == uapi.cq[g]
             p == seen[g]
             r == q \o p
  <2>1. q \in Seq(EventType) /\ p \in Seq(EventType)
    BY <1>1, <1>2, SurfaceFields
  <2>2. HitsIn(r, T) = HitsIn(q, T) + HitsIn(p, T) /\ r \in Seq(EventType)
    <3> HIDE DEF q, p, T
    <3> QED BY <2>1, HitsConcat, ConcatProperties
  <2>3. Settled(uapi, g, T) = HitsIn(q, T)
    <3>1. HitsIn(uapi.failures, Of(g, T)) = 0
      BY <1>2, HitsEmpty
    <3>2. ASSUME NEW v \in Services PROVE HitsIn(uapi.service[v], Of(g, T)) = 0
      <4> DEFINE a == uapi.service[v]
                 O == Of(g, T)
      <4>1. a \in Seq(EventType)
        BY <1>2, SurfaceFields
      <4>2. \A i \in 1 .. Len(a) : a[i] \notin O
        BY DEF Quiet, Of, GaveUpId
      <4> HIDE DEF a, O
      <4>3. HitsIn(a, O) = 0
        BY <4>1, <4>2, HitsNone
      <4> QED BY <4>3 DEF a, O
    <3>3. HitsIn(q, T) \in Nat
      <4> HIDE DEF q, T
      <4> QED BY <2>1, HitsType
    <3>4. /\ HitsIn(uapi.service["block"], Of(g, T)) = 0
          /\ HitsIn(uapi.service["shmem"], Of(g, T)) = 0
          /\ HitsIn(uapi.service["dfs"], Of(g, T)) = 0
          /\ HitsIn(uapi.service["db"], Of(g, T)) = 0
      BY <3>2 DEF Services
    <3> HIDE DEF T
    <3> QED BY <3>1, <3>3, <3>4 DEF Settled
  <2>4. \A i \in DOMAIN r : (r[i].id = id /\ r[i].status = "Exhausted") <=> r[i] \in T
    <3>1. \A i \in DOMAIN r : r[i] \in EventType
      <4> HIDE DEF r
      <4> QED BY <2>2, LenProperties, ElementOfSeq
    <3> HIDE DEF r
    <3> QED BY <3>1 DEF GaveUpId, GaveUp
  <2> HIDE DEF r, T
  <2>5. DOMAIN r = 1 .. Len(r)
    BY <2>2, LenProperties
  <2>6. (\E i \in DOMAIN r : r[i] \in T) <=> HitsIn(r, T) >= 1
    BY <2>2, <2>5, HitsNone
  <2>7. (\E i \in DOMAIN r : r[i].id = id /\ r[i].status = "Exhausted") <=> HitsIn(r, T) >= 1
    BY <2>4, <2>6
  <2> QED BY <2>2, <2>3, <2>7 DEF r, T
<1> DEFINE P(g, id) == \E i \in DOMAIN (uapi.cq[g] \o seen[g]) :
                          LET e == (uapi.cq[g] \o seen[g])[i]
                          IN  e.id = id /\ e.status = "Exhausted"
           Q(g, id) == Settled(uapi, g, GaveUpId(id)) + HitsIn(seen[g], GaveUpId(id)) >= 1
<1>4. \A g \in Guests : \A id : P(g, id) <=> Q(g, id)
  BY <1>3, Zenon
<1>5. /\ Exhausted = {id \in 1 .. Len(log) : \E g \in Guests : P(g, id)}
      /\ AllGivenUp(uapi, seen, log) = {id \in 1 .. Len(log) : \E g \in Guests : Q(g, id)}
  BY Zenon DEF Exhausted, AllGivenUp
<1> HIDE DEF P, Q
<1> QED BY <1>4, <1>5

\* A step that gives no command up and issues at most one.
LEMMA AllGivenUpStays ==
  ASSUME NEW s \in Surface, NEW t \in Surface, NEW S \in [Guests -> Seq(EventType)],
         NEW L \in Seq(Command), SameGivenUp(s, t)
  PROVE  /\ AllGivenUp(t, S, L) = AllGivenUp(s, S, L)
         /\ \A c, M : Grown(L, c, M) /\ Ledger(s, S, L)
                        => AllGivenUp(t, S, M) = AllGivenUp(s, S, L)
<1>1. \A id : GaveUpId(id) \subseteq GaveUp
  BY DEF GaveUpId
<1>2. \A id : \A g \in Guests : Settled(t, g, GaveUpId(id)) = Settled(s, g, GaveUpId(id))
  BY <1>1 DEF SameGivenUp
<1>3. AllGivenUp(t, S, L) = AllGivenUp(s, S, L)
  BY <1>2 DEF AllGivenUp
<1>4. ASSUME NEW c, NEW M, Grown(L, c, M), Ledger(s, S, L)
      PROVE  AllGivenUp(t, S, M) = AllGivenUp(s, S, L)
  <2>1. /\ c.id \notin 1 .. Len(L)
        /\ \A i \in 1 .. Len(L) : i \in 1 .. Len(M)
        /\ \A i \in 1 .. Len(M) : i \in 1 .. Len(L) \/ i = c.id
    BY <1>4 DEF Grown
  <2>2. ASSUME NEW g \in Guests
        PROVE  ~(Settled(s, g, GaveUpId(c.id)) + HitsIn(S[g], GaveUpId(c.id)) >= 1)
    <3> DEFINE T == GaveUpId(c.id)
               U == IdEvents(c.id)
               a == Settled(s, g, T)
               b == HitsIn(S[g], T)
    <3>1. T \subseteq U
      BY DEF GaveUpId, GaveUp, IdEvents
    <3>2. Settled(s, g, U) = 0 /\ HitsIn(S[g], U) = 0
      BY <1>4, <2>1, NewIsNowhere
    <3> HIDE DEF T, U
    <3>3. a <= Settled(s, g, U) /\ a \in Nat
      BY <3>1, SettledSubset, SettledType
    <3>4. S[g] \in Seq(EventType)
      OBVIOUS
    <3>5. b <= HitsIn(S[g], U) /\ b \in Nat
      BY <3>1, <3>4, HitsSubset, HitsType
    <3>6. a = 0 /\ b = 0
      <4> HIDE DEF a, b
      <4> QED BY <3>2, <3>3, <3>5
    <3> QED BY <3>6 DEF T
  <2>3. c.id \notin AllGivenUp(t, S, M)
    BY <1>2, <2>2 DEF AllGivenUp
  <2>4. \A id \in 1 .. Len(L) : id \in AllGivenUp(t, S, M) <=> id \in AllGivenUp(s, S, L)
    BY <1>2, <2>1 DEF AllGivenUp
  <2>5. /\ \A id \in AllGivenUp(t, S, M) : id \in 1 .. Len(M)
        /\ \A id \in AllGivenUp(s, S, L) : id \in 1 .. Len(L)
    BY DEF AllGivenUp
  <2> QED BY <2>1, <2>3, <2>4, <2>5
<1> QED BY <1>3, <1>4

\* Guest g has received the first n completions of its queue.
Receives(s, S, g, n, U) == U = [S EXCEPT ![g] = @ \o SubSeq(s.cq[g], 1, n)]

\* A guest that takes completions changes nothing either.
LEMMA AllGivenUpTake ==
  ASSUME NEW s \in Surface, NEW S \in [Guests -> Seq(EventType)], NEW L \in Seq(Command),
         NEW g \in Guests, NEW n, NEW t, Takes(s, g, n, t),
         NEW U, Receives(s, S, g, n, U)
  PROVE  AllGivenUp(t, U, L) = AllGivenUp(s, S, L)
<1> DEFINE q == s.cq[g]
           p == SubSeq(q, 1, n)
<1>1. q \in Seq(EventType) /\ n \in 0 .. Len(q) /\ t \in Surface
  BY SurfaceFields DEF Takes
<1>2. p \in Seq(EventType)
  BY <1>1, HitsSplit
<1>3. ASSUME NEW h \in Guests, NEW T
      PROVE  Settled(t, h, T) + HitsIn(U[h], T) = Settled(s, h, T) + HitsIn(S[h], T)
  <2> DEFINE a == Settled(t, h, T)
             b == HitsIn(S[h], T)
             c == HitsIn(p, T)
  <2>1. Settled(s, h, T) = a + (IF h = g THEN c ELSE 0)
    BY TakeMoves
  <2>2. S[h] \in Seq(EventType)
    OBVIOUS
  <2> HIDE DEF p
  <2>3. a \in Nat /\ b \in Nat /\ c \in Nat
    BY <1>1, <1>2, <2>2, SettledType, HitsType
  <2>4. HitsIn(U[h], T) = b + (IF h = g THEN c ELSE 0)
    <3>1. CASE h = g
      <4>1. U[h] = S[h] \o p
        BY <3>1 DEF Receives, p
      <4>2. HitsIn(S[h] \o p, T) = b + c
        BY <1>2, <2>2, HitsConcat
      <4> QED BY <3>1, <4>1, <4>2
    <3>2. CASE h # g
      <4>1. U[h] = S[h]
        BY <3>2 DEF Receives
      <4> QED BY <2>3, <3>2, <4>1
    <3> QED BY <3>1, <3>2
  <2> HIDE DEF a, b, c
  <2> QED BY <2>1, <2>3, <2>4 DEF a, b
<1> QED BY <1>3 DEF AllGivenUp

\* No command is given up while no service has a load of more than twice its
\* depth, however the load is spread over doorbells, direct submissions and
\* guests: the first pass gives a full service its depth, the flush between
\* the refusal and the retry empties it, and the second pass does the rest.
THEOREM RetryCovers == Spec => RetryCoversTwiceDepth
<1>1. ASSUME TypeOK, TypeOK', Ledger(uapi, seen, log), Calm(uapi), Calm(uapi)', [Next]_vars,
             MaxRetries >= 1, \A v \in Services : Load(v) <= 2 * ServiceDepth[v]
      PROVE  Exhausted' = Exhausted
  <2>1. log \in Seq(Command) /\ Between(uapi) /\ seen \in [Guests -> Seq(EventType)]
    BY <1>1, TypeIs
  <2>2. uapi \in Surface /\ uapi.failures = <<>> /\ Shallow(uapi)
    BY <2>1 DEF Between
  <2>3. Exhausted = AllGivenUp(uapi, seen, log)
    BY <1>1, ExhaustedIs DEF Calm
  <2>4. Exhausted' = AllGivenUp(uapi', seen', log')
    <3>2. (TypeOK /\ Quiet(uapi) => Exhausted = AllGivenUp(uapi, seen, log))'
      BY ExhaustedIs, PTL
    <3>3. Quiet(uapi)'
      BY <1>1 DEF Calm
    <3>4. (Exhausted = AllGivenUp(uapi, seen, log))'
      BY <1>1, <3>2, <3>3
    <3> QED BY <3>4 DEF AllGivenUp, Settled
  <2> SUFFICES AllGivenUp(uapi', seen', log') = AllGivenUp(uapi, seen, log)
    BY <2>3, <2>4
  <2>5. ASSUME NEW v \in Services PROVE Loaded(uapi, v) = Load(v)
    <3> DEFINE q == uapi.runtime
    <3>1. q \in Seq(Entry)
      BY <2>2, SurfaceFields
    <3>2. \A i \in DOMAIN q : q[i] \in Entry
      BY <3>1, LenProperties, ElementOfSeq
    <3>3. {i \in DOMAIN q : q[i] \in ForService(v)}
            = {i \in DOMAIN q : ServiceOf(q[i].cmd.op) = v}
      BY <3>2 DEF ForService
    <3> QED BY <3>3 DEF Loaded, Load, HitsIn
  <2>6. ASSUME NEW g \in Guests, NEW op \in Ops, NEW key \in Keys, EnqueueCmd(g, op, key)
        PROVE  AllGivenUp(uapi', seen', log') = AllGivenUp(uapi, seen, log)
    <3>1. PICK c \in Command :
            /\ c.id = Len(log) + 1 /\ log' = Append(log, c)
            /\ uapi' = enqueue_cmd(uapi, g, c) /\ seen' = seen
      BY <2>1, <2>6, ActionsAre
    <3> DEFINE M == Append(log, c)
               t == enqueue_cmd(uapi, g, c)
    <3>2. Grown(log, c, M)
      BY <2>1, <3>1, LogGrows
    <3>3. /\ t \in Surface /\ t.cq = uapi.cq /\ t.service = uapi.service
          /\ t.failures = uapi.failures
      BY <2>2, EnqueueCmdIs
    <3> HIDE DEF M, t
    <3>4. SameGivenUp(uapi, t)
      BY <3>3, SameEventsIs DEF SameEvents, SameGivenUp
    <3>5. AllGivenUp(t, seen, M) = AllGivenUp(uapi, seen, log)
      BY <1>1, <2>1, <2>2, <3>2, <3>3, <3>4, AllGivenUpStays
    <3> QED BY <3>1, <3>5 DEF M, t
  <2>7. ASSUME NEW op \in Ops, NEW key \in Keys, SubmitDirect(op, key)
        PROVE  AllGivenUp(uapi', seen', log') = AllGivenUp(uapi, seen, log)
    <3>1. PICK c \in Command :
            /\ c.id = Len(log) + 1 /\ c.op # "BadIo" /\ ~ServiceFull(uapi, c)
            /\ log' = Append(log, c) /\ uapi' = submit_descriptor_to_cq(uapi, c) /\ seen' = seen
      BY <2>1, <2>7, ActionsAre
    <3> DEFINE M == Append(log, c)
               t == submit_descriptor_to_cq(uapi, c)
               r == [cmd |-> c, attempts |-> 0]
    <3>2. Grown(log, c, M)
      BY <2>1, <3>1, LogGrows
    <3>3. r \in Entry /\ r.cmd = c /\ Frame(uapi, t) /\ Completed(uapi, r, t)
      BY <2>2, <3>1, SubmitCompletes
    <3> HIDE DEF M, t, r
    <3>4. t \in Surface /\ Outcome(uapi, r, t) /\ ~ServiceFull(uapi, r.cmd)
      BY <3>1, <3>3 DEF Frame, Outcome
    <3>5. SameGivenUp(uapi, t)
      BY <2>2, <3>3, <3>4, OutcomeGivesUp
    <3>6. AllGivenUp(t, seen, M) = AllGivenUp(uapi, seen, log)
      BY <1>1, <2>1, <2>2, <3>2, <3>4, <3>5, AllGivenUpStays
    <3> QED BY <3>1, <3>6 DEF M, t
  <2>8. ASSUME NEW t \in Surface, t.cq = uapi.cq, t.service = uapi.service,
               t.failures = uapi.failures
        PROVE  AllGivenUp(t, seen, log) = AllGivenUp(uapi, seen, log)
    <3>1. SameGivenUp(uapi, t)
      BY <2>8, SameEventsIs DEF SameEvents, SameGivenUp
    <3> QED BY <2>1, <2>2, <3>1, AllGivenUpStays
  <2>9. ASSUME NEW g \in Guests, NEW batch \in Batches, RingDoorbell(g, batch)
        PROVE  AllGivenUp(uapi', seen', log') = AllGivenUp(uapi, seen, log)
    <3>1. PICK m, n : Rings(uapi, g, m, n, uapi')
      BY <2>1, <2>9, ActionsAre
    <3>2. log' = log /\ seen' = seen
      BY <2>9 DEF RingDoorbell
    <3>3. /\ uapi' \in Surface /\ uapi'.cq = uapi.cq /\ uapi'.service = uapi.service
          /\ uapi'.failures = uapi.failures
      BY <3>1 DEF Rings
    <3> QED BY <2>8, <3>2, <3>3
  <2> DEFINE s == Flushed(uapi)
  <2>10. s \in Surface
    BY <2>1, BetweenSteps DEF Between
  <2>11. SameGivenUp(uapi, s)
    <3>1. Rested(uapi) /\ \A v \in Services : Loaded(uapi, v) <= 2 * ServiceDepth[v]
      BY <1>1, <2>5 DEF Calm
    <3> QED BY <1>1, <2>2, <3>1, FlushGivesUp
  <2> HIDE DEF s
  <2>12. AllGivenUp(s, seen, log) = AllGivenUp(uapi, seen, log)
    BY <2>1, <2>2, <2>10, <2>11, AllGivenUpStays
  <2>13. ASSUME NEW g \in Guests, NEW batch \in Batches, PollCq(g, batch)
         PROVE  AllGivenUp(uapi', seen', log') = AllGivenUp(uapi, seen, log)
    <3>1. log' = log
      BY <2>13 DEF PollCq
    <3>2. PICK n : /\ Takes(s, g, n, uapi')
                   /\ seen' = [seen EXCEPT ![g] = @ \o SubSeq(s.cq[g], 1, n)]
      BY <2>1, <2>13, ActionsAre DEF s
    <3>3. Takes(s, g, n, uapi') /\ Receives(s, seen, g, n, seen')
      BY <3>2 DEF Receives
    <3>4. AllGivenUp(uapi', seen', log) = AllGivenUp(s, seen, log)
      BY <2>1, <2>10, <3>3, AllGivenUpTake
    <3> QED BY <2>12, <3>1, <3>4
  <2>14. ASSUME NEW key \in Keys, CreateSegment(key)
         PROVE  AllGivenUp(uapi', seen', log') = AllGivenUp(uapi, seen, log)
    <3> DEFINE t == [uapi EXCEPT !.store["shmem"] = @ \cup {key}]
    <3>1. uapi' = t /\ log' = log /\ seen' = seen
      BY <2>14 DEF CreateSegment
    <3>2. t \in Surface /\ t.cq = uapi.cq /\ t.service = uapi.service /\ t.failures = uapi.failures
      BY <2>2, CreateIs
    <3> HIDE DEF t
    <3> QED BY <2>8, <3>1, <3>2
  <2>15. CASE PollRefused
    <3>1. uapi' = s /\ log' = log /\ seen' = seen
      BY <2>15 DEF PollRefused, s
    <3> QED BY <2>12, <3>1
  <2>16. CASE UNCHANGED vars
    BY <2>16 DEF vars
  <2> QED BY <1>1, <2>6, <2>7, <2>9, <2>13, <2>14, <2>15, <2>16 DEF Next
<1>2. /\ TypeOK /\ TypeOK' /\ Ledger(uapi, seen, log) /\ Calm(uapi) /\ Calm(uapi)' /\ [Next]_vars
      => [MaxRetries >= 1 /\ (\A v \in Services : Load(v) <= 2 * ServiceDepth[v])
            => Exhausted' = Exhausted]_vars
  BY <1>1
<1> QED BY <1>2, LedgerHolds, CalmHolds, PTL DEF Spec, RetryCoversTwiceDepth

-----------------------------------------------------------------------------
(* In order: sequences of commands *)

\* All entries of a runtime queue are of guest g.
AllOf(q, g) == \A i \in 1 .. Len(q) : q[i].cmd.guest = g

\* The numbers of the commands that completions and entries are for.
Ids(q) == [i \in DOMAIN q |-> q[i].id]

RunIds(q) == [i \in DOMAIN q |-> q[i].cmd.id]

\* Commands a and b of log L go the same way.
Alike(L, a, b) == a # 0 /\ b # 0 /\ Channel(L[a].op) = Channel(L[b].op)

\* Commands in A are older than those in B that go the same way, and those in
\* the sequence q than the later ones.
Lead(L, A, B) == \A a \in A : \A b \in B : Alike(L, a, b) => a < b

Rising(L, q) ==
  \A i \in DOMAIN q : \A j \in DOMAIN q : i < j /\ Alike(L, q[i], q[j]) => q[i] < q[j]

\* The numbers of a sequence of completions.
LEMMA IdsAre ==
  ASSUME NEW q \in Seq(EventType)
  PROVE  /\ Ids(q) \in Seq(1 .. MaxCmds) /\ Len(Ids(q)) = Len(q)
         /\ \A i \in 1 .. Len(q) : Ids(q)[i] = q[i].id /\ q[i].id \in 1 .. MaxCmds
<1>1. Len(q) \in Nat /\ DOMAIN q = 1 .. Len(q) /\ \A i \in 1 .. Len(q) : q[i] \in EventType
  BY LenProperties, ElementOfSeq
<1>3. \A i \in 1 .. Len(q) : q[i].id \in 1 .. MaxCmds
  BY <1>1 DEF EventType
<1>2. Ids(q) = [i \in 1 .. Len(q) |-> q[i].id]
  BY <1>1 DEF Ids
<1> QED BY <1>1, <1>2, <1>3

\* The numbers of a runtime queue.
LEMMA RunIdsAre ==
  ASSUME NEW q \in Seq(Entry)
  PROVE  /\ RunIds(q) \in Seq(1 .. MaxCmds) /\ Len(RunIds(q)) = Len(q)
         /\ \A i \in 1 .. Len(q) : RunIds(q)[i] = q[i].cmd.id /\ q[i].cmd.id \in 1 .. MaxCmds
<1>1. Len(q) \in Nat /\ DOMAIN q = 1 .. Len(q) /\ \A i \in 1 .. Len(q) : q[i] \in Entry
  BY LenProperties, ElementOfSeq
<1>3. \A i \in 1 .. Len(q) : q[i].cmd.id \in 1 .. MaxCmds
  BY <1>1 DEF Entry, Command
<1>2. RunIds(q) = [i \in 1 .. Len(q) |-> q[i].cmd.id]
  BY <1>1 DEF RunIds
<1> QED BY <1>1, <1>2, <1>3

\* Numbers of an appended sequence, and of a part of one.
LEMMA IdsAppend ==
  ASSUME NEW q \in Seq(EventType), NEW e \in EventType
  PROVE  Ids(Append(q, e)) = Append(Ids(q), e.id)
<1> DEFINE r == Append(q, e)
           n == Len(q)
           x == Append(Ids(q), e.id)
<1>1. /\ Ids(q) \in Seq(1 .. MaxCmds) /\ Len(Ids(q)) = n /\ n \in Nat
      /\ \A i \in 1 .. n : Ids(q)[i] = q[i].id
  BY IdsAre, LenProperties
<1>2. r \in Seq(EventType) /\ Len(r) = n + 1 /\ r[n + 1] = e /\ \A i \in 1 .. n : r[i] = q[i]
  BY AppendIs
<1>3. e.id \in 1 .. MaxCmds
  BY DEF EventType
<1>4. x \in Seq(1 .. MaxCmds) /\ Len(x) = n + 1 /\ x[n + 1] = e.id
      /\ \A i \in 1 .. n : x[i] = Ids(q)[i]
  BY <1>1, <1>3, AppendIs
<1> HIDE DEF r, x, n
<1>5. /\ Ids(r) \in Seq(1 .. MaxCmds) /\ Len(Ids(r)) = n + 1
      /\ \A i \in 1 .. n + 1 : Ids(r)[i] = r[i].id
  BY <1>2, IdsAre
<1>6. \A i \in 1 .. n + 1 : Ids(r)[i] = x[i]
  BY <1>1, <1>2, <1>4, <1>5
<1>7. Ids(r) = x
  BY <1>4, <1>5, <1>6, SeqEqual
<1> QED BY <1>7 DEF r, x

\* The numbers of completions, one sequence after the other.
LEMMA IdsConcat ==
  ASSUME NEW q \in Seq(EventType), NEW r \in Seq(EventType)
  PROVE  Ids(q \o r) = Ids(q) \o Ids(r)
<1> DEFINE c == q \o r
           x == Ids(q) \o Ids(r)
           m == Len(q)
           n == Len(r)
<1>1. /\ Ids(q) \in Seq(1 .. MaxCmds) /\ Len(Ids(q)) = m /\ m \in Nat
      /\ \A i \in 1 .. m : Ids(q)[i] = q[i].id
  BY IdsAre, LenProperties
<1>2. /\ Ids(r) \in Seq(1 .. MaxCmds) /\ Len(Ids(r)) = n /\ n \in Nat
      /\ \A i \in 1 .. n : Ids(r)[i] = r[i].id
  BY IdsAre, LenProperties
<1>3. /\ c \in Seq(EventType) /\ Len(c) = m + n
      /\ \A i \in 1 .. m + n : c[i] = IF i <= m THEN q[i] ELSE r[i - m]
  BY ConcatProperties
<1>4. /\ x \in Seq(1 .. MaxCmds) /\ Len(x) = m + n
      /\ \A i \in 1 .. m + n : x[i] = IF i <= m THEN Ids(q)[i] ELSE Ids(r)[i - m]
  <2> DEFINE a == Ids(q)
             b == Ids(r)
  <2>1. /\ a \in Seq(1 .. MaxCmds) /\ b \in Seq(1 .. MaxCmds) /\ Len(a) = m /\ Len(b) = n
    BY <1>1, <1>2
  <2> HIDE DEF a, b, m, n
  <2>2. /\ a \o b \in Seq(1 .. MaxCmds) /\ Len(a \o b) = Len(a) + Len(b)
        /\ \A i \in 1 .. Len(a) + Len(b) : (a \o b)[i] = IF i <= Len(a) THEN a[i] ELSE b[i - Len(a)]
    BY <2>1, ConcatProperties
  <2> QED BY <2>1, <2>2 DEF a, b
<1> HIDE DEF c, x, m, n
<1>5. /\ Ids(c) \in Seq(1 .. MaxCmds) /\ Len(Ids(c)) = m + n
      /\ \A i \in 1 .. m + n : Ids(c)[i] = c[i].id
  BY <1>3, IdsAre
<1>6. ASSUME NEW i \in 1 .. m + n PROVE Ids(c)[i] = x[i]
  <2>1. i <= m => i \in 1 .. m
    BY <1>1
  <2>2. ~(i <= m) => i - m \in 1 .. n
    BY <1>1, <1>2
  <2>3. Ids(c)[i] = c[i].id
    BY <1>5
  <2>4. CASE i <= m
    <3>1. c[i] = q[i] /\ x[i] = Ids(q)[i]
      BY <1>3, <1>4, <2>4
    <3> QED BY <1>1, <2>1, <2>3, <2>4, <3>1
  <2>5. CASE ~(i <= m)
    <3>1. c[i] = r[i - m] /\ x[i] = Ids(r)[i - m]
      BY <1>3, <1>4, <2>5
    <3> QED BY <1>2, <2>2, <2>3, <2>5, <3>1
  <2> QED BY <2>4, <2>5
<1>7. Ids(c) = x
  BY <1>4, <1>5, <1>6, SeqEqual
<1> QED BY <1>7 DEF c, x

-----------------------------------------------------------------------------
(* In order: concatenation *)

\* The elements of a concatenation.
LEMMA ConcatParts ==
  ASSUME NEW S, NEW x \in Seq(S), NEW y \in Seq(S)
  PROVE  /\ x \o y \in Seq(S) /\ Len(x) \in Nat /\ Len(y) \in Nat
         /\ DOMAIN x = 1 .. Len(x) /\ DOMAIN y = 1 .. Len(y)
         /\ DOMAIN (x \o y) = 1 .. Len(x) + Len(y)
         /\ \A i \in 1 .. Len(x) : i \in 1 .. Len(x) + Len(y) /\ (x \o y)[i] = x[i]
         /\ \A i \in 1 .. Len(y) : /\ Len(x) + i \in 1 .. Len(x) + Len(y)
                                   /\ (x \o y)[Len(x) + i] = y[i]
         /\ \A i \in 1 .. Len(x) + Len(y) :
              i \in 1 .. Len(x) \/ \E k \in 1 .. Len(y) : i = Len(x) + k
<1> DEFINE c == x \o y
           m == Len(x)
           n == Len(y)
<1>1. m \in Nat /\ n \in Nat /\ DOMAIN x = 1 .. m /\ DOMAIN y = 1 .. n
  BY LenProperties
<1>2. /\ c \in Seq(S) /\ Len(c) = m + n
      /\ \A i \in 1 .. m + n : c[i] = IF i <= m THEN x[i] ELSE y[i - m]
  BY ConcatProperties
<1>3. DOMAIN c = 1 .. m + n
  BY <1>2, LenProperties
<1> HIDE DEF c, m, n
<1>4. ASSUME NEW i \in 1 .. m PROVE i \in 1 .. m + n /\ c[i] = x[i]
  BY <1>1, <1>2
<1>5. ASSUME NEW i \in 1 .. n PROVE m + i \in 1 .. m + n /\ c[m + i] = y[i]
  <2>1. m + i \in 1 .. m + n /\ ~(m + i <= m) /\ (m + i) - m = i
    BY <1>1
  <2> QED BY <1>2, <2>1
<1>6. ASSUME NEW i \in 1 .. m + n PROVE i \in 1 .. m \/ \E k \in 1 .. n : i = m + k
  <2>1. i > m => i - m \in 1 .. n /\ i = m + (i - m)
    BY <1>1
  <2>2. i <= m => i \in 1 .. m
    BY <1>1
  <2> QED BY <1>1, <2>1, <2>2
<1> QED BY <1>1, <1>2, <1>3, <1>4, <1>5, <1>6 DEF c, m, n

\* A concatenation is in order if its parts are, and the first before the second.
LEMMA RisingConcat ==
  ASSUME NEW L, NEW S, NEW x \in Seq(S), NEW y \in Seq(S)
  PROVE  /\ Rising(L, x \o y) <=> Rising(L, x) /\ Rising(L, y) /\ Lead(L, Range(x), Range(y))
         /\ Range(x \o y) = Range(x) \cup Range(y)
<1> DEFINE c == x \o y
           m == Len(x)
           n == Len(y)
<1>1. /\ m \in Nat /\ n \in Nat
      /\ DOMAIN x = 1 .. m /\ DOMAIN y = 1 .. n /\ DOMAIN c = 1 .. m + n
      /\ \A i \in 1 .. m : i \in 1 .. m + n /\ c[i] = x[i]
      /\ \A i \in 1 .. n : m + i \in 1 .. m + n /\ c[m + i] = y[i]
      /\ \A i \in 1 .. m + n : i \in 1 .. m \/ \E k \in 1 .. n : i = m + k
  BY ConcatParts
<1>2. /\ Range(x) = {x[i] : i \in 1 .. m} /\ Range(y) = {y[i] : i \in 1 .. n}
      /\ Range(c) = {c[i] : i \in 1 .. m + n}
  BY <1>1 DEF Range
<1> HIDE DEF c, m, n
<1>3. Range(c) = Range(x) \cup Range(y)
  <2>1. ASSUME NEW a \in Range(c) PROVE a \in Range(x) \cup Range(y)
    <3>1. PICK i \in 1 .. m + n : a = c[i]
      BY <1>2
    <3>2. CASE i \in 1 .. m
      BY <1>1, <1>2, <3>1, <3>2
    <3>3. CASE \E k \in 1 .. n : i = m + k
      BY <1>1, <1>2, <3>1, <3>3
    <3> QED BY <1>1, <3>2, <3>3
  <2>2. Range(x) \subseteq Range(c)
    BY <1>1, <1>2
  <2>3. Range(y) \subseteq Range(c)
    BY <1>1, <1>2
  <2> QED BY <2>1, <2>2, <2>3
<1>4. ASSUME Rising(L, c) PROVE Rising(L, x) /\ Rising(L, y) /\ Lead(L, Range(x), Range(y))
  <2>1. \A i, j \in 1 .. m + n : i < j /\ Alike(L, c[i], c[j]) => c[i] < c[j]
    BY <1>1, <1>4 DEF Rising
  <2>2. ASSUME NEW i \in 1 .. m, NEW j \in 1 .. m, i < j, Alike(L, x[i], x[j])
        PROVE  x[i] < x[j]
    BY <1>1, <2>1, <2>2
  <2>3. ASSUME NEW i \in 1 .. n, NEW j \in 1 .. n, i < j, Alike(L, y[i], y[j])
        PROVE  y[i] < y[j]
    <3>1. m + i < m + j
      BY <1>1, <2>3
    <3> QED BY <1>1, <2>1, <2>3, <3>1
  <2>4. ASSUME NEW i \in 1 .. m, NEW j \in 1 .. n, Alike(L, x[i], y[j])
        PROVE  x[i] < y[j]
    <3>1. i < m + j
      BY <1>1
    <3> QED BY <1>1, <2>1, <2>4, <3>1
  <2>5. Rising(L, x) /\ Rising(L, y)
    BY <1>1, <2>2, <2>3 DEF Rising
  <2>6. Lead(L, Range(x), Range(y))
    BY <1>2, <2>4 DEF Lead
  <2> QED BY <2>5, <2>6
<1>5. ASSUME Rising(L, x), Rising(L, y), Lead(L, Range(x), Range(y)) PROVE Rising(L, c)
  <2> SUFFICES ASSUME NEW i \in 1 .. m + n, NEW j \in 1 .. m + n, i < j, Alike(L, c[i], c[j])
               PROVE  c[i] < c[j]
    BY <1>1 DEF Rising
  <2>1. CASE i \in 1 .. m /\ j \in 1 .. m
    BY <1>1, <1>5, <2>1 DEF Rising
  <2>2. CASE i \in 1 .. m /\ \E k \in 1 .. n : j = m + k
    <3>1. PICK k \in 1 .. n : j = m + k
      BY <2>2
    <3>2. c[i] = x[i] /\ c[j] = y[k] /\ x[i] \in Range(x) /\ y[k] \in Range(y)
      BY <1>1, <1>2, <2>2, <3>1
    <3> QED BY <1>5, <3>2 DEF Lead
  <2>3. CASE (\E k \in 1 .. n : i = m + k) /\ \E k \in 1 .. n : j = m + k
    <3>1. PICK k \in 1 .. n : i = m + k
      BY <2>3
    <3>2. PICK l \in 1 .. n : j = m + l
      BY <2>3
    <3>3. c[i] = y[k] /\ c[j] = y[l] /\ k < l
      BY <1>1, <3>1, <3>2
    <3> QED BY <1>1, <1>5, <3>3 DEF Rising
  <2>4. ~((\E k \in 1 .. n : i = m + k) /\ j \in 1 .. m)
    BY <1>1
  <2> QED BY <1>1, <2>1, <2>2, <2>3, <2>4
<1> QED BY <1>3, <1>4, <1>5 DEF c

\* What is put in the place of the middle part is in order if it is so itself
\* and has the same elements, or fewer.
LEMMA RisingMiddle ==
  ASSUME NEW L, NEW S, NEW x \in Seq(S), NEW y \in Seq(S), NEW z \in Seq(S), NEW w \in Seq(S),
         Rising(L, (x \o y) \o z), Rising(L, w), Range(w) \subseteq Range(y)
  PROVE  Rising(L, (x \o w) \o z)
<1> DEFINE a == x \o y
           b == x \o w
<1>1. a \in Seq(S) /\ b \in Seq(S)
  BY ConcatProperties
<1>2. /\ Rising(L, a) <=> Rising(L, x) /\ Rising(L, y) /\ Lead(L, Range(x), Range(y))
      /\ Range(a) = Range(x) \cup Range(y)
  BY RisingConcat
<1>3. /\ Rising(L, b) <=> Rising(L, x) /\ Rising(L, w) /\ Lead(L, Range(x), Range(w))
      /\ Range(b) = Range(x) \cup Range(w)
  BY RisingConcat
<1> HIDE DEF a, b
<1>4. Rising(L, a \o z) <=> Rising(L, a) /\ Rising(L, z) /\ Lead(L, Range(a), Range(z))
  BY <1>1, RisingConcat
<1>5. Rising(L, b \o z) <=> Rising(L, b) /\ Rising(L, z) /\ Lead(L, Range(b), Range(z))
  BY <1>1, RisingConcat
<1>6. Rising(L, a \o z)
  BY DEF a
<1>7. Lead(L, Range(x), Range(w)) /\ Lead(L, Range(b), Range(z))
  BY <1>2, <1>3, <1>4, <1>6 DEF Lead
<1>8. Rising(L, b \o z)
  BY <1>2, <1>3, <1>4, <1>5, <1>6, <1>7
<1> QED BY <1>8 DEF b

\* One more at the end.
LEMMA RisingAppend ==
  ASSUME NEW L, NEW S, NEW x \in Seq(S), NEW e \in S
  PROVE  /\ Range(Append(x, e)) = Range(x) \cup {e}
         /\ Rising(L, Append(x, e)) <=>
              Rising(L, x) /\ (\A a \in Range(x) : Alike(L, a, e) => a < e)
<1> DEFINE y == <<e>>
<1>1. y \in Seq(S) /\ Len(y) = 1 /\ DOMAIN y = 1 .. 1 /\ y[1] = e
  OBVIOUS
<1>2. Append(x, e) = x \o y
  <2> DEFINE a == Append(x, e)
             c == x \o y
             n == Len(x)
  <2>1. n \in Nat /\ Len(a) = n + 1 /\ a \in Seq(S) /\ a[n + 1] = e /\ \A i \in 1 .. n : a[i] = x[i]
    BY AppendIs, LenProperties
  <2> HIDE DEF y
  <2>2. /\ c \in Seq(S) /\ Len(c) = n + 1
        /\ \A i \in 1 .. n + 1 : c[i] = IF i <= n THEN x[i] ELSE y[i - n]
    BY <1>1, ConcatProperties
  <2> HIDE DEF a, c, n
  <2>4. ASSUME NEW i \in 1 .. n + 1 PROVE a[i] = c[i]
    <3>1. CASE i \in 1 .. n
      BY <2>1, <2>2, <3>1
    <3>2. CASE i = n + 1
      <4>1. ~(i <= n) /\ i - n = 1
        BY <2>1, <3>2
      <4> QED BY <1>1, <2>1, <2>2, <3>2, <4>1
    <3> QED BY <2>1, <3>1, <3>2
  <2>5. a = c
    BY <2>1, <2>2, <2>4, SeqEqual
  <2> QED BY <2>5 DEF a, c
<1>3. Range(y) = {e}
  BY <1>1 DEF Range
<1>4. Rising(L, y)
  BY <1>1 DEF Rising
<1> HIDE DEF y
<1>5. /\ Rising(L, x \o y) <=> Rising(L, x) /\ Rising(L, y) /\ Lead(L, Range(x), Range(y))
      /\ Range(x \o y) = Range(x) \cup Range(y)
  BY <1>1, RisingConcat, ZenonT(60)
<1>6. Lead(L, Range(x), {e}) <=> \A a \in Range(x) : Alike(L, a, e) => a < e
  BY DEF Lead
<1> QED BY <1>2, <1>3, <1>4, <1>5, <1>6

-----------------------------------------------------------------------------
(* In order: the flush of the surface *)

\* Completions of a guest go to its queue one after the other.
LEMMA RouteAppends ==
  ASSUME NEW s \in Surface, NEW g \in Guests, NEW events \in Seq(EventType),
         \A i \in 1 .. Len(events) : events[i].guest = g
  PROVE  route_completions(s, events).cq[g] = s.cq[g] \o events
<1> DEFINE n == Len(events)
           q == s.cq[g]
           w(k) == q \o SubSeq(events, 1, k)
<1>1. PICK f \in [0 .. n -> Surface] :
         /\ f[0] = s
         /\ \A k \in 1 .. n : f[k] = route_completion_to_cq(f[k - 1], events[k])
         /\ route_completions(s, events) = f[n]
  BY RouteLoop
<1>2. n \in Nat /\ q \in Seq(EventType) /\ \A k \in 1 .. n : events[k] \in EventType
  BY LenProperties, ElementOfSeq, SurfaceFields
<1> DEFINE T == {k \in 0 .. n : f[k].cq[g] = w(k)}
<1>3. 0 \in T
  <2>1. SubSeq(events, 1, 0) = <<>>
    BY SubSeqEmpty
  <2>2. q \o <<>> = q
    BY <1>2, ConcatEmptySeq
  <2> QED BY <1>1, <1>2, <2>1, <2>2
<1>4. ASSUME NEW k \in 0 .. n - 1, k \in T PROVE k + 1 \in T
  <2> DEFINE x == events[k + 1]
             p == SubSeq(events, 1, k)
             y == f[k]
             z == f[k + 1]
  <2>1. k + 1 \in 1 .. n /\ k + 1 \in 0 .. n /\ k \in 0 .. n /\ (k + 1) - 1 = k /\ 1 \in 1 .. n
    BY <1>2
  <2>2. x \in EventType /\ x.guest = g /\ y \in Surface
    BY <1>1, <1>2, <2>1
  <2>3. z = route_completion_to_cq(y, x)
    BY <1>1, <2>1
  <2>4. p \in Seq(EventType)
    BY <2>1, HitsSplit
  <2>5. SubSeq(events, 1, k + 1) = Append(p, x)
    <3> DEFINE i == k + 1
    <3>1. i \in 1 .. n /\ 1 \in 1 .. n /\ i - 1 = k
      BY <2>1
    <3> HIDE DEF i
    <3>2. SubSeq(events, 1, i) = SubSeq(events, 1, i - 1) \o <<events[i]>>
      BY <3>1, SubSeqRecursiveSecond
    <3>3. SubSeq(events, 1, i) = p \o <<x>>
      BY <3>1, <3>2 DEF i
    <3> HIDE DEF p, x
    <3> QED BY <2>2, <2>4, <3>3, AppendIsConcat DEF i
  <2>6. y.cq[g] = q \o p
    BY <1>4
  <2> HIDE DEF x, y, z
  <2>7. z.cq = [y.cq EXCEPT ![g] = Append(y.cq[g], x)] /\ y.cq \in [Guests -> Seq(EventType)]
    BY <2>2, <2>3, RouteIs, SurfaceFields, ZenonT(60)
  <2>8. z.cq[g] = Append(q \o p, x)
    BY <2>6, <2>7
  <2> HIDE DEF p, q
  <2>9. Append(q \o p, x) = q \o Append(p, x)
    <3>1. <<x>> \in Seq(EventType) /\ q \o p \in Seq(EventType)
      BY <1>2, <2>2, <2>4, ConcatProperties
    <3>2. Append(q \o p, x) = (q \o p) \o <<x>> /\ Append(p, x) = p \o <<x>>
      BY <2>2, <2>4, <3>1, AppendIsConcat
    <3>3. (q \o p) \o <<x>> = q \o (p \o <<x>>)
      BY <1>2, <2>4, <3>1, ConcatAssociative
    <3> QED BY <3>2, <3>3
  <2>10. z.cq[g] = w(k + 1)
    BY <2>5, <2>8, <2>9
  <2> QED BY <2>1, <2>10 DEF z
<1> HIDE DEF T
<1>5. \A k \in 0 .. n : k \in T
  BY <1>2, <1>3, <1>4, UpTo
<1>6. f[n].cq[g] = w(n)
  <2>1. n \in 0 .. n
    BY <1>2
  <2>2. n \in T
    BY <1>5, <2>1
  <2> QED BY <2>2 DEF T
<1>7. SubSeq(events, 1, n) = events
  BY SubSeqFull
<1> QED BY <1>1, <1>6, <1>7

\* A command that is neither refused nor put back is completed where its
\* operation leads.
Puts(s, r, t, e) ==
  LET p == Channel(r.cmd.op)
  IN  /\ e \in EventType /\ e.id = r.cmd.id /\ e.guest = r.cmd.guest
      /\ t \in Surface /\ t.runtime = s.runtime /\ t.refused = s.refused
      /\ t.failures = IF p = "failures" THEN Append(s.failures, e) ELSE s.failures
      /\ \A v \in Services :
           t.service[v] = IF p = v THEN Append(s.service[v], e) ELSE s.service[v]
      /\ t.cq = IF p = "none" THEN [s.cq EXCEPT ![e.guest] = Append(s.cq[e.guest], e)] ELSE s.cq

\* So does an entry of the runtime queue whose completion is not refused.
LEMMA EntryPuts ==
  ASSUME NEW s \in Surface, NEW r \in Entry, r.cmd.id \notin DriveEntry(s, r).refused
  PROVE  \E e : Puts(s, r, DriveEntry(s, r), e)
<1> DEFINE t == DriveEntry(s, r)
           c == r.cmd
           p == Channel(c.op)
           v == ServiceOf(c.op)
<1>1. c \in Command /\ c.op \in AllOps /\ c.guest \in Guests
  <2>1. c \in Command
    BY DEF Entry
  <2> QED BY <2>1, EventIs DEF Statuses
<1>2. CASE c.op = "BadIo"
  <2> DEFINE z == Failed(s, c, "Invalid")
             e == Event(c, "Invalid")
  <2>0. ~ServiceFull(s, c)
    BY <1>2 DEF ServiceFull, ServiceOf
  <2>1. t = z
    BY <1>2, <2>0 DEF DriveEntry
  <2>2. /\ z \in Surface /\ z.service = s.service /\ z.cq = s.cq
        /\ z.runtime = s.runtime /\ z.refused = s.refused
    BY <1>1, FailedIs DEF Statuses
  <2>3. z.failures = Append(s.failures, e)
    BY DEF Failed, Surface
  <2>4. e \in EventType /\ e.id = c.id /\ e.guest = c.guest
    BY <1>1, EventIs DEF Statuses
  <2>5. p = "failures" /\ p \notin Services
    BY <1>2 DEF Channel, Services
  <2> HIDE DEF z, e
  <2>6. Puts(s, r, z, e)
    BY <2>2, <2>3, <2>4, <2>5 DEF Puts
  <2> QED BY <2>1, <2>6
<1>3. CASE c.op # "BadIo" /\ ServiceFull(s, c)
  <2> DEFINE u == flush_services(s)
             w == Refused(u, r)
  <2>1. u \in Surface
    BY FlushIs
  <2> HIDE DEF u
  <2>2. w \in Surface /\ c.id \in w.refused
    BY <2>1, RefusedIs
  <2>3. t = IF r.attempts < MaxRetries THEN Retried(w, r) ELSE Failed(w, c, "Exhausted")
    BY <1>3 DEF DriveEntry, u
  <2> HIDE DEF w
  <2>4. CASE r.attempts < MaxRetries
    <3>1. Retried(w, r).refused = w.refused
      BY <2>2, <2>4, RetriedIs
    <3> QED BY <2>2, <2>3, <2>4, <3>1
  <2>5. CASE ~(r.attempts < MaxRetries)
    <3>1. "Exhausted" \in Statuses
      BY DEF Statuses
    <3>2. Failed(w, c, "Exhausted").refused = w.refused
      BY <1>1, <2>2, <3>1, FailedIs
    <3> QED BY <2>2, <2>3, <2>5, <3>2
  <2> QED BY <2>4, <2>5
<1>4. CASE c.op # "BadIo" /\ ~ServiceFull(s, c)
  <2> DEFINE z == submit_descriptor_to_cq(s, c)
             e == Event(c, DoneStatus(s, c))
  <2>1. t = z
    BY <1>4 DEF DriveEntry
  <2>2. /\ z \in Surface /\ z.runtime = s.runtime /\ z.failures = s.failures
        /\ z.refused = s.refused
        /\ \A x \in Services :
             z.service[x] = IF x = v THEN Append(s.service[x], e) ELSE s.service[x]
    BY <1>1, <1>4, SubmitIs
  <2>3. p = v /\ p # "failures"
    BY <1>4 DEF Channel, ServiceOf
  <2>4. DoneStatus(s, c) \in Statuses
    BY DEF DoneStatus, StatusOf, Statuses
  <2>5. e \in EventType /\ e.id = c.id /\ e.guest = c.guest
    BY <1>1, <2>4, EventIs
  <2>6. z.cq = IF p = "none" THEN [s.cq EXCEPT ![e.guest] = Append(s.cq[e.guest], e)] ELSE s.cq
    <3>1. CASE c.op \in {"Dispatch", "Remote"}
      <4>1. z = enqueue_to_cq(s, c.guest, e)
        BY <3>1 DEF submit_descriptor_to_cq, DoneStatus, StatusOf, Inserts, Lookups
      <4>2. p = "none"
        BY <1>1, <2>3, <3>1, ServiceOfIs
      <4>3. z = [s EXCEPT !.cq = [s.cq EXCEPT ![c.guest] = Append(s.cq[c.guest], e)]]
        BY <4>1 DEF enqueue_to_cq, Surface
      <4>4. z.cq = [s.cq EXCEPT ![c.guest] = Append(s.cq[c.guest], e)]
        BY <4>3 DEF Surface
      <4> QED BY <2>5, <4>2, <4>4
    <3>2. CASE c.op \notin {"Dispatch", "Remote"}
      <4>1. z = ServiceSubmit(s, c)
        BY <3>2 DEF submit_descriptor_to_cq
      <4>2. v # "none"
        BY <1>1, <1>4, <3>2, ServiceOfIs
      <4>3. v \in Services
        BY <4>2 DEF ServiceOf, Services
      <4>4. z.cq = s.cq
        BY <1>1, <4>1, <4>3, ServiceSubmitIs, ZenonT(60)
      <4> QED BY <2>3, <4>2, <4>4
    <3> QED BY <3>1, <3>2
  <2> HIDE DEF z, e
  <2>7. Puts(s, r, z, e)
    BY <2>2, <2>3, <2>5, <2>6 DEF Puts
  <2> QED BY <2>1, <2>7
<1> QED BY <1>2, <1>3, <1>4

\* Completions of guest g for commands of set A that go one of the ways P, in
\* order.
Lane(L, q, g, P, A) ==
  /\ q \in Seq(EventType)
  /\ \A i \in 1 .. Len(q) : q[i].guest = g /\ Channel(L[q[i].id].op) \in P
  /\ Rising(L, Ids(q))
  /\ Range(Ids(q)) \subseteq A

\* The newest of its way may follow.
Newest(L, A, id) == \A a \in A : Alike(L, a, id) => a < id

\* The newest of its way joins a lane.
LEMMA LaneAppend ==
  ASSUME NEW L, NEW q, NEW g, NEW P, NEW A, Lane(L, q, g, P, A), NEW e \in EventType,
         e.guest = g, Channel(L[e.id].op) \in P, Newest(L, A, e.id),
         NEW B, A \subseteq B, e.id \in B
  PROVE  Lane(L, Append(q, e), g, P, B)
<1> DEFINE r == Append(q, e)
           x == Ids(q)
           n == Len(q)
<1>1. q \in Seq(EventType) /\ n \in Nat /\ x \in Seq(1 .. MaxCmds) /\ e.id \in 1 .. MaxCmds
  BY IdsAre, LenProperties DEF Lane, EventType
<1>2. /\ r \in Seq(EventType) /\ Len(r) = n + 1 /\ r[n + 1] = e /\ \A i \in 1 .. n : r[i] = q[i]
  BY <1>1, AppendIs
<1>3. Ids(r) = Append(x, e.id)
  BY <1>1, IdsAppend
<1> HIDE DEF r, x, n
<1>4. /\ Range(Append(x, e.id)) = Range(x) \cup {e.id}
      /\ Rising(L, Append(x, e.id)) <=>
           Rising(L, x) /\ (\A a \in Range(x) : Alike(L, a, e.id) => a < e.id)
  BY <1>1, RisingAppend
<1>5. Rising(L, x) /\ Range(x) \subseteq A
  BY DEF Lane, x
<1>6. Rising(L, Ids(r)) /\ Range(Ids(r)) \subseteq B
  BY <1>3, <1>4, <1>5 DEF Newest
<1>7. ASSUME NEW i \in 1 .. n + 1 PROVE r[i].guest = g /\ Channel(L[r[i].id].op) \in P
  <2>1. CASE i \in 1 .. n
    BY <1>2, <2>1 DEF Lane, n
  <2>2. CASE i = n + 1
    BY <1>2, <2>2
  <2> QED BY <1>1, <2>1, <2>2
<1> QED BY <1>2, <1>6, <1>7 DEF Lane, r

\* There is a lane without completions.
LEMMA LaneEmpty == \A L, g, P, A : Lane(L, <<>>, g, P, A)
<1> SUFFICES ASSUME NEW L, NEW g, NEW P, NEW A PROVE Lane(L, <<>>, g, P, A)
  OBVIOUS
<1>1. <<>> \in Seq(EventType) /\ Len(<<>>) = 0 /\ DOMAIN Ids(<<>>) = {}
  BY DEF Ids
<1>2. Rising(L, Ids(<<>>)) /\ Range(Ids(<<>>)) = {}
  BY <1>1 DEF Rising, Range
<1> QED BY <1>1, <1>2 DEF Lane

\* A lane is one for more commands, too.
LEMMA LaneWider ==
  ASSUME NEW L, NEW q, NEW g, NEW P, NEW A, Lane(L, q, g, P, A), NEW B, A \subseteq B
  PROVE  Lane(L, q, g, P, B)
  BY DEF Lane

\* Lanes of different ways, one after the other.
LEMMA LaneConcat ==
  ASSUME NEW L, NEW q, NEW r, NEW g, NEW P, NEW Q, NEW A,
         Lane(L, q, g, P, A), Lane(L, r, g, Q, A), P \cap Q = {}
  PROVE  Lane(L, q \o r, g, P \cup Q, A)
<1> DEFINE c == q \o r
           x == Ids(q)
           y == Ids(r)
           m == Len(q)
           n == Len(r)
<1>1. /\ q \in Seq(EventType) /\ r \in Seq(EventType)
      /\ \A i \in 1 .. m : q[i].guest = g /\ Channel(L[q[i].id].op) \in P
      /\ \A i \in 1 .. n : r[i].guest = g /\ Channel(L[r[i].id].op) \in Q
      /\ Rising(L, x) /\ Rising(L, y) /\ Range(x) \subseteq A /\ Range(y) \subseteq A
  BY DEF Lane
<1>2. /\ x \in Seq(1 .. MaxCmds) /\ Len(x) = m /\ \A i \in 1 .. m : x[i] = q[i].id
      /\ y \in Seq(1 .. MaxCmds) /\ Len(y) = n /\ \A i \in 1 .. n : y[i] = r[i].id
  BY <1>1, IdsAre
<1>3. Ids(c) = x \o y
  BY <1>1, IdsConcat
<1>4. /\ c \in Seq(EventType) /\ Len(c) = m + n /\ m \in Nat /\ n \in Nat
      /\ \A i \in 1 .. m + n : c[i] = IF i <= m THEN q[i] ELSE r[i - m]
  BY <1>1, ConcatProperties, LenProperties
<1>5. DOMAIN x = 1 .. m /\ DOMAIN y = 1 .. n
  BY <1>2, LenProperties
<1> HIDE DEF c, x, y, m, n
<1>6. \A a \in Range(x) : Channel(L[a].op) \in P
  BY <1>1, <1>2, <1>5 DEF Range
<1>7. \A a \in Range(y) : Channel(L[a].op) \in Q
  BY <1>1, <1>2, <1>5 DEF Range
<1>8. Lead(L, Range(x), Range(y))
  BY <1>6, <1>7 DEF Lead, Alike
<1>9. /\ Rising(L, x \o y) <=> Rising(L, x) /\ Rising(L, y) /\ Lead(L, Range(x), Range(y))
      /\ Range(x \o y) = Range(x) \cup Range(y)
  <2> DEFINE S == 1 .. MaxCmds
  <2>1. x \in Seq(S) /\ y \in Seq(S)
    BY <1>2
  <2> HIDE DEF S
  <2>2. Rising(L, x \o y) <=> Rising(L, x) /\ Rising(L, y) /\ Lead(L, Range(x), Range(y))
    BY <2>1, RisingConcat
  <2>3. Range(x \o y) = Range(x) \cup Range(y)
    BY <2>1, RisingConcat, ZenonT(60)
  <2> QED BY <2>2, <2>3
<1>10. Rising(L, Ids(c)) /\ Range(Ids(c)) \subseteq A
  BY <1>1, <1>3, <1>8, <1>9
<1>11. ASSUME NEW i \in 1 .. m + n
       PROVE  c[i].guest = g /\ Channel(L[c[i].id].op) \in P \cup Q
  <2>1. CASE i <= m
    <3>1. i \in 1 .. m /\ c[i] = q[i]
      BY <1>4, <2>1
    <3> QED BY <1>1, <3>1
  <2>2. CASE ~(i <= m)
    <3>1. i - m \in 1 .. n /\ c[i] = r[i - m]
      BY <1>4, <2>2
    <3> QED BY <1>1, <3>1
  <2> QED BY <2>1, <2>2
<1> QED BY <1>4, <1>10, <1>11 DEF Lane, c

\* Surface t has come from b by completing the commands of set A, which are
\* those of guest g.
Streams(L, b, g, A, t) ==
  /\ t \in Surface
  /\ t.runtime = <<>>
  /\ \E d : t.cq[g] = b.cq[g] \o d /\ Lane(L, d, g, {"none"}, A)
  /\ Lane(L, t.failures, g, {"failures"}, A)
  /\ \A v \in Services : Lane(L, t.service[v], g, {v}, A)

\* One more is completed.
LEMMA StreamsPut ==
  ASSUME NEW L, NEW b \in Surface, NEW g \in Guests, NEW A, NEW s, Streams(L, b, g, A, s),
         NEW r \in Entry, r.cmd.guest = g, L[r.cmd.id] = r.cmd, NEW t, NEW e, Puts(s, r, t, e),
         Newest(L, A, r.cmd.id), NEW B, A \subseteq B, r.cmd.id \in B
  PROVE  Streams(L, b, g, B, t)
<1> DEFINE p == Channel(r.cmd.op)
<1>1. /\ e \in EventType /\ e.id = r.cmd.id /\ e.guest = g
      /\ t \in Surface /\ t.runtime = <<>>
      /\ t.failures = IF p = "failures" THEN Append(s.failures, e) ELSE s.failures
      /\ \A v \in Services :
           t.service[v] = IF p = v THEN Append(s.service[v], e) ELSE s.service[v]
      /\ t.cq = IF p = "none" THEN [s.cq EXCEPT ![e.guest] = Append(s.cq[e.guest], e)] ELSE s.cq
  BY DEF Puts, Streams
<1>2. Channel(L[e.id].op) = p /\ Newest(L, A, e.id) /\ e.id \in B
  BY <1>1
<1> HIDE DEF p
<1>3. Lane(L, t.failures, g, {"failures"}, B)
  <2>1. Lane(L, s.failures, g, {"failures"}, A)
    BY DEF Streams
  <2>2. CASE p = "failures"
    <3>1. Lane(L, Append(s.failures, e), g, {"failures"}, B)
      BY <1>1, <1>2, <2>1, <2>2, LaneAppend
    <3> QED BY <1>1, <2>2, <3>1
  <2>3. CASE p # "failures"
    BY <1>1, <2>1, <2>3, LaneWider
  <2> QED BY <2>2, <2>3
<1>4. ASSUME NEW v \in Services PROVE Lane(L, t.service[v], g, {v}, B)
  <2>1. Lane(L, s.service[v], g, {v}, A)
    BY DEF Streams
  <2>2. CASE p = v
    <3>1. Lane(L, Append(s.service[v], e), g, {v}, B)
      BY <1>1, <1>2, <2>1, <2>2, LaneAppend
    <3> QED BY <1>1, <2>2, <3>1
  <2>3. CASE p # v
    <3>1. t.service[v] = s.service[v]
      BY <1>1, <2>3
    <3> QED BY <2>1, <3>1, LaneWider
  <2> QED BY <2>2, <2>3
<1>5. \E d : t.cq[g] = b.cq[g] \o d /\ Lane(L, d, g, {"none"}, B)
  <2>1. PICK d : s.cq[g] = b.cq[g] \o d /\ Lane(L, d, g, {"none"}, A)
    BY DEF Streams
  <2>2. CASE p = "none"
    <3>1. s \in Surface /\ s.cq \in [Guests -> Seq(EventType)] /\ b.cq[g] \in Seq(EventType)
      BY SurfaceFields DEF Streams
    <3>2. t.cq[g] = Append(b.cq[g] \o d, e)
      BY <1>1, <2>1, <2>2, <3>1
    <3>3. Append(b.cq[g] \o d, e) = b.cq[g] \o Append(d, e)
      <4> DEFINE q == b.cq[g]
      <4>1. q \in Seq(EventType) /\ d \in Seq(EventType) /\ <<e>> \in Seq(EventType)
            /\ e \in EventType
        BY <1>1, <2>1, <3>1 DEF Lane
      <4> HIDE DEF q
      <4>2. q \o d \in Seq(EventType)
        BY <4>1, ConcatProperties
      <4>3. Append(q \o d, e) = (q \o d) \o <<e>> /\ Append(d, e) = d \o <<e>>
        BY <4>1, <4>2, AppendIsConcat
      <4>4. (q \o d) \o <<e>> = q \o (d \o <<e>>)
        BY <4>1, ConcatAssociative
      <4>5. Append(q \o d, e) = q \o Append(d, e)
        BY <4>3, <4>4
      <4> QED BY <4>5 DEF q
    <3>4. Lane(L, Append(d, e), g, {"none"}, B)
      BY <1>1, <1>2, <2>1, <2>2, LaneAppend
    <3> QED BY <3>2, <3>3, <3>4
  <2>3. CASE p # "none"
    <3>1. Lane(L, d, g, {"none"}, B)
      BY <2>1, LaneWider
    <3> QED BY <1>1, <2>1, <2>3, <3>1
  <2> QED BY <2>2, <2>3
<1> QED BY <1>1, <1>3, <1>4, <1>5 DEF Streams

\* The entries of a runtime queue are commands of the log.
Logged(L, q) == \A i \in 1 .. Len(q) : q[i].cmd.id \in 1 .. Len(L) /\ L[q[i].cmd.id] = q[i].cmd

\* The numbers of its first k entries.
First(q, k) == {q[i].cmd.id : i \in 1 .. k}

\* The next entry is the newest of its way.
LEMMA FirstIs ==
  ASSUME NEW L, NEW q \in Seq(Entry), Rising(L, RunIds(q)), NEW k \in 0 .. Len(q) - 1
  PROVE  /\ First(q, k) \subseteq First(q, k + 1) /\ q[k + 1].cmd.id \in First(q, k + 1)
         /\ Newest(L, First(q, k), q[k + 1].cmd.id)
<1> DEFINE n == Len(q)
           x == RunIds(q)
<1>1. n \in Nat /\ x \in Seq(1 .. MaxCmds) /\ Len(x) = n /\ \A i \in 1 .. n : x[i] = q[i].cmd.id
  BY RunIdsAre, LenProperties
<1>2. DOMAIN x = 1 .. n
  BY <1>1, LenProperties
<1> HIDE DEF x
<1>3. \A i, j \in 1 .. n : i < j /\ Alike(L, x[i], x[j]) => x[i] < x[j]
  BY <1>2 DEF Rising, x
<1>4. k + 1 \in 1 .. n /\ k + 1 \in 1 .. k + 1
  BY <1>1
<1>5. \A i \in 1 .. k : i \in 1 .. n /\ i \in 1 .. k + 1 /\ i < k + 1
  BY <1>1
<1> HIDE DEF n
<1>6. First(q, k) \subseteq First(q, k + 1) /\ q[k + 1].cmd.id \in First(q, k + 1)
  BY <1>4, <1>5 DEF First
<1>7. ASSUME NEW a \in First(q, k), Alike(L, a, q[k + 1].cmd.id) PROVE a < q[k + 1].cmd.id
  <2>1. PICK i \in 1 .. k : a = q[i].cmd.id
    BY DEF First
  <2>2. x[i] = a /\ x[k + 1] = q[k + 1].cmd.id
    BY <1>1, <1>4, <1>5, <2>1
  <2>3. i \in 1 .. n /\ i < k + 1
    BY <1>5
  <2> QED BY <1>3, <1>4, <1>7, <2>2, <2>3
<1> QED BY <1>6, <1>7 DEF Newest

\* Driving the entries of q, none of which is refused.
LEMMA DriveStreams ==
  ASSUME NEW L, NEW s \in Surface, s.runtime = <<>>, s.failures = <<>>, s.service = NoService,
         NEW g \in Guests, NEW q \in Seq(Entry), AllOf(q, g), Logged(L, q),
         Rising(L, RunIds(q)), DriveAll(s, q).refused = {}
  PROVE  Streams(L, s, g, First(q, Len(q)), DriveAll(s, q))
<1> DEFINE n == Len(q)
<1>1. PICK f : /\ Drives(s, q, f) /\ DriveAll(s, q) = f[n]
               /\ \A k \in 1 .. n : f[k] = DriveEntry(f[k - 1], q[k])
  BY DriveLoop
<1>2. /\ n \in Nat /\ f[0] = s /\ f[n] \in Surface
      /\ \A k \in 0 .. n - 1 :
           /\ k + 1 \in 1 .. n /\ k \in 0 .. n /\ k + 1 \in 0 .. n
           /\ f[k] \in Surface /\ f[k + 1] \in Surface /\ q[k + 1] \in Entry
           /\ Outcome(f[k], q[k + 1], f[k + 1])
  BY <1>1, DriveTurn
<1> DEFINE T == {k \in 0 .. n : f[k].refused = {} => Streams(L, s, g, First(q, k), f[k])}
<1>3. 0 \in T
  <2> DEFINE c == s.cq[g]
             A == First(q, 0)
  <2>1. c \in Seq(EventType)
    BY SurfaceFields
  <2> HIDE DEF c, A
  <2>2. c = c \o <<>>
    BY <2>1, ConcatEmptySeq
  <2>3. /\ Lane(L, <<>>, g, {"none"}, A) /\ Lane(L, s.failures, g, {"failures"}, A)
        /\ \A v \in Services : Lane(L, s.service[v], g, {v}, A)
    BY LaneEmpty DEF NoService
  <2>4. Streams(L, s, g, A, s)
    BY <2>2, <2>3 DEF Streams, c
  <2> QED BY <1>2, <2>4 DEF A
<1>4. ASSUME NEW k \in 0 .. n - 1, k \in T PROVE k + 1 \in T
  <2> DEFINE x == f[k]
             y == f[k + 1]
             r == q[k + 1]
             A == First(q, k)
             B == First(q, k + 1)
  <2>1. /\ k + 1 \in 1 .. n /\ k + 1 \in 0 .. n /\ x \in Surface /\ r \in Entry
        /\ Outcome(x, r, y)
    BY <1>2
  <2>2. y = DriveEntry(x, r)
    <3>1. (k + 1) - 1 = k
      OBVIOUS
    <3> QED BY <1>1, <2>1, <3>1
  <2>3. SUFFICES ASSUME y.refused = {} PROVE Streams(L, s, g, B, y)
    BY <2>1
  <2>4. x.refused = {}
    <3> HIDE DEF x, y, r
    <3>1. x.refused \subseteq y.refused
      BY <2>1, OutcomeIs
    <3> QED BY <2>3, <3>1
  <2>5. Streams(L, s, g, A, x)
    BY <1>4, <2>4
  <2>6. r.cmd.guest = g /\ L[r.cmd.id] = r.cmd
    BY <2>1 DEF AllOf, Logged
  <2>7. A \subseteq B /\ r.cmd.id \in B /\ Newest(L, A, r.cmd.id)
    BY FirstIs
  <2> HIDE DEF x, y, r, A, B
  <2>8. r.cmd.id \notin DriveEntry(x, r).refused
    BY <2>2, <2>3
  <2>9. PICK e : Puts(x, r, y, e)
    BY <2>1, <2>2, <2>8, EntryPuts
  <2> QED BY <2>1, <2>5, <2>6, <2>7, <2>9, StreamsPut
<1> HIDE DEF T
<1>5. \A k \in 0 .. n : k \in T
  BY <1>2, <1>3, <1>4, UpTo
<1>6. n \in T
  <2>1. n \in 0 .. n
    BY <1>2
  <2> QED BY <1>5, <2>1
<1> QED BY <1>1, <1>6 DEF T

\* The same once the failures are reported.
After(L, b, g, A, t) ==
  /\ t \in Surface
  /\ t.runtime = <<>>
  /\ t.failures = <<>>
  /\ \E d : t.cq[g] = b.cq[g] \o d /\ Lane(L, d, g, {"none", "failures"}, A)
  /\ \A v \in Services : Lane(L, t.service[v], g, {v}, A)

\* The first pass over the runtime queue.
LEMMA PassStreams ==
  ASSUME NEW L, NEW s \in Surface, s.failures = <<>>, s.service = NoService,
         NEW g \in Guests, AllOf(s.runtime, g), Logged(L, s.runtime),
         Rising(L, RunIds(s.runtime)), DriveReady(s).refused = {}
  PROVE  After(L, s, g, First(s.runtime, Len(s.runtime)), DriveReady(s))
<1> DEFINE b == [s EXCEPT !.runtime = <<>>]
           q == s.runtime
           t == DriveAll(b, q)
           u == [t EXCEPT !.failures = <<>>]
           z == route_completions(u, t.failures)
           A == First(q, Len(q))
<1>1. q \in Seq(Entry) /\ <<>> \in Seq(Entry)
  BY SurfaceFields
<1>2. /\ b \in Surface /\ b.runtime = <<>> /\ b.service = NoService
      /\ b.cq = s.cq /\ b.failures = <<>>
  BY <1>1 DEF Surface
<1>3. DriveReady(s) = z
  BY DEF DriveReady
<1> HIDE DEF b
<1>4. PICK f : Drives(b, q, f) /\ t = f[Len(q)]
  BY <1>1, <1>2, DriveLoop
<1>5. f[Len(q)] \in Surface
  BY <1>1, <1>2, <1>4, DriveTurn
<1>6. t \in Surface
  BY <1>4, <1>5
<1>7. /\ u \in Surface /\ u.failures = <<>> /\ u.service = t.service /\ u.cq = t.cq
      /\ u.runtime = t.runtime /\ u.refused = t.refused
  <2> HIDE DEF t
  <2>1. <<>> \in Seq(EventType)
    OBVIOUS
  <2> QED BY <1>6, <2>1 DEF Surface
<1>8. t.failures \in Seq(EventType)
  BY <1>6, SurfaceFields
<1> HIDE DEF u
<1>9. /\ z \in Surface /\ z.runtime = u.runtime /\ z.service = u.service
      /\ z.failures = u.failures /\ z.refused = u.refused
  BY <1>7, <1>8, RouteAllIs
<1>10. t.refused = {}
  BY <1>3, <1>7, <1>9
<1>11. Streams(L, b, g, A, t)
  BY <1>1, <1>2, <1>10, DriveStreams
<1> HIDE DEF q, t, A
<1>12. PICK d : t.cq[g] = b.cq[g] \o d /\ Lane(L, d, g, {"none"}, A)
  BY <1>11 DEF Streams
<1>13. Lane(L, t.failures, g, {"failures"}, A)
  BY <1>11 DEF Streams
<1>14. z.cq[g] = u.cq[g] \o t.failures
  <2>1. \A i \in 1 .. Len(t.failures) : t.failures[i].guest = g
    BY <1>13 DEF Lane
  <2> QED BY <1>7, <1>8, <2>1, RouteAppends
<1>15. z.cq[g] = s.cq[g] \o (d \o t.failures)
  <2> DEFINE c == s.cq[g]
             e == t.failures
  <2>1. c \in Seq(EventType) /\ d \in Seq(EventType) /\ e \in Seq(EventType)
    BY <1>8, <1>12, SurfaceFields DEF Lane
  <2>2. z.cq[g] = (c \o d) \o e
    BY <1>2, <1>7, <1>12, <1>14
  <2> HIDE DEF c, e, z
  <2>3. (c \o d) \o e = c \o (d \o e)
    BY <2>1, ConcatAssociative
  <2>4. z.cq[g] = c \o (d \o e)
    BY <2>2, <2>3
  <2> QED BY <2>4 DEF c, e
<1>16. Lane(L, d \o t.failures, g, {"none", "failures"}, A)
  <2>1. Lane(L, d \o t.failures, g, {"none"} \cup {"failures"}, A)
    <3>1. {"none"} \cap {"failures"} = {}
      OBVIOUS
    <3> QED BY <1>12, <1>13, <3>1, LaneConcat
  <2>2. {"none"} \cup {"failures"} = {"none", "failures"}
    OBVIOUS
  <2> QED BY <2>1, <2>2
<1>17. t.runtime = <<>> /\ \A v \in Services : Lane(L, t.service[v], g, {v}, A)
  BY <1>11 DEF Streams
<1> HIDE DEF z
<1>18. After(L, s, g, A, z)
  BY <1>7, <1>9, <1>15, <1>16, <1>17 DEF After
<1> QED BY <1>3, <1>18 DEF A, q

\* A pass over an empty runtime queue.
LEMMA PassIdle ==
  ASSUME NEW s \in Surface, s.failures = <<>>, s.runtime = <<>>, NEW g \in Guests
  PROVE  LET z == DriveReady(s)
         IN  /\ z \in Surface /\ z.runtime = <<>> /\ z.failures = <<>>
             /\ z.cq[g] = s.cq[g] /\ z.service = s.service /\ z.refused = s.refused
<1> DEFINE b == [s EXCEPT !.runtime = <<>>]
           E == <<>>
           t == DriveAll(b, E)
           u == [t EXCEPT !.failures = <<>>]
           z == route_completions(u, t.failures)
<1>1. E \in Seq(Entry) /\ E \in Seq(EventType) /\ Len(E) = 0
  OBVIOUS
<1>2. /\ b \in Surface /\ b.runtime = E /\ b.service = s.service
      /\ b.cq = s.cq /\ b.failures = E /\ b.refused = s.refused
  BY <1>1 DEF Surface
<1>3. DriveReady(s) = z
  BY DEF DriveReady
<1> HIDE DEF b
<1>4. PICK f : Drives(b, E, f) /\ t = f[Len(E)]
  BY <1>1, <1>2, DriveLoop
<1>5. t = b
  BY <1>1, <1>4 DEF Drives
<1> HIDE DEF t
<1>6. /\ u \in Surface /\ u.failures = E /\ u.service = b.service /\ u.cq = b.cq
      /\ u.runtime = E /\ u.refused = b.refused
  BY <1>1, <1>2, <1>5 DEF Surface
<1>7. t.failures = E
  BY <1>2, <1>5
<1> HIDE DEF u
<1>8. /\ z \in Surface /\ z.runtime = u.runtime /\ z.service = u.service
      /\ z.failures = u.failures /\ z.refused = u.refused
  BY <1>1, <1>6, <1>7, RouteAllIs
<1>9. z.cq[g] = u.cq[g] \o E
  <2>1. \A i \in 1 .. Len(E) : E[i].guest = g
    BY <1>1
  <2> HIDE DEF E
  <2>2. route_completions(u, E).cq[g] = u.cq[g] \o E
    BY <1>1, <1>6, <2>1, RouteAppends
  <2> QED BY <1>7, <2>2
<1>10. u.cq[g] \in Seq(EventType)
  BY <1>6, SurfaceFields
<1>11. z.cq[g] = u.cq[g]
  <2> DEFINE c == u.cq[g]
  <2> HIDE DEF c
  <2>1. c \o <<>> = c
    BY <1>10, ConcatEmptySeq DEF c
  <2> QED BY <1>9, <2>1 DEF c
<1> HIDE DEF z
<1> QED BY <1>2, <1>3, <1>6, <1>8, <1>11

\* flush_runtime, when it refuses nothing.
LEMMA RuntimeStreams ==
  ASSUME NEW L, NEW s \in Surface, s.failures = <<>>, s.service = NoService,
         NEW g \in Guests, AllOf(s.runtime, g), Logged(L, s.runtime),
         Rising(L, RunIds(s.runtime)), flush_runtime(s).refused = {}
  PROVE  After(L, s, g, First(s.runtime, Len(s.runtime)), flush_runtime(s))
<1> DEFINE n == MaxRetries + 1
           A == First(s.runtime, Len(s.runtime))
<1>1. PICK f \in [0 .. n -> Surface] :
           /\ f[0] = s
           /\ \A k \in 1 .. n : f[k] = DriveReady(f[k - 1])
           /\ flush_runtime(s) = f[n]
  BY FlushLoop
<1>2. n \in Nat /\ n >= 1 /\ 0 \in 0 .. n
  BY SurfaceAssumption
<1> DEFINE T == {k \in 0 .. n : k >= 1 /\ f[k].refused = {} => After(L, s, g, A, f[k])}
<1>3. 0 \in T
  BY <1>2
<1>4. ASSUME NEW k \in 0 .. n - 1, k \in T PROVE k + 1 \in T
  <2> DEFINE x == f[k]
             y == f[k + 1]
  <2>1. k \in Nat /\ k + 1 \in 0 .. n /\ k + 1 \in 1 .. n /\ k \in 0 .. n /\ (k + 1) - 1 = k
    BY <1>2
  <2>2. x \in Surface /\ y = DriveReady(x)
    BY <1>1, <2>1
  <2>3. SUFFICES ASSUME y.refused = {} PROVE After(L, s, g, A, y)
    BY <2>1
  <2>4. CASE k = 0
    <3>1. x = s
      BY <1>1, <2>4
    <3> HIDE DEF x, y, A
    <3> QED BY <2>2, <2>3, <3>1, PassStreams DEF A
  <2>5. CASE k >= 1
    <3>1. x.refused = {} => After(L, s, g, A, x)
      BY <1>4, <2>5
    <3> HIDE DEF x, y, A
    <3>2. PICK b, d : Pass(x, b, d, y)
      BY <2>2, DriveReadyIs
    <3>3. Keeps(x, y)
      <4>1. x.runtime \in Seq(Entry) /\ Len(x.runtime) \in Nat
        BY <2>2, SurfaceFields, LenProperties
      <4>2. \A i \in 1 .. Len(x.runtime) : x.runtime[i] \in Entry
        BY <4>1, ElementOfSeq
      <4>3. \A i \in 1 .. Len(x.runtime) : x.runtime[i].attempts >= 0
        BY <4>2 DEF Entry
      <4>4. 0 \in Nat
        OBVIOUS
      <4> QED BY <2>2, <3>2, <4>3, <4>4, PassKeeps
    <3>4. x.refused = {}
      BY <2>3, <3>3 DEF Keeps
    <3>5. After(L, s, g, A, x)
      BY <3>1, <3>4
    <3>6. x.runtime = <<>> /\ x.failures = <<>>
      BY <3>5 DEF After
    <3>7. /\ y \in Surface /\ y.runtime = <<>> /\ y.failures = <<>>
          /\ y.cq[g] = x.cq[g] /\ y.service = x.service
      BY <2>2, <3>6, PassIdle
    <3> QED BY <3>5, <3>7 DEF After
  <2> QED BY <2>1, <2>4, <2>5
<1> HIDE DEF T
<1>5. \A k \in 0 .. n : k \in T
  BY <1>2, <1>3, <1>4, UpTo
<1>6. n \in T
  <2>1. n \in 0 .. n
    BY <1>2
  <2> QED BY <1>5, <2>1
<1> QED BY <1>1, <1>2, <1>6 DEF T

\* A flush that refuses nothing puts completions behind those in the queue of
\* the guest, in order and for commands that were in the runtime queue.
Ordinary(L, s, g, t) ==
  \E d \in Seq(EventType) : /\ t.cq[g] = s.cq[g] \o d
                            /\ Rising(L, Ids(d))
                            /\ Range(Ids(d)) \subseteq Range(RunIds(s.runtime))

\* So does flush_runtime with flush_services after it.
LEMMA FlushStreams ==
  ASSUME NEW L, NEW s \in Surface, s.failures = <<>>, s.service = NoService,
         NEW g \in Guests, AllOf(s.runtime, g), Logged(L, s.runtime),
         Rising(L, RunIds(s.runtime)), Flushed(s).refused = {}
  PROVE  Ordinary(L, s, g, Flushed(s))
<1> DEFINE x == flush_runtime(s)
           t == flush_services(x)
           A == First(s.runtime, Len(s.runtime))
           u == [x EXCEPT !.service = NoService]
           b == x.service["block"]
           m == x.service["shmem"]
           o == x.service["dfs"]
           r == x.service["db"]
           w == ((b \o m) \o o) \o r
<1>1. Flushed(s) = t
  BY DEF Flushed
<1>2. x \in Surface
  BY FlushRuntimeIs DEF Keeps
<1>3. x.refused = {}
  <2> HIDE DEF x
  <2> QED BY <1>1, <1>2, FlushIs
<1>4. After(L, s, g, A, x)
  BY <1>3, RuntimeStreams
<1> HIDE DEF x, A
<1>5. PICK d : x.cq[g] = s.cq[g] \o d /\ Lane(L, d, g, {"none", "failures"}, A)
  BY <1>4 DEF After
<1>6. /\ Lane(L, b, g, {"block"}, A) /\ Lane(L, m, g, {"shmem"}, A)
      /\ Lane(L, o, g, {"dfs"}, A) /\ Lane(L, r, g, {"db"}, A)
  BY <1>4 DEF After, Services
<1>7. u \in Surface /\ u.cq = x.cq
  <2>1. NoService \in [Services -> Seq(EventType)]
    BY DEF NoService
  <2> QED BY <1>2, <2>1 DEF Surface
<1>8. t = route_completions(u, w)
  BY DEF flush_services, NoService
<1> HIDE DEF b, m, o, r, u, t
<1>9. Lane(L, b \o m, g, {"block", "shmem"}, A)
  <2>1. {"block"} \cap {"shmem"} = {} /\ {"block"} \cup {"shmem"} = {"block", "shmem"}
    OBVIOUS
  <2>2. Lane(L, b \o m, g, {"block"} \cup {"shmem"}, A)
    BY <1>6, <2>1, LaneConcat
  <2> QED BY <2>1, <2>2
<1>10. Lane(L, (b \o m) \o o, g, {"block", "shmem", "dfs"}, A)
  <2> DEFINE P == {"block", "shmem"}
  <2>1. P \cap {"dfs"} = {} /\ P \cup {"dfs"} = {"block", "shmem", "dfs"}
    OBVIOUS
  <2>2. Lane(L, (b \o m) \o o, g, P \cup {"dfs"}, A)
    <3> HIDE DEF P
    <3> QED BY <1>6, <1>9, <2>1, LaneConcat DEF P
  <2> QED BY <2>1, <2>2
<1>11. Lane(L, w, g, {"block", "shmem", "dfs", "db"}, A)
  <2> DEFINE P == {"block", "shmem", "dfs"}
  <2>1. P \cap {"db"} = {} /\ P \cup {"db"} = {"block", "shmem", "dfs", "db"}
    OBVIOUS
  <2>2. Lane(L, w, g, P \cup {"db"}, A)
    <3> HIDE DEF P
    <3> QED BY <1>6, <1>10, <2>1, LaneConcat DEF P
  <2> QED BY <2>1, <2>2
<1> HIDE DEF w
<1>12. \E P : Lane(L, d \o w, g, P, A)
  <2> DEFINE P == {"none", "failures"}
             Q == {"block", "shmem", "dfs", "db"}
  <2>1. P \cap Q = {}
    OBVIOUS
  <2> HIDE DEF P, Q
  <2>2. Lane(L, d \o w, g, P \cup Q, A)
    BY <1>5, <1>11, <2>1, LaneConcat DEF P, Q
  <2> QED BY <2>2
<1>13. t.cq[g] = u.cq[g] \o w
  <2>1. w \in Seq(EventType) /\ \A i \in 1 .. Len(w) : w[i].guest = g
    BY <1>11 DEF Lane
  <2> QED BY <1>7, <1>8, <2>1, RouteAppends
<1>14. t.cq[g] = s.cq[g] \o (d \o w)
  <2> DEFINE c == s.cq[g]
  <2>1. c \in Seq(EventType) /\ d \in Seq(EventType) /\ w \in Seq(EventType)
    BY <1>5, <1>11, SurfaceFields DEF Lane
  <2>2. t.cq[g] = (c \o d) \o w
    BY <1>5, <1>7, <1>13
  <2> HIDE DEF c
  <2>3. (c \o d) \o w = c \o (d \o w)
    BY <2>1, ConcatAssociative
  <2>4. t.cq[g] = c \o (d \o w)
    BY <2>2, <2>3
  <2> QED BY <2>4 DEF c
<1>15. A \subseteq Range(RunIds(s.runtime))
  <2> DEFINE q == s.runtime
             y == RunIds(q)
  <2>1. q \in Seq(Entry)
    BY SurfaceFields
  <2> HIDE DEF q
  <2>2. Len(y) = Len(q) /\ y \in Seq(1 .. MaxCmds) /\ \A i \in 1 .. Len(q) : y[i] = q[i].cmd.id
    BY <2>1, RunIdsAre
  <2>3. DOMAIN y = 1 .. Len(q)
    BY <2>2, LenProperties
  <2> HIDE DEF y
  <2>4. First(q, Len(q)) \subseteq Range(y)
    BY <2>2, <2>3 DEF First, Range
  <2> QED BY <2>4 DEF A, q, y
<1>16. d \o w \in Seq(EventType) /\ Rising(L, Ids(d \o w)) /\ Range(Ids(d \o w)) \subseteq A
  BY <1>12 DEF Lane
<1>17. Ordinary(L, s, g, t)
  BY <1>14, <1>15, <1>16 DEF Ordinary
<1> QED BY <1>1, <1>17

-----------------------------------------------------------------------------
(* In order: the way of a command *)

=============================================================================
