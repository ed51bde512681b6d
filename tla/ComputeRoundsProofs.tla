------------------------ MODULE ComputeRoundsProofs -------------------------
(***************************************************************************)
(* Proofs about RuntimeEngine for every capacity, retry budget, latency    *)
(* and timeout, every number of operations and every schedule of polls;    *)
(* then about ComputeRounds for every scenario: any number of rounds, any  *)
(* latencies and timeout, any retry budget and any capacity.               *)
(***************************************************************************)
EXTENDS ComputeRounds, FiniteSetTheorems, SequenceTheorems, TLAPS

-----------------------------------------------------------------------------
(***************************************************************************)
(* The engine.  The lemmas are about EngineStep, which allows a poll at any*)
(* later time, so that they hold in the composition with its caller too.   *)
(***************************************************************************)

\* A call of the engine: a submission, or a poll at any time not before now.
EngineStep ==
  \/ \E kind \in Kinds : Submit(kind)
  \/ \E t \in Nat : \E failing \in SUBSET Ops :
       t >= now /\ (advance_to(t, failing) \/ poll_completions(t, failing))

\* Operations are handed out in order; one not handed out has no history.
HandedOut ==
  \A id \in Ops :
    /\ inflight[id].state = "Unused" <=> id > next_op_id
    /\ inflight[id].state = "Unused" => accepted[id] = <<>>

\* The queue and `inflight` agree, without the singleton of records.
QueueAgrees ==
  /\ \A r \in pending : /\ inflight[r.op_id].state = "Queued"
                        /\ r.attempts = inflight[r.op_id].attempts
  /\ \A r1, r2 \in pending : r1.op_id = r2.op_id => r1 = r2
  /\ \A id \in Ops : inflight[id].state = "Queued" => \E r \in pending : r.op_id = id

\* What an operation in flight has used of its time budget.
BudgetRuns ==
  \A id \in Ops : inflight[id].state \in {"Queued", "Issued"} =>
    /\ inflight[id].attempts <= MaxRetries
    /\ inflight[id].submitted_at >= accepted[id][1] + inflight[id].attempts * Timeout
    /\ inflight[id].state = "Issued" =>
         inflight[id].timeout_at = inflight[id].submitted_at + Timeout

\* A completion that reports exhausted retries comes after the whole budget.
Spent(id, events) ==
  \A i \in 1 .. Len(events) : events[i].status = "TimeoutExhausted" =>
    events[i].finished_at >= accepted[id][1] + (MaxRetries + 1) * Timeout

BudgetInv ==
  /\ BudgetRuns
  /\ \A id \in Ops : Spent(id, completed[id]) /\ Spent(id, delivered[id])

\* The inductive invariant.
EngineInv ==
  /\ TypeOK
  /\ HandedOut
  /\ SlotsAccounted
  /\ OneCompletion
  /\ BudgetInv

-----------------------------------------------------------------------------

\* There are finitely many operations.
LEMMA OpsFinite == /\ IsFiniteSet(Ops)
                   /\ \A S \in SUBSET Ops : IsFiniteSet(S) /\ Cardinality(S) \in Nat
<1>1. IsFiniteSet(Ops)
  BY RuntimeAssumption, FS_Interval DEF Ops
<1>2. ASSUME NEW S \in SUBSET Ops PROVE IsFiniteSet(S) /\ Cardinality(S) \in Nat
  BY <1>1, FS_Subset, FS_CardinalityType
<1> QED BY <1>1, <1>2

\* The two forms of the agreement between queue and `inflight`.
LEMMA QueueForms ==
  TypeOK => (QueueMatchesInflight <=> QueueAgrees)
<1> SUFFICES ASSUME TypeOK PROVE QueueMatchesInflight <=> QueueAgrees
  OBVIOUS
<1> USE DEF TypeOK, QueueRecord
<1> DEFINE Of(id) == {r \in pending : r.op_id = id}
<1>1. ASSUME QueueMatchesInflight PROVE QueueAgrees
  <2>1. ASSUME NEW id \in Ops, inflight[id].state = "Queued"
        PROVE  \E r \in Of(id) : Of(id) = {r} /\ r.attempts = inflight[id].attempts
    BY <1>1, <2>1 DEF QueueMatchesInflight
  <2>2. ASSUME NEW id \in Ops, inflight[id].state # "Queued" PROVE Of(id) = {}
    BY <1>1, <2>2 DEF QueueMatchesInflight
  <2>3. ASSUME NEW r \in pending
        PROVE  /\ r.op_id \in Ops /\ inflight[r.op_id].state = "Queued"
               /\ r.attempts = inflight[r.op_id].attempts
               /\ Of(r.op_id) = {r}
    <3>1. r.op_id \in Ops /\ r \in Of(r.op_id)
      OBVIOUS
    <3> QED BY <3>1, <2>1, <2>2
  <2>4. ASSUME NEW r1 \in pending, NEW r2 \in pending, r1.op_id = r2.op_id PROVE r1 = r2
    <3>1. r2 \in Of(r1.op_id)
      BY <2>4
    <3> QED BY <2>3, <3>1
  <2>5. ASSUME NEW id \in Ops, inflight[id].state = "Queued"
        PROVE  \E r \in pending : r.op_id = id
    BY <2>1, <2>5
  <2> QED BY <2>3, <2>4, <2>5 DEF QueueAgrees
<1>2. ASSUME QueueAgrees PROVE QueueMatchesInflight
  <2>1. ASSUME NEW id \in Ops, inflight[id].state = "Queued"
        PROVE  \E r \in Of(id) : Of(id) = {r} /\ r.attempts = inflight[id].attempts
    <3>1. PICK r \in pending : r.op_id = id
      BY <1>2, <2>1 DEF QueueAgrees
    <3>2. Of(id) = {r} /\ r.attempts = inflight[id].attempts
      BY <1>2, <3>1 DEF QueueAgrees
    <3> QED BY <3>1, <3>2
  <2>2. ASSUME NEW id \in Ops, inflight[id].state # "Queued" PROVE Of(id) = {}
    BY <1>2, <2>2 DEF QueueAgrees
  <2> QED BY <2>1, <2>2 DEF QueueMatchesInflight
<1> QED BY <1>1, <1>2

\* A queue that agrees with `inflight` holds no more records than it.
LEMMA QueueIsBounded ==
  TypeOK /\ QueueAgrees =>
    Cardinality(pending) \in Nat /\ Cardinality(pending) <= Cardinality(Inflight)
<1> SUFFICES ASSUME TypeOK, QueueAgrees
             PROVE  Cardinality(pending) \in Nat /\ Cardinality(pending) <= Cardinality(Inflight)
  OBVIOUS
<1> DEFINE f == [r \in pending |-> r.op_id]
<1>1. f \in Injection(pending, Inflight)
  BY DEF Injection, IsInjective, QueueAgrees, Inflight, TypeOK, QueueRecord
<1>2. IsFiniteSet(Inflight)
  BY OpsFinite DEF Inflight
<1>3. IsFiniteSet(pending) /\ Cardinality(pending) <= Cardinality(Inflight)
  BY <1>1, <1>2, FS_Injection
<1> QED BY <1>3, FS_CardinalityType

\* Issue touches only Queued operations, and gives them their times.
LEMMA IssueFacts ==
  ASSUME TypeOK, NEW t \in Nat, NEW id \in Ops
  PROVE  LET op == inflight[id]
             is == Issue(t, id)
         IN  /\ is \in OpRecord
             /\ is.kind = op.kind
             /\ is.attempts = op.attempts
             /\ is.submitted_at = op.submitted_at
             /\ \/ is = op /\ ~(op.state = "Queued" /\ \E r \in ReadyRecords(t) : r.op_id = id)
                \/ /\ op.state = "Queued" /\ \E r \in ReadyRecords(t) : r.op_id = id
                   /\ is.state = "Issued"
                   /\ is.timeout_at = op.submitted_at + Timeout
<1> DEFINE op == inflight[id]
<1>1. op \in OpRecord /\ Latency(op.kind) \in Nat
  BY RuntimeAssumption DEF TypeOK, Latency
<1>2. CASE op.state = "Queued" /\ \E r \in ReadyRecords(t) : r.op_id = id
  <2> HIDE DEF op
  <2>1. Issue(t, id) = [op EXCEPT !.state = "Issued",
                                  !.ready_at = op.submitted_at + Latency(op.kind),
                                  !.timeout_at = op.submitted_at + Timeout]
    BY <1>2 DEF Issue, op
  <2>2. op.submitted_at + Latency(op.kind) \in Nat /\ op.submitted_at + Timeout \in Nat
    BY <1>1, RuntimeAssumption DEF OpRecord
  <2>3. /\ Issue(t, id) \in OpRecord
        /\ Issue(t, id).kind = op.kind
        /\ Issue(t, id).attempts = op.attempts
        /\ Issue(t, id).submitted_at = op.submitted_at
        /\ Issue(t, id).state = "Issued"
        /\ Issue(t, id).timeout_at = op.submitted_at + Timeout
    BY <1>1, <2>1, <2>2 DEF OpRecord
  <2> QED BY <1>2, <2>3 DEF op
<1>3. CASE ~(op.state = "Queued" /\ \E r \in ReadyRecords(t) : r.op_id = id)
  <2>1. Issue(t, id) = op
    BY <1>3 DEF Issue
  <2> QED BY <1>1, <1>3, <2>1
<1> QED BY <1>2, <1>3

\* The cases of the second loop of advance_to, for one operation.
LEMMA SettleFacts ==
  ASSUME TypeOK, NEW t \in Nat, NEW failing \in SUBSET Ops, NEW id \in Ops
  PROVE  LET is == Issue(t, id)
             s  == Settle(t, failing, id)
             n  == NewCompletions(t, failing, id)
         IN  \/ /\ is.state = "Issued" /\ s.state = "Completed" /\ Ready(t, is) /\ ~Retries(t, is)
                /\ n = <<[status |-> "Success", finished_at |-> is.ready_at]>>
                /\ s \in OpRecord
             \/ /\ is.state = "Issued" /\ s.state = "Failed" /\ Ready(t, is) /\ ~Retries(t, is)
                /\ n = <<[status |-> "Fatal", finished_at |-> t]>>
                /\ s \in OpRecord
             \/ /\ is.state = "Issued" /\ s.state = "Failed" /\ Exhausted(t, is)
                /\ ~Retries(t, is)
                /\ n = <<[status |-> "TimeoutExhausted", finished_at |-> t]>>
                /\ s \in OpRecord
             \/ /\ is.state = "Issued" /\ s.state = "Queued" /\ Retries(t, is)
                /\ s.submitted_at = t /\ s.attempts = is.attempts + 1
                /\ n = <<>>
                /\ s \in OpRecord
             \/ s = is /\ ~Ready(t, is) /\ ~Retries(t, is) /\ ~Exhausted(t, is) /\ n = <<>>
<1> DEFINE is == Issue(t, id)
<1>1. is \in OpRecord
  BY IssueFacts
<1> HIDE DEF is
<1>2. \/ Ready(t, is) /\ is.state = "Issued" /\ ~Retries(t, is) /\ ~Exhausted(t, is)
      \/ Retries(t, is) /\ is.state = "Issued" /\ ~Ready(t, is) /\ ~Exhausted(t, is)
      \/ Exhausted(t, is) /\ is.state = "Issued" /\ ~Ready(t, is) /\ ~Retries(t, is)
      \/ ~Ready(t, is) /\ ~Retries(t, is) /\ ~Exhausted(t, is)
  BY DEF Ready, Retries, Exhausted, TimedOut
<1>3. CASE Ready(t, is)
  <2>1. Settle(t, failing, id) =
          [is EXCEPT !.state = IF id \in failing THEN "Failed" ELSE "Completed"]
    BY <1>2, <1>3 DEF Settle, is
  <2>2. NewCompletions(t, failing, id) =
          IF id \in failing THEN <<[status |-> "Fatal", finished_at |-> t]>>
          ELSE <<[status |-> "Success", finished_at |-> is.ready_at]>>
    BY <1>2, <1>3 DEF NewCompletions, is
  <2>3. Settle(t, failing, id) \in OpRecord
    BY <1>1, <2>1 DEF OpRecord
  <2>4. Settle(t, failing, id).state = IF id \in failing THEN "Failed" ELSE "Completed"
    BY <1>1, <2>1 DEF OpRecord
  <2> QED BY <1>2, <1>3, <2>2, <2>3, <2>4 DEF is
<1>4. CASE Retries(t, is)
  <2>1. Settle(t, failing, id) =
          [is EXCEPT !.state = "Queued", !.submitted_at = t, !.ready_at = 0,
                     !.timeout_at = 0, !.attempts = is.attempts + 1]
    BY <1>2, <1>4 DEF Settle, is
  <2>2. NewCompletions(t, failing, id) = <<>>
    BY <1>2, <1>4 DEF NewCompletions, is
  <2>3. is.attempts + 1 \in Nat
    BY <1>1 DEF OpRecord
  <2>4. Settle(t, failing, id) \in OpRecord
    <3>1. Settle(t, failing, id) =
            [kind |-> is.kind, state |-> "Queued", submitted_at |-> t, ready_at |-> 0,
             timeout_at |-> 0, attempts |-> is.attempts + 1]
      BY <1>1, <2>1 DEF OpRecord
    <3> QED BY <1>1, <2>3, <3>1 DEF OpRecord
  <2>5. /\ Settle(t, failing, id).state = "Queued"
        /\ Settle(t, failing, id).submitted_at = t
        /\ Settle(t, failing, id).attempts = is.attempts + 1
    BY <1>1, <2>1 DEF OpRecord
  <2> QED BY <1>2, <1>4, <2>2, <2>4, <2>5 DEF is
<1>5. CASE Exhausted(t, is)
  BY <1>1, <1>2, <1>5 DEF Settle, NewCompletions, is, OpRecord
<1>6. CASE ~Ready(t, is) /\ ~Retries(t, is) /\ ~Exhausted(t, is)
  BY <1>6 DEF Settle, NewCompletions, is
<1> QED BY <1>2, <1>3, <1>4, <1>5, <1>6

\* The engine starts with EngineInv: no operation, no slot in use.
LEMMA InitEngineInv == Init => EngineInv
<1> SUFFICES ASSUME Init PROVE EngineInv
  OBVIOUS
<1> USE RuntimeAssumption DEF Init, Unused
<1>1. TypeOK
  BY DEF TypeOK, OpRecord, Kinds
<1>2. HandedOut
  BY DEF HandedOut, Ops
<1>3. SlotsAccounted
  <2>1. Inflight = {}
    BY DEF Inflight
  <2> QED
    BY <2>1, FS_EmptySet DEF SlotsAccounted, QueueMatchesInflight, WithinCapacity, NoHalfSubmission
<1>4. OneCompletion
  BY DEF OneCompletion
<1>5. BudgetInv
  BY DEF BudgetInv, BudgetRuns, Spent
<1> QED BY <1>1, <1>2, <1>3, <1>4, <1>5 DEF EngineInv

-----------------------------------------------------------------------------

\* The record submit_dispatch and submit_copy push into `inflight`.
NewRecord(kind) == [Unused EXCEPT !.kind = kind, !.state = "Queued", !.submitted_at = now]

\* The record of an operation that has just been submitted.
LEMMA NewRecordFacts ==
  ASSUME TypeOK, NEW kind \in Kinds
  PROVE  /\ NewRecord(kind) \in OpRecord
         /\ NewRecord(kind).state = "Queued"
         /\ NewRecord(kind).submitted_at = now
         /\ NewRecord(kind).attempts = 0
<1>1. Unused \in OpRecord /\ Unused.attempts = 0
  BY DEF Unused, OpRecord, Kinds
<1> QED BY <1>1 DEF NewRecord, OpRecord, TypeOK

\* A submission that passes ensure_capacity is never refused by the queue:
\* the record it has pushed into `inflight` gets its queue record.
LEMMA SubmitIsWhole ==
  ASSUME EngineInv, NEW kind \in Kinds, Submit(kind)
  PROVE  LET id == next_op_id + 1
         IN  /\ id \in Ops
             /\ next_op_id' = id
             /\ inflight[id].state = "Unused"
             /\ accepted[id] = <<>>
             /\ inflight' = [inflight EXCEPT ![id] = NewRecord(kind)]
             /\ pending' = pending \cup {[op_id |-> id, ready_at |-> now, attempts |-> 0]}
             /\ accepted' = [accepted EXCEPT ![id] = <<now>>]
<1> DEFINE id == next_op_id + 1
<1> USE RuntimeAssumption
<1>1. id \in Ops /\ inflight[id].state = "Unused" /\ accepted[id] = <<>>
  <2>1. next_op_id \in 0 .. MaxOps /\ next_op_id < MaxOps
    BY DEF EngineInv, TypeOK, Submit
  <2>2. id \in Ops /\ id > next_op_id
    BY <2>1 DEF Ops
  <2> HIDE DEF id
  <2> QED BY <2>2 DEF EngineInv, HandedOut
<1>2. QueueHasRoom
  <2>1. QueueAgrees
    BY QueueForms DEF EngineInv, SlotsAccounted
  <2>2. Cardinality(pending) \in Nat /\ Cardinality(pending) <= Cardinality(Inflight)
    BY <2>1, QueueIsBounded DEF EngineInv
  <2>3. Cardinality(Inflight) \in Nat
    BY OpsFinite DEF Inflight
  <2> QED BY <2>2, <2>3 DEF Submit, ensure_capacity, QueueHasRoom
<1>3. accepted' = [accepted EXCEPT ![id] = <<now>>]
  <2>1. accepted' = [accepted EXCEPT ![id] = Append(accepted[id], now)]
    BY <1>2 DEF Submit
  <2> QED BY <2>1, <1>1
<1>4. inflight' = [inflight EXCEPT ![id] = NewRecord(kind)]
  BY DEF Submit, NewRecord
<1>5. /\ next_op_id' = id
      /\ pending' = pending \cup {[op_id |-> id, ready_at |-> now, attempts |-> 0]}
  BY <1>2 DEF Submit
<1> QED
  BY <1>1, <1>3, <1>4, <1>5

\* Submitting an operation, accepted or not, keeps EngineInv.
LEMMA SubmitKeepsInv ==
  ASSUME EngineInv, NEW kind \in Kinds, Submit(kind) PROVE EngineInv'
<1> DEFINE id  == next_op_id + 1
           rec == NewRecord(kind)
           q   == [op_id |-> id, ready_at |-> now, attempts |-> 0]
<1>0. TypeOK /\ QueueAgrees /\ now \in Nat
  BY QueueForms DEF EngineInv, SlotsAccounted, TypeOK
<1>1. /\ id \in Ops /\ next_op_id' = id /\ inflight[id].state = "Unused"
      /\ accepted[id] = <<>>
      /\ inflight' = [inflight EXCEPT ![id] = rec]
      /\ pending' = pending \cup {q}
      /\ accepted' = [accepted EXCEPT ![id] = <<now>>]
  BY SubmitIsWhole
<1>2. UNCHANGED <<now, completed, delivered>>
  BY DEF Submit
<1>3. /\ rec \in OpRecord /\ rec.state = "Queued" /\ rec.submitted_at = now
      /\ rec.attempts = 0
      /\ q \in QueueRecord /\ <<now>> \in Seq(Nat)
  BY <1>0, <1>1, NewRecordFacts DEF QueueRecord
<1>4. id \in Nat /\ id \in 0 .. MaxOps /\ next_op_id \in Nat
  BY <1>0, <1>1, RuntimeAssumption DEF TypeOK, Ops
<1> HIDE DEF id
<1>5. TypeOK'
  BY <1>0, <1>1, <1>2, <1>3, <1>4 DEF TypeOK
<1>6. /\ inflight'[id] = rec /\ accepted'[id] = <<now>>
      /\ \A i \in Ops : i # id => inflight'[i] = inflight[i] /\ accepted'[i] = accepted[i]
  BY <1>0, <1>1 DEF TypeOK
<1>7. HandedOut'
  <2> SUFFICES ASSUME NEW i \in Ops
               PROVE  /\ inflight'[i].state = "Unused" <=> i > next_op_id'
                      /\ inflight'[i].state = "Unused" => accepted'[i] = <<>>
    BY DEF HandedOut
  <2>1. i \in Int /\ (inflight[i].state = "Unused" <=> i > next_op_id)
        /\ (inflight[i].state = "Unused" => accepted[i] = <<>>)
    BY DEF EngineInv, HandedOut, Ops
  <2>2. CASE i = id
    BY <1>1, <1>3, <1>4, <1>6, <2>2
  <2>3. CASE i # id
    BY <1>1, <1>4, <1>6, <2>1, <2>3 DEF id
  <2> QED BY <2>2, <2>3
<1>8. SlotsAccounted'
  <2>1. QueueAgrees'
    <3>1. \A r \in pending : r.op_id \in Ops /\ r.op_id # id
      BY <1>0, <1>1 DEF QueueAgrees, TypeOK, QueueRecord
    <3>2. \A r \in pending' : r \in pending \/ r = q
      BY <1>1
    <3>3. q.op_id = id /\ q.attempts = 0 /\ rec.state = "Queued" /\ rec.attempts = 0
      BY <1>3
    <3> HIDE DEF q, rec
    <3> QED BY <1>0, <1>1, <1>6, <3>1, <3>2, <3>3 DEF QueueAgrees
  <2>2. QueueMatchesInflight'
    BY <2>1, <1>5, QueueForms, PTL
  <2>3. WithinCapacity'
    <3>1. Inflight' = Inflight \cup {id} /\ id \notin Inflight
      BY <1>1, <1>3, <1>6 DEF Inflight
    <3>2. IsFiniteSet(Inflight) /\ Cardinality(Inflight) \in Nat
      BY OpsFinite DEF Inflight
    <3>3. Cardinality(Inflight') = Cardinality(Inflight) + 1
      BY <3>1, <3>2, FS_AddElement
    <3>4. Cardinality(Inflight)' <= MaxInflight
      BY <3>2, <3>3, RuntimeAssumption DEF Submit, ensure_capacity
    <3>5. (Cardinality(pending) \in Nat /\ Cardinality(pending) <= Cardinality(Inflight))'
      BY <2>1, <1>5, QueueIsBounded, PTL
    <3> QED BY <3>4, <3>5 DEF WithinCapacity
  <2>4. NoHalfSubmission'
    <3>1. Len(<<now>>) = 1
      OBVIOUS
    <3> QED BY <1>6, <3>1 DEF NoHalfSubmission, EngineInv, SlotsAccounted
  <2> QED BY <2>2, <2>3, <2>4 DEF SlotsAccounted
<1>9. OneCompletion'
  <2>1. rec.state = "Queued"
    BY <1>3
  <2>2. delivered[id] \o completed[id] = <<>>
    BY <1>1 DEF EngineInv, OneCompletion
  <2> HIDE DEF rec
  <2> SUFFICES ASSUME NEW i \in Ops
               PROVE  LET events == delivered[i] \o completed[i]
                      IN  CASE inflight'[i].state = "Completed" ->
                                 Len(events) = 1 /\ events[1].status = "Success"
                            [] inflight'[i].state = "Failed" ->
                                 Len(events) = 1 /\ events[1].status # "Success"
                            [] OTHER -> events = <<>>
    BY <1>2 DEF OneCompletion
  <2>3. CASE i = id
    BY <1>6, <2>1, <2>2, <2>3
  <2>4. CASE i # id
    BY <1>6, <2>4 DEF EngineInv, OneCompletion
  <2> QED BY <2>3, <2>4
<1>10. BudgetInv'
  <2>1. ASSUME NEW i \in Ops, i # id
        PROVE  /\ Spent(i, completed[i])' /\ Spent(i, delivered[i])'
    BY <1>2, <1>6, <2>1 DEF EngineInv, BudgetInv, Spent
  <2>2. ASSUME NEW i \in Ops, i = id
        PROVE  /\ Spent(i, completed[i])' /\ Spent(i, delivered[i])'
    <3>1. completed[i] = <<>> /\ delivered[i] = <<>>
      <4>1. delivered[i] \o completed[i] = <<>>
        BY <1>1, <2>2 DEF EngineInv, OneCompletion
      <4> QED BY <4>1, <1>0, ConcatEqualIffEmpty DEF TypeOK
    <3> QED BY <3>1, <1>2 DEF Spent
  <2>3. BudgetRuns'
    <3> SUFFICES ASSUME NEW i \in Ops, inflight'[i].state \in {"Queued", "Issued"}
                 PROVE  /\ inflight'[i].attempts <= MaxRetries
                        /\ inflight'[i].submitted_at
                             >= accepted'[i][1] + inflight'[i].attempts * Timeout
                        /\ inflight'[i].state = "Issued" =>
                             inflight'[i].timeout_at = inflight'[i].submitted_at + Timeout
      BY DEF BudgetRuns
    <3>1. CASE i = id
      BY <1>0, <1>3, <1>6, <3>1, RuntimeAssumption
    <3>2. CASE i # id
      BY <1>6, <3>2 DEF EngineInv, BudgetInv, BudgetRuns
    <3> QED BY <3>1, <3>2
  <2> QED BY <2>1, <2>2, <2>3 DEF BudgetInv
<1> QED BY <1>5, <1>7, <1>8, <1>9, <1>10 DEF EngineInv

-----------------------------------------------------------------------------

\* A poll keeps every operation that is not in flight as it is, and takes
\* none into flight.
LEMMA DriveFacts ==
  ASSUME TypeOK, NEW t \in Nat, NEW failing \in SUBSET Ops, Drive(t, failing), NEW id \in Ops
  PROVE  /\ inflight'[id] = Settle(t, failing, id)
         /\ inflight'[id] \in OpRecord
         /\ inflight[id].state \notin {"Queued", "Issued"} =>
              inflight'[id] = inflight[id] /\ NewCompletions(t, failing, id) = <<>>
         /\ inflight[id].state \in {"Queued", "Issued"} => inflight'[id].state # "Unused"
         /\ NewCompletions(t, failing, id) \in Seq(Completion)
<1> DEFINE is == Issue(t, id)
<1>1. inflight'[id] = Settle(t, failing, id)
  BY DEF Drive
<1>2. is \in OpRecord /\ inflight[id] \in OpRecord
  BY IssueFacts DEF TypeOK
<1>3. Settle(t, failing, id) \in OpRecord
  BY SettleFacts, <1>2
<1>4. inflight[id].state \notin {"Queued", "Issued"} =>
        Settle(t, failing, id) = inflight[id] /\ NewCompletions(t, failing, id) = <<>>
  BY SettleFacts, IssueFacts DEF Retries, TimedOut
<1>5. inflight[id].state \in {"Queued", "Issued"} => Settle(t, failing, id).state # "Unused"
  BY SettleFacts, IssueFacts
<1>6. NewCompletions(t, failing, id) \in Seq(Completion)
  <2>1. is.ready_at \in Nat
    BY <1>2 DEF OpRecord
  <2>2. \/ NewCompletions(t, failing, id) = <<>>
        \/ \E c \in Completion : NewCompletions(t, failing, id) = <<c>>
    BY SettleFacts, <2>1 DEF Completion
  <2>3. ASSUME NEW c \in Completion PROVE <<c>> \in Seq(Completion)
    OBVIOUS
  <2> QED BY <2>2, <2>3, EmptySeq
<1> QED BY <1>1, <1>3, <1>4, <1>5, <1>6

\* The types, the order of hand-outs and the slots survive a poll.
LEMMA DriveKeepsSlots ==
  ASSUME TypeOK, HandedOut, SlotsAccounted,
         NEW t \in Nat, NEW failing \in SUBSET Ops, Drive(t, failing)
  PROVE  /\ now' \in Nat /\ next_op_id' \in 0 .. MaxOps
         /\ inflight' \in [Ops -> OpRecord]
         /\ pending' \subseteq QueueRecord
         /\ accepted' = accepted
         /\ HandedOut'
         /\ QueueAgrees'
         /\ Cardinality(Inflight') \in Nat /\ Cardinality(Inflight') <= MaxInflight
         /\ NoHalfSubmission'
<1>1. now' = t /\ UNCHANGED <<next_op_id, accepted>>
  BY DEF Drive
<1>2. inflight' \in [Ops -> OpRecord]
  BY DriveFacts DEF Drive
<1>3. \A id \in Ops : inflight'[id].state = "Unused" <=> inflight[id].state = "Unused"
  BY DriveFacts
<1>4. pending' \subseteq QueueRecord
  <2>1. ASSUME NEW id \in Ops PROVE inflight[id].attempts + 1 \in Nat
    BY DEF TypeOK, OpRecord
  <2>2. RetryRecords(t) \subseteq QueueRecord
    BY <2>1 DEF RetryRecords, QueueRecord
  <2> QED BY <2>2 DEF Drive, TypeOK
<1>5. HandedOut'
  BY <1>1, <1>3 DEF HandedOut
<1>6. QueueAgrees'
  <2>1. QueueAgrees
    BY QueueForms DEF SlotsAccounted
  <2>2. \A r \in pending : r.op_id \in Ops
    BY DEF TypeOK, QueueRecord
  <2>3. ASSUME NEW r \in RetryRecords(t)
        PROVE  /\ r.op_id \in Ops
               /\ Retries(t, Issue(t, r.op_id))
               /\ r.attempts = inflight[r.op_id].attempts + 1
               /\ \A q \in RetryRecords(t) : q.op_id = r.op_id => q = r
    BY DEF RetryRecords
  <2>4. ASSUME NEW id \in Ops, Retries(t, Issue(t, id))
        PROVE  /\ inflight'[id].state = "Queued"
               /\ inflight'[id].attempts = inflight[id].attempts + 1
               /\ \A r \in pending : r.op_id = id => r \in ReadyRecords(t)
               /\ \E r \in RetryRecords(t) : r.op_id = id
    <3>1. Issue(t, id).state = "Issued"
      BY <2>4 DEF Retries, TimedOut
    <3>2. inflight'[id].state = "Queued" /\ inflight'[id].attempts = inflight[id].attempts + 1
      <4>1. inflight'[id] = Settle(t, failing, id)
        BY DriveFacts
      <4>2. Issue(t, id).attempts = inflight[id].attempts
        BY IssueFacts
      <4>3. /\ Settle(t, failing, id).state = "Queued"
            /\ Settle(t, failing, id).attempts = Issue(t, id).attempts + 1
        BY <2>4, <3>1, SettleFacts
      <4> QED BY <4>1, <4>2, <4>3
    <3>3. \A r \in pending : r.op_id = id => r \in ReadyRecords(t)
      <4> SUFFICES ASSUME NEW r \in pending, r.op_id = id PROVE r \in ReadyRecords(t)
        OBVIOUS
      <4>1. inflight[id].state = "Queued"
        BY <2>1 DEF QueueAgrees
      <4>2. \E q \in ReadyRecords(t) : q.op_id = id
        BY <3>1, <4>1, IssueFacts
      <4> QED BY <2>1, <4>2 DEF QueueAgrees, ReadyRecords
    <3>4. \E r \in RetryRecords(t) : r.op_id = id
      <4> DEFINE q == [op_id |-> id, ready_at |-> t, attempts |-> inflight[id].attempts + 1]
      <4>1. q \in RetryRecords(t)
        BY <2>4 DEF RetryRecords
      <4>2. q.op_id = id
        OBVIOUS
      <4> QED BY <4>1, <4>2
    <3> QED BY <3>2, <3>3, <3>4
  <2>5. ASSUME NEW id \in Ops, ~Retries(t, Issue(t, id)), inflight'[id].state = "Queued"
        PROVE  inflight'[id] = inflight[id] /\ inflight[id].state = "Queued"
    <3>1. inflight'[id] = Settle(t, failing, id)
      BY DriveFacts
    <3>2. Settle(t, failing, id) = Issue(t, id)
      BY <2>5, <3>1, SettleFacts
    <3>3. Issue(t, id).state = "Queued"
      BY <2>5, <3>1, <3>2
    <3>4. Issue(t, id) = inflight[id]
      BY <3>3, IssueFacts
    <3> QED BY <3>1, <3>2, <3>3, <3>4
  <2>6. ASSUME NEW r \in pending, r \notin ReadyRecords(t)
        PROVE  inflight'[r.op_id] = inflight[r.op_id] /\ ~Retries(t, Issue(t, r.op_id))
    <3>1. inflight[r.op_id].state = "Queued" /\ r.op_id \in Ops
      BY <2>1, <2>2 DEF QueueAgrees
    <3>2. ~\E q \in ReadyRecords(t) : q.op_id = r.op_id
      BY <2>1, <2>6 DEF QueueAgrees, ReadyRecords
    <3>3. Issue(t, r.op_id) = inflight[r.op_id]
      BY <3>1, <3>2, IssueFacts
    <3> QED BY <3>1, <3>3, SettleFacts, DriveFacts
  <2>7. ASSUME NEW r \in pending'
        PROVE  \/ r \in RetryRecords(t)
               \/ r \in pending /\ r \notin ReadyRecords(t)
    BY DEF Drive
  <2>8. ASSUME NEW r \in pending'
        PROVE  inflight'[r.op_id].state = "Queued" /\ r.attempts = inflight'[r.op_id].attempts
    <3>1. CASE r \in RetryRecords(t)
      BY <2>3, <2>4, <3>1
    <3>2. CASE r \in pending /\ r \notin ReadyRecords(t)
      BY <2>1, <2>6, <3>2 DEF QueueAgrees
    <3> QED BY <2>7, <3>1, <3>2
  <2>9. ASSUME NEW r1 \in pending', NEW r2 \in pending', r1.op_id = r2.op_id PROVE r1 = r2
    <3>1. CASE r1 \in RetryRecords(t) /\ r2 \in RetryRecords(t)
      BY <2>3, <2>9, <3>1
    <3>2. CASE r1 \in RetryRecords(t) /\ r2 \in pending /\ r2 \notin ReadyRecords(t)
      BY <2>3, <2>6, <2>9, <3>2
    <3>3. CASE r2 \in RetryRecords(t) /\ r1 \in pending /\ r1 \notin ReadyRecords(t)
      BY <2>3, <2>6, <2>9, <3>3
    <3>4. CASE r1 \in pending /\ r2 \in pending
      BY <2>1, <2>9, <3>4 DEF QueueAgrees
    <3> QED BY <2>7, <3>1, <3>2, <3>3, <3>4
  <2>10. ASSUME NEW id \in Ops, inflight'[id].state = "Queued"
         PROVE  \E r \in pending' : r.op_id = id
    <3>1. CASE Retries(t, Issue(t, id))
      BY <2>4, <3>1 DEF Drive
    <3>2. CASE ~Retries(t, Issue(t, id))
      <4>1. inflight'[id] = inflight[id] /\ inflight[id].state = "Queued"
        BY <2>5, <2>10, <3>2
      <4>2. PICK r \in pending : r.op_id = id
        BY <2>1, <4>1 DEF QueueAgrees
      <4>3. r \notin ReadyRecords(t)
        <5> SUFFICES ASSUME r \in ReadyRecords(t) PROVE FALSE
          OBVIOUS
        <5>1. Issue(t, id).state = "Issued"
          BY <4>1, <4>2, IssueFacts
        <5> QED BY <2>10, <3>2, <5>1, SettleFacts, DriveFacts
      <4> QED BY <4>2, <4>3 DEF Drive
    <3> QED BY <3>1, <3>2
  <2> QED BY <2>8, <2>9, <2>10 DEF QueueAgrees
<1>7. Cardinality(Inflight') \in Nat /\ Cardinality(Inflight') <= MaxInflight
  <2>1. Inflight' \subseteq Inflight
    BY DriveFacts DEF Inflight
  <2>2. IsFiniteSet(Inflight) /\ Cardinality(Inflight) \in Nat
    BY OpsFinite DEF Inflight
  <2>3. Cardinality(Inflight') <= Cardinality(Inflight) /\ Cardinality(Inflight') \in Nat
    BY <2>1, <2>2, FS_Subset, FS_CardinalityType
  <2> QED BY <2>2, <2>3, RuntimeAssumption DEF SlotsAccounted, WithinCapacity
<1>8. NoHalfSubmission'
  BY <1>1, <1>3 DEF NoHalfSubmission, SlotsAccounted
<1> QED BY <1>1, <1>2, <1>4, <1>5, <1>6, <1>7, <1>8 DEF TypeOK

\* The time budget survives a poll: an attempt that timed out has used
\* another Timeout since its submission.
LEMMA DriveKeepsBudget ==
  ASSUME TypeOK, NoHalfSubmission, BudgetRuns,
         NEW t \in Nat, NEW failing \in SUBSET Ops, Drive(t, failing)
  PROVE  /\ BudgetRuns'
         /\ \A id \in Ops : Spent(id, NewCompletions(t, failing, id))
<1> USE RuntimeAssumption
<1>1. ASSUME NEW id \in Ops, inflight[id].state # "Unused" PROVE accepted[id][1] \in Nat
  BY <1>1 DEF TypeOK, NoHalfSubmission
<1>2. ASSUME NEW id \in Ops, TimedOut(t, Issue(t, id))
      PROVE  /\ inflight[id].state \in {"Queued", "Issued"}
             /\ inflight[id].attempts \in Nat /\ inflight[id].attempts <= MaxRetries
             /\ t >= accepted[id][1] + (inflight[id].attempts + 1) * Timeout
  <2> DEFINE op == inflight[id]
             is == Issue(t, id)
             a  == accepted[id][1]
  <2>1. is.state = "Issued" /\ is.timeout_at <= t
    BY <1>2 DEF TimedOut
  <2>2. op.state \in {"Queued", "Issued"}
    BY <2>1, IssueFacts
  <2>3. op.submitted_at \in Nat /\ op.attempts \in Nat /\ is.timeout_at \in Nat
    BY IssueFacts DEF TypeOK, OpRecord
  <2>4. op.submitted_at >= a + op.attempts * Timeout /\ op.attempts <= MaxRetries
    BY <2>2 DEF BudgetRuns
  <2>5. is.timeout_at = op.submitted_at + Timeout
    BY <2>1, IssueFacts DEF BudgetRuns
  <2>6. a \in Nat
    BY <1>1, <2>2
  <2> HIDE DEF op, is, a
  <2>7. op.attempts * Timeout \in Nat /\ (op.attempts + 1) * Timeout = op.attempts * Timeout + Timeout
    BY <2>3
  <2>8. t >= a + (op.attempts + 1) * Timeout
    BY <2>1, <2>3, <2>4, <2>5, <2>6, <2>7
  <2> QED BY <2>2, <2>3, <2>4, <2>8 DEF op, a
<1>3. BudgetRuns'
  <2> SUFFICES ASSUME NEW id \in Ops, inflight'[id].state \in {"Queued", "Issued"}
               PROVE  /\ inflight'[id].attempts <= MaxRetries
                      /\ inflight'[id].submitted_at
                           >= accepted'[id][1] + inflight'[id].attempts * Timeout
                      /\ inflight'[id].state = "Issued" =>
                           inflight'[id].timeout_at = inflight'[id].submitted_at + Timeout
    BY DEF BudgetRuns
  <2>0. accepted' = accepted /\ inflight'[id] = Settle(t, failing, id)
    BY DriveFacts DEF Drive
  <2>1. CASE Retries(t, Issue(t, id))
    <3>1. /\ Settle(t, failing, id).state = "Queued" /\ Settle(t, failing, id).submitted_at = t
          /\ Settle(t, failing, id).attempts = inflight[id].attempts + 1
      BY <2>1, SettleFacts, IssueFacts DEF Retries, TimedOut
    <3>2. inflight[id].attempts < MaxRetries
      BY <2>1, IssueFacts DEF Retries
    <3>3. /\ inflight[id].attempts \in Nat
          /\ t >= accepted[id][1] + (inflight[id].attempts + 1) * Timeout
      BY <1>2, <2>1 DEF Retries
    <3>4. inflight[id].attempts + 1 <= MaxRetries
      BY <3>2, <3>3
    <3> QED BY <2>0, <3>1, <3>3, <3>4
  <2>2. CASE ~Retries(t, Issue(t, id))
    <3>1. inflight'[id] = Issue(t, id)
      BY <2>0, <2>2, SettleFacts
    <3>2. inflight[id].state \in {"Queued", "Issued"}
      BY <3>1, IssueFacts
    <3> QED BY <2>0, <3>1, <3>2, IssueFacts DEF BudgetRuns
  <2> QED BY <2>1, <2>2
<1>4. ASSUME NEW id \in Ops PROVE Spent(id, NewCompletions(t, failing, id))
  <2>1. CASE Exhausted(t, Issue(t, id))
    <3>1. NewCompletions(t, failing, id) = <<[status |-> "TimeoutExhausted", finished_at |-> t]>>
      BY <2>1, SettleFacts DEF Exhausted, Retries, TimedOut, Ready
    <3>2. inflight[id].attempts = MaxRetries
      BY <1>2, <2>1, IssueFacts DEF Exhausted
    <3>3. t >= accepted[id][1] + (MaxRetries + 1) * Timeout
      BY <1>2, <2>1, <3>2 DEF Exhausted
    <3> QED BY <3>1, <3>3 DEF Spent
  <2>2. CASE ~Exhausted(t, Issue(t, id))
    <3> DEFINE n == NewCompletions(t, failing, id)
    <3>1. \/ n = <<[status |-> "Success", finished_at |-> Issue(t, id).ready_at]>>
          \/ n = <<[status |-> "Fatal", finished_at |-> t]>>
          \/ n = <<>>
      BY <2>2, SettleFacts
    <3> HIDE DEF n
    <3>2. \A i \in 1 .. Len(n) : n[i].status # "TimeoutExhausted"
      BY <3>1
    <3> QED BY <3>2 DEF Spent, n
  <2> QED BY <2>1, <2>2
<1> QED BY <1>3, <1>4

\* An operation gets its completion in the step that settles it.
LEMMA DriveSettlesOnce ==
  ASSUME TypeOK, OneCompletion,
         NEW t \in Nat, NEW failing \in SUBSET Ops, Drive(t, failing), NEW id \in Ops,
         NEW events, events = (delivered[id] \o completed[id]) \o NewCompletions(t, failing, id)
  PROVE  CASE inflight'[id].state = "Completed" ->
                Len(events) = 1 /\ events[1].status = "Success"
           [] inflight'[id].state = "Failed" ->
                Len(events) = 1 /\ events[1].status # "Success"
           [] OTHER -> events = <<>>
<1> DEFINE old == delivered[id] \o completed[id]
           n   == NewCompletions(t, failing, id)
<1>1. old \in Seq(Completion) /\ n \in Seq(Completion) /\ events = old \o n
  BY DriveFacts, ConcatProperties DEF TypeOK
<1>2. inflight'[id] = Settle(t, failing, id)
  BY DriveFacts
<1>3. CASE inflight[id].state \notin {"Queued", "Issued"}
  <2>1. inflight'[id] = inflight[id] /\ events = old
    BY <1>1, <1>3, DriveFacts, ConcatEmptySeq
  <2> QED BY <2>1 DEF OneCompletion
<1>4. CASE inflight[id].state \in {"Queued", "Issued"}
  <2>1. old = <<>>
    BY <1>4 DEF OneCompletion
  <2> HIDE DEF old, n
  <2>2. events = n
    BY <1>1, <2>1, ConcatEmptySeq
  <2>3. Issue(t, id).state \in {"Queued", "Issued"}
    BY <1>4, IssueFacts
  <2>4. \/ inflight'[id].state = "Completed" /\ \E c : n = <<c>> /\ c.status = "Success"
        \/ inflight'[id].state = "Failed" /\ \E c : n = <<c>> /\ c.status # "Success"
        \/ inflight'[id].state \in {"Queued", "Issued"} /\ n = <<>>
    BY <1>2, <2>3, SettleFacts DEF n
  <2> QED BY <2>2, <2>4
<1> QED BY <1>3, <1>4

\* A poll, whether or not it hands the completions to the caller.
LEMMA PollKeepsInv ==
  ASSUME EngineInv, NEW t \in Nat, NEW failing \in SUBSET Ops,
         advance_to(t, failing) \/ poll_completions(t, failing)
  PROVE  EngineInv'
<1> DEFINE n(id) == NewCompletions(t, failing, id)
<1>1. Drive(t, failing)
  BY DEF advance_to, poll_completions
<1>2. TypeOK /\ HandedOut /\ SlotsAccounted /\ OneCompletion /\ BudgetRuns
  BY DEF EngineInv, BudgetInv
<1>3. \A id \in Ops : /\ completed[id] \in Seq(Completion)
                      /\ delivered[id] \in Seq(Completion)
                      /\ n(id) \in Seq(Completion)
  BY <1>1, <1>2, DriveFacts DEF TypeOK
<1>4. \/ /\ completed' = [id \in Ops |-> completed[id] \o n(id)]
         /\ delivered' = delivered
      \/ /\ completed' = [id \in Ops |-> <<>>]
         /\ delivered' = [id \in Ops |-> delivered[id] \o completed[id] \o n(id)]
  BY DEF advance_to, poll_completions
<1>5. TypeOK'
  <2>1. \A id \in Ops : /\ completed[id] \o n(id) \in Seq(Completion)
                        /\ delivered[id] \o completed[id] \o n(id) \in Seq(Completion)
    BY <1>3, ConcatProperties
  <2>2. completed' \in [Ops -> Seq(Completion)] /\ delivered' \in [Ops -> Seq(Completion)]
    <3>1. \A id \in Ops : /\ completed'[id] \in Seq(Completion)
                          /\ delivered'[id] \in Seq(Completion)
      <4> HIDE DEF n
      <4> QED BY <1>3, <1>4, <2>1, EmptySeq
    <3>2. /\ completed' = [id \in Ops |-> completed'[id]]
          /\ delivered' = [id \in Ops |-> delivered'[id]]
      <4> HIDE DEF n
      <4> QED BY <1>2, <1>4 DEF TypeOK
    <3> QED BY <3>1, <3>2
  <2>3. now' \in Nat /\ next_op_id' \in 0 .. MaxOps /\ inflight' \in [Ops -> OpRecord]
        /\ pending' \subseteq QueueRecord /\ accepted' = accepted
    BY <1>1, <1>2, DriveKeepsSlots
  <2> QED BY <1>2, <2>2, <2>3 DEF TypeOK
<1>6. SlotsAccounted' /\ HandedOut'
  <2>1. QueueAgrees' /\ HandedOut' /\ NoHalfSubmission' /\ Cardinality(Inflight') <= MaxInflight
    BY <1>1, <1>2, DriveKeepsSlots
  <2>2. QueueMatchesInflight'
    BY <1>5, <2>1, QueueForms, PTL
  <2>3. (Cardinality(pending) \in Nat /\ Cardinality(pending) <= Cardinality(Inflight))'
    BY <1>5, <2>1, QueueIsBounded, PTL
  <2> QED BY <2>1, <2>2, <2>3 DEF SlotsAccounted, WithinCapacity
<1>7. OneCompletion'
  <2>1. ASSUME NEW id \in Ops
        PROVE  delivered'[id] \o completed'[id] = (delivered[id] \o completed[id]) \o n(id)
    <3>1. CASE /\ completed' = [i \in Ops |-> completed[i] \o n(i)]
               /\ delivered' = delivered
      <4>1. completed'[id] = completed[id] \o n(id) /\ delivered'[id] = delivered[id]
        BY <3>1
      <4>2. /\ completed[id] \in Seq(Completion) /\ delivered[id] \in Seq(Completion)
            /\ n(id) \in Seq(Completion)
        BY <1>3
      <4>3. (delivered[id] \o completed[id]) \o n(id) = delivered[id] \o (completed[id] \o n(id))
        <5>1. ASSUME NEW a \in Seq(Completion), NEW b \in Seq(Completion),
                     NEW c \in Seq(Completion)
              PROVE  (a \o b) \o c = a \o (b \o c)
          BY ConcatAssociative
        <5> HIDE DEF n
        <5> QED BY <4>2, <5>1
      <4> HIDE DEF n
      <4> QED BY <4>1, <4>3
    <3>2. CASE /\ completed' = [i \in Ops |-> <<>>]
               /\ delivered' = [i \in Ops |-> delivered[i] \o completed[i] \o n(i)]
      <4>1. delivered[id] \o completed[id] \o n(id) \in Seq(Completion)
        BY <1>3, ConcatProperties
      <4> HIDE DEF n
      <4> QED BY <3>2, <4>1, ConcatEmptySeq
    <3> QED BY <1>4, <3>1, <3>2
  <2> HIDE DEF n
  <2>2. ASSUME NEW id \in Ops
        PROVE  LET events == delivered'[id] \o completed'[id]
               IN  CASE inflight'[id].state = "Completed" ->
                          Len(events) = 1 /\ events[1].status = "Success"
                     [] inflight'[id].state = "Failed" ->
                          Len(events) = 1 /\ events[1].status # "Success"
                     [] OTHER -> events = <<>>
    BY <1>1, <1>2, <2>1, DriveSettlesOnce DEF n
  <2> QED BY <2>2 DEF OneCompletion
<1>8. BudgetInv'
  <2>0. accepted' = accepted
    BY <1>1 DEF Drive
  <2>1. BudgetRuns' /\ \A id \in Ops : Spent(id, n(id))
    BY <1>1, <1>2, DriveKeepsBudget DEF SlotsAccounted
  <2>2. \A id \in Ops : Spent(id, completed[id]) /\ Spent(id, delivered[id])
    BY DEF EngineInv, BudgetInv
  <2>3. ASSUME NEW id \in Ops, NEW s1 \in Seq(Completion), NEW s2 \in Seq(Completion),
               Spent(id, s1), Spent(id, s2)
        PROVE  Spent(id, s1 \o s2) /\ s1 \o s2 \in Seq(Completion)
    <3>1. s1 \o s2 \in Seq(Completion) /\ Len(s1) \in Nat /\ Len(s2) \in Nat
      BY ConcatProperties, LenProperties
    <3>2. ASSUME NEW i \in 1 .. Len(s1 \o s2)
          PROVE  \/ i \in 1 .. Len(s1) /\ (s1 \o s2)[i] = s1[i]
                 \/ i - Len(s1) \in 1 .. Len(s2) /\ (s1 \o s2)[i] = s2[i - Len(s1)]
      BY <3>1, ConcatProperties
    <3> QED BY <2>3, <3>1, <3>2 DEF Spent
  <2>4. ASSUME NEW id \in Ops PROVE Spent(id, <<>>)
    BY DEF Spent
  <2>5. ASSUME NEW id \in Ops PROVE Spent(id, completed'[id]) /\ Spent(id, delivered'[id])
    <3>1. Spent(id, completed[id] \o n(id)) /\ Spent(id, delivered[id] \o completed[id] \o n(id))
      BY <1>3, <2>1, <2>2, <2>3
    <3> HIDE DEF n
    <3> QED BY <1>4, <2>2, <2>4, <3>1
  <2>6. ASSUME NEW id \in Ops PROVE Spent(id, completed[id])' /\ Spent(id, delivered[id])'
    BY <2>0, <2>5 DEF Spent
  <2> QED BY <2>1, <2>6 DEF BudgetInv
<1> QED BY <1>5, <1>6, <1>7, <1>8 DEF EngineInv

\* Every call of the engine, and a step that leaves it alone, keeps EngineInv.
LEMMA EngineStepKeepsInv == EngineInv /\ (EngineStep \/ UNCHANGED vars) => EngineInv'
<1> SUFFICES ASSUME EngineInv, EngineStep \/ UNCHANGED vars PROVE EngineInv'
  OBVIOUS
<1>1. CASE EngineStep
  BY <1>1, SubmitKeepsInv, PollKeepsInv DEF EngineStep
<1>2. CASE UNCHANGED vars
  BY <1>2 DEF vars, EngineInv, TypeOK, HandedOut, SlotsAccounted, QueueMatchesInflight,
              WithinCapacity, Inflight, NoHalfSubmission, OneCompletion, BudgetInv, BudgetRuns,
              Spent
<1> QED BY <1>1, <1>2

\* The steps of the specification are calls of the engine.
LEMMA NextIsEngineStep == EngineInv /\ Next => EngineStep
<1> SUFFICES ASSUME EngineInv, Next PROVE EngineStep
  OBVIOUS
<1>1. now \in Nat /\ MaxNow \in Nat
  BY RuntimeAssumption DEF EngineInv, TypeOK
<1>2. \A t \in now .. MaxNow : t \in Nat /\ t >= now
  BY <1>1
<1>3. \A t : MayFail(t) \subseteq Ops
  BY DEF MayFail
<1>4. CASE Advance \/ Poll
  BY <1>2, <1>3, <1>4 DEF Advance, Poll, EngineStep
<1>5. CASE \E kind \in Kinds : Submit(kind)
  BY <1>5 DEF EngineStep
<1> QED BY <1>4, <1>5 DEF Next

-----------------------------------------------------------------------------

\* EngineInv holds in every state the engine reaches.
THEOREM EngineInvariant == Spec => []EngineInv
<1>1. EngineInv /\ [Next]_vars => EngineInv'
  BY EngineStepKeepsInv, NextIsEngineStep
<1> QED
  BY InitEngineInv, <1>1, PTL DEF Spec

\* Times and attempts of LocalRuntimeEngine and its queue keep their types.
THEOREM EngineTypes == Spec => []TypeOK
<1>1. EngineInv => TypeOK
  BY DEF EngineInv
<1> QED
  BY EngineInvariant, <1>1, PTL

\* inflight, the queue and the capacity agree: no submission is refused half
\* way, and neither a retry nor a submission takes the engine past its depth.
THEOREM EngineSlots == Spec => []SlotsAccounted
<1>1. EngineInv => SlotsAccounted
  BY DEF EngineInv
<1> QED
  BY EngineInvariant, <1>1, PTL

\* No operation vanishes and none completes twice, whatever order polls,
\* submissions, retries and failures of the external process come in.
THEOREM EngineCompletesOnce == Spec => []OneCompletion
<1>1. EngineInv => OneCompletion
  BY DEF EngineInv
<1> QED
  BY EngineInvariant, <1>1, PTL

\* timeout_exhausted is reported only after MaxRetries + 1 whole timeouts.
THEOREM EngineBudget == Spec => []BudgetSpent
<1>1. EngineInv => BudgetSpent
  BY DEF EngineInv, BudgetInv, BudgetSpent, Spent
<1> QED
  BY EngineInvariant, <1>1, PTL

\* No later poll reopens an operation that has completed or failed.
THEOREM EngineFinal == Spec => FinalIsFinal
<1> DEFINE Final == \A id \in Ops : inflight[id].state \in {"Completed", "Failed"} =>
                       inflight'[id] = inflight[id]
<1>1. ASSUME EngineInv, EngineStep PROVE Final
  <2>1. CASE \E kind \in Kinds : Submit(kind)
    <3>1. PICK kind \in Kinds : Submit(kind)
      BY <2>1
    <3>2. /\ inflight[next_op_id + 1].state = "Unused"
          /\ inflight' = [inflight EXCEPT ![next_op_id + 1] = NewRecord(kind)]
      BY <1>1, <3>1, SubmitIsWhole
    <3> QED BY <1>1, <3>2 DEF EngineInv, TypeOK
  <2>2. ASSUME NEW t \in Nat, NEW failing \in SUBSET Ops,
               advance_to(t, failing) \/ poll_completions(t, failing)
        PROVE  Final
    <3>1. Drive(t, failing) /\ TypeOK
      BY <1>1, <2>2 DEF advance_to, poll_completions, EngineInv
    <3> QED BY <3>1, DriveFacts
  <2> HIDE DEF Final
  <2> QED BY <1>1, <2>1, <2>2 DEF EngineStep
<1>2. EngineInv /\ [Next]_vars => [Final]_vars
  BY <1>1, NextIsEngineStep
<1> QED
  BY EngineInvariant, <1>2, PTL DEF Spec, FinalIsFinal

-----------------------------------------------------------------------------
(***************************************************************************)
(* The rounds of the workload.                                             *)
(***************************************************************************)

\* The operations the current round has submitted.
Submitted == (3 * round + 1) .. (3 * round + step)

\* In an ample scenario only the current round is in flight, all of it was
\* submitted at this very time, and the poll hands every completion over.
AmpleInv ==
  /\ Inflight = Submitted
  /\ \A id \in Submitted : inflight[id].state = "Queued" /\ inflight[id].submitted_at = now
  /\ \A r \in pending : r.ready_at <= now
  /\ \A id \in Ops : completed[id] = <<>>
  /\ completions = 3 * round

RoundsInv ==
  /\ EngineInv
  /\ WTypeOK
  /\ next_op_id = 3 * round + step
  /\ Ample => AmpleInv /\ result # "error"

-----------------------------------------------------------------------------

\* A workload starts with RoundsInv: nothing submitted, no round counted.
LEMMA InitRoundsInv == WInit => RoundsInv
<1> SUFFICES ASSUME WInit PROVE RoundsInv
  OBVIOUS
<1>1. EngineInv
  BY InitEngineInv DEF WInit
<1>2. WTypeOK
  BY <1>1, RoundsAssumption DEF WInit, WTypeOK, EngineInv
<1>3. Submitted = {} /\ Inflight = {}
  BY DEF Submitted, WInit, Inflight, Init, Unused
<1> QED
  BY <1>1, <1>2, <1>3 DEF RoundsInv, AmpleInv, WInit, Init

\* A submission adds the next operation of the round to the flight.
LEMMA SubmitKeepsRounds == RoundsInv /\ SubmitNext => RoundsInv'
<1> SUFFICES ASSUME RoundsInv, SubmitNext PROVE RoundsInv'
  OBVIOUS
<1> USE RoundsAssumption
<1>0. round \in Nat /\ step \in 0 .. 2 /\ now \in Nat /\ EngineInv /\ TypeOK
  BY DEF RoundsInv, WTypeOK, SubmitNext, EngineInv, TypeOK
<1>1. PICK kind \in Kinds : Submit(kind)
  <2>1. RoundKinds[step + 1] \in Kinds
    BY <1>0 DEF RoundKinds, Kinds
  <2> QED BY <2>1 DEF SubmitNext
<1>2. EngineInv'
  BY <1>0, <1>1, SubmitKeepsInv
<1>3. step' = step + 1 /\ UNCHANGED <<poll_step, round, result, completions, now, completed>>
  BY <1>1 DEF SubmitNext, Submit
<1>4. WTypeOK'
  BY <1>0, <1>2, <1>3 DEF WTypeOK, EngineInv, RoundsInv
<1> DEFINE id == 3 * round + step + 1
<1>5. /\ id \in Ops /\ next_op_id' = id
      /\ inflight' = [inflight EXCEPT ![id] = NewRecord(kind)]
      /\ pending' = pending \cup {[op_id |-> id, ready_at |-> now, attempts |-> 0]}
  BY <1>0, <1>1, SubmitIsWhole DEF RoundsInv
<1>6. next_op_id' = 3 * round' + step'
  BY <1>0, <1>3, <1>5
<1>7. ASSUME Ample PROVE AmpleInv' /\ result' # "error"
  <2>0. AmpleInv /\ result # "error"
    BY <1>7 DEF RoundsInv
  <2>1. NewRecord(kind).state = "Queued" /\ NewRecord(kind).submitted_at = now
    BY <1>0, NewRecordFacts
  <2>2. Submitted' = Submitted \cup {id}
    BY <1>0, <1>3 DEF Submitted
  <2> HIDE DEF id
  <2>3. /\ inflight'[id] = NewRecord(kind)
        /\ \A i \in Ops : i # id => inflight'[i] = inflight[i]
    BY <1>0, <1>5 DEF TypeOK
  <2>4. Inflight' = Inflight \cup {id}
    BY <1>5, <2>1, <2>3 DEF Inflight
  <2>5. \A i \in Submitted : i \in Ops
    BY <2>0 DEF AmpleInv, Inflight
  <2>6. \A i \in Submitted' : inflight'[i].state = "Queued" /\ inflight'[i].submitted_at = now
    BY <2>0, <2>1, <2>2, <2>3, <2>5 DEF AmpleInv
  <2>7. \A r \in pending' : r.ready_at <= now
    <3>1. \A r \in pending' : r \in pending \/ r.ready_at = now
      BY <1>5
    <3> QED BY <1>0, <2>0, <3>1 DEF AmpleInv
  <2> QED BY <1>3, <2>0, <2>2, <2>4, <2>6, <2>7 DEF AmpleInv
<1>8. Ample' = Ample
  BY <1>3 DEF Ample
<1> QED BY <1>2, <1>4, <1>6, <1>7, <1>8 DEF RoundsInv

\* In an ample scenario the poll of a round settles each of its operations.
LEMMA PollSettlesRound ==
  ASSUME RoundsInv, Ample, step = 3, NEW failing \in SUBSET Ops,
         poll_completions(now + poll_step, failing)
  PROVE  /\ Inflight' = {}
         /\ {id \in Ops : delivered'[id] # delivered[id]} = Submitted
         /\ pending' = {}
<1> DEFINE t == now + poll_step
<1>0. /\ now \in Nat /\ poll_step \in Nat /\ t \in Nat /\ t >= now
      /\ poll_step >= DispatchLatency /\ poll_step >= CopyLatency
      /\ EngineInv /\ TypeOK /\ AmpleInv /\ QueueAgrees /\ OneCompletion
  BY RoundsAssumption, QueueForms
     DEF RoundsInv, WTypeOK, EngineInv, TypeOK, Ample, SlotsAccounted
<1>1. /\ Drive(t, failing)
      /\ delivered' = [id \in Ops |-> delivered[id] \o completed[id] \o NewCompletions(t, failing, id)]
  BY DEF poll_completions
<1> HIDE DEF t
<1>2. ReadyRecords(t) = pending
  <2>1. \A r \in pending : r.ready_at \in Nat /\ r.ready_at <= now
    BY <1>0 DEF AmpleInv, TypeOK, QueueRecord
  <2> QED BY <1>0, <2>1 DEF ReadyRecords
<1>3. ASSUME NEW id \in Ops, id \in Submitted
      PROVE  Ready(t, Issue(t, id))
  <2>1. inflight[id].state = "Queued" /\ inflight[id].submitted_at = now
    BY <1>0, <1>3 DEF AmpleInv
  <2>2. \E r \in ReadyRecords(t) : r.op_id = id
    BY <1>0, <1>2, <2>1 DEF QueueAgrees
  <2>3. Issue(t, id) = [inflight[id] EXCEPT !.state = "Issued",
                          !.ready_at = inflight[id].submitted_at + Latency(inflight[id].kind),
                          !.timeout_at = inflight[id].submitted_at + Timeout]
    BY <2>1, <2>2 DEF Issue
  <2>4. /\ Issue(t, id).state = "Issued"
        /\ Issue(t, id).ready_at = now + Latency(inflight[id].kind)
    BY <1>0, <2>1, <2>3 DEF TypeOK, OpRecord
  <2>5. now + Latency(inflight[id].kind) <= t
    BY <1>0, RuntimeAssumption DEF Latency, t
  <2> QED BY <2>4, <2>5 DEF Ready
<1>4. ASSUME NEW id \in Ops, id \in Submitted
      PROVE  /\ inflight'[id].state \in {"Completed", "Failed"}
             /\ delivered'[id] # delivered[id]
  <2>1. /\ inflight'[id] = Settle(t, failing, id)
        /\ NewCompletions(t, failing, id) \in Seq(Completion)
    BY <1>0, <1>1, DriveFacts
  <2>2. Ready(t, Issue(t, id))
    BY <1>3, <1>4
  <2>3. /\ Settle(t, failing, id).state \in {"Completed", "Failed"}
        /\ NewCompletions(t, failing, id) # <<>>
    BY <1>0, <2>2, SettleFacts DEF Ready, Retries, TimedOut, Exhausted
  <2>4. completed[id] = <<>> /\ delivered[id] \in Seq(Completion)
    BY <1>0 DEF AmpleInv, TypeOK
  <2>5. delivered[id] \o completed[id] = delivered[id]
    BY <2>4, ConcatEmptySeq
  <2>6. delivered'[id] = delivered[id] \o NewCompletions(t, failing, id)
    BY <1>1, <2>5
  <2> QED BY <2>1, <2>3, <2>4, <2>6, ConcatEqualIffEmpty
<1>5. ASSUME NEW id \in Ops, id \notin Submitted
      PROVE  /\ inflight'[id].state \notin {"Queued", "Issued"}
             /\ delivered'[id] = delivered[id]
  <2>1. inflight[id].state \notin {"Queued", "Issued"}
    BY <1>0, <1>5 DEF AmpleInv, Inflight
  <2>2. inflight'[id] = inflight[id] /\ NewCompletions(t, failing, id) = <<>>
    BY <1>0, <1>1, <2>1, DriveFacts
  <2>3. completed[id] = <<>> /\ delivered[id] \in Seq(Completion)
    BY <1>0 DEF AmpleInv, TypeOK
  <2>4. delivered[id] \o completed[id] \o NewCompletions(t, failing, id) = delivered[id]
    BY <2>2, <2>3, ConcatEmptySeq
  <2> QED BY <1>1, <2>1, <2>2, <2>4
<1>6. Inflight' = {}
  BY <1>4, <1>5 DEF Inflight
<1>7. Submitted \subseteq Ops
  BY <1>0 DEF AmpleInv, Inflight
<1>8. pending' = {}
  <2>1. ASSUME NEW id \in Ops PROVE ~Retries(t, Issue(t, id))
    <3>1. CASE id \in Submitted
      BY <1>3, <3>1 DEF Ready, Retries, TimedOut
    <3>2. CASE id \notin Submitted
      <4>1. inflight[id].state \notin {"Queued", "Issued"}
        BY <1>0, <3>2 DEF AmpleInv, Inflight
      <4>2. Issue(t, id) = inflight[id]
        BY <1>0, <4>1, IssueFacts
      <4> QED BY <4>1, <4>2 DEF Retries, TimedOut
    <3> QED BY <3>1, <3>2
  <2>2. RetryRecords(t) = {}
    BY <2>1 DEF RetryRecords
  <2> QED BY <1>1, <1>2, <2>2 DEF Drive
<1> QED BY <1>4, <1>5, <1>6, <1>7, <1>8

\* The poll that ends a round keeps RoundsInv.
LEMMA PollKeepsRounds == RoundsInv /\ PollRound => RoundsInv'
<1> SUFFICES ASSUME RoundsInv, PollRound PROVE RoundsInv'
  OBVIOUS
<1> USE RoundsAssumption
<1>0. /\ round \in Nat /\ round < Rounds /\ step = 3 /\ now \in Nat /\ poll_step \in Nat
      /\ EngineInv /\ completions \in Nat /\ next_op_id = 3 * round + 3
  BY DEF RoundsInv, WTypeOK, PollRound, EngineInv, TypeOK
<1>1. PICK failing \in SUBSET Ops : poll_completions(now + poll_step, failing)
  BY DEF PollRound, MayFail
<1>2. EngineInv'
  <2>1. now + poll_step \in Nat
    BY <1>0
  <2> QED BY <1>0, <1>1, <2>1, PollKeepsInv
<1> DEFINE news == {id \in Ops : delivered'[id] # delivered[id]}
<1>3. /\ completions' = completions + Cardinality(news)
      /\ round' = round + 1 /\ step' = 0 /\ UNCHANGED <<poll_step, result>>
  BY DEF PollRound
<1>4. UNCHANGED next_op_id /\ completed' = [id \in Ops |-> <<>>]
  BY <1>1 DEF poll_completions, Drive
<1>5. Cardinality(news) \in Nat
  BY OpsFinite
<1>6. WTypeOK'
  BY <1>0, <1>2, <1>3, <1>5 DEF WTypeOK, EngineInv, RoundsInv
<1>7. next_op_id' = 3 * round' + step'
  BY <1>0, <1>3, <1>4
<1>8. ASSUME Ample PROVE AmpleInv' /\ result' # "error"
  <2>0. AmpleInv /\ result # "error"
    BY <1>8 DEF RoundsInv
  <2>1. Inflight' = {} /\ news = Submitted /\ pending' = {}
    BY <1>0, <1>1, <1>8, PollSettlesRound
  <2>2. Cardinality(Submitted) = 3
    <3>1. 3 * round + 1 \in Int /\ 3 * round + 3 \in Int
      BY <1>0
    <3>2. Cardinality((3 * round + 1) .. (3 * round + 3)) = 3
      BY <1>0, <3>1, FS_Interval
    <3> QED BY <1>0, <3>2 DEF Submitted
  <2>3. Submitted' = {}
    BY <1>0, <1>3 DEF Submitted
  <2>4. completions' = 3 * round'
    <3>1. Cardinality(news) = 3 /\ completions = 3 * round
      BY <2>0, <2>1, <2>2 DEF AmpleInv
    <3> HIDE DEF news
    <3> QED BY <1>0, <1>3, <3>1
  <2> HIDE DEF news
  <2> QED BY <1>3, <1>4, <2>0, <2>1, <2>3, <2>4 DEF AmpleInv
<1>9. Ample' = Ample
  BY <1>3 DEF Ample
<1> QED BY <1>2, <1>6, <1>7, <1>8, <1>9 DEF RoundsInv

\* In an ample scenario the engine has a slot for every submission.
LEMMA RefusalKeepsRounds == RoundsInv /\ SubmitRefused => RoundsInv'
<1> SUFFICES ASSUME RoundsInv, SubmitRefused PROVE RoundsInv'
  OBVIOUS
<1>0. round \in Nat /\ step \in 0 .. 2
  BY RoundsAssumption DEF RoundsInv, WTypeOK, SubmitRefused
<1>1. ~Ample
  <2> SUFFICES ASSUME Ample PROVE FALSE
    OBVIOUS
  <2>1. Inflight = (3 * round + 1) .. (3 * round + step)
    BY DEF RoundsInv, AmpleInv, Submitted
  <2>2. 3 * round + 1 \in Int /\ 3 * round + step \in Int
    BY <1>0
  <2>3. Cardinality(Inflight) = step
    <3> DEFINE a == 3 * round + 1
               b == 3 * round + step
    <3>1. Cardinality(a .. b) = IF a > b THEN 0 ELSE b - a + 1
      <4> HIDE DEF a, b
      <4> QED BY <2>2, FS_Interval DEF a, b
    <3>2. (IF a > b THEN 0 ELSE b - a + 1) = step
      BY <1>0
    <3> QED BY <2>1, <3>1, <3>2
  <2> QED BY <1>0, <2>3, RuntimeAssumption DEF SubmitRefused, ensure_capacity, Ample
<1>2. result' = "error" /\ UNCHANGED <<vars, poll_step, round, step, completions>>
  BY DEF SubmitRefused
<1>3. EngineInv'
  BY <1>2, EngineStepKeepsInv DEF RoundsInv
<1>4. UNCHANGED next_op_id
  BY <1>2 DEF vars
<1> QED
  BY <1>1, <1>2, <1>3, <1>4 DEF RoundsInv, WTypeOK, EngineInv, Ample

\* A step that leaves the engine and the locals but `result` alone.
LEMMA QuietKeepsRounds ==
  RoundsInv /\ UNCHANGED <<vars, poll_step, round, step, completions>>
            /\ result' \in {result, "ok"} => RoundsInv'
<1> SUFFICES ASSUME RoundsInv, UNCHANGED <<vars, poll_step, round, step, completions>>,
                    result' \in {result, "ok"}
             PROVE  RoundsInv'
  OBVIOUS
<1>1. EngineInv'
  BY EngineStepKeepsInv DEF RoundsInv
<1>2. WTypeOK'
  BY <1>1 DEF RoundsInv, WTypeOK, EngineInv
<1>3. AmpleInv => AmpleInv'
  BY DEF AmpleInv, Inflight, Submitted, vars
<1> QED
  BY <1>1, <1>2, <1>3 DEF RoundsInv, Ample, vars

-----------------------------------------------------------------------------

\* RoundsInv holds in every state of the workload.
THEOREM RoundsInvariant == WSpec => []RoundsInv
<1>1. RoundsInv /\ [WNext]_wvars => RoundsInv'
  <2> SUFFICES ASSUME RoundsInv, [WNext]_wvars PROVE RoundsInv'
    OBVIOUS
  <2>1. CASE Finish
    BY <2>1, QuietKeepsRounds DEF Finish
  <2>2. CASE UNCHANGED wvars
    BY <2>2, QuietKeepsRounds DEF wvars
  <2> QED
    BY <2>1, <2>2, SubmitKeepsRounds, PollKeepsRounds, RefusalKeepsRounds DEF WNext
<1> QED
  BY InitRoundsInv, <1>1, PTL DEF WSpec

\* The locals of run_chip_backend_minimal_step and the engine it drives keep
\* their types.
THEOREM RoundsTypes == WSpec => []WTypeOK
<1>1. RoundsInv => WTypeOK
  BY DEF RoundsInv
<1> QED
  BY RoundsInvariant, <1>1, PTL

\* In an ample scenario one poll settles the whole round, whatever the
\* timeout and the retries: rounds do not overlap, and the workload counts
\* three completions for each.
THEOREM RoundsIsolation == WSpec => []RoundsAreIsolated
<1>1. RoundsInv => RoundsAreIsolated
  <2> SUFFICES ASSUME RoundsInv, Ample, step = 0
               PROVE  Inflight = {} /\ completions = 3 * round
    BY DEF RoundsAreIsolated
  <2>1. round \in Nat
    BY RoundsAssumption DEF RoundsInv, WTypeOK
  <2>2. Submitted = {}
    BY <2>1 DEF Submitted
  <2> QED BY <2>2 DEF RoundsInv, AmpleInv
<1> QED
  BY RoundsInvariant, <1>1, PTL

\* A workload that ends on a refused submission ran a scenario that is not
\* ample.
THEOREM RoundsRefusal == WSpec => []RefusedOnlyIfNotAmple
<1>1. RoundsInv => RefusedOnlyIfNotAmple
  BY DEF RoundsInv, RefusedOnlyIfNotAmple
<1> QED
  BY RoundsInvariant, <1>1, PTL

=============================================================================
