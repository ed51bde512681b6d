---------------------------- MODULE RuntimeEngine ----------------------------
(***************************************************************************)
(* The local chip runtime of sim-runtime: LocalRuntimeEngine, the          *)
(* submission queue it owns (SharedRuntimeQueue behind a                   *)
(* SharedRuntimeExecutor) and the completions it hands to its caller.      *)
(*                                                                         *)
(* Operations are named by their op_id.  The Vec `inflight` is a function  *)
(* from op ids to records; `retain` removes exactly the records whose      *)
(* state is Completed or Failed, so a record in one of these states stands *)
(* for one that has left the Vec.  The submission queue is a set of        *)
(* records: drive_ready hands every ready record to a closure that touches *)
(* only the operation the record names, so their order is not observable.  *)
(* Every completion is appended to a sequence of its own operation, so a   *)
(* second completion of the same operation would show.                     *)
(***************************************************************************)
EXTENDS Integers, Sequences, FiniteSets

CONSTANTS
  MaxInflight,       \* capacity of `inflight` and depth of the queue
  MaxRetries,        \* retry budget of the queue
  DispatchLatency,   \* us from submission to readiness of a dispatch
  CopyLatency,       \* us from submission to readiness of a copy
  Timeout,           \* us from submission to the timeout of an operation
  SimplerProcess,    \* TRUE: dispatches run an external process that can fail
  MaxOps,            \* bound: operations submitted in a behaviour
  MaxSubmitTime,     \* bound: latest time of a submission
  MaxNow             \* bound: latest time the caller polls with

ASSUME RuntimeAssumption ==
  /\ MaxInflight \in Nat
  /\ MaxRetries \in Nat
  /\ DispatchLatency \in Nat
  /\ CopyLatency \in Nat
  /\ Timeout \in Nat
  /\ SimplerProcess \in BOOLEAN
  /\ MaxOps \in Nat
  /\ MaxSubmitTime \in Nat
  /\ MaxNow \in Nat

Ops   == 1 .. MaxOps
Kinds == {"Dispatch", "HostToDeviceCopy", "DeviceToHostCopy"}

VARIABLES
  now,         \* simulated time of the engine
  next_op_id,  \* last op id given out
  inflight,    \* op id -> RuntimeOpRecord
  pending,     \* records of the submission queue
  completed,   \* op id -> completions not yet polled
  delivered,   \* history: op id -> completions the caller has received
  accepted     \* history: op id -> <<time>> of the successful submission

vars == <<now, next_op_id, inflight, pending, completed, delivered, accepted>>

-----------------------------------------------------------------------------

OpRecord == [kind: Kinds,
             state: {"Unused", "Queued", "Issued", "Completed", "Failed"},
             submitted_at: Nat, ready_at: Nat, timeout_at: Nat, attempts: Nat]

QueueRecord == [op_id: Ops, ready_at: Nat, attempts: Nat]

Completion == [status: {"Success", "Fatal", "TimeoutExhausted"},
               finished_at: Nat]

Unused == [kind |-> "Dispatch", state |-> "Unused", submitted_at |-> 0,
           ready_at |-> 0, timeout_at |-> 0, attempts |-> 0]

\* The operations the Vec `inflight` holds.
Inflight == {id \in Ops : inflight[id].state \in {"Queued", "Issued"}}

Latency(kind) == IF kind = "Dispatch" THEN DispatchLatency ELSE CopyLatency

ensure_capacity == Cardinality(Inflight) < MaxInflight

\* SharedRuntimeQueue::enqueue refuses a record when the queue is at its depth.
QueueHasRoom == Cardinality(pending) < MaxInflight

Init ==
  /\ now = 0
  /\ next_op_id = 0
  /\ inflight = [id \in Ops |-> Unused]
  /\ pending = {}
  /\ completed = [id \in Ops |-> <<>>]
  /\ delivered = [id \in Ops |-> <<>>]
  /\ accepted = [id \in Ops |-> <<>>]

-----------------------------------------------------------------------------

(***************************************************************************)
(* submit_dispatch and submit_copy.  The record enters `inflight` before   *)
(* enqueue can refuse it; the caller gets a handle only if it does not.    *)
(***************************************************************************)
Submit(kind) ==
  /\ next_op_id < MaxOps
  /\ now <= MaxSubmitTime
  /\ ensure_capacity
  /\ LET id == next_op_id + 1
     IN  /\ next_op_id' = id
         /\ inflight' = [inflight EXCEPT ![id] =
                           [Unused EXCEPT !.kind = kind,
                                          !.state = "Queued",
                                          !.submitted_at = now]]
         /\ pending' = IF QueueHasRoom
                       THEN pending \cup
                              {[op_id |-> id, ready_at |-> now, attempts |-> 0]}
                       ELSE pending
         /\ accepted' = IF QueueHasRoom
                        THEN [accepted EXCEPT ![id] = Append(@, now)]
                        ELSE accepted
  /\ UNCHANGED <<now, completed, delivered>>

-----------------------------------------------------------------------------

\* drain_ready: the records the queue releases at time t.
ReadyRecords(t) == {r \in pending : r.ready_at <= t}

\* Mutated Issue: the record of a retry is dropped.
IssueFirstAttemptOnly(t, id) ==
  LET op == inflight[id]
  IN  IF op.state = "Queued" /\ \E r \in ReadyRecords(t) : r.op_id = id /\ r.attempts = 0
      THEN [op EXCEPT !.state = "Issued",
                      !.ready_at = op.submitted_at + Latency(op.kind),
                      !.timeout_at = op.submitted_at + Timeout]
      ELSE op

\* The closure of advance_to: a Queued operation named by a released record
\* is issued; its latency and its timeout run from its submission.
Issue(t, id) ==
  LET op == inflight[id]
  IN  IF op.state = "Queued" /\ \E r \in ReadyRecords(t) : r.op_id = id
      THEN [op EXCEPT !.state = "Issued",
                      !.ready_at = op.submitted_at + Latency(op.kind),
                      !.timeout_at = op.submitted_at + Timeout]
      ELSE op

\* Mutated Ready: the loop does not look at the state of the record.
ReadyInAnyState(t, op) == op.ready_at <= t

Ready(t, op)    == op.state = "Issued" /\ op.ready_at <= t

\* An operation that is ready is completed, whether or not it timed out too.
TimedOut(t, op) == op.state = "Issued" /\ ~(op.ready_at <= t) /\ op.timeout_at <= t

Retries(t, op)  == TimedOut(t, op) /\ op.attempts < MaxRetries

Exhausted(t, op) == TimedOut(t, op) /\ ~(op.attempts < MaxRetries)

\* Dispatches whose external process may report a failure at time t.
MayFail(t) == {id \in Ops : /\ SimplerProcess
                            /\ Ready(t, Issue(t, id))
                            /\ inflight[id].kind = "Dispatch"}

\* Mutated Settle: a retry counts the attempts down.
SettleCountsDown(t, failing, id) ==
  LET op == Issue(t, id)
  IN  CASE Ready(t, op)     -> [op EXCEPT !.state = IF id \in failing THEN "Failed"
                                                    ELSE "Completed"]
        [] Retries(t, op)   -> [op EXCEPT !.state = "Queued", !.submitted_at = t,
                                          !.attempts = @ - 1]
        [] Exhausted(t, op) -> [op EXCEPT !.state = "Failed"]
        [] OTHER            -> op

\* Mutated Settle: a retry keeps the time of the first submission.
SettleKeepsSubmission(t, failing, id) ==
  LET op == Issue(t, id)
  IN  CASE Ready(t, op)     -> [op EXCEPT !.state = IF id \in failing THEN "Failed"
                                                    ELSE "Completed"]
        [] Retries(t, op)   -> [op EXCEPT !.state = "Queued", !.attempts = @ + 1]
        [] Exhausted(t, op) -> [op EXCEPT !.state = "Failed"]
        [] OTHER            -> op

\* Mutated Settle: an operation out of retries stays Issued.
SettleLeavesExhausted(t, failing, id) ==
  LET op == Issue(t, id)
  IN  CASE Ready(t, op)     -> [op EXCEPT !.state = IF id \in failing THEN "Failed"
                                                    ELSE "Completed"]
        [] Retries(t, op)   -> [op EXCEPT !.state = "Queued", !.submitted_at = t,
                                          !.attempts = @ + 1]
        [] OTHER            -> op

\* What the second loop of advance_to makes of an operation.
Settle(t, failing, id) ==
  LET op == Issue(t, id)
  IN  CASE Ready(t, op)     -> [op EXCEPT !.state = IF id \in failing THEN "Failed"
                                                    ELSE "Completed"]
        [] Retries(t, op)   -> [op EXCEPT !.state = "Queued",
                                          !.submitted_at = t,
                                          !.ready_at = 0,
                                          !.timeout_at = 0,
                                          !.attempts = @ + 1]
        [] Exhausted(t, op) -> [op EXCEPT !.state = "Failed"]
        [] OTHER            -> op

\* The completion that loop pushes for an operation, if any.
NewCompletions(t, failing, id) ==
  LET op == Issue(t, id)
  IN  CASE Ready(t, op) /\ id \notin failing ->
             <<[status |-> "Success", finished_at |-> op.ready_at]>>
        [] Ready(t, op) /\ id \in failing ->
             <<[status |-> "Fatal", finished_at |-> t]>>
        [] Exhausted(t, op) ->
             <<[status |-> "TimeoutExhausted", finished_at |-> t]>>
        [] OTHER -> <<>>

\* Mutated RetryRecords: the attempt is not counted in the queue.
RetryRecordsUncounted(t) ==
  {[op_id |-> id, ready_at |-> t, attempts |-> inflight[id].attempts] :
     id \in {i \in Ops : Retries(t, Issue(t, i))}}

\* SharedRuntimeQueue::retry of the operations that time out at t.  The push
\* is not checked against the depth of the queue.
RetryRecords(t) ==
  {[op_id |-> id, ready_at |-> t, attempts |-> inflight[id].attempts + 1] :
     id \in {i \in Ops : Retries(t, Issue(t, i))}}

\* The part of advance_to that does not concern the completion queue.
Drive(t, failing) ==
  /\ now' = t
  /\ inflight' = [id \in Ops |-> Settle(t, failing, id)]
  /\ pending' = (pending \ ReadyRecords(t)) \cup RetryRecords(t)
  /\ UNCHANGED <<next_op_id, accepted>>

advance_to(t, failing) ==
  /\ Drive(t, failing)
  /\ completed' = [id \in Ops |-> completed[id] \o NewCompletions(t, failing, id)]
  /\ UNCHANGED delivered

poll_completions(t, failing) ==
  /\ Drive(t, failing)
  /\ completed' = [id \in Ops |-> <<>>]
  /\ delivered' = [id \in Ops |->
                     delivered[id] \o completed[id] \o NewCompletions(t, failing, id)]

\* Every caller passes times that do not decrease.
Advance == \E t \in now .. MaxNow : \E failing \in SUBSET MayFail(t) :
              advance_to(t, failing)

Poll == \E t \in now .. MaxNow : \E failing \in SUBSET MayFail(t) :
              poll_completions(t, failing)

Next == \/ \E kind \in Kinds : Submit(kind)
        \/ Advance
        \/ Poll

\* The caller keeps polling, and keeps polling with a later time.
PollLater == Poll /\ (now' > now \/ now = MaxNow)

Fairness == WF_vars(PollLater)

Spec     == Init /\ [][Next]_vars
FairSpec == Spec /\ Fairness

-----------------------------------------------------------------------------

\* The engine's fields stay within their Rust types: attempts and times of
\* LocalRuntimeEngine and of its queue are never negative.
TypeOK ==
  /\ now \in Nat
  /\ next_op_id \in 0 .. MaxOps
  /\ inflight \in [Ops -> OpRecord]
  /\ pending \subseteq QueueRecord
  /\ completed \in [Ops -> Seq(Completion)]
  /\ delivered \in [Ops -> Seq(Completion)]
  /\ accepted \in [Ops -> Seq(Nat)]

\* The submission queue holds one record for each Queued operation, with the
\* attempts of that operation, and no other record: an operation without a
\* record would never be issued, one with two would be issued twice.
QueueMatchesInflight ==
  \A id \in Ops :
    LET records == {r \in pending : r.op_id = id}
    IN  IF inflight[id].state = "Queued"
        THEN \E r \in records : /\ records = {r}
                                /\ r.attempts = inflight[id].attempts
        ELSE records = {}

\* retry pushes without looking at the depth and submit pushes into inflight
\* before enqueue may refuse: neither takes the engine past its capacity.
WithinCapacity ==
  /\ Cardinality(Inflight) <= MaxInflight
  /\ Cardinality(pending) <= Cardinality(Inflight)

\* An operation the engine took a slot for was accepted: submit never fails
\* after it has pushed the operation into inflight.
NoHalfSubmission ==
  \A id \in Ops : inflight[id].state # "Unused" => Len(accepted[id]) = 1

\* inflight, the queue and the capacity agree at all times, although submit,
\* retry and the end of an operation each update them in an order of their own.
SlotsAccounted == QueueMatchesInflight /\ WithinCapacity /\ NoHalfSubmission

\* An accepted operation is in flight or has exactly one completion, which
\* agrees with its final state: none vanishes, none completes twice.
OneCompletion ==
  \A id \in Ops :
    LET events == delivered[id] \o completed[id]
    IN  CASE inflight[id].state = "Completed" ->
               Len(events) = 1 /\ events[1].status = "Success"
          [] inflight[id].state = "Failed" ->
               Len(events) = 1 /\ events[1].status # "Success"
          [] OTHER -> events = <<>>

\* An operation fails with timeout_exhausted only after it has been given
\* its whole budget: the first attempt and MaxRetries more, a timeout each.
BudgetSpent ==
  \A id \in Ops : \A i \in 1 .. Len(delivered[id]) :
    delivered[id][i].status = "TimeoutExhausted" =>
      delivered[id][i].finished_at >= accepted[id][1] + (MaxRetries + 1) * Timeout

\* A final state is final: no later poll reopens a finished operation.
FinalIsFinal ==
  [][\A id \in Ops : inflight[id].state \in {"Completed", "Failed"} =>
       inflight'[id] = inflight[id]]_vars

\* Every accepted operation is eventually delivered to the caller.
EventuallyDelivered ==
  \A id \in Ops : (accepted[id] # <<>>) ~> (delivered[id] # <<>>)

\* simpler_integration_m3_copy_completion_rules.md 7.5: a completion that
\* comes after the operation timed out does not count as a success.
NoSuccessAfterTimeout ==
  \A id \in Ops : inflight[id].state = "Completed" =>
                    inflight[id].ready_at <= inflight[id].timeout_at

=============================================================================
