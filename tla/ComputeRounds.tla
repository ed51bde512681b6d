---------------------------- MODULE ComputeRounds ----------------------------
(***************************************************************************)
(* The compute step of the sim-workloads workloads                         *)
(* (run_chip_backend_minimal_step and the same sequence inline in the      *)
(* three dual-node workloads) on top of the runtime engine: every round    *)
(* submits a host-to-device copy, a dispatch and a device-to-host copy one *)
(* after the other, then polls once, poll_step us later, and counts the    *)
(* completions without looking at them.  A submission the engine refuses   *)
(* ends the workload with an error.  The code polls 256 us later and takes *)
(* the latencies from the scenario; only their ratio matters, so the       *)
(* latencies are fixed here and a behaviour picks its poll_step.           *)
(***************************************************************************)
EXTENDS RuntimeEngine

CONSTANTS
  Rounds,     \* bound: rounds of the workload
  PollSteps   \* how far a round's poll may move the clock

ASSUME RoundsAssumption == Rounds \in Nat /\ PollSteps \subseteq Nat

VARIABLES
  poll_step,    \* the poll step of this behaviour
  round,        \* rounds finished
  step,         \* submissions made in the current round
  result,       \* "running", "ok" or "error"
  completions   \* report.completions: what the workload counts

wvars == <<vars, poll_step, round, step, result, completions>>

RoundKinds == <<"HostToDeviceCopy", "Dispatch", "DeviceToHostCopy">>

WInit == /\ Init
         /\ poll_step \in PollSteps
         /\ round = 0
         /\ step = 0
         /\ result = "running"
         /\ completions = 0

SubmitNext ==
  /\ result = "running" /\ round < Rounds /\ step < 3
  /\ Submit(RoundKinds[step + 1])
  /\ step' = step + 1
  /\ UNCHANGED <<poll_step, round, result, completions>>

SubmitRefused ==
  /\ result = "running" /\ round < Rounds /\ step < 3
  /\ ~ensure_capacity
  /\ result' = "error"
  /\ UNCHANGED <<vars, poll_step, round, step, completions>>

\* Mutated PollRound: polls one us early.
PollRoundEarly ==
  /\ result = "running" /\ round < Rounds /\ step = 3
  /\ \E failing \in SUBSET MayFail(now + poll_step - 1) :
        poll_completions(now + poll_step - 1, failing)
  /\ completions' = completions + Cardinality({id \in Ops : delivered'[id] # delivered[id]})
  /\ round' = round + 1
  /\ step' = 0
  /\ UNCHANGED <<poll_step, result>>

\* Mutated PollRound: moves the clock and does not poll.
PollRoundSkipped ==
  /\ result = "running" /\ round < Rounds /\ step = 3
  /\ now' = now + poll_step
  /\ round' = round + 1
  /\ step' = 0
  /\ UNCHANGED <<next_op_id, inflight, pending, completed, delivered, accepted,
                 poll_step, result, completions>>

\* Mutated PollRound: the step of the round is not reset.
PollRoundKeepsStep ==
  /\ result = "running" /\ round < Rounds /\ step = 3
  /\ \E failing \in SUBSET MayFail(now + poll_step) :
        poll_completions(now + poll_step, failing)
  /\ completions' = completions + Cardinality({id \in Ops : delivered'[id] # delivered[id]})
  /\ round' = round + 1
  /\ step' = step + 1
  /\ UNCHANGED <<poll_step, result>>

PollRound ==
  /\ result = "running" /\ round < Rounds /\ step = 3
  /\ \E failing \in SUBSET MayFail(now + poll_step) :
        poll_completions(now + poll_step, failing)
  /\ completions' = completions + Cardinality({id \in Ops : delivered'[id] # delivered[id]})
  /\ round' = round + 1
  /\ step' = 0
  /\ UNCHANGED <<poll_step, result>>

\* Mutated Finish: waits for what is still in flight, and nobody polls.
FinishWhenIdle ==
  /\ result = "running" /\ round = Rounds
  /\ Inflight = {}
  /\ result' = "ok"
  /\ UNCHANGED <<vars, poll_step, round, step, completions>>

Finish ==
  /\ result = "running" /\ round = Rounds
  /\ result' = "ok"
  /\ UNCHANGED <<vars, poll_step, round, step, completions>>

WNext == SubmitNext \/ SubmitRefused \/ PollRound \/ Finish

WSpec == WInit /\ [][WNext]_wvars /\ WF_wvars(WNext)

-----------------------------------------------------------------------------

\* The dispatch of a round, between the copy in and the copy out.
Execute(k) == 3 * k + 2

\* The locals of run_chip_backend_minimal_step keep to three submissions a
\* round, and the engine below to its types.
WTypeOK == /\ TypeOK
           /\ poll_step \in PollSteps
           /\ round \in 0 .. Rounds
           /\ step \in 0 .. 3
           /\ result \in {"running", "ok", "error"}
           /\ completions \in Nat

\* One poll reaches past the latency of every operation of its round, and
\* the engine has room for a round.
Ample == /\ poll_step >= DispatchLatency
         /\ poll_step >= CopyLatency
         /\ MaxInflight >= 3

\* In an ample scenario one poll settles the whole round, whatever the
\* timeout: no operation of a round is still in flight in the next one, and
\* the workload has counted three completions a round.
RoundsAreIsolated ==
  Ample /\ step = 0 => Inflight = {} /\ completions = 3 * round

\* Only a scenario that is not ample ends on a refused submission.
RefusedOnlyIfNotAmple == result = "error" => ~Ample

\* The workload ends: with its report or with the engine's refusal.
WorkloadTerminates == <>(result \in {"ok", "error"})

\* simpler_integration_m3_copy_completion_rules.md 7.2: the failure of an
\* execution fails the workload.
ExecutionFailureFailsWorkload ==
  result = "ok" => \A k \in 0 .. Rounds - 1 : inflight[Execute(k)].state = "Completed"

=============================================================================
