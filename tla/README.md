# TLA+ models of the Linqu UB simulator

The repository simulates a cluster of UB-connected nodes. A set of Rust crates
(`simulator/crates`) is the host side: a runtime that executes dispatches and
copies, services for blocks, shared memory, files and rows, the user API a guest
sees, and a device model for QEMU. Guest programs in C
(`simulator/guest-linux/aarch64`) run in the simulated nodes and talk to each
other over the simulated link. This directory models the parts of both that have
state which evolves, checks them with TLC and proves what matters most with
TLAPS.

## The system

| Part | State | Operations | Interacts with | Hard behaviour |
|---|---|---|---|---|
| `sim-runtime` `LocalRuntimeEngine` | operations in flight, submission queue, completions, clock | `submit_dispatch`, `submit_copy`, `advance_to`, `poll_completions` | workloads call it; it runs an external process per dispatch | timeout against readiness in one poll, retries, bounded queue written from two places |
| `sim-workloads` | report, block store, engine, surface | one function per workload | engine, surface, services | rounds that overlap, failures among counted completions |
| `sim-uapi` `LocalGuestUapiSurface` | command queues, runtime queue, completion queues, routes | `execute` with 16 commands | services, runtime queue of `sim-runtime`, device model | guests sharing one queue, retry that reorders, batch dropped half-way |
| `sim-services` | block, segment, file and row tables, a completion FIFO each | `submit_*`, `poll_ready` | the surface | FIFO at its depth |
| `sim-qemu` | MMIO registers, command and completion rings, interrupt status | `mmio_read`, `mmio_write`, doorbell, `poll_cq` | surface, QEMU through a C interface | rings at their limits, errors in the middle of a batch |
| `ub_obmm_pool_demo.c`, in the guest `/bin/linqu_ub_obmm_demo` | slots, metadata, READY and ACK tables per guest | `main`, exchange loops, `do_rounds` | N guests over UDP and shared regions; started and killed by `init.c` | start order, loss, datagrams thrown away, deadlines, a kill without clean-up |
| `ub_rpc_demo.c` | table of calls seen, calls and attempts of a client | server loop, client with retries | two to N guests | duplicates, full table, server that leaves |
| `ub_chat.c` | phase, round | handshake, numbered rounds | two guests over UDP | an answer sent once, a duplicate with an old number |
| `ub_obmm_demo.c`, not in the initramfs | region, mapping, phase | export, import, two payloads, unimport, unexport | two guests over UDP and shared memory; nothing starts it | region withdrawn under its user, messages sent once |
| `ub_tcp_each_server_demo.c` | parent, server child, attempts | connect with retries, single accept, line and ack | two guests over TCP | abandoned attempt in the accept queue, child without parent |
| `urma_dp.c` | packets sent, read and counted | probe loop, benchmark | two guests | leaving unheard, packets seen on two sockets |
| `ub_rdma_demo.c` | device handles, receive queue, send, completion queue | set-up, three exchanges, import, bind, post, poll, release | two guests over UDP and the uburma device | datagram before the socket is bound, completions out of order |
| `init.c` | stage, network, register under test | drivers, payload check, one program after the other, `linqu_probe`, then `/bin/run_demo`, the hold or power-off | starts, waits for and kills the programs | waits without a deadline, write-back that fails |
| `linqu_ub.c` (archived QEMU device), `driver/linqu_ub_drv.c`, `probe.c` | rings in guest memory, registers, interrupt line, pending event | register writes, interrupt thread, ring probes | the surface behind a C interface | doorbell that fails half-way, full rings, reset, acknowledgement against a new completion |
| `linqu_ub.c`, message queue | three rings, configuration space | register writes, requests | UB bus driver of the kernel | requests answered again after a failure |
| `sim-config`, `sim-topology`, `sim-core`, `sim-report`, `sim-cli`, scripts | tables built once | parsing, formatting, process start | - | none that evolves |

What makes them correct: an operation the engine accepted completes exactly once
and only fails when its retry budget is spent; a command of a guest is answered
once, to that guest, or is known to be dropped; in the pool no guest goes on to
the next round before all have seen the current one; two guests that run a
program agree on its outcome as far as their last message allows, and every guest
comes to the end its command line asks for; the device hands each command over once, answers it, and tells the
program so. `PROJECT.json` lists the
places in the code where this is at risk ("hazards").

## Modules

### `RuntimeEngine` - `sim-runtime/src/lib.rs`

`inflight`, `pending`, `completed`, `now` and `next_op_id` are the fields of
`LocalRuntimeEngine`; `delivered` and `accepted` are history. `Submit` is
`submit_dispatch` and `submit_copy`, `advance_to` and `poll_completions` carry
their names. A whole call of `advance_to` is one step: the closure that issues
(`Issue`), the loop that completes, retries or fails (`Settle`,
`NewCompletions`, `RetryRecords`) and the `retain` at the end. The caller picks
any time not before the last one; the external process of a dispatch is a set
`failing` chosen in the step. A record that `retain` removes stays in the
function with its final state, so "in flight" is the derived set `Inflight`.
Not modelled: event sink, manifest files, task and node labels.

### `ComputeRounds` - `sim-workloads/src/lib.rs`

The compute step that all workloads share (`run_chip_backend_minimal_step` and
its three inline copies): submit copy in, dispatch, copy out; poll once, 256 us
later; count the completions. It extends `RuntimeEngine` and uses its actions, so
every step is a call of the engine. The ratio between the poll step and the
latencies is what matters, so latencies are small constants and each behaviour
picks its poll step.

### `ObmmPool` - `ub_obmm_pool_demo.c`

One program counter per guest (`pool_pc`), the round, the tables `got_meta`, `ready`
and `got_ack`, the regions exported and imported, the slots written, and the
datagrams under way. One action per stretch of the program between two
interactions; the two halves (send, receive) of the exchange loops are separate
because other guests act in between. `Discard` is what the receive loops do with
a datagram they are not waiting for. `early` records that something happened
before its time: a datagram lost, sent to a socket that was not open, or thrown
away before the wait it was meant for; a wait given up while its datagram could
still come; a failing local call; a kill. `Kill` is the SIGKILL of init, which runs no
`cleanup_slots`: what was exported and imported may stay so, and a broadcast may
be cut short. `Start`, `StartFails` and `Kill` are what init does with the program
(`Managed`), the rest is what it does itself (`PoolStep`), so that `GuestPrograms` can
compose the two. Abstracted: payload bytes and cookies (a slot is written
or not), the physical windows, the ten copies of a COMMIT (one datagram, since
all receivers are waiting for it), the deadlines (a wait may be given up at any
time, or with `Patient` only when what it waits for cannot come any more). UDP
itself (`Lose`) is external.

### `UapiSurface` - `sim-uapi/src/lib.rs`, `sim-services/src/lib.rs`

The surface is one record `uapi`; its functions (`enqueue_cmd`, `ring_doorbell`,
`flush_services`, `flush_runtime`, `submit_descriptor_to_cq`, ...) are operators
on it with the names of the code (`MCUapiSurface` gives the services their depths), so that a caller such as the device model can
use several in one step. Every poll passes `now = u64::MAX`, which makes the
latencies of services and queue irrelevant; they are left out. Services share
one definition: a bounded FIFO of completions and a set of keys present.
`flush_runtime` calls itself while retries are left; the model repeats it
`MaxRetries + 1` times, and `PollSettles`, which is proved, says that this is
enough. Loops over a queue (`route_completions`, `DriveAll`) are recursive functions on
the number of entries done. `lost` and `refused` are history: commands a doorbell
dropped, commands that met a full service. A command refused before any state changed (queue full, wrong owner) is
a disabled action; a poll that is refused flushes first and is the action
`PollRefused`. Queues are registered before the behaviour starts;
`default_cq` is a constant because the order of the keys of a `HashMap` does not
change while no queue is added. `RemoteFetch` and `RemoteStore` are the stub the
code has.

### `UbRpc`, `RpcService` - `ub_rpc_demo.c`

`RpcService` says what a client may rely on: a call is executed before it is
answered, settled once, and calls are settled in order. `UbRpc` is the program:
`ClientSend`, `ClientRecv`, `ClientTimeout`, `ServerHandle` with the table `seen`,
the exit after `ExpectedCalls`, alarm and failing calls. Its variables `executed`
and `outcome` are those of the abstract module, so the refinement mapping
is the identity on them (`Service == INSTANCE RpcService WITH ...`), and
`ImplementsRpcService` is the abstract specification. Datagrams carry the number of their
attempt, which the programs do not see, so that copies stay apart.

### `UbChat`, `TcpEachServer`, `UrmaDp`, `UbRdma`, `ObmmDemo`

One module per program, each with a program counter per guest (or per process:
parent and child in `TcpEachServer`), the datagrams or connections under way, and
one action per stretch of the program between two interactions. Leaving `main`
closes the sockets, and a datagram to a closed socket vanishes. Each module has a
history variable `..._disturbed` that becomes true when the environment does what
the program has no answer to: a datagram lost or duplicated, a call that fails, a
wait given up that could still have ended. `UrmaPassedOrDisturbed`, `ChatPassedOrDisturbed`
and so on hold of a state in which otherwise all guests have passed. What counts as a disturbance is spelled out in the
actions and is part of what the model says about the code: in `UbRdma` a datagram
sent before the peer has bound the port is one, because it is sent once, and so is
a reply whose completion comes before that of the request, because
`rdma_wait_for_cqe` throws it away; in `UrmaDp` a `sendto` that is refused, and a guest that leaves the probe
loop while the peer is in it and has no packet (with and without the benchmark both
guests can pass undisturbed); in `TcpEachServer` an attempt abandoned after its handshake.
A loss is a disturbance, so these properties say nothing of a run with one; what
remains then is that no guest passes for the wrong reason (`PassIsMeant`,
`PeersInStep`) and that every guest ends (`EveryGuestEnds`).

`ObmmDemo` is a model of a program that stands beside the others in the source but
is not put into the initramfs: `build_initramfs.sh` builds the binary that init calls
`linqu_ub_obmm_demo` from `ub_obmm_pool_demo.c`. It is checked and proved alone. In it an
exporter that fails does withdraw the region under its importer, as `ExportOutlivesImport` says.

A device without uburma files makes `ub_rdma_demo.c` return 0 without an exchange
(`RdmaSkip`), and init prints that as a pass. The model keeps "skipped" and
"passed" apart, and "passed" is what the properties speak of.

Abstracted: texts and payloads (a message is what the receiver tells apart),
interface set-up (a step that succeeds or fails, in `GuestInit`), deadlines (a
wait may be given up at any time), encoding of ioctl arguments. External, from how the
programs use them: UDP and TCP, the OBMM memory (a write becomes visible later), the
uburma device (a send is delivered to a posted receive and completed afterwards,
without an order between completions of a send and of a receive).

### `GuestInit`, `GuestPrograms`

`GuestInit` is `main` of `init.c`: the stages it goes through, the check that
writes to a register of the remote device and puts the old value back, the
network, `linqu_probe`, and the three ends of `main`. The probe runs unless the command
line says not, and init waits for it without a deadline; with
`linqu_probe_interrupt_uio=1` it waits for an interrupt of the device, also without one
(`Blocking`, `ProbeInterrupt`). After it init becomes `/bin/run_demo` (`EnterDemoFlow`)
if the environment says so, which it does when `run_demo` itself has started init, or
holds for ever, or powers off. `GuestPrograms` composes `GuestInit` with the six programs
init runs: it starts a program
when it reaches its stage, waits until it has ended (`Waited`), or kills it
after a minute (`KillRdma`, `KillObmm`), and goes on. A guest is a node of the
pool by `NodeIndex`. The two guests are not
synchronised: one may be in a later program than the other. `MCGuestPrograms`
gives the command lines.

### `LinquUb` - `linqu_ub.c`, `linqu_ub_drv.c`, `probe.c`

An endpoint over `UapiSurface`, which it extends: `submit_slot`, the doorbell and
`poll_completion` of the C interface are the operators of the surface, so one
register write is one step through both. Beside it the interrupt thread of the
driver (read, acknowledge, tell) and the program, whose accesses interleave. `failed`,
`passed` and `boot` are history: kicks that failed, commands whose slot
`cmdq_head` has passed, what was left over at a reset. DMA errors are not
modelled, the pages of the rings being guest memory. Completions come in the order of
the commands only among those that take the same way through the surface
(`Channel`): `flush_services` empties one service after the other, so completions
of different services overtake one another.

### `LinquMsgq` - `linqu_ub.c`, message queue

The three rings, the registers of the configuration space that requests read and
write (two addresses share a word; `cfg_upi` has a width), and the interrupt. The
driver on the other side is in the guest kernel, outside the repository: it is
external and keeps no more requests under way than the rings hold. Enumeration
requests, whose answers are constant, are one kind.

### Proof modules

They add no behaviour to the modules they extend; see [Proofs](#proofs).

| Module | Proves about |
|---|---|
| `ComputeRoundsProofs` | `RuntimeEngine`, `ComputeRounds` |
| `ObmmPoolProofs` | `ObmmPool` |
| `GuestPairProofs` | `ObmmDemo`, `TcpEachServer`, `UbChat`, `UbRpc` with `RpcService`, `UbRdma` |
| `GuestProgramsProofs` | `GuestPrograms`, with `UrmaDp` and `GuestInit` |
| `QueueLemmas` | numbers, loops and queues, for the next three |
| `LinquMsgqProofs` | `LinquMsgq` |
| `UapiSurfaceProofs` | `UapiSurface` |
| `LinquUbProofs` | `LinquUb`, with the lemmas of `UapiSurfaceProofs` |

## Runs

| Run | Instance | Question |
|---|---|---|
| `runtime_engine` | 3 operations, capacity 2, 1 retry, times up to the bound | Is an accepted operation always in flight or completed once, with its whole budget used before it fails, and delivered in the end? |
| `runtime_late_success` | same, timeout before readiness | Violation: an operation past its timeout is completed as a success. |
| `compute_rounds` | 4 rounds, several poll steps | Are rounds isolated when the poll is long enough, and does the workload always end? |
| `compute_failure` | 2 rounds, external process may fail | Violation: a failed dispatch leaves the workload successful. |
| `pool` | 2 guests from power-on, loss, duplication, failures, impatient waits | Does the barrier hold whatever fails; does every guest end; do all pass unless something was early? |
| `pool_rounds` | 3 guests from the READY barrier, loss, impatient waits | Does every guest end and pass unless something was early, where a TURN can overtake a COMMIT? |
| `pool_race` | 2 guests, no loss, patient waits | Violation: a guest can still fail, because of the order in which the guests start. |
| `uapi` | 2 guests, 3 commands, queues of 2, block service of 1, others of 2, 1 retry | Is every command in one place, answered to its guest or known to be dropped; does the retry cover twice the depth; is every command answered? |
| `guest_programs` | 2 guests, each program, the payload check, and the probe, hold and demo-flow stages; loss, duplicates, failing calls, kills | Does every guest come to the end its command line asks for; do both pass a program that nothing disturbs; does the RPC program implement `RpcService`; do the safety properties of each program hold whatever happens, and what is left of a guest that is gone? |
| `obmm_demo` | 2 guests, loss, failing calls, writes that become visible later | Is the region never withdrawn under its importer by a normal end, is every pass for a verified payload, do both pass undisturbed? |
| `device` | 1 endpoint, command ring of 3, completion ring of 2, 4 commands, 1 reset, surface queues of 2 and 1 | Is every command handed over once and answered in order; is no wakeup lost between device, interrupt thread and program; what do failed kicks and resets leave behind? |
| `message_queue` | rings of 3, 2 and 3, 3 requests over 5 addresses, 2 failures, 1 reset | Is every request answered once, in order, with the value of the last write? |

Where several short properties guard one promise, a run checks their
conjunction and the parts keep their names in the module:

| Checked | Promise | Parts |
|---|---|---|
| `SlotsAccounted` | queue and table of the engine agree, within capacity, whatever a submission or a retry does | `QueueMatchesInflight`, `WithinCapacity`, `NoHalfSubmission` |
| `EveryNodeEnds` | every guest of the pool ends, and passes unless something was early | `Termination`, `PassUnlessEarly` |
| `GuestsTypeOK` | every program is at one of its points | the type invariants of the programs |
| `RegionIsPassedOn` | the pairwise program hands its region over in step and passes on what was seen | `ExportOutlivesImport`, `TurnsDoNotOverlap`, `PassIsVerified` |
| `PassIsMeant` | what "pass" says about the peer and about what is left behind | `PassLeavesRegister`, `NoLonePass`, `PassIsMutual`, `BarrierHolds`, `PassIsAnExchange`, `CleanPass` |
| `PeersInStep` | neither end takes a message for one of another round, call or attempt | `RxWithinCopies`, `LockStep`, `MismatchOnlyIfDisturbed`, `CountIsCalls`, `ResponsesFit`, `AckOnLiveAttempt`, `SendFindsReceive`, `ProtoOnlyIfDisturbed`, `SingleOwner`, `RoundsAfterImport` |
| `LeavesNothingBehind` | what a guest that passes, fails or is killed leaves there and means to the others: no child without a parent, no region but after a kill, no region withdrawn by a pass under its reader, nobody past the round of a guest gone before its COMMIT | `NoOrphan`, `OnlyKillLeaves`, `ReadsExportedRegion`, `GoneOwnerStops` |
| `UndisturbedPass` | a program nothing disturbs passes on all its guests | `UrmaPassedOrDisturbed`, `ChatPassedOrDisturbed`, `RpcPassedOrDisturbed`, `TcpPassedOrDisturbed`, `RdmaPassedOrDisturbed`, `PassedOrEarly` |
| `HandedOverOnce` | the device hands each command over once | `AtMostOnce`, `NoneLost`, `NothingLeftBehind` |
| `ReadsOwnInOrder` | the program reads its own completions, those of one channel in order | `ReadInOrder`, `StaleOnlyIfLeft` |
| `SignalIntact` | line, status and wake-up agree | `LineFollowsStatus`, `NoLostWakeup` |
| `EverythingArrives` | wake-ups and completions arrive | `WakeupArrives`, `CompletionArrives` |
| `AnswersAreRight` | the message queue answers the right request with the right value | `CompletionNamesResponse`, `AnsweredInOrder`, `ReadsLastWrite` |

`pool_rounds` checks liveness only: its safety is proved for every number of guests.

Bounds. In `runtime_engine` three operations over a capacity of two are enough
for a refused submission, a retry while another operation waits, and a slot that
is reused; the times allow a timeout, a retry and an exhausted budget. In
`compute_rounds` the second round is the first that can meet leftovers. The pool
with two guests is complete from power-on; three guests are the smallest number
with two successive owners and a common peer. The full protocol of three guests
has some millions of states and was left to the proofs, which cover every number
of guests. In `uapi` three commands over a service of depth one are the smallest
load that exhausts the retry (one submitted directly, two staged), and a runtime
queue of two lets a doorbell drop a command. In `guest_programs` two rounds, two
calls, two attempts and one table entry are the smallest numbers with a
predecessor, a resend and a full table; the programs run one at a time on a guest,
so their state spaces add up: one command line per program, and three with the probe
(that returns, or that may wait for an interrupt), the hold and the demo flow, where one
guest may be in a later stage than the other. Two programs on one command line multiply the
states beyond a run; the proofs cover every command line. In `device` rings of three and two wrap within four
commands, the runtime queue of one makes a doorbell of the surface fail, and one
reset is enough for leftovers. In `message_queue` three requests wrap the
receive ring, and two failures repeat a repetition.

Fairness. `RuntimeEngine`: the caller keeps polling with later times, as every
workload loop does. `ComputeRounds`: the workload is a sequential program that
takes its next step. `ObmmPool`: weak fairness of each guest's own steps and of its
clock; strong fairness of receiving from each peer, because every pass of a loop
empties the socket. Loss stays possible: a lossy network may lose every datagram.
`UapiSurface`: a guest rings for what it enqueued and keeps polling; weak
fairness of both actions, with the enabling conditions written out. Guest programs:
init and each program are scheduled, a datagram that has arrived is read by the
loop that waits for it (strong fairness in the chat, whose other steps may come
between), every deadline and alarm passes. An interface
need not appear, the interrupt a blocking probe waits for need not come, init need not
kill anything, and loss stays possible. `LinquUb`: the interrupt thread runs while
the line is up, and the program keeps consuming and ringing. `LinquMsgq`: the
driver writes SQ_PI for what it has posted and takes responses.

Deadlock checking is off where the modelled programs end: the pool, the guest
programs, and the bounded sequences of commands and requests of the device.

## What the violations show

1. `advance_to` tests readiness before the timeout, so a late completion counts as
   a success; the completion rules (section 7.5) exclude it.
2. The workloads count completions without looking at their status; the rules
   (section 7.2) want the workload to fail.
3. In the pool a guest stops sending HELLO to a peer once it has that peer's. A
   HELLO sent before the peer opened its socket is gone, and the peer waits in
   vain. The README of the guest programs says every node completes.

## Proofs

Every theorem is about all values of the constants. The named assumptions of a
module (`RuntimeAssumption`, `RoundsAssumption`, `PoolAssumption` and so on) say
that numbers are natural numbers, that switches are Booleans and that the two
guests have different roles; TLC evaluates them in every run. None of the properties is
inductive as the runs check it. Each proof module therefore states an inductive
invariant first, proves that the initial states have it and that every step keeps
it, with one lemma or step per action, and derives the properties from it.

`ComputeRoundsProofs`, first the engine: `TypeOK`, `SlotsAccounted`, `OneCompletion`, `BudgetSpent` and
`FinalIsFinal`, for every capacity, latency, timeout, retry budget and number of
operations. `EngineInv` adds that an operation not handed out yet has no history,
and that an operation in its a-th attempt has used a whole timeout for each
attempt before (`BudgetRuns`), which is what makes `timeout_exhausted` come after the
full budget. The lemmas are about `EngineStep`, a submission or a poll at *any*
time that is not earlier, so that they also hold for a caller with its own clock.

The rounds use that: `RoundsInv` is `EngineInv` and, in an ample scenario,
`AmpleInv`: in flight is exactly what the current round has submitted, all of it
submitted at this very time. `PollSettlesRound` shows that one poll then settles
the round, from which follow `RoundsAreIsolated` (rounds never overlap and each
counts its three completions) and `RefusedOnlyIfNotAmple`.

`ObmmPoolProofs`, for every number of guests: `PoolTypeOK`, `BarrierHolds`, `SingleOwner`,
`RoundsAfterImport`, `ReadsExportedRegion`, `GoneOwnerStops` and the action property
`InOrder`, with init's kill at any point. The
barrier rests on messages under way, and these on the state of their senders.
`IndInv` adds what a datagram says: an ACK, under way or recorded, for round r
means that its sender has verified slot r; a COMMIT for r that every guest has;
a TURN that its owner has written; a READY that its sender has imported the pool;
and guests are at most one round apart. `OwnerLeavesFirst`, a round is left by its
owner before anyone else, makes the end of an owner safe: one that is gone before its
COMMIT holds every other guest at its round (`GoneOwnerStops`). `RegionInv` says who still
exports: a guest between its start and its end, or one that was killed. All of it is
kept by every step on its own (`PoolNextKeepsInv`), so that the composition can use it.

`GuestPairProofs`: the programs of the guests, each alone
(`ObmmSafety`, `TcpSafety`, `ChatSafety`, `RpcSafety`, `RdmaSafety`), with datagrams lost or
doubled, calls failing, waits given up. What a guest may conclude about its
peer rests on the datagrams between them, so the invariants say what each
datagram under way implies:
* `ObmmInv`: `ObmmOrder` orders the hand-overs, `ObmmRegion` ties mapping and export to them,
  `ObmmSeen` the confirmation to the payload the exporter has seen;
* `TcpInv`: a connection's stages on both ends, for every number of attempts;
* `ChatInv`: `ChatWire`, a message or acknowledgement of round r puts its sender in or
  past r;
* `RpcInv`: `RpcWire`, a response under way is for an executed call and fits it;
  `RpcTable`, so does every entry of the duplicate table; `RpcCalls`, the count is the
  number of executions while the table has room. With it
  `RpcImplementsService`: each step of the clients and the server is a step or a
  stutter of `RpcService`, under `executed` and `outcome`;
* `RdmaInv`: `RdmaHandles`, what a guest holds is what its point of main says; `RdmaInfo`
  and `RdmaTurns`, who may send when; `RdmaPayload`, a receive waits until a payload is there.

`GuestProgramsProofs`: the composition. It adds `UrmaInv` (`rx_ok` counts no packet that
neither socket has read, `tx_ok` none that was not sent) and `BootInv` (the register of the
business test between and within its entries, and the stages). `StepOfEach` shows that a step of the guests is, for each
program, a step of it, its end by init's kill, or no step; `GuestsInv`, the
conjunction of the invariants of init, the five programs of two guests and the pool
(`IndInv`), is then kept. It gives the properties
of the run `guest_programs` that are invariants (`GuestsTypeOK`, `PassIsMeant`, `PeersInStep`,
`LeavesNothingBehind`) and `ImplementsRpcService` for the whole guest.
`GuestsAssumption`: every booting guest has a role in every program and a place in the
pool, whose calls may fail and whose program may be killed.

`LinquMsgqProofs`: `MsgqTypeOK`, `LineFollowsInt` and `AnswersAreRight`, for all depths of
the rings (two entries or more where one is kept free), all registers and values, and any number
of requests, failures and resets. `MsgqInv` names the number n of requests that
are answered: `SendRing`, the send ring holds the others; `AnswerRings`, as long as no
request failed, the receive and completion rings hold, at their places modulo the depth, the answers
that were not taken, and the registers are what `Reference` computes from the
first n requests; `TakenInOrder`, the driver has taken the rest, and there is room.
`Written` is what remains after a failure: no completion names an empty slot.
One write of SQ_PI answers any number of requests. That the loop `Handled` takes
the invariant from n to all of them is shown by the least number of requests for
which it would not (`LeastElement`); `LoopExists` shows that the recursive function exists.

`QueueLemmas` is what the proofs about queues share. A loop is a recursive function;
a set that holds 0 and with each number the next holds them all (`UpTo`), so a
loop invariant is proved as such a set and no lemma needs an operator as a parameter.
How often something is in a queue is the number of places with an element of a set
(`HitsIn`); the lemmas say what appending, concatenating, splitting and mapping do to it.

`UapiSurfaceProofs`: all invariants of the run `uapi` and its action property
`RetryCoversTwiceDepth`, for every number of guests, commands and retries and every
depth. `Ledger` is the inductive invariant (`LedgerHolds`):
* `Once`: command queue, runtime queue, services, completion queue, what the guest has
  read and what a doorbell is known to have dropped hold each command once, all together.
  `Settled` counts a guest's completions over the places inside the surface; each
  operator is shown to move completions between places, to add one, or none (`Adds`);
* `Sound`: queues hold commands of the log in order, those behind a refused one
  excepted (`RunOK`); an insert is in its store, still queued, or was refused
  (`Effect`); no completion in the surface is wrong (`Clean`). `ReadsOwnWrites` is what
  `Clean` says when the guest reads it: that a lookup failed is wrong if an earlier
  insert was neither refused nor lost;
* a pass of `flush_runtime` empties the runtime queue but for entries with one attempt
  more than before, so `MaxRetries + 1` passes leave none (`PollsSettle`).

`RetryCovers` needs another argument, over the load of a service: the completions it
holds and the entries there are for it. In a pass none of its entries is refused, and it
holds no more than it was given; or one is, which takes a full service and has the
service flushed, so that a whole depth of the load is done with (`LoadIs`). After one
pass a load of twice the depth is therefore at most the depth, and the second pass
refuses nothing; in the first pass every entry may be tried again, as between the
operations no entry has been tried (`Calm`).

`LinquUbProofs`: all invariants of the run `device`, for all depths of the rings and the
queues, any number of commands, retries and resets. A kick is one operator over the whole
surface; `KickIs` shows that it has three outcomes (`KickSubmit`, `KickDoorbell`, `KickOk`), each
given by what it did to the surface (`Gives`, `Rings`, a flush, `Takes`). Three
invariants follow one another:
* `DevInv`: types, `Reader` (the program's place is between the CQ_HEAD it wrote, rewound or not,
  and the tail) and `Woken`; from it `DevTypeOK` and `SignalIntact`;
* `HandNow`, which gives `HandedOverOnce`: command ring, surface, completion ring and what
  was read hold each command at most once unless a kick failed (`Counted`), and what
  cmdq_head has passed is beyond the command queue (`HandedAll`). The second needs to know
  what failed kicks leave there: `Lined` says that the queue of the surface is empty, or
  so full that no kick succeeds (`Clogged`), or behind a runtime queue that is (`Jammed`), or
  begins with what the ring begins with, up to a descriptor that does not decode
  (`Aligned`): a kick that succeeds then takes from the front of the queue the commands
  whose copies it puts at the end;
* `OrderNow`, which gives `ReadsOwnInOrder`: the commands in what was read, completion ring,
  completion queue, runtime queue and command ring, one after the other (`Line`), have
  rising numbers among those of one channel (`Rising`). Doorbells and reads only move a
  border in the line. The flush alone permutes it: `FlushStreams` shows that it puts the
  completions of the runtime queue behind those in the completion queue, channel by channel
  in order, as every service, the list of failures and the way past them is a lane
  (`Streams`) and the flush concatenates lanes of different channels.
  That the program reads no completion from before a reset (`NoStaleAnswers`) follows from `HandNow`.

Only model-checked: all liveness (`FairSpec`s of the runs and the fairness of `uapi` and
`device`; fairness and ENABLED are outside the prover's reach).

## What the models show beside the violations

These follow from the code and are not runs of their own.

* The workloads submit a dispatch before the copy of its input has completed (in
  `ComputeRounds`, `PollRound` comes after all three submissions); section 5.1 of the
  completion rules excludes it. The engine has no dependencies between operations, so
  nothing delays the dispatch.
* `init.c` waits for `linqu_probe` without a deadline. With `linqu_probe_interrupt_uio=1`
  and no interrupt a guest stays in that stage and never powers off.
* `init.c` prints a pass for a guest that skips `ub_rdma_demo.c`; its peer fails.
* `ub_obmm_pool_demo.c`: nothing answers a COMMIT. If all copies of the last one to a
  guest are lost, its sender passes and the guest fails by its deadline; the barrier
  holds, but the guests disagree on the outcome.
* init kills the pool program after 60 s, half the time the program gives itself
  (`RUN_TIMEOUT_S`), and the kill leaves regions exported and imported.
* `ub_rdma_demo.c` passes only if the responder has bound its sync port before the
  initiator sends, and its data port before the initiator's information comes.
* `linqu_ub.c`: a doorbell that fails is not undone. Commands submitted by then are
  submitted again; after a failure on a full runtime queue every later doorbell
  fails, as completions are fetched only after a success; a reset leaves commands
  in the surface, behind which later batches lag.
* `linqu_ub.c`, message queue: after a request that is not known, the ones before it
  are executed again at every write of SQ_PI, until a reset. What the properties say of
  the order of requests and answers therefore ends with the first failure.
* `ub_tcp_each_server_demo.c`: an attempt that is given up after 250 ms can occupy
  the only accept of the other guest.
* `urma_dp.c`: with a raw socket the benchmark counts packets twice, which hides
  losses.

## Not modelled, and the plan

Not modelled: `sim-qemu/src/device.rs`, the Rust successor of the archived device;
block store and route planner; latencies, access rights and dirty bits of the
services; bookkeeping of the workloads beyond the compute step; the encoding of
uburma ioctl arguments and the wrap of the RDMA rings; ummu and decoder registers
and UBIOS tables of `linqu_ub.c`; register read-back checks of `probe.c`;
`init_manual_bind.c` and `insmod.c`; what `/bin/run_demo` does after init. Left out for good: parsing, configuration, report formatting, process and
QEMU control in scripts.

Next: a module for `device.rs` over `UapiSurface`, beside `LinquUb`; its `take_cmd_slot` empties a
slot before `enqueue_descriptor` can fail, which no property covers yet. Then the
proof that this device, too, hands every command over once, for which `KickIs` and the
lemmas about `Gives`, `Rings` and `Takes` can be used as they are.
