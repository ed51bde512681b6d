----------------------------- MODULE UapiSurface -----------------------------
(***************************************************************************)
(* The guest-visible surface of sim-uapi (LocalGuestUapiSurface) with the  *)
(* four services of sim-services behind it.                                *)
(*                                                                         *)
(* A command goes from the command queue of its guest through the runtime  *)
(* queue, shared by all guests, into the completion FIFO of its service,   *)
(* and from there to the completion queue of its guest.  Nothing moves by  *)
(* itself: a doorbell stages commands, and every poll, of whichever guest, *)
(* flushes the runtime and the services with now = u64::MAX, that is, no   *)
(* matter what the latencies are.  A service whose FIFO is full makes the  *)
(* runtime retry the command max_retries times.                            *)
(*                                                                         *)
(* The functions of the surface are operators from a surface record to a   *)
(* surface record, so that the device model can call several in one step.  *)
(* Guests are their own entity, owner and (completion, command) queue      *)
(* pair.  Commands are numbered in the order guests issue them.            *)
(***************************************************************************)
EXTENDS Integers, SequencesExt

CONSTANTS
  Guests,         \* guests, each with its completion and command queue
  default_cq,     \* the guest whose queue is the first key of cq_events
  Keys,           \* block hashes, segments, paths and row keys
  Ops,            \* the operations guests issue
  CmdDepth,       \* depth of a command queue
  RuntimeDepth,   \* runtime_queue_depth
  ServiceDepth,   \* service -> its queue_depth
  MaxRetries,     \* runtime_max_retries
  MaxCmds         \* bound: commands issued in a behaviour

\* BadIo is a block operation without a block hash, BigPut a DbPut over the
\* batch limit, Remote a RemoteFetch or RemoteStore.
Inserts == {"WriteBlock", "DfsWrite", "DbPut"}
Lookups == {"ReadBlock", "BlockWriteback", "DfsRead", "DbGet", "ShmemPut", "ShmemGet"}
AllOps  == Inserts \cup Lookups \cup {"BigPut", "Dispatch", "Remote", "BadIo"}

Services == {"block", "shmem", "dfs", "db"}

ASSUME SurfaceAssumption ==
  /\ default_cq \in Guests
  /\ Ops \subseteq AllOps
  /\ CmdDepth \in Nat \ {0}
  /\ RuntimeDepth \in Nat
  /\ ServiceDepth \in [Services -> Nat]
  /\ MaxRetries \in Nat
  /\ MaxCmds \in Nat

VARIABLES
  log,    \* history: the commands issued, in order
  uapi,   \* the surface
  seen    \* history: guest -> completions it has received

vars == <<log, uapi, seen>>

-----------------------------------------------------------------------------

ServiceOf(op) ==
  CASE op \in {"WriteBlock", "ReadBlock", "BlockWriteback"} -> "block"
    [] op \in {"ShmemPut", "ShmemGet"}                      -> "shmem"
    [] op \in {"DfsWrite", "DfsRead"}                       -> "dfs"
    [] op \in {"DbPut", "BigPut", "DbGet"}                  -> "db"
    [] OTHER                                                -> "none"

\* The way of a command through the surface: the FIFO of its service, the
\* failures of flush_runtime, or straight to the completion queue.
Channel(op) == IF op = "BadIo" THEN "failures" ELSE ServiceOf(op)

\* UapiDescriptor, with the guest whose completion queue it answers to.
\* A direct command did not go through a command queue.
Command == [id: 1 .. MaxCmds, guest: Guests, op: Ops, key: Keys, direct: BOOLEAN]

\* The completion of a command.
Event(cmd, status) == [id |-> cmd.id, guest |-> cmd.guest, status |-> status]

EventType == [id: 1 .. MaxCmds, guest: Guests,
              status: {"Success", "Failure", "Invalid", "Exhausted"}]

SurfaceType ==
  [cmdq     : [Guests -> Seq(Command)],       \* CommandQueueState.pending
   runtime  : Seq([cmd: Command, attempts: 0 .. MaxRetries]),
   service  : [Services -> Seq(EventType)],   \* completions of the services
   store    : [Services -> SUBSET Keys],      \* blocks, segments, files, rows
   cq       : [Guests -> Seq(EventType)],     \* CompletionQueueState.events
   failures : {<<>>},                         \* failures of a drive_ready
   refused  : SUBSET (1 .. MaxCmds),          \* history: met a full service
   lost     : SUBSET (1 .. MaxCmds)]          \* history: commands dropped

EmptySurface ==
  [cmdq     |-> [g \in Guests |-> <<>>],
   runtime  |-> <<>>,
   service  |-> [v \in Services |-> <<>>],
   store    |-> [v \in Services |-> {}],
   cq       |-> [g \in Guests |-> <<>>],
   failures |-> <<>>,
   refused  |-> {},
   lost     |-> {}]

Init ==
  /\ log = <<>>
  /\ uapi = EmptySurface
  /\ seen = [g \in Guests |-> <<>>]

-----------------------------------------------------------------------------

CmdqHasRoom(s, g) == Len(s.cmdq[g]) < CmdDepth

enqueue_cmd(s, g, cmd) == [s EXCEPT !.cmdq[g] = Append(@, cmd)]

\* Mutant: a doorbell takes one command, whatever the batch.
TakenOne(s, g, batch) == Min({1, batch, Len(s.cmdq[g])})

\* The commands a doorbell takes off the command queue, and how many of them
\* the runtime queue has room for.
Taken(s, g, batch) == Min({batch, Len(s.cmdq[g])})

Staged(s, g, batch) == Min({Taken(s, g, batch), RuntimeDepth - Len(s.runtime)})

\* ring_doorbell takes the batch off the command queue, then stages it one by
\* one and returns at the first error: what is left of the batch is dropped.
ring_doorbell(s, g, batch) ==
  LET taken  == Taken(s, g, batch)
      staged == Staged(s, g, batch)
  IN  [s EXCEPT !.cmdq[g] = SubSeq(@, taken + 1, Len(@)),
                !.runtime = @ \o [i \in 1 .. staged |->
                                    [cmd |-> s.cmdq[g][i], attempts |-> 0]],
                !.lost = @ \cup {s.cmdq[g][i].id : i \in staged + 1 .. taken}]

-----------------------------------------------------------------------------

\* What the store of its service makes of a command.
StatusOf(s, cmd) ==
  IF \/ cmd.op \in Inserts
     \/ cmd.op \in Lookups /\ cmd.key \in s.store[ServiceOf(cmd.op)]
  THEN "Success" ELSE "Failure"

ServiceFull(s, cmd) ==
  /\ ServiceOf(cmd.op) # "none"
  /\ Len(s.service[ServiceOf(cmd.op)]) >= ServiceDepth[ServiceOf(cmd.op)]

\* submit_read, submit_write and their like in the four services: the store
\* changes at once, the completion goes to the back of the FIFO.
ServiceSubmit(s, cmd) ==
  LET v == ServiceOf(cmd.op)
  IN  [s EXCEPT !.service[v] = Append(@, Event(cmd, StatusOf(s, cmd))),
                !.store[v] = IF cmd.op \in Inserts THEN @ \cup {cmd.key} ELSE @]

enqueue_to_cq(s, g, e) == [s EXCEPT !.cq[g] = Append(@, e)]

\* submit_descriptor_to_cq and submit_io_to_cq of a command that is neither
\* BadIo nor for a full service.
submit_descriptor_to_cq(s, cmd) ==
  CASE cmd.op = "Dispatch" -> enqueue_to_cq(s, cmd.guest, Event(cmd, "Success"))
    [] cmd.op = "Remote"   -> enqueue_to_cq(s, cmd.guest, Event(cmd, "Failure"))
    [] OTHER               -> ServiceSubmit(s, cmd)

\* A completion goes to the queue bound to its operation at submission.
route_completion_to_cq(s, e) == enqueue_to_cq(s, e.guest, e)

\* Completions that are routed one after the other.
route_completions(s, events) ==
  LET acc[k \in 0 .. Len(events)] ==
        IF k = 0 THEN s ELSE route_completion_to_cq(acc[k - 1], events[k])
  IN  acc[Len(events)]

\* flush_services with now = u64::MAX.
flush_services(s) ==
  route_completions([s EXCEPT !.service = [v \in Services |-> <<>>]],
                    s.service["block"] \o s.service["shmem"]
                      \o s.service["dfs"] \o s.service["db"])

Failed(s, cmd, status) == [s EXCEPT !.failures = Append(@, Event(cmd, status))]

\* An entry meets a full service: the history notes it; it is tried again.
Refused(s, r) == [s EXCEPT !.refused = @ \cup {r.cmd.id}]

Retried(s, r) == [s EXCEPT !.runtime = Append(@, [r EXCEPT !.attempts = @ + 1])]

\* Mutant: attempts <= max_retries.
DriveEntryOneMore(s, r) ==
  LET t == Refused(flush_services(s), r)
  IN  CASE r.cmd.op = "BadIo"  -> Failed(s, r.cmd, "Invalid")
        [] ServiceFull(s, r.cmd) -> IF r.attempts <= MaxRetries
                                    THEN Retried(t, r)
                                    ELSE Failed(t, r.cmd, "Exhausted")
        [] OTHER               -> submit_descriptor_to_cq(s, r.cmd)

\* Mutant: a refusal is reported as a failure and retried all the same.
DriveEntryReports(s, r) ==
  LET t == Refused(flush_services(s), r)
  IN  CASE r.cmd.op = "BadIo"  -> Failed(s, r.cmd, "Invalid")
        [] ServiceFull(s, r.cmd) -> IF r.attempts < MaxRetries
                                    THEN Failed(Retried(t, r), r.cmd, "Exhausted")
                                    ELSE Failed(t, r.cmd, "Exhausted")
        [] OTHER               -> submit_descriptor_to_cq(s, r.cmd)

\* Mutant: the services are not flushed before the retry.
DriveEntryNoFlush(s, r) ==
  CASE r.cmd.op = "BadIo"      -> Failed(s, r.cmd, "Invalid")
    [] ServiceFull(s, r.cmd)   -> IF r.attempts < MaxRetries
                                  THEN Retried(Refused(s, r), r)
                                  ELSE Failed(Refused(s, r), r.cmd, "Exhausted")
    [] OTHER                   -> submit_descriptor_to_cq(s, r.cmd)

\* Mutant: an error other than a full service is swallowed.
DriveEntrySwallows(s, r) ==
  LET t == Refused(flush_services(s), r)
  IN  CASE r.cmd.op = "BadIo"  -> s
        [] ServiceFull(s, r.cmd) -> IF r.attempts < MaxRetries
                                    THEN Retried(t, r)
                                    ELSE Failed(t, r.cmd, "Exhausted")
        [] OTHER               -> submit_descriptor_to_cq(s, r.cmd)

\* The closure of flush_runtime and what drive_ready does with its answer.
\* The services are flushed between the refusal and the retry.
DriveEntry(s, r) ==
  LET t == Refused(flush_services(s), r)
  IN  CASE r.cmd.op = "BadIo"  -> Failed(s, r.cmd, "Invalid")
        [] ServiceFull(s, r.cmd) -> IF r.attempts < MaxRetries
                                    THEN Retried(t, r)
                                    ELSE Failed(t, r.cmd, "Exhausted")
        [] OTHER               -> submit_descriptor_to_cq(s, r.cmd)

\* The entries q, driven one after the other.
DriveAll(s, q) ==
  LET acc[k \in 0 .. Len(q)] == IF k = 0 THEN s ELSE DriveEntry(acc[k - 1], q[k])
  IN  acc[Len(q)]

\* Mutant: the runtime queue is drained from the back.
DriveReadyNewestFirst(s) ==
  LET t == DriveAll([s EXCEPT !.runtime = <<>>], Reverse(s.runtime))
  IN  route_completions([t EXCEPT !.failures = <<>>], t.failures)

\* One call of flush_runtime: drive_ready, then the completions of the
\* commands that failed.
DriveReady(s) ==
  LET t == DriveAll([s EXCEPT !.runtime = <<>>], s.runtime)
  IN  route_completions([t EXCEPT !.failures = <<>>], t.failures)

\* flush_runtime calls itself while commands to retry are left: every call
\* uses up one attempt of each, so MaxRetries + 1 calls see the end of it.
flush_runtime(s) ==
  LET acc[k \in 0 .. MaxRetries + 1] == IF k = 0 THEN s ELSE DriveReady(acc[k - 1])
  IN  acc[MaxRetries + 1]

Flushed(s) == flush_services(flush_runtime(s))

-----------------------------------------------------------------------------

NewCmd(g, op, key, direct) ==
  [id |-> Len(log) + 1, guest |-> g, op |-> op, key |-> key, direct |-> direct]

Issue(cmd) == Len(log) < MaxCmds /\ log' = Append(log, cmd)

\* UapiCommand::EnqueueCmd
EnqueueCmd(g, op, key) ==
  LET cmd == NewCmd(g, op, key, FALSE)
  IN  /\ CmdqHasRoom(uapi, g)
      /\ Issue(cmd)
      /\ uapi' = enqueue_cmd(uapi, g, cmd)
      /\ UNCHANGED seen

\* UapiCommand::RingDoorbell
RingDoorbell(g, batch) ==
  /\ uapi.cmdq[g] # <<>>
  /\ uapi' = ring_doorbell(uapi, g, batch)
  /\ UNCHANGED <<log, seen>>

\* UapiCommand::SubmitIo and the other Submit commands go straight to the
\* service and complete on default_cq; a full service, or a block operation
\* without a block hash, is an error to the caller and changes nothing.
SubmitDirect(op, key) ==
  LET cmd == NewCmd(default_cq, op, key, TRUE)
  IN  /\ op # "BadIo"
      /\ ~ServiceFull(uapi, cmd)
      /\ Issue(cmd)
      /\ uapi' = submit_descriptor_to_cq(uapi, cmd)
      /\ UNCHANGED seen

\* UapiCommand::CreateSegment
CreateSegment(key) ==
  /\ key \notin uapi.store["shmem"]
  /\ uapi' = [uapi EXCEPT !.store["shmem"] = @ \cup {key}]
  /\ UNCHANGED <<log, seen>>

\* UapiCommand::PollCq, and DrainCq, which asks for all entries.
PollCq(g, max_entries) ==
  LET s == Flushed(uapi)
      n == Min({max_entries, Len(s.cq[g])})
  IN  /\ seen' = [seen EXCEPT ![g] = @ \o SubSeq(s.cq[g], 1, n)]
      /\ uapi' = [s EXCEPT !.cq[g] = SubSeq(@, n + 1, Len(@))]
      /\ UNCHANGED log

\* A poll with the wrong owner or of an unknown queue is refused, but only
\* after it has flushed.
PollRefused ==
  /\ uapi' = Flushed(uapi)
  /\ UNCHANGED <<log, seen>>

Batches == {1, MaxCmds}

Next ==
  \/ \E g \in Guests, op \in Ops, key \in Keys : EnqueueCmd(g, op, key)
  \/ \E op \in Ops, key \in Keys : SubmitDirect(op, key)
  \/ \E g \in Guests, n \in Batches : RingDoorbell(g, n) \/ PollCq(g, n)
  \/ \E key \in Keys : CreateSegment(key)
  \/ PollRefused

\* A poll by guest g changes the surface: the enabling condition of
\* <<PollCq(g, 1)>>_vars.
PollUseful(g) ==
  \/ uapi.cq[g] # <<>>
  \/ uapi.runtime # <<>>
  \/ \E v \in Services : uapi.service[v] # <<>>

\* A guest rings for what it has enqueued and keeps polling its queue: weak
\* fairness of both, with the enabling conditions written out.
Fairness ==
  \A g \in Guests :
    /\ <>[](uapi.cmdq[g] # <<>>) => []<><<RingDoorbell(g, MaxCmds)>>_vars
    /\ <>[]PollUseful(g) => []<><<PollCq(g, 1)>>_vars

Spec == Init /\ [][Next]_vars /\ Fairness

-----------------------------------------------------------------------------

\* retry pushes without looking at the depth, yet the runtime queue and the
\* FIFOs of the services stay within theirs.
WithinDepths ==
  /\ Len(uapi.runtime) <= RuntimeDepth
  /\ \A v \in Services : Len(uapi.service[v]) <= ServiceDepth[v]

\* The queues hold commands and completions, no record of the runtime queue
\* has more attempts than runtime_max_retries, and no failure collected by
\* drive_ready is left unreported.
TypeOK ==
  /\ log \in Seq(Command)
  /\ uapi \in SurfaceType
  /\ seen \in [Guests -> Seq(EventType)]
  /\ WithinDepths

\* How often a command occurs in the queues of the surface and among the
\* completions, delivered or not.
Count(q, id) == Cardinality({i \in DOMAIN q : q[i].id = id})

RuntimeCount(id) == Cardinality({i \in DOMAIN uapi.runtime : uapi.runtime[i].cmd.id = id})

Places(g, id) ==
  Count(uapi.cmdq[g], id) + Count(uapi.cq[g], id) + Count(seen[g], id)

\* Every command is in exactly one place, and in no queue of a guest that did
\* not issue it: none is duplicated by a retry, none vanishes except in a
\* doorbell that failed.
EachInOnePlace ==
  \A id \in 1 .. Len(log) :
    LET lost == IF id \in uapi.lost THEN 1 ELSE 0
        own  == Places(log[id].guest, id)
    IN  /\ \A g \in Guests \ {log[id].guest} : Places(g, id) = 0
        /\ 1 = own + RuntimeCount(id) + lost
                 + Count(uapi.service["block"], id) + Count(uapi.service["shmem"], id)
                 + Count(uapi.service["dfs"], id) + Count(uapi.service["db"], id)

\* The commands for service v that the next flush has to get through it.
Load(v) ==
  Len(uapi.service[v]) +
  Cardinality({i \in DOMAIN uapi.runtime : ServiceOf(uapi.runtime[i].cmd.op) = v})

Exhausted == {id \in 1 .. Len(log) :
                \E g \in Guests : \E i \in DOMAIN (uapi.cq[g] \o seen[g]) :
                   LET e == (uapi.cq[g] \o seen[g])[i]
                   IN  e.id = id /\ e.status = "Exhausted"}

\* The retry that local_guest_uapi_retries_service_submission_after_runtime_
\* backpressure tests with a load of two over a depth of one: up to twice the
\* depth of a service no command is given up, however it is spread over
\* doorbells, direct submissions and guests.
RetryCoversTwiceDepth ==
  [][ MaxRetries >= 1 /\ (\A v \in Services : Load(v) <= 2 * ServiceDepth[v])
        => Exhausted' = Exhausted ]_vars

\* Must command w have taken effect before a command cmd that came later?  A
\* direct command does not wait for the ones in the queues.
Precedes(w, cmd) ==
  /\ w.guest = cmd.guest
  /\ w.direct \/ ~cmd.direct
  /\ w.op \in Inserts
  /\ w.key = cmd.key
  /\ ServiceOf(w.op) = ServiceOf(cmd.op)

\* A guest's lookup finds what the same guest's earlier command inserted,
\* unless that command met a full queue on its way: a retry goes to the back
\* of the runtime queue, and the lookup overtakes it.
ReadsOwnWrites ==
  \A g \in Guests : \A i \in DOMAIN seen[g] :
    LET e   == seen[g][i]
        cmd == log[e.id]
    IN  e.status = "Failure" /\ cmd.op \in Lookups =>
          \A w \in 1 .. e.id - 1 :
            Precedes(log[w], cmd) => w \in uapi.refused \cup uapi.lost

\* When a guest receives completions, nothing of what any guest had staged is
\* left behind in the runtime queue or in a service: flush_runtime goes on
\* until the retries have run out.
PollSettles ==
  [][ seen' # seen => /\ uapi'.runtime = <<>>
                      /\ \A v \in Services : uapi'.service[v] = <<>> ]_vars

\* Every command is answered or was dropped by a doorbell that failed.
EventuallyAnswered ==
  \A id \in 1 .. MaxCmds :
    (Len(log) >= id) ~> (\/ id \in uapi.lost
                         \/ \E g \in Guests : Count(seen[g], id) = 1)

=============================================================================
