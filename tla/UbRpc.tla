------------------------------- MODULE UbRpc --------------------------------
(***************************************************************************)
(* The RPC program ub_rpc_demo.c.  A client makes its calls one after the  *)
(* other and sends a request again whenever a second has passed without a  *)
(* fitting response.  The server keeps a table of the calls it has seen,   *)
(* answers a repeated request from the table and leaves after the number   *)
(* of calls it was told to expect.                                         *)
(*                                                                         *)
(* A datagram carries the number of its attempt, so that the copies a      *)
(* client sends stay apart; the programs do not see that number.           *)
(***************************************************************************)
EXTENDS Integers, FiniteSets, Sequences

CONSTANTS
  RpcClients, RpcServer,   \* guests by the mode they resolve
  Script,                  \* the operations a client calls, in order
  ExpectedCalls,           \* get_expected_call_count of the server
  MaxSeen,                 \* RPC_SERVER_MAX_SEEN
  MaxRetries,              \* max_retries of rpc_client_send_recv
  RpcFaults                \* socket calls may fail

ASSUME RpcAssumption ==
  /\ RpcServer \notin RpcClients
  /\ IsFiniteSet(RpcClients)
  /\ ExpectedCalls \in Nat /\ MaxSeen \in Nat /\ MaxRetries \in Nat
  /\ RpcFaults \in BOOLEAN

ASSUME ScriptAssumption == Script \in Seq(STRING)

CallIds    == 1 .. Len(Script)
Calls      == RpcClients \X CallIds
RpcGuests  == RpcClients \cup {RpcServer}

VARIABLES
  rpc_pc,     \* guest -> where it is in main
  call,       \* client -> msg_id of the call it is in
  retries,    \* client -> attempts of that call so far
  alarm,      \* guests whose g_alarm_fired is set
  seen,       \* the server's table: valid entries
  rpc_count,  \* the server's count of handled calls
  rpc_net,    \* datagrams under way
  outcome,    \* client -> call -> "open", "ok" or "failed"
  executed,   \* history: calls the server has executed
  disturbed   \* history: something that the retries need not make good

rpcVars == <<rpc_pc, call, retries, alarm, seen, rpc_count, rpc_net, outcome,
             executed, disturbed>>

-----------------------------------------------------------------------------

\* What a client sends as payload, and the answer the server computes from
\* it.  STATUS is the one answer that depends on the server's state.
Payload(c, i) == <<c, Script[i]>>

Evaluate(op, payload, count) ==
  CASE op = "ECHO" -> payload
    [] op \in {"CRC32", "COMPUTE"} -> <<op, payload>>
    [] op = "STATUS" -> <<op, count>>
    [] op = "MEMINFO" -> <<op>>
    [] OTHER -> <<"UNKNOWN_OP">>

\* What run_rpc_client compares the answer with.
Expected(c, i) == Evaluate(Script[i], Payload(c, i), 0)

rpc_build_request(c) ==
  [type |-> "RPC", client |-> c, msg_id |-> call[c], op |-> Script[call[c]],
   payload |-> Payload(c, call[c]), try |-> retries[c]]

rpc_build_response(req, payload) ==
  [type |-> "RPC_RSP", client |-> req.client, msg_id |-> req.msg_id,
   status |-> "OK", payload |-> payload, try |-> req.try]

\* rpc_parse_request and rpc_parse_response: nothing else gets through.
IsRequest(m)  == m.type = "RPC"
IsResponse(m) == m.type = "RPC_RSP"

\* The sockets that are open: the server's port, each client's own port.
RpcListening == {g \in RpcGuests : rpc_pc[g] \in {"serve", "send", "recv"}}

RpcSend(m, dst) == rpc_net \cup (IF dst \in RpcListening THEN {m} ELSE {})

RpcInit ==
  /\ rpc_pc = [g \in RpcGuests |-> "down"]
  /\ call = [c \in RpcClients |-> 1]
  /\ retries = [c \in RpcClients |-> 0]
  /\ alarm = {}
  /\ seen = {}
  /\ rpc_count = 0
  /\ rpc_net = {}
  /\ outcome = [c \in RpcClients |-> [i \in CallIds |-> "open"]]
  /\ executed = {}
  /\ disturbed = FALSE

-----------------------------------------------------------------------------

\* get_rpc_mode and the rest of main up to the socket.
RpcStart(g) ==
  /\ rpc_pc[g] = "down"
  /\ rpc_pc' = [rpc_pc EXCEPT ![g] = IF g = RpcServer THEN "serve" ELSE "send"]
  /\ UNCHANGED <<call, retries, alarm, seen, rpc_count, rpc_net, outcome, executed,
                 disturbed>>

\* wait_iface_ready, the address configuration or create_udp_socket fails.
RpcStartFails(g) ==
  /\ rpc_pc[g] = "down"
  /\ rpc_pc' = [rpc_pc EXCEPT ![g] = "failed"]
  /\ disturbed' = TRUE
  /\ UNCHANGED <<call, retries, alarm, seen, rpc_count, rpc_net, outcome, executed>>

\* Mutant: only the client is compared.
SeenOfClient(req) == {e \in seen : e.client = req.client}

\* The entry of the table that answers a request, if there is one.
SeenEntries(req) ==
  {e \in seen : e.msg_id = req.msg_id /\ e.client = req.client /\ e.op = req.op}

\* A new call is entered while the table has room.
Remember(entry) == IF Cardinality(seen) >= MaxSeen THEN seen ELSE seen \cup {entry}

\* One pass of the loop of run_rpc_server that receives a request: look it up,
\* answer from the table or execute and enter it while the table has room,
\* send the response, count what is new and leave after the expected calls.
ServerHandle(req) ==
  LET duplicate == SeenEntries(req) # {}
      payload   == IF duplicate THEN (CHOOSE e \in SeenEntries(req) : TRUE).payload
                                ELSE Evaluate(req.op, req.payload, rpc_count)
      entry     == [client |-> req.client, msg_id |-> req.msg_id, op |-> req.op,
                    payload |-> payload]
      count     == IF duplicate THEN rpc_count ELSE rpc_count + 1
      leaves    == ~duplicate /\ ExpectedCalls > 0 /\ count >= ExpectedCalls
      answered  == RpcSend(rpc_build_response(req, payload), req.client) \ {req}
  IN  /\ rpc_pc[RpcServer] = "serve"
      /\ RpcServer \notin alarm
      /\ IsRequest(req)
      /\ seen' = IF duplicate THEN seen ELSE Remember(entry)
      /\ executed' = IF duplicate THEN executed
                     ELSE executed \cup {<<req.client, req.msg_id>>}
      /\ rpc_count' = count
      /\ rpc_pc' = [rpc_pc EXCEPT ![RpcServer] = IF leaves THEN "passed" ELSE @]
      /\ rpc_net' = IF leaves THEN {m \in answered : m.type # "RPC"} ELSE answered
      /\ UNCHANGED <<call, retries, alarm, outcome, disturbed>>

\* The server leaves its loop without the expected calls.
ServerFails ==
  /\ rpc_pc[RpcServer] = "serve"
  /\ rpc_pc' = [rpc_pc EXCEPT ![RpcServer] = "failed"]
  /\ rpc_net' = {m \in rpc_net : m.type # "RPC"}
  /\ UNCHANGED <<call, retries, alarm, seen, rpc_count, outcome, executed>>

\* The alarm ends recv_with_retry and the loop.
ServerTimeout == RpcServer \in alarm /\ ServerFails /\ UNCHANGED disturbed

-----------------------------------------------------------------------------

\* The top of the loop of rpc_client_send_recv: send the request (again).
ClientSend(c) ==
  /\ rpc_pc[c] = "send"
  /\ call[c] \in CallIds
  /\ c \notin alarm
  /\ retries[c] < MaxRetries
  /\ rpc_pc' = [rpc_pc EXCEPT ![c] = "recv"]
  /\ rpc_net' = RpcSend(rpc_build_request(c), RpcServer)
  /\ disturbed' = (disturbed \/ RpcServer \notin RpcListening)
  /\ UNCHANGED <<call, retries, alarm, seen, rpc_count, outcome, executed>>

\* The response can still come without another request.
StillComing(c) ==
  \/ \E m \in rpc_net : m.client = c /\ m.msg_id = call[c] /\ m.try = retries[c]
  \/ rpc_pc[RpcServer] = "down"

\* recv_with_retry returns 0 after its second, or because of the alarm.
ClientTimeout(c) ==
  /\ rpc_pc[c] = "recv"
  /\ rpc_pc' = [rpc_pc EXCEPT ![c] = "send"]
  /\ retries' = [retries EXCEPT ![c] = @ + 1]
  /\ disturbed' = (disturbed \/ StillComing(c))
  /\ UNCHANGED <<call, alarm, seen, rpc_count, rpc_net, outcome, executed>>

\* A call is settled, and run_rpc_client goes on to the next one.
Settle(c, result) ==
  /\ outcome' = [outcome EXCEPT ![c][call[c]] = result]
  /\ call' = [call EXCEPT ![c] = @ + 1]
  /\ retries' = [retries EXCEPT ![c] = 0]
  /\ rpc_pc' = [rpc_pc EXCEPT ![c] = "send"]

\* Mutant: any response is taken for the one that is awaited.
ClientRecvAny(c, rsp) ==
  /\ rpc_pc[c] = "recv"
  /\ IsResponse(rsp) /\ rsp.client = c
  /\ rpc_net' = rpc_net \ {rsp}
  /\ Settle(c, IF rsp.status = "OK" THEN "ok" ELSE "failed")
  /\ UNCHANGED <<alarm, seen, rpc_count, executed, disturbed>>

\* A datagram is received: the response to this call settles it, anything
\* else costs one attempt.
ClientRecv(c, rsp) ==
  /\ rpc_pc[c] = "recv"
  /\ IsResponse(rsp) /\ rsp.client = c
  /\ rpc_net' = rpc_net \ {rsp}
  /\ \/ /\ rsp.msg_id = call[c]
        /\ Settle(c, IF rsp.status = "OK" /\ rsp.payload = Expected(c, call[c])
                     THEN "ok" ELSE "failed")
     \/ /\ rsp.msg_id # call[c]
        /\ rpc_pc' = [rpc_pc EXCEPT ![c] = "send"]
        /\ retries' = [retries EXCEPT ![c] = @ + 1]
        /\ UNCHANGED <<call, outcome>>
  /\ UNCHANGED <<alarm, seen, rpc_count, executed, disturbed>>

\* The call ends without a response.
ClientFails(c) ==
  /\ rpc_pc[c] = "send"
  /\ call[c] \in CallIds
  /\ Settle(c, "failed")
  /\ UNCHANGED <<alarm, seen, rpc_count, rpc_net, executed>>

\* Attempts or five seconds are used up, or the alarm ends the loop.
ClientGivesUp(c) ==
  /\ retries[c] >= MaxRetries \/ c \in alarm
  /\ ClientFails(c)
  /\ UNCHANGED disturbed

\* sendto or recvfrom fails with an error other than a timeout.
RpcFault(g) ==
  /\ RpcFaults
  /\ disturbed' = TRUE
  /\ IF g = RpcServer THEN ServerFails ELSE ClientFails(g)

\* run_rpc_client returns; main closes the socket.
ClientDone(c) ==
  /\ rpc_pc[c] = "send"
  /\ call[c] \notin CallIds
  /\ rpc_pc' = [rpc_pc EXCEPT ![c] =
       IF \A i \in CallIds : outcome[c][i] = "ok" THEN "passed" ELSE "failed"]
  /\ rpc_net' = {m \in rpc_net : m.type = "RPC" \/ m.client # c}
  /\ UNCHANGED <<call, retries, alarm, seen, rpc_count, outcome, executed, disturbed>>

RpcEnded(g) == rpc_pc[g] \in {"passed", "failed"}

\* alarm_handler, 90 seconds after the start.
RpcAlarm(g) ==
  /\ rpc_pc[g] \in {"serve", "send", "recv"}
  /\ g \notin alarm
  /\ alarm' = alarm \cup {g}
  /\ disturbed' = (disturbed \/ g # RpcServer \/ \E c \in RpcClients : ~RpcEnded(c))
  /\ UNCHANGED <<rpc_pc, call, retries, seen, rpc_count, rpc_net, outcome, executed>>

\* The network loses a datagram.
RpcLose(m) ==
  /\ rpc_net' = rpc_net \ {m}
  /\ disturbed' = TRUE
  /\ UNCHANGED <<rpc_pc, call, retries, alarm, seen, rpc_count, outcome, executed>>

-----------------------------------------------------------------------------

RpcProceed(g) ==
  IF g = RpcServer THEN ServerTimeout \/ \E m \in rpc_net : ServerHandle(m)
  ELSE ClientSend(g) \/ ClientGivesUp(g) \/ ClientDone(g) \/ ClientTimeout(g)
       \/ \E m \in rpc_net : ClientRecv(g, m)

RpcStep == \/ \E g \in RpcGuests : RpcProceed(g) \/ RpcAlarm(g) \/ RpcFault(g)
           \/ \E m \in rpc_net : RpcLose(m)

RpcNext == RpcStep \/ \E g \in RpcGuests : RpcStart(g) \/ RpcStartFails(g)

RpcSpec == RpcInit /\ [][RpcNext]_rpcVars

\* A guest that runs takes its steps, and its alarm goes off in the end.
RpcFairness ==
  \A g \in RpcGuests : WF_rpcVars(RpcProceed(g)) /\ WF_rpcVars(RpcAlarm(g))

-----------------------------------------------------------------------------

\* Every guest is at a point of main, and every datagram is a request or a
\* response of one of the calls.
RpcTypeOK ==
  /\ rpc_pc \in [RpcGuests -> {"down", "serve", "send", "recv", "passed", "failed"}]
  /\ call \in [RpcClients -> 1 .. Len(Script) + 1]
  /\ retries \in [RpcClients -> 0 .. MaxRetries]
  /\ alarm \subseteq RpcGuests
  /\ \A e \in seen : <<e.client, e.msg_id>> \in Calls
  /\ rpc_count \in Nat
  /\ \A m \in rpc_net : <<m.client, m.msg_id>> \in Calls /\ m.type \in {"RPC", "RPC_RSP"}
  /\ outcome \in [RpcClients -> [CallIds -> {"open", "ok", "failed"}]]
  /\ executed \subseteq Calls
  /\ disturbed \in BOOLEAN

\* run_rpc_server leaves after ExpectedCalls counted calls, so its count has to
\* be the number of different calls: a repeated request is counted again only
\* when the table was full before its call could be entered.
CountIsCalls ==
  \/ rpc_count = Cardinality(executed)
  \/ Cardinality(seen) = MaxSeen /\ rpc_count > Cardinality(executed)

\* A response answers the very call its msg_id names at the client it is sent
\* to: neither the table nor a late response can hand a client the result of
\* another call.  STATUS and MEMINFO have no fixed answer.
ResponsesFit ==
  \A m \in rpc_net :
    m.type = "RPC_RSP" /\ Script[m.msg_id] \notin {"STATUS", "MEMINFO"} =>
      m.payload = Expected(m.client, m.msg_id)

Service == INSTANCE RpcService WITH Clients <- RpcClients

\* Resends, repeated requests, late responses, alarms and the early leave of
\* the server are invisible: a client believes a call answered only if the
\* server executed it, and settles each call once, in order.
ImplementsRpcService == Service!Spec

\* With nothing lost, sent too early or given up too early, and the server told
\* the right number of calls, every guest has passed.
RpcPassedOrDisturbed ==
  ExpectedCalls = Cardinality(Calls) =>
    disturbed \/ \A g \in RpcGuests : rpc_pc[g] = "passed"

=============================================================================
