--------------------------- MODULE TcpEachServer ----------------------------
(***************************************************************************)
(* The program ub_tcp_each_server_demo.c: each of two guests forks a       *)
(* server child that accepts one connection, while the parent connects to  *)
(* the other guest's child, again and again until it is let in.  A guest   *)
(* passes when its call was acknowledged and its child has served one.     *)
(*                                                                         *)
(* Attempts of a guest are numbered.  Attempt n is abandoned once the      *)
(* guest is at attempt n + 1; an attempt abandoned after the handshake     *)
(* stays in the accept queue of the other guest.                           *)
(***************************************************************************)
EXTENDS Integers, Sequences

CONSTANTS
  TcpA, TcpB,     \* the guests (nodeA, nodeB)
  MaxAttempts,    \* attempts of connect_to_peer_retry before its deadline
  TcpFaults       \* set-up and socket calls may fail

ASSUME TcpAssumption ==
  TcpA # TcpB /\ MaxAttempts \in Nat \ {0} /\ TcpFaults \in BOOLEAN

TcpGuests == {TcpA, TcpB}
TcpPeer(g) == IF g = TcpA THEN TcpB ELSE TcpA

VARIABLES
  parent,         \* guest -> where the parent is
  child,          \* guest -> where the server child is
  attempt,        \* guest -> number of the current attempt
  queue,          \* guest -> attempts of the peer in the accept queue
  accepted,       \* guest -> attempt its child has accepted, 0 before
  line,           \* guests whose client message was sent
  ack,            \* guests whose client message was acknowledged
  tcp_disturbed   \* history: a failing call or a wait given up too early

tcpVars == <<parent, child, attempt, queue, accepted, line, ack, tcp_disturbed>>

-----------------------------------------------------------------------------

TcpEnded    == {"passed", "failed"}
ChildEnded  == {"ok", "exit1"}
Listener(g) == child[g] \in {"accept", "recv"}   \* listener_fd is open

TcpInit ==
  /\ parent = [g \in TcpGuests |-> "down"]
  /\ child = [g \in TcpGuests |-> "none"]
  /\ attempt = [g \in TcpGuests |-> 1]
  /\ queue = [g \in TcpGuests |-> <<>>]
  /\ accepted = [g \in TcpGuests |-> 0]
  /\ line = {} /\ ack = {}
  /\ tcp_disturbed = FALSE

\* main up to the fork: set-up, create_listener, the child.
TcpStart(g) ==
  /\ parent[g] = "down"
  /\ parent' = [parent EXCEPT ![g] = "connect"]
  /\ child' = [child EXCEPT ![g] = "accept"]
  /\ UNCHANGED <<attempt, queue, accepted, line, ack, tcp_disturbed>>

\* An error return of main; cleanup_child kills and reaps the child.
ParentFails(g, disturbs) ==
  /\ parent' = [parent EXCEPT ![g] = "failed"]
  /\ child' = [child EXCEPT ![g] = IF @ \in {"accept", "recv"} THEN "exit1" ELSE @]
  /\ tcp_disturbed' = (tcp_disturbed \/ disturbs)
  /\ UNCHANGED <<attempt, queue, accepted, line, ack>>

\* The set-up, create_listener or fork fails.
TcpStartFails(g) ==
  /\ parent[g] = "down"
  /\ ParentFails(g, TRUE)

\* A socket call of the parent fails.
TcpFails(g) ==
  /\ TcpFaults
  /\ parent[g] \in {"connect", "established", "ack"}
  /\ ParentFails(g, TRUE)

\* The handshake of the current attempt completes at the peer's listener.
Establish(g) ==
  /\ parent[g] = "connect"
  /\ Listener(TcpPeer(g))
  /\ parent' = [parent EXCEPT ![g] = "established"]
  /\ queue' = [queue EXCEPT ![TcpPeer(g)] = Append(@, attempt[g])]
  /\ UNCHANGED <<child, attempt, accepted, line, ack, tcp_disturbed>>

\* The attempt is refused or its 250 ms are over; the socket is closed and
\* the loop tries again.  select may have given up just before the handshake
\* completed.
Retry(g) ==
  /\ parent[g] \in {"connect", "established"}
  /\ attempt[g] < MaxAttempts
  /\ parent' = [parent EXCEPT ![g] = "connect"]
  /\ attempt' = [attempt EXCEPT ![g] = @ + 1]
  /\ tcp_disturbed' = (tcp_disturbed \/ parent[g] = "established")
  /\ UNCHANGED <<child, queue, accepted, line, ack>>

\* The deadline of connect_to_peer_retry: too early while the peer's listener
\* is open or still to come.
ConnectTimeout(g) ==
  /\ parent[g] \in {"connect", "established"}
  /\ ParentFails(g, parent[g] = "established" \/ child[TcpPeer(g)] \in {"none", "accept"})

\* connect_to_peer_retry returns the socket and send_line sends.
SendLine(g) ==
  /\ parent[g] = "established"
  /\ parent' = [parent EXCEPT ![g] = "ack"]
  /\ line' = line \cup {g}
  /\ UNCHANGED <<child, attempt, queue, accepted, ack, tcp_disturbed>>

\* recv_line returns the acknowledgement.
RecvAck(g) ==
  /\ parent[g] = "ack"
  /\ g \in ack
  /\ parent' = [parent EXCEPT ![g] = "reap"]
  /\ UNCHANGED <<child, attempt, queue, accepted, line, ack, tcp_disturbed>>

\* The acknowledgement cannot come any more.
NoAck(g) ==
  LET p == TcpPeer(g)
  IN  /\ g \notin ack
      /\ \/ child[p] \in ChildEnded
         \/ accepted[p] # 0 /\ accepted[p] # attempt[g]

\* The five seconds of recv_line, or the connection is reset.
AckTimeout(g) ==
  /\ parent[g] = "ack"
  /\ ParentFails(g, ~NoAck(g))

\* waitpid returns the status of the child.
ReapChild(g) ==
  /\ parent[g] = "reap"
  /\ child[g] \in ChildEnded
  /\ parent' = [parent EXCEPT ![g] = IF child[g] = "ok" THEN "passed" ELSE "failed"]
  /\ UNCHANGED <<child, attempt, queue, accepted, line, ack, tcp_disturbed>>

\* wait_for_accept returns the head of the accept queue.
Accept(g) ==
  /\ child[g] = "accept"
  /\ queue[g] # <<>>
  /\ child' = [child EXCEPT ![g] = "recv"]
  /\ accepted' = [accepted EXCEPT ![g] = Head(queue[g])]
  /\ queue' = [queue EXCEPT ![g] = Tail(@)]
  /\ UNCHANGED <<parent, attempt, line, ack, tcp_disturbed>>

\* run_server_child receives the line of the accepted connection and answers.
Serve(g) ==
  LET p == TcpPeer(g)
  IN  /\ child[g] = "recv"
      /\ accepted[g] = attempt[p] /\ p \in line
      /\ child' = [child EXCEPT ![g] = "ok"]
      /\ ack' = ack \cup {p}
      /\ UNCHANGED <<parent, attempt, queue, accepted, line, tcp_disturbed>>

\* recv_line sees the end of a connection that the client has closed.
UnexpectedEof(g) ==
  LET p == TcpPeer(g)
  IN  /\ child[g] = "recv"
      /\ accepted[g] # attempt[p] \/ (parent[p] \in TcpEnded /\ p \notin line)
      /\ child' = [child EXCEPT ![g] = "exit1"]
      /\ UNCHANGED <<parent, attempt, queue, accepted, line, ack, tcp_disturbed>>

\* The peer's client may still come.
ClientComing(g) ==
  \/ parent[TcpPeer(g)] \in {"down", "connect", "established"}
  \/ TcpPeer(g) \in line /\ accepted[g] \in {0, attempt[TcpPeer(g)]}

\* Mutant: wait_for_accept has no deadline.
ChildTimeoutRecvOnly(g) ==
  /\ child[g] = "recv"
  /\ child' = [child EXCEPT ![g] = "exit1"]
  /\ tcp_disturbed' = (tcp_disturbed \/ ClientComing(g))
  /\ UNCHANGED <<parent, attempt, queue, accepted, line, ack>>

\* The 30 seconds of wait_for_accept or the five of recv_line.
ChildTimeout(g) ==
  /\ Listener(g)
  /\ child' = [child EXCEPT ![g] = "exit1"]
  /\ tcp_disturbed' = (tcp_disturbed \/ ClientComing(g))
  /\ UNCHANGED <<parent, attempt, queue, accepted, line, ack>>

-----------------------------------------------------------------------------

ParentProceed(g) == SendLine(g) \/ RecvAck(g) \/ ReapChild(g) \/ Establish(g)
ChildProceed(g)  == Accept(g) \/ Serve(g) \/ UnexpectedEof(g)
TcpClock(g)      == ConnectTimeout(g) \/ AckTimeout(g)

TcpStep == \E g \in TcpGuests :
  \/ ParentProceed(g) \/ ChildProceed(g) \/ TcpClock(g) \/ ChildTimeout(g)
  \/ Retry(g) \/ TcpFails(g)

TcpNext == TcpStep \/ \E g \in TcpGuests : TcpStart(g) \/ TcpStartFails(g)

TcpSpec == TcpInit /\ [][TcpNext]_tcpVars

\* Parent and child are scheduled, a handshake completes, clocks go on.
TcpFairness ==
  \A g \in TcpGuests :
    /\ WF_tcpVars(ParentProceed(g)) /\ WF_tcpVars(ChildProceed(g))
    /\ WF_tcpVars(TcpClock(g))
    /\ WF_tcpVars(ChildTimeout(g))

-----------------------------------------------------------------------------

\* Parent and child of each guest are at one of their points.
TcpTypeOK ==
  /\ parent \in [TcpGuests -> {"down", "connect", "established", "ack", "reap"} \cup TcpEnded]
  /\ child \in [TcpGuests -> {"none", "accept", "recv"} \cup ChildEnded]
  /\ attempt \in [TcpGuests -> 1 .. MaxAttempts]
  /\ \A g \in TcpGuests : queue[g] \in Seq(1 .. MaxAttempts)
  /\ accepted \in [TcpGuests -> 0 .. MaxAttempts]
  /\ line \subseteq TcpGuests /\ ack \subseteq TcpGuests
  /\ tcp_disturbed \in BOOLEAN

\* A guest that passes was served by the other guest's child and has served
\* the other guest's client: passing is a statement about both directions.
PassIsMutual ==
  \A g \in TcpGuests : parent[g] = "passed" =>
    /\ child[g] = "ok" /\ TcpPeer(g) \in ack
    /\ child[TcpPeer(g)] = "ok" /\ g \in ack

\* No server child outlives its parent: every way out of main reaps or kills it.
NoOrphan ==
  \A g \in TcpGuests : parent[g] \in TcpEnded => ~Listener(g)

\* The child serves the connection the client is really using: an
\* acknowledgement never goes to an abandoned attempt.
AckOnLiveAttempt ==
  \A g \in TcpGuests : g \in ack => g \in line /\ accepted[TcpPeer(g)] = attempt[g]

\* Both have passed unless a call failed, a wait was given up too early, or an attempt
\* was abandoned after its handshake.
TcpPassedOrDisturbed ==
  tcp_disturbed \/ \A g \in TcpGuests : parent[g] = "passed"

=============================================================================
