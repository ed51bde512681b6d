------------------------------- MODULE UbChat -------------------------------
(***************************************************************************)
(* The chat program ub_chat.c of two guests.  The initiator repeats        *)
(* SYNC_REQ until a SYNC_ACK comes; the responder answers the first        *)
(* SYNC_REQ once and goes on.  Then the initiator sends ChatRounds         *)
(* numbered greetings and waits for the reply to each; nothing of this is  *)
(* sent again, and a number out of order ends the program.                 *)
(***************************************************************************)
EXTENDS Integers

CONSTANTS
  Initiator, Responder,   \* the guests by their normalized role
  ChatRounds              \* CHAT_ROUNDS

ASSUME ChatAssumption ==
  /\ Initiator # Responder
  /\ ChatRounds \in Nat \ {0}

ChatGuests == {Initiator, Responder}

VARIABLES
  chat_pc,        \* guest -> where it is in main
  chat_round,     \* guest -> rounds completed (i, rounds)
  chat_net,       \* datagrams under way
  shared_socket,  \* sync and chat use one socket
  chat_disturbed  \* history: loss, duplication, a failing call, a wait given up

chatVars == <<chat_pc, chat_round, chat_net, shared_socket, chat_disturbed>>

-----------------------------------------------------------------------------

Text(role) == IF role = Initiator THEN "CHAT_REQ_TEXT" ELSE "CHAT_RSP_TEXT"

Other(g) == IF g = Initiator THEN Responder ELSE Initiator

SyncMsg(g) == [tag |-> IF g = Initiator THEN "SYNC_REQ" ELSE "SYNC_ACK",
               role |-> g, text |-> "", seq |-> 0]

ChatMsg(g, i) == [tag |-> "CHAT", role |-> g, text |-> Text(g), seq |-> i]

ChatRunning(g) == chat_pc[g] \in {"sync", "send", "wait"}

\* A datagram to a guest whose sockets are closed vanishes.
ChatSend(g, m) == chat_net \cup (IF ChatRunning(Other(g)) THEN {m} ELSE {})

\* A received datagram is gone from the socket, or a duplicate of it is left.
ChatTaken(m) == {chat_net, chat_net \ {m}}

\* Leaving main closes the sockets.
ChatExit(g, result) ==
  /\ chat_pc' = [chat_pc EXCEPT ![g] = result]
  /\ chat_net' = {m \in chat_net : m.role = g}

ChatInit ==
  /\ chat_pc = [g \in ChatGuests |-> "down"]
  /\ chat_round = [g \in ChatGuests |-> 0]
  /\ chat_net = {}
  /\ shared_socket \in BOOLEAN
  /\ chat_disturbed = FALSE

\* main up to run_initiator and run_responder.
ChatStart(g) ==
  /\ chat_pc[g] = "down"
  /\ chat_pc' = [chat_pc EXCEPT ![g] = "sync"]
  /\ UNCHANGED <<chat_round, chat_net, shared_socket, chat_disturbed>>

\* Role, interface, address or socket set-up fails.
ChatStartFails(g) ==
  /\ chat_pc[g] = "down"
  /\ ChatExit(g, "failed")
  /\ chat_disturbed' = TRUE
  /\ UNCHANGED <<chat_round, shared_socket>>

\* do_startup_sync_initiator: one more SYNC_REQ.
SyncRequest ==
  /\ chat_pc[Initiator] = "sync"
  /\ chat_net' = ChatSend(Initiator, SyncMsg(Initiator))
  /\ UNCHANGED <<chat_pc, chat_round, shared_socket, chat_disturbed>>

\* do_startup_sync_initiator receives the SYNC_ACK.
SyncComplete(m) ==
  /\ chat_pc[Initiator] = "sync"
  /\ m = SyncMsg(Responder)
  /\ chat_pc' = [chat_pc EXCEPT ![Initiator] = "send"]
  /\ chat_net' \in ChatTaken(m)
  /\ UNCHANGED <<chat_round, shared_socket, chat_disturbed>>

\* do_startup_sync_responder answers the first SYNC_REQ and returns.
SyncAnswer(m) ==
  /\ chat_pc[Responder] = "sync"
  /\ m = SyncMsg(Initiator)
  /\ chat_pc' = [chat_pc EXCEPT ![Responder] = "wait"]
  /\ \E left \in ChatTaken(m) :
       chat_net' = left \cup (ChatSend(Responder, SyncMsg(Responder)) \ chat_net)
  /\ UNCHANGED <<chat_round, shared_socket, chat_disturbed>>

\* run_initiator sends the greeting of its round.
Greet ==
  /\ chat_pc[Initiator] = "send"
  /\ chat_round[Initiator] < ChatRounds
  /\ chat_pc' = [chat_pc EXCEPT ![Initiator] = "wait"]
  /\ chat_net' = ChatSend(Initiator, ChatMsg(Initiator, chat_round[Initiator]))
  /\ UNCHANGED <<chat_round, shared_socket, chat_disturbed>>

\* wait_for_peer_chat returns a message of the peer with the number and the
\* text that are expected.
Fits(g, m) == m.seq = chat_round[g] /\ m.text = Text(Other(g))

\* run_initiator takes the reply of its round.
TakeReply(m) ==
  /\ chat_pc[Initiator] = "wait"
  /\ m.tag = "CHAT" /\ m.role = Responder /\ Fits(Initiator, m)
  /\ chat_pc' = [chat_pc EXCEPT ![Initiator] = "send"]
  /\ chat_round' = [chat_round EXCEPT ![Initiator] = @ + 1]
  /\ \E left \in ChatTaken(m) :
       /\ chat_net' = left
       /\ chat_disturbed' = (chat_disturbed \/ m \in left)
  /\ UNCHANGED shared_socket

\* run_responder takes a greeting, replies, and counts the round.
Reply(m) ==
  /\ chat_pc[Responder] = "wait"
  /\ chat_round[Responder] < ChatRounds
  /\ m.tag = "CHAT" /\ m.role = Initiator /\ Fits(Responder, m)
  /\ chat_round' = [chat_round EXCEPT ![Responder] = @ + 1]
  /\ \E left \in ChatTaken(m) :
       /\ chat_net' = left \cup (ChatSend(Responder, ChatMsg(Responder, m.seq)) \ chat_net)
       /\ chat_disturbed' = (chat_disturbed \/ m \in left)
  /\ UNCHANGED <<chat_pc, shared_socket>>

\* The number or the text is not the expected one: main returns 1.
Mismatch(g, m) ==
  /\ chat_pc[g] = "wait"
  /\ chat_round[g] < ChatRounds
  /\ m.tag = "CHAT" /\ m.role = Other(g) /\ ~Fits(g, m)
  /\ ChatExit(g, "mismatch")
  /\ UNCHANGED <<chat_round, shared_socket, chat_disturbed>>

\* wait_for_peer_chat throws away control packets; they reach it only on a
\* shared socket.
IgnoreControl(g, m) ==
  /\ shared_socket
  /\ chat_pc[g] = "wait"
  /\ m \in {SyncMsg(Initiator), SyncMsg(Responder)} /\ m.role # g
  /\ chat_net' = chat_net \ {m}
  /\ UNCHANGED <<chat_pc, chat_round, shared_socket, chat_disturbed>>

\* Mutant: one round less will do.
ChatDoneEarly(g) ==
  /\ chat_pc[g] \in {"send", "wait"}
  /\ chat_round[g] >= ChatRounds - 1
  /\ ChatExit(g, "passed")
  /\ UNCHANGED <<chat_round, shared_socket, chat_disturbed>>

\* All rounds are over.
ChatDone(g) ==
  /\ chat_pc[g] \in {"send", "wait"}
  /\ chat_round[g] = ChatRounds
  /\ ChatExit(g, "passed")
  /\ UNCHANGED <<chat_round, shared_socket, chat_disturbed>>

\* What a guest waits for can still come.
ChatHopeful(g) ==
  LET me == chat_pc[g]  it == chat_pc[Other(g)]
      replied == ChatMsg(Responder, chat_round[Initiator]) \in chat_net
      greeted == ChatMsg(Initiator, chat_round[Responder]) \in chat_net
  IN  CASE g = Initiator /\ me = "sync" ->
             SyncMsg(Responder) \in chat_net \/ it \in {"down", "sync"}
        [] g = Initiator /\ me = "wait" -> replied \/ (it = "wait" /\ greeted)
        [] g = Responder /\ me = "sync" -> it \in {"down", "sync"}
        [] g = Responder /\ me = "wait" ->
             \/ greeted \/ it = "send" \/ (it = "wait" /\ replied)
             \/ it = "sync" /\ SyncMsg(Responder) \in chat_net
             \/ chat_round[g] = ChatRounds
        [] OTHER -> TRUE

\* A deadline or the alarm; a send that fails ends the program the same way.
ChatTimeout(g) ==
  /\ ChatRunning(g)
  /\ ChatExit(g, "failed")
  /\ chat_disturbed' = (chat_disturbed \/ ChatHopeful(g))
  /\ UNCHANGED <<chat_round, shared_socket>>

\* The network loses a datagram.
ChatLose(m) ==
  /\ chat_net' = chat_net \ {m}
  /\ chat_disturbed' = TRUE
  /\ UNCHANGED <<chat_pc, chat_round, shared_socket>>

ChatEnded(g) == chat_pc[g] \in {"passed", "failed", "mismatch"}

-----------------------------------------------------------------------------

ChatReceive(g, m) ==
  \/ g = Initiator /\ (SyncComplete(m) \/ TakeReply(m))
  \/ g = Responder /\ (SyncAnswer(m) \/ Reply(m))
  \/ Mismatch(g, m) \/ IgnoreControl(g, m)

ChatProceed(g) ==
  \/ g = Initiator /\ (SyncRequest \/ Greet)
  \/ ChatDone(g)

ChatStep ==
  \/ \E g \in ChatGuests : \/ ChatProceed(g) \/ ChatTimeout(g)
                           \/ \E m \in chat_net : ChatReceive(g, m)
  \/ \E m \in chat_net : ChatLose(m)

ChatNext == ChatStep \/ \E g \in ChatGuests : ChatStart(g) \/ ChatStartFails(g)

ChatSpec == ChatInit /\ [][ChatNext]_chatVars

\* A guest keeps running; a datagram that arrives is read by the loop that
\* waits for it; the clock of a guest goes on.
ChatFairness ==
  \A g \in ChatGuests :
    /\ WF_chatVars(ChatProceed(g))
    /\ SF_chatVars(\E m \in chat_net : ChatReceive(g, m))
    /\ WF_chatVars(ChatTimeout(g))

-----------------------------------------------------------------------------

\* Both guests are at a point of main, in one of the rounds.
ChatTypeOK ==
  /\ chat_pc \in [ChatGuests -> {"down", "sync", "send", "wait", "passed", "failed",
                                 "mismatch"}]
  /\ chat_round \in [ChatGuests -> 0 .. ChatRounds]
  /\ \A m \in chat_net : m.role \in ChatGuests /\ m.seq \in 0 .. ChatRounds - 1
  /\ shared_socket \in BOOLEAN /\ chat_disturbed \in BOOLEAN

\* The guests talk in lock step: the responder has counted as many rounds as
\* the initiator, or one more while its reply is awaited (or never came).
LockStep ==
  /\ chat_round[Responder] - chat_round[Initiator] \in {0, 1}
  /\ chat_round[Responder] > chat_round[Initiator] => chat_pc[Initiator] # "send"

\* A guest that says "pass" has heard the other in every round, so the
\* initiator never passes alone; the responder may, when its last reply is
\* lost.
NoLonePass ==
  chat_pc[Initiator] = "passed" => chat_round[Responder] = ChatRounds

\* "seq mismatch" is never the outcome unless a datagram was duplicated:
\* greeting and reply of a round are sent once and never overtaken.
MismatchOnlyIfDisturbed ==
  \A g \in ChatGuests : chat_pc[g] = "mismatch" => chat_disturbed

\* Both have passed, on two sockets or on one, unless a datagram was lost or
\* duplicated, a call failed, or a wait was given up that could have ended.
ChatPassedOrDisturbed ==
  chat_disturbed \/ \A g \in ChatGuests : chat_pc[g] = "passed"

=============================================================================
