----------------------------- MODULE RpcService -----------------------------
(***************************************************************************)
(* What ub_rpc_demo.c promises its clients: a call is executed by the      *)
(* server before it is answered, its outcome is settled once, and each     *)
(* client settles its calls in order.  How often a request travels, and    *)
(* how often the server looks at it, is invisible here.                    *)
(***************************************************************************)
EXTENDS Integers

CONSTANTS Clients, CallIds   \* CallIds is 1 .. n, in the order of the calls

VARIABLES
  executed,   \* calls <<client, id>> the server has executed
  outcome     \* [Clients -> [CallIds -> {"open", "ok", "failed"}]]

Open(c, i) == /\ outcome[c][i] = "open"
              /\ \A j \in CallIds : j < i => outcome[c][j] # "open"

Init == /\ executed = {}
        /\ outcome = [c \in Clients |-> [i \in CallIds |-> "open"]]

Execute(c, i) == /\ executed' = executed \cup {<<c, i>>}
                 /\ UNCHANGED outcome

Answer(c, i) == /\ Open(c, i)
                /\ <<c, i>> \in executed
                /\ outcome' = [outcome EXCEPT ![c][i] = "ok"]
                /\ UNCHANGED executed

GiveUp(c, i) == /\ Open(c, i)
                /\ outcome' = [outcome EXCEPT ![c][i] = "failed"]
                /\ UNCHANGED executed

Next == \E c \in Clients, i \in CallIds : Execute(c, i) \/ Answer(c, i) \/ GiveUp(c, i)

Spec == Init /\ [][Next]_<<executed, outcome>>

=============================================================================
