---------------------------- MODULE PendingReplies ----------------------------
(***************************************************************************)
(* What a Router promises a caller of sendRequest, without saying how: a   *)
(* call is refused, or it is accepted under an id no accepted call used    *)
(* before and its future is resolved once, with one outcome, for good.     *)
(* The router closes only when no future is pending.                       *)
(***************************************************************************)
CONSTANTS Calls, Ids

VARIABLES
  idOf,    \* the id each call asks for
  status,  \* "idle", "pending" or an outcome
  phase    \* "open", "closing", "closed"

vars == << idOf, status, phase >>

Accepted(c) == status[c] \notin {"idle", "rejected"}

Init ==
  /\ idOf \in [Calls -> Ids]
  /\ status = [c \in Calls |-> "idle"]
  /\ phase = "open"

Refuse(c) ==
  /\ phase = "open" /\ status[c] = "idle"
  /\ status' = [status EXCEPT ![c] = "rejected"]
  /\ UNCHANGED << idOf, phase >>

Accept(c) ==
  /\ phase = "open" /\ status[c] = "idle"
  /\ \A d \in Calls : Accepted(d) => idOf[d] # idOf[c]
  /\ status' = [status EXCEPT ![c] = "pending"]
  /\ UNCHANGED << idOf, phase >>

\* An answer or a failed send while the router is open, a timeout until it is closed,
\* a shutdown error only while it is closing.
Settle(c, outcome) ==
  /\ status[c] = "pending"
  /\ \/ phase = "open" /\ outcome \in {"response", "sendFailed"}
     \/ phase # "closed" /\ outcome = "timeout"
     \/ phase = "closing" /\ outcome = "shutdown"
  /\ status' = [status EXCEPT ![c] = outcome]
  /\ UNCHANGED << idOf, phase >>

BeginClose ==
  /\ phase = "open"
  /\ phase' = "closing"
  /\ UNCHANGED << idOf, status >>

FinishClose ==
  /\ phase = "closing"
  /\ \A c \in Calls : status[c] # "pending"
  /\ phase' = "closed"
  /\ UNCHANGED << idOf, status >>

Next ==
  \/ \E c \in Calls :
       \/ Refuse(c) \/ Accept(c)
       \/ \E outcome \in {"response", "sendFailed", "timeout", "shutdown"} : Settle(c, outcome)
  \/ BeginClose
  \/ FinishClose

Spec == Init /\ [][Next]_vars
=============================================================================
