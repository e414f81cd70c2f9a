------------------------------- MODULE EventLog -------------------------------
(***************************************************************************)
(* What the SSE streams of the HTTP server promise a client, without       *)
(* saying how events are kept: a stream is a log with one owner; a log     *)
(* only grows, and not after it is closed; an answer shows one log of its  *)
(* reader, either all that follows the cursor the reader gave or, when the *)
(* stream is opened, a last part of it.                                    *)
(***************************************************************************)
EXTENDS Naturals, Sequences, SequencesExt

CONSTANTS Owners, Messages

VARIABLES
  logs,    \* sequence of logs: [owner, closed, messages]
  answer   \* [log, reader, after, messages] shown by the last step, log = 0 if none

vars == << logs, answer >>

Log == [ owner : Owners, closed : BOOLEAN, messages : Seq(Messages) ]
NoAnswer == answer.log = 0

Init == logs = << >> /\ NoAnswer

Grows ==
  /\ Len(logs) <= Len(logs')
  /\ \A n \in DOMAIN logs :
       /\ logs'[n].owner = logs[n].owner
       /\ IsPrefix(logs[n].messages, logs'[n].messages)
       /\ logs[n].closed => logs'[n].closed /\ logs'[n].messages = logs[n].messages

After(messages, cursor) == SubSeq(messages, cursor + 1, Len(messages))

Opens ==        \* a log that did not exist is shown from somewhere to its end
  /\ answer'.log = Len(logs')
  /\ Len(logs') = Len(logs) + 1
  /\ IsSuffix(answer'.messages, logs'[answer'.log].messages)
  /\ answer'.messages # << >>

Resumes ==      \* a log is shown from the cursor to its end, and not changed
  /\ answer'.log \in DOMAIN logs
  /\ logs' = logs
  /\ answer'.messages = After(logs[answer'.log].messages, answer'.after)

Shows == (Opens \/ Resumes) /\ logs'[answer'.log].owner = answer'.reader

Next == Grows /\ (NoAnswer' \/ Shows)

Spec == Init /\ [][Next]_vars
=============================================================================
