-------------------------- MODULE LoopbackReceiver --------------------------
(***************************************************************************)
(* The loopback redirect receiver (auth/loopback_receiver.cpp): an HTTP     *)
(* server on 127.0.0.1 whose one route takes the browser's callback, and a  *)
(* promise the caller of waitForAuthorizationCode waits on.  The handler    *)
(* thread and the caller meet under one mutex.                              *)
(*                                                                          *)
(* States are 1..MaxWaits, the state the host generates for its n-th wait,  *)
(* and Unknown, one nobody asked for; 0 is none.  The code is identified    *)
(* with the state it came with.                                             *)
(***************************************************************************)
EXTENDS Naturals, Sequences

CONSTANTS
    MaxWaits,      \* bound: waitForAuthorizationCode calls
    MaxCallbacks   \* bound: requests the callback route takes

ASSUME ReceiverAssumption == MaxWaits \in Nat /\ MaxCallbacks \in Nat

Unknown == MaxWaits + 1
States == 1..Unknown

VARIABLES
    listening,      \* runtime_ is running
    expectedState,  \* expectedState_
    pendingCode,    \* pendingAuthorizationCode_: a callback before the first wait
    completion,     \* what the promise holds: "none", "error" or a state
    resultConsumed, \* resultConsumed_
    waitingFor,     \* the state the caller waits for, 0 when it does not
    waits,          \* waits begun
    callbacks,      \* callbacks taken
    delivered       \* history: the states of the codes returned since start

receiverVars == << listening, expectedState, pendingCode, completion, resultConsumed,
                   waitingFor, waits, callbacks, delivered >>

None == 0
Failed == MaxWaits + 2    \* an exception in the promise

ReceiverInit ==
    /\ listening = FALSE
    /\ expectedState = None
    /\ pendingCode = None
    /\ completion = None
    /\ resultConsumed = FALSE
    /\ waitingFor = None
    /\ waits = 0
    /\ callbacks = 0
    /\ delivered = << >>

\* start: a running receiver is left alone, otherwise everything begins anew.  The
\* port may not be had.
StartReceiver ==
    /\ ~listening
    /\ listening' = TRUE
    /\ expectedState' = None
    /\ pendingCode' = None
    /\ completion' = None
    /\ resultConsumed' = FALSE
    /\ delivered' = << >>
    /\ UNCHANGED << waitingFor, waits, callbacks >>

\* stop: the promise is not told, so a waiter keeps waiting for its timeout.
StopReceiver ==
    /\ listening
    /\ listening' = FALSE
    /\ UNCHANGED << expectedState, pendingCode, completion, resultConsumed, waitingFor, waits,
                    callbacks, delivered >>

\* Mutant of Finalized: the state is not compared.
FinalizedUnchecked(code, expected) == code

\* finalizeAuthorizationCodeLocked.
Finalized(code, expected) == IF code = expected THEN code ELSE Failed

\* waitForAuthorizationCode up to the wait: the state it expects replaces that of
\* an earlier wait, and a callback that came before is judged by it.
BeginWait ==
    /\ listening
    /\ ~resultConsumed
    /\ waitingFor = None
    /\ waits < MaxWaits
    /\ waits' = waits + 1
    /\ waitingFor' = waits'
    /\ expectedState' = waits'
    /\ IF pendingCode # None /\ completion = None
       THEN completion' = Finalized(pendingCode, waits') /\ pendingCode' = None
       ELSE UNCHANGED << completion, pendingCode >>
    /\ UNCHANGED << listening, resultConsumed, callbacks, delivered >>

\* The future is ready with a code.  The code is not compared with the state this
\* caller passed: a callback for the state of an earlier wait that timed out has
\* completed the promise by then.
WaitReturns ==
    /\ waitingFor # None
    /\ completion \notin {None, Failed}
    /\ resultConsumed' = TRUE
    /\ delivered' = Append(delivered, completion)
    /\ waitingFor' = None
    /\ UNCHANGED << listening, expectedState, pendingCode, completion, waits, callbacks >>

\* The future is ready with an exception.
WaitThrows ==
    /\ waitingFor # None
    /\ completion = Failed
    /\ resultConsumed' = TRUE
    /\ waitingFor' = None
    /\ UNCHANGED << listening, expectedState, pendingCode, completion, waits, callbacks, delivered >>

\* wait_for timed out: the receiver keeps the state it expected, and a later wait
\* of the same start is allowed.
WaitTimesOut ==
    /\ waitingFor # None
    /\ completion = None
    /\ waitingFor' = None
    /\ UNCHANGED << listening, expectedState, pendingCode, completion, resultConsumed, waits,
                    callbacks, delivered >>

\* handleRequest with a code and a state: processAuthorizationCode.  Before the
\* first wait the last callback is kept; after completion it is ignored.
CallbackWithCode(state) ==
    /\ listening
    /\ callbacks < MaxCallbacks
    /\ callbacks' = callbacks + 1
    /\ IF completion # None
       THEN UNCHANGED << completion, pendingCode >>
       ELSE IF expectedState = None
            THEN pendingCode' = state /\ UNCHANGED completion
            ELSE completion' = Finalized(state, expectedState) /\ UNCHANGED pendingCode
    /\ UNCHANGED << listening, expectedState, resultConsumed, waitingFor, waits, delivered >>

\* handleRequest when code or state is missing, or its encoding is broken:
\* signalFailure, even before anybody waits.
CallbackMalformed ==
    /\ listening
    /\ callbacks < MaxCallbacks
    /\ callbacks' = callbacks + 1
    /\ completion' = IF completion = None THEN Failed ELSE completion
    /\ UNCHANGED << listening, expectedState, pendingCode, resultConsumed, waitingFor, waits, delivered >>

\* What the browser may do: a callback carries the state of an authorization URL
\* the host has opened (it opens one before it waits), or one nobody knows.
BrowserStep ==
    \/ \E state \in States : (state <= waits + 1 \/ state = Unknown) /\ CallbackWithCode(state)
    \/ CallbackMalformed

-----------------------------------------------------------------------------
\* Between two starts at most one code is returned, and it came with a state that a
\* wait of the host has asked for, in whatever order callbacks, waits and timeouts
\* come (loopback_receiver.cpp:304, 323, 437).
OneExpectedCodePerStart ==
    /\ Len(delivered) <= 1
    /\ \A i \in DOMAIN delivered : delivered[i] \in 1..waits
=============================================================================
