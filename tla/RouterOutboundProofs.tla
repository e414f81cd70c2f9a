------------------------ MODULE RouterOutboundProofs ------------------------
(***************************************************************************)
(* Proofs about RouterOutbound, for any sets of calls, ids, tokens and     *)
(* transport threads and any limit.                                        *)
(***************************************************************************)
EXTENDS RouterOutbound, FiniteSetTheorems, TLAPS

-----------------------------------------------------------------------------
(* Type correctness.                                                       *)

ReaderTypes ==
  /\ reader \in [Readers -> ReaderStates]
  /\ \A r \in Readers :
       /\ reader[r].at \in {"resolve", "callback", "inCallback"} => reader[r].call \in Calls
       /\ reader[r].at \in {"resolve", "late", "cancelTask"} => reader[r].id \in Ids

TableTypes ==
  (SUBSET Ids) \X [Ids -> Calls \cup {NoCall}] \X [Tokens -> Ids \cup {NoId}]
    \X (SUBSET Ids) \X (SUBSET Ids)

\* A thread that moves to a well-typed state leaves the others well typed.
LEMMA ReaderUpdate ==
  ASSUME ReaderTypes, NEW r \in Readers, NEW new \in ReaderStates,
         new.at \in {"resolve", "callback", "inCallback"} => new.call \in Calls,
         new.at \in {"resolve", "late", "cancelTask"} => new.id \in Ids,
         reader' = [reader EXCEPT ![r] = new]
  PROVE  ReaderTypes'
  BY DEF ReaderTypes

\* popInFlightRequest keeps the types of the tables under mutex_.
LEMMA PopTypes ==
  ASSUME TypeOK, NEW i \in Ids, NEW mark \in BOOLEAN, PopInFlightRequest(i, mark)
  PROVE  tables' \in TableTypes
  BY DEF TypeOK, TableTypes, tables, PopInFlightRequest

\* A constructed router is well typed.
LEMMA InitTypeOK == Init => TypeOK
  <1> SUFFICES ASSUME Init PROVE TypeOK
    OBVIOUS
  <1> USE OutboundAssumption DEF Init
  <1>1. reader \in [Readers -> ReaderStates]
    BY DEF ReaderStates, IdleReader, ReaderState
  <1>2. worker \in WorkerStates /\ worker.at = "idle"
    BY DEF WorkerStates, IdleWorker
  <1>3. lastObservedProgress \in [Calls -> 0..MaxProgress] /\ shownProgress \in [Calls -> SUBSET (0..MaxProgress)]
    OBVIOUS
  <1>4. \A r \in Readers : reader[r].at = "idle"
    BY DEF IdleReader, ReaderState
  <1>5. QED
    BY <1>1, <1>2, <1>3, <1>4 DEF TypeOK, CallPoints, Outcomes, Timers

\* Every step of every thread keeps the types.
LEMMA NextTypeOK == TypeOK /\ [Next]_vars => TypeOK'
  <1> SUFFICES ASSUME TypeOK, [Next]_vars PROVE TypeOK'
    OBVIOUS
  <1> USE OutboundAssumption DEF TypeOK, tables, history, Goto, Resolve
  <1> ReaderTypes
    BY DEF ReaderTypes
  <1>1. ASSUME SetOutboundMessageSender PROVE TypeOK'
    BY <1>1 DEF SetOutboundMessageSender
  <1>2. ASSUME NEW c \in Calls, RefuseRequest(c) PROVE TypeOK'
    BY <1>2 DEF RefuseRequest, CallPoints, Outcomes
  <1>3. ASSUME NEW c \in Calls, AddInFlightRequest(c) PROVE TypeOK'
    BY <1>3 DEF AddInFlightRequest, Descriptor, CallPoints
  <1>4. ASSUME NEW c \in Calls, ArmRequestTimeout(c) PROVE TypeOK'
    BY <1>4 DEF ArmRequestTimeout, CallPoints, Timers
  <1>5. ASSUME NEW c \in Calls, StartTimer(c) PROVE TypeOK'
    BY <1>5 DEF StartTimer, CallPoints, Timers
  <1>6. ASSUME NEW c \in Calls, DispatchRequest(c) PROVE TypeOK'
    BY <1>6 DEF DispatchRequest, CallPoints
  <1>7. ASSUME NEW c \in Calls, SenderReturns(c) PROVE TypeOK'
    BY <1>7 DEF SenderReturns, CallPoints
  <1>8. ASSUME NEW c \in Calls, PopFailedRequest(c) PROVE TypeOK'
    <2>1. CASE InFlight(req[c].id) /\ PopInFlightRequest(req[c].id, FALSE) /\ Goto(c, "failing")
      <3>1. req[c].id \in Ids
        BY DEF Descriptor
      <3>2. tables' \in TableTypes
        BY <2>1, <3>1, PopTypes
      <3>3. QED
        BY <1>8, <2>1, <3>2 DEF PopFailedRequest, TableTypes, CallPoints
    <2>2. CASE Goto(c, "done") /\ UNCHANGED tables
      BY <1>8, <2>2 DEF PopFailedRequest, CallPoints
    <2>3. QED
      BY <1>8, <2>1, <2>2 DEF PopFailedRequest
  <1>9. ASSUME NEW c \in Calls, ResolveFailedRequest(c) PROVE TypeOK'
    BY <1>9 DEF ResolveFailedRequest, CallPoints, Outcomes, CancelTimer, Timers
  <1>10. ASSUME NEW r \in Readers, NEW i \in Ids, NEW task \in BOOLEAN, DispatchResponse(r, i, task) PROVE TypeOK'
    <2>1. CASE /\ InFlight(i)
               /\ reader' = [reader EXCEPT ![r] = ReaderState("resolve", inFlightRequests[i], i, FALSE, 0)]
               /\ PopInFlightRequest(i, FALSE)
      <3> DEFINE new == ReaderState("resolve", inFlightRequests[i], i, FALSE, 0)
      <3>1. new \in ReaderStates /\ new.at = "resolve" /\ new.id = i /\ new.call \in Calls
        BY <2>1 DEF ReaderStates, ReaderState, InFlight
      <3>2. ReaderTypes'
        BY <2>1, <3>1, ReaderUpdate
      <3>3. tables' \in TableTypes
        BY <2>1, PopTypes
      <3>4. QED
        BY <1>10, <3>2, <3>3 DEF DispatchResponse, TableTypes, ReaderTypes
    <2>2. CASE /\ reader' = [reader EXCEPT ![r] = ReaderState("late", NoCall, i, task, 0)]
               /\ UNCHANGED tables
      <3> DEFINE new == ReaderState("late", NoCall, i, task, 0)
      <3>1. new \in ReaderStates /\ new.at = "late" /\ new.id = i
        BY DEF ReaderStates, IdleReader, ReaderState
      <3>2. ReaderTypes'
        BY <2>2, <3>1, ReaderUpdate
      <3>3. QED
        BY <1>10, <2>2, <3>2 DEF DispatchResponse, ReaderTypes
    <2>3. QED
      BY <1>10, <2>1, <2>2 DEF DispatchResponse
  <1>11. ASSUME NEW r \in Readers, NEW t \in Tokens, NEW value \in 1..MaxProgress, DispatchProgress(r, t, value) PROVE TypeOK'
    <2> DEFINE call == inFlightRequests[requestIdsByProgressToken[t]]
               new == ReaderState("callback", call, NoId, FALSE, value)
    <2>1. call \in Calls
      BY <1>11 DEF DispatchProgress, InFlight
    <2>2. value \in 0..MaxProgress
      OBVIOUS
    <2>3. new \in ReaderStates /\ new.at = "callback" /\ new.call = call
      <3> HIDE DEF call
      <3>1. QED
        BY <2>1, <2>2 DEF ReaderStates, ReaderState
    <2>4. ReaderTypes'
      BY <1>11, <2>1, <2>3, ReaderUpdate DEF DispatchProgress
    <2>5. lastObservedProgress' \in [Calls -> 0..MaxProgress]
      BY <1>11, <2>2 DEF DispatchProgress
    <2>6. QED
      BY <1>11, <2>4, <2>5 DEF DispatchProgress, ReaderTypes
  <1>12. ASSUME NEW r \in Readers, ResolveResponse(r) PROVE TypeOK'
    BY <1>12 DEF ResolveResponse, CancelTimer, Timers, Outcomes, ReaderStates, IdleReader, ReaderState
  <1>13. ASSUME NEW r \in Readers, TakeLateResponse(r) PROVE TypeOK'
    BY <1>13 DEF TakeLateResponse, ReaderStates, IdleReader, ReaderState
  <1>14. ASSUME NEW r \in Readers, SendTasksCancel(r) PROVE TypeOK'
    BY <1>14 DEF SendTasksCancel, ReaderStates, IdleReader, ReaderState
  <1>15. ASSUME NEW r \in Readers, EnterProgressCallback(r) PROVE TypeOK'
    <2> DEFINE new == [reader[r] EXCEPT !.at = "inCallback"]
    <2>1. reader[r] \in ReaderStates /\ reader[r].call \in Calls /\ reader[r].value \in 0..MaxProgress
      BY <1>15 DEF EnterProgressCallback, ReaderStates
    <2>2. new \in ReaderStates /\ new.at = "inCallback" /\ new.call \in Calls
      BY <2>1 DEF ReaderStates
    <2>3. ReaderTypes'
      BY <1>15, <2>2, ReaderUpdate DEF EnterProgressCallback
    <2>4. shownProgress' \in [Calls -> SUBSET (0..MaxProgress)]
      BY <1>15, <2>1 DEF EnterProgressCallback
    <2>5. QED
      BY <1>15, <2>3, <2>4 DEF EnterProgressCallback, ReaderTypes
  <1>16. ASSUME NEW r \in Readers, LeaveProgressCallback(r) PROVE TypeOK'
    BY <1>16 DEF LeaveProgressCallback, ReaderStates, IdleReader, ReaderState
  <1>17. ASSUME NEW c \in Calls, TimerExpires(c) PROVE TypeOK'
    BY <1>17 DEF TimerExpires, Timers
  <1>18. ASSUME NEW c \in Calls, HandleRequestTimeout(c) PROVE TypeOK'
    <2>1. CASE /\ InFlight(req[c].id)
               /\ worker' = [at |-> "resolve", call |-> inFlightRequests[req[c].id]]
               /\ PopInFlightRequest(req[c].id, TRUE)
      <3>1. req[c].id \in Ids
        BY DEF Descriptor
      <3>2. tables' \in TableTypes
        BY <2>1, <3>1, PopTypes
      <3>3. worker' \in WorkerStates /\ worker'.call \in Calls
        BY <2>1, <3>1 DEF WorkerStates, InFlight
      <3>4. QED
        BY <1>18, <3>2, <3>3 DEF HandleRequestTimeout, TableTypes, Timers
    <2>2. CASE UNCHANGED << worker, tables >>
      BY <1>18, <2>2 DEF HandleRequestTimeout, Timers
    <2>3. QED
      BY <1>18, <2>1, <2>2 DEF HandleRequestTimeout
  <1>19. ASSUME ResolveTimedOut PROVE TypeOK'
    BY <1>19 DEF ResolveTimedOut, WorkerStates, IdleWorker, Outcomes
  <1>20. ASSUME DeferTaskCancellation PROVE TypeOK'
    BY <1>20 DEF DeferTaskCancellation, Descriptor, WorkerStates, IdleWorker
  <1>21. ASSUME SendCancelled PROVE TypeOK'
    BY <1>21 DEF SendCancelled, Descriptor, WorkerStates, IdleWorker
  <1>22. ASSUME DestroyTakeInFlight PROVE TypeOK'
    BY <1>22 DEF DestroyTakeInFlight, InFlightIds, InFlight
  <1>23. ASSUME DestroyStopTimeoutPool PROVE TypeOK'
    BY <1>23 DEF DestroyStopTimeoutPool
  <1>24. ASSUME DestroyJoinTimeoutPool PROVE TypeOK'
    BY <1>24 DEF DestroyJoinTimeoutPool
  <1>25. ASSUME NEW c \in Calls, DestroyResolve(c) PROVE TypeOK'
    BY <1>25 DEF DestroyResolve, CancelTimer, Timers, Outcomes
  <1>26. CASE UNCHANGED vars
    BY <1>26 DEF vars
  <1>27. QED
    BY <1>1, <1>2, <1>3, <1>4, <1>5, <1>6, <1>7, <1>8, <1>9, <1>10, <1>11, <1>12, <1>13, <1>14, <1>15, <1>16, <1>17, <1>18, <1>19, <1>20, <1>21, <1>22, <1>23, <1>24, <1>25, <1>26
       DEF Next, CallerStep, ReaderStep, TimeoutStep, DestroyStep

\* Type correctness of the outbound router.
THEOREM TypeCorrect == Spec => []TypeOK
  <1>1. QED
    BY InitTypeOK, NextTypeOK, PTL DEF Spec

-----------------------------------------------------------------------------
(* The four races for a request: an inductive invariant.                   *)

MapInv ==
  \A i \in Ids : InFlight(i) =>
    /\ req[inFlightRequests[i]].id = i
    /\ pc[inFlightRequests[i]] \notin {"idle", "failing"}
    /\ promise[inFlightRequests[i]] = "none"

SeenInv ==
  \A c \in Calls :
    /\ Accepted(c) => req[c].id \in seenOutboundRequestIds
    /\ promise[c] = "rejected" => pc[c] = "done"
    /\ pc[c] = "idle" => promise[c] = "none"

DestructorInv ==
  /\ dtor # "live" => /\ \A i \in Ids : ~InFlight(i)
                      /\ \A c \in Calls : pc[c] \in {"idle", "done"}
                      /\ \A r \in Readers : reader[r].at = "idle"
  /\ dtor # "draining" => drained = {}
  /\ dtor = "gone" => worker.at = "idle"

\* Inductive together with TypeOK: what the map holds is unresolved and keyed by its own
\* id, accepted ids are remembered, the destructor runs alone.
Inv == MapInv /\ SeenInv /\ DestructorInv /\ IdAcceptedOnce /\ OneHolder /\ ResponseReachesItsRequest

\* Every step keeps each in-flight request under its own id.
LEMMA NextMapInv == TypeOK /\ TypeOK' /\ Inv /\ [Next]_vars => MapInv'
  <1> SUFFICES ASSUME TypeOK, TypeOK', Inv, [Next]_vars PROVE MapInv'
    OBVIOUS
  <1> USE OutboundAssumption DEF TypeOK, tables, history, Goto, Resolve, InFlight, Inv, MapInv, SeenInv, OneHolder, OneHolderOf, InMap, HeldByCaller, HeldByWorker, HeldByReader, HeldByDestructor, Settled, Accepted
  <1>1. ASSUME SetOutboundMessageSender PROVE MapInv'
    BY <1>1 DEF SetOutboundMessageSender
  <1>2. ASSUME NEW c \in Calls, RefuseRequest(c) PROVE MapInv'
    BY <1>2 DEF RefuseRequest
  <1>3. ASSUME NEW c \in Calls, AddInFlightRequest(c) PROVE MapInv'
    <2> SUFFICES ASSUME NEW i \in Ids, InFlight(i)' PROVE (
          /\ req[inFlightRequests[i]].id = i
          /\ pc[inFlightRequests[i]] \notin {"idle", "failing"}
          /\ promise[inFlightRequests[i]] = "none")'
      BY DEF MapInv
    <2>1. CASE i = req[c].id
      <3>1. inFlightRequests'[i] = c /\ pc'[c] \in {"arm", "send"} /\ promise'[c] = "none"
        BY <1>3, <2>1 DEF AddInFlightRequest
      <3>2. QED
        BY <1>3, <2>1, <3>1 DEF AddInFlightRequest
    <2>2. CASE i # req[c].id
      <3>1. inFlightRequests'[i] = inFlightRequests[i] /\ InFlight(i)
        BY <1>3, <2>2 DEF AddInFlightRequest
      <3>2. inFlightRequests[i] # c
        BY <1>3, <3>1 DEF AddInFlightRequest
      <3>3. QED
        BY <1>3, <3>1, <3>2 DEF AddInFlightRequest
    <2>3. QED
      BY <2>1, <2>2
  <1>4. ASSUME NEW c \in Calls, ArmRequestTimeout(c) PROVE MapInv'
    BY <1>4 DEF ArmRequestTimeout
  <1>5. ASSUME NEW c \in Calls, StartTimer(c) PROVE MapInv'
    BY <1>5 DEF StartTimer
  <1>6. ASSUME NEW c \in Calls, DispatchRequest(c) PROVE MapInv'
    BY <1>6 DEF DispatchRequest
  <1>7. ASSUME NEW c \in Calls, SenderReturns(c) PROVE MapInv'
    BY <1>7 DEF SenderReturns
  <1>8. ASSUME NEW c \in Calls, PopFailedRequest(c) PROVE MapInv'
    BY <1>8 DEF PopFailedRequest, PopInFlightRequest
  <1>9. ASSUME NEW c \in Calls, ResolveFailedRequest(c) PROVE MapInv'
    BY <1>9 DEF ResolveFailedRequest
  <1>10. ASSUME NEW r \in Readers, NEW i \in Ids, NEW task \in BOOLEAN, DispatchResponse(r, i, task) PROVE MapInv'
    BY <1>10 DEF DispatchResponse, PopInFlightRequest, IdleReader, ReaderState
  <1>11. ASSUME NEW r \in Readers, NEW t \in Tokens, NEW value \in 1..MaxProgress, DispatchProgress(r, t, value) PROVE MapInv'
    BY <1>11 DEF DispatchProgress, IdleReader, ReaderState
  <1>12. ASSUME NEW r \in Readers, ResolveResponse(r) PROVE MapInv'
    BY <1>12 DEF ResolveResponse, IdleReader, ReaderState
  <1>13. ASSUME NEW r \in Readers, TakeLateResponse(r) PROVE MapInv'
    BY <1>13 DEF TakeLateResponse, IdleReader, ReaderState
  <1>14. ASSUME NEW r \in Readers, SendTasksCancel(r) PROVE MapInv'
    BY <1>14 DEF SendTasksCancel, IdleReader, ReaderState
  <1>15. ASSUME NEW r \in Readers, EnterProgressCallback(r) PROVE MapInv'
    BY <1>15 DEF EnterProgressCallback, IdleReader, ReaderState
  <1>16. ASSUME NEW r \in Readers, LeaveProgressCallback(r) PROVE MapInv'
    BY <1>16 DEF LeaveProgressCallback, IdleReader, ReaderState
  <1>17. ASSUME NEW c \in Calls, TimerExpires(c) PROVE MapInv'
    BY <1>17 DEF TimerExpires
  <1>18. ASSUME NEW c \in Calls, HandleRequestTimeout(c) PROVE MapInv'
    BY <1>18 DEF HandleRequestTimeout, PopInFlightRequest
  <1>19. ASSUME ResolveTimedOut PROVE MapInv'
    BY <1>19 DEF ResolveTimedOut, IdleWorker
  <1>20. ASSUME DeferTaskCancellation PROVE MapInv'
    BY <1>20 DEF DeferTaskCancellation, IdleWorker
  <1>21. ASSUME SendCancelled PROVE MapInv'
    BY <1>21 DEF SendCancelled, IdleWorker
  <1>22. ASSUME DestroyTakeInFlight PROVE MapInv'
    BY <1>22 DEF DestroyTakeInFlight, InFlightIds
  <1>23. ASSUME DestroyStopTimeoutPool PROVE MapInv'
    BY <1>23 DEF DestroyStopTimeoutPool
  <1>24. ASSUME DestroyJoinTimeoutPool PROVE MapInv'
    BY <1>24 DEF DestroyJoinTimeoutPool
  <1>25. ASSUME NEW c \in Calls, DestroyResolve(c) PROVE MapInv'
    BY <1>25 DEF DestroyResolve
  <1>26. CASE UNCHANGED vars
    BY <1>26 DEF vars
  <1> HIDE DEF TypeOK, Inv, MapInv
  <1>27. QED
    BY <1>1, <1>2, <1>3, <1>4, <1>5, <1>6, <1>7, <1>8, <1>9, <1>10, <1>11, <1>12, <1>13, <1>14, <1>15, <1>16, <1>17, <1>18, <1>19, <1>20, <1>21, <1>22, <1>23, <1>24, <1>25, <1>26
       DEF Next, CallerStep, ReaderStep, TimeoutStep, DestroyStep

\* Every step keeps the ids of accepted calls in seenOutboundRequestIds_.
LEMMA NextSeenInv == TypeOK /\ TypeOK' /\ Inv /\ [Next]_vars => SeenInv'
  <1> SUFFICES ASSUME TypeOK, TypeOK', Inv, [Next]_vars PROVE SeenInv'
    OBVIOUS
  <1> USE OutboundAssumption DEF TypeOK, tables, history, Goto, Resolve, InFlight, Inv, SeenInv, OneHolder, OneHolderOf, InMap, HeldByCaller, HeldByWorker, HeldByReader, HeldByDestructor, Settled, Accepted
  <1>1. ASSUME SetOutboundMessageSender PROVE SeenInv'
    BY <1>1 DEF SetOutboundMessageSender
  <1>2. ASSUME NEW c \in Calls, RefuseRequest(c) PROVE SeenInv'
    BY <1>2 DEF RefuseRequest
  <1>3. ASSUME NEW c \in Calls, AddInFlightRequest(c) PROVE SeenInv'
    BY <1>3 DEF AddInFlightRequest
  <1>4. ASSUME NEW c \in Calls, ArmRequestTimeout(c) PROVE SeenInv'
    BY <1>4 DEF ArmRequestTimeout
  <1>5. ASSUME NEW c \in Calls, StartTimer(c) PROVE SeenInv'
    BY <1>5 DEF StartTimer
  <1>6. ASSUME NEW c \in Calls, DispatchRequest(c) PROVE SeenInv'
    BY <1>6 DEF DispatchRequest
  <1>7. ASSUME NEW c \in Calls, SenderReturns(c) PROVE SeenInv'
    BY <1>7 DEF SenderReturns
  <1>8. ASSUME NEW c \in Calls, PopFailedRequest(c) PROVE SeenInv'
    BY <1>8 DEF PopFailedRequest, PopInFlightRequest
  <1>9. ASSUME NEW c \in Calls, ResolveFailedRequest(c) PROVE SeenInv'
    BY <1>9 DEF ResolveFailedRequest
  <1>10. ASSUME NEW r \in Readers, NEW i \in Ids, NEW task \in BOOLEAN, DispatchResponse(r, i, task) PROVE SeenInv'
    BY <1>10 DEF DispatchResponse, PopInFlightRequest, IdleReader, ReaderState
  <1>11. ASSUME NEW r \in Readers, NEW t \in Tokens, NEW value \in 1..MaxProgress, DispatchProgress(r, t, value) PROVE SeenInv'
    BY <1>11 DEF DispatchProgress, IdleReader, ReaderState
  <1>12. ASSUME NEW r \in Readers, ResolveResponse(r) PROVE SeenInv'
    BY <1>12 DEF ResolveResponse, IdleReader, ReaderState
  <1>13. ASSUME NEW r \in Readers, TakeLateResponse(r) PROVE SeenInv'
    BY <1>13 DEF TakeLateResponse, IdleReader, ReaderState
  <1>14. ASSUME NEW r \in Readers, SendTasksCancel(r) PROVE SeenInv'
    BY <1>14 DEF SendTasksCancel, IdleReader, ReaderState
  <1>15. ASSUME NEW r \in Readers, EnterProgressCallback(r) PROVE SeenInv'
    BY <1>15 DEF EnterProgressCallback, IdleReader, ReaderState
  <1>16. ASSUME NEW r \in Readers, LeaveProgressCallback(r) PROVE SeenInv'
    BY <1>16 DEF LeaveProgressCallback, IdleReader, ReaderState
  <1>17. ASSUME NEW c \in Calls, TimerExpires(c) PROVE SeenInv'
    BY <1>17 DEF TimerExpires
  <1>18. ASSUME NEW c \in Calls, HandleRequestTimeout(c) PROVE SeenInv'
    BY <1>18 DEF HandleRequestTimeout, PopInFlightRequest
  <1>19. ASSUME ResolveTimedOut PROVE SeenInv'
    BY <1>19 DEF ResolveTimedOut, IdleWorker
  <1>20. ASSUME DeferTaskCancellation PROVE SeenInv'
    BY <1>20 DEF DeferTaskCancellation, IdleWorker
  <1>21. ASSUME SendCancelled PROVE SeenInv'
    BY <1>21 DEF SendCancelled, IdleWorker
  <1>22. ASSUME DestroyTakeInFlight PROVE SeenInv'
    BY <1>22 DEF DestroyTakeInFlight, InFlightIds
  <1>23. ASSUME DestroyStopTimeoutPool PROVE SeenInv'
    BY <1>23 DEF DestroyStopTimeoutPool
  <1>24. ASSUME DestroyJoinTimeoutPool PROVE SeenInv'
    BY <1>24 DEF DestroyJoinTimeoutPool
  <1>25. ASSUME NEW c \in Calls, DestroyResolve(c) PROVE SeenInv'
    BY <1>25 DEF DestroyResolve
  <1>26. CASE UNCHANGED vars
    BY <1>26 DEF vars
  <1> HIDE DEF TypeOK, Inv, SeenInv
  <1>27. QED
    BY <1>1, <1>2, <1>3, <1>4, <1>5, <1>6, <1>7, <1>8, <1>9, <1>10, <1>11, <1>12, <1>13, <1>14, <1>15, <1>16, <1>17, <1>18, <1>19, <1>20, <1>21, <1>22, <1>23, <1>24, <1>25, <1>26
       DEF Next, CallerStep, ReaderStep, TimeoutStep, DestroyStep

\* No step revives a caller, a reader or the map once ~Router runs.
LEMMA NextDestructorInv == TypeOK /\ TypeOK' /\ Inv /\ [Next]_vars => DestructorInv'
  <1> SUFFICES ASSUME TypeOK, TypeOK', Inv, [Next]_vars PROVE DestructorInv'
    OBVIOUS
  <1> USE OutboundAssumption DEF TypeOK, tables, history, Goto, Resolve, InFlight, Inv, DestructorInv, MapInv
  <1>1. ASSUME SetOutboundMessageSender PROVE DestructorInv'
    BY <1>1 DEF SetOutboundMessageSender
  <1>2. ASSUME NEW c \in Calls, RefuseRequest(c) PROVE DestructorInv'
    BY <1>2 DEF RefuseRequest
  <1>3. ASSUME NEW c \in Calls, AddInFlightRequest(c) PROVE DestructorInv'
    BY <1>3 DEF AddInFlightRequest
  <1>4. ASSUME NEW c \in Calls, ArmRequestTimeout(c) PROVE DestructorInv'
    BY <1>4 DEF ArmRequestTimeout
  <1>5. ASSUME NEW c \in Calls, StartTimer(c) PROVE DestructorInv'
    BY <1>5 DEF StartTimer
  <1>6. ASSUME NEW c \in Calls, DispatchRequest(c) PROVE DestructorInv'
    BY <1>6 DEF DispatchRequest
  <1>7. ASSUME NEW c \in Calls, SenderReturns(c) PROVE DestructorInv'
    BY <1>7 DEF SenderReturns
  <1>8. ASSUME NEW c \in Calls, PopFailedRequest(c) PROVE DestructorInv'
    BY <1>8 DEF PopFailedRequest, PopInFlightRequest
  <1>9. ASSUME NEW c \in Calls, ResolveFailedRequest(c) PROVE DestructorInv'
    BY <1>9 DEF ResolveFailedRequest
  <1>10. ASSUME NEW r \in Readers, NEW i \in Ids, NEW task \in BOOLEAN, DispatchResponse(r, i, task) PROVE DestructorInv'
    BY <1>10 DEF DispatchResponse, PopInFlightRequest, IdleReader, ReaderState
  <1>11. ASSUME NEW r \in Readers, NEW t \in Tokens, NEW value \in 1..MaxProgress, DispatchProgress(r, t, value) PROVE DestructorInv'
    BY <1>11 DEF DispatchProgress, IdleReader, ReaderState
  <1>12. ASSUME NEW r \in Readers, ResolveResponse(r) PROVE DestructorInv'
    BY <1>12 DEF ResolveResponse, IdleReader, ReaderState
  <1>13. ASSUME NEW r \in Readers, TakeLateResponse(r) PROVE DestructorInv'
    BY <1>13 DEF TakeLateResponse, IdleReader, ReaderState
  <1>14. ASSUME NEW r \in Readers, SendTasksCancel(r) PROVE DestructorInv'
    BY <1>14 DEF SendTasksCancel, IdleReader, ReaderState
  <1>15. ASSUME NEW r \in Readers, EnterProgressCallback(r) PROVE DestructorInv'
    BY <1>15 DEF EnterProgressCallback, IdleReader, ReaderState
  <1>16. ASSUME NEW r \in Readers, LeaveProgressCallback(r) PROVE DestructorInv'
    BY <1>16 DEF LeaveProgressCallback, IdleReader, ReaderState
  <1>17. ASSUME NEW c \in Calls, TimerExpires(c) PROVE DestructorInv'
    BY <1>17 DEF TimerExpires
  <1>18. ASSUME NEW c \in Calls, HandleRequestTimeout(c) PROVE DestructorInv'
    BY <1>18 DEF HandleRequestTimeout, PopInFlightRequest
  <1>19. ASSUME ResolveTimedOut PROVE DestructorInv'
    BY <1>19 DEF ResolveTimedOut, IdleWorker
  <1>20. ASSUME DeferTaskCancellation PROVE DestructorInv'
    BY <1>20 DEF DeferTaskCancellation, IdleWorker
  <1>21. ASSUME SendCancelled PROVE DestructorInv'
    BY <1>21 DEF SendCancelled, IdleWorker
  <1>22. ASSUME DestroyTakeInFlight PROVE DestructorInv'
    BY <1>22 DEF DestroyTakeInFlight, InFlightIds
  <1>23. ASSUME DestroyStopTimeoutPool PROVE DestructorInv'
    BY <1>23 DEF DestroyStopTimeoutPool
  <1>24. ASSUME DestroyJoinTimeoutPool PROVE DestructorInv'
    BY <1>24 DEF DestroyJoinTimeoutPool
  <1>25. ASSUME NEW c \in Calls, DestroyResolve(c) PROVE DestructorInv'
    BY <1>25 DEF DestroyResolve
  <1>26. CASE UNCHANGED vars
    BY <1>26 DEF vars
  <1> HIDE DEF TypeOK, Inv, DestructorInv
  <1>27. QED
    BY <1>1, <1>2, <1>3, <1>4, <1>5, <1>6, <1>7, <1>8, <1>9, <1>10, <1>11, <1>12, <1>13, <1>14, <1>15, <1>16, <1>17, <1>18, <1>19, <1>20, <1>21, <1>22, <1>23, <1>24, <1>25, <1>26
       DEF Next, CallerStep, ReaderStep, TimeoutStep, DestroyStep

\* Only addInFlightRequest accepts an id, and only one never seen.
LEMMA NextIdAcceptedOnce == TypeOK /\ TypeOK' /\ Inv /\ [Next]_vars => IdAcceptedOnce'
  <1> SUFFICES ASSUME TypeOK, TypeOK', Inv, [Next]_vars PROVE IdAcceptedOnce'
    OBVIOUS
  <1> USE OutboundAssumption DEF TypeOK, tables, history, Goto, Resolve, InFlight, Inv, IdAcceptedOnce, SeenInv, Accepted, Refused, OneHolder, OneHolderOf, InMap, HeldByCaller, HeldByWorker, HeldByReader, HeldByDestructor, Settled, Accepted
  <1>1. ASSUME SetOutboundMessageSender PROVE IdAcceptedOnce'
    BY <1>1 DEF SetOutboundMessageSender
  <1>2. ASSUME NEW c \in Calls, RefuseRequest(c) PROVE IdAcceptedOnce'
    BY <1>2 DEF RefuseRequest
  <1>3. ASSUME NEW c \in Calls, AddInFlightRequest(c) PROVE IdAcceptedOnce'
    BY <1>3 DEF AddInFlightRequest
  <1>4. ASSUME NEW c \in Calls, ArmRequestTimeout(c) PROVE IdAcceptedOnce'
    BY <1>4 DEF ArmRequestTimeout
  <1>5. ASSUME NEW c \in Calls, StartTimer(c) PROVE IdAcceptedOnce'
    BY <1>5 DEF StartTimer
  <1>6. ASSUME NEW c \in Calls, DispatchRequest(c) PROVE IdAcceptedOnce'
    BY <1>6 DEF DispatchRequest
  <1>7. ASSUME NEW c \in Calls, SenderReturns(c) PROVE IdAcceptedOnce'
    BY <1>7 DEF SenderReturns
  <1>8. ASSUME NEW c \in Calls, PopFailedRequest(c) PROVE IdAcceptedOnce'
    <2>1. \A d \in Calls : pc'[d] = "idle" <=> pc[d] = "idle"
      <3>1. pc[c] = "failed" /\ \E label \in {"failing", "done"} : pc' = [pc EXCEPT ![c] = label]
        BY <1>8 DEF PopFailedRequest
      <3>2. QED
        BY <3>1
    <2>2. QED
      BY <1>8, <2>1 DEF PopFailedRequest
  <1>9. ASSUME NEW c \in Calls, ResolveFailedRequest(c) PROVE IdAcceptedOnce'
    BY <1>9 DEF ResolveFailedRequest
  <1>10. ASSUME NEW r \in Readers, NEW i \in Ids, NEW task \in BOOLEAN, DispatchResponse(r, i, task) PROVE IdAcceptedOnce'
    BY <1>10 DEF DispatchResponse, PopInFlightRequest, IdleReader, ReaderState
  <1>11. ASSUME NEW r \in Readers, NEW t \in Tokens, NEW value \in 1..MaxProgress, DispatchProgress(r, t, value) PROVE IdAcceptedOnce'
    BY <1>11 DEF DispatchProgress, IdleReader, ReaderState
  <1>12. ASSUME NEW r \in Readers, ResolveResponse(r) PROVE IdAcceptedOnce'
    BY <1>12 DEF ResolveResponse, IdleReader, ReaderState
  <1>13. ASSUME NEW r \in Readers, TakeLateResponse(r) PROVE IdAcceptedOnce'
    BY <1>13 DEF TakeLateResponse, IdleReader, ReaderState
  <1>14. ASSUME NEW r \in Readers, SendTasksCancel(r) PROVE IdAcceptedOnce'
    BY <1>14 DEF SendTasksCancel, IdleReader, ReaderState
  <1>15. ASSUME NEW r \in Readers, EnterProgressCallback(r) PROVE IdAcceptedOnce'
    BY <1>15 DEF EnterProgressCallback, IdleReader, ReaderState
  <1>16. ASSUME NEW r \in Readers, LeaveProgressCallback(r) PROVE IdAcceptedOnce'
    BY <1>16 DEF LeaveProgressCallback, IdleReader, ReaderState
  <1>17. ASSUME NEW c \in Calls, TimerExpires(c) PROVE IdAcceptedOnce'
    BY <1>17 DEF TimerExpires
  <1>18. ASSUME NEW c \in Calls, HandleRequestTimeout(c) PROVE IdAcceptedOnce'
    BY <1>18 DEF HandleRequestTimeout, PopInFlightRequest
  <1>19. ASSUME ResolveTimedOut PROVE IdAcceptedOnce'
    BY <1>19 DEF ResolveTimedOut, IdleWorker
  <1>20. ASSUME DeferTaskCancellation PROVE IdAcceptedOnce'
    BY <1>20 DEF DeferTaskCancellation, IdleWorker
  <1>21. ASSUME SendCancelled PROVE IdAcceptedOnce'
    BY <1>21 DEF SendCancelled, IdleWorker
  <1>22. ASSUME DestroyTakeInFlight PROVE IdAcceptedOnce'
    BY <1>22 DEF DestroyTakeInFlight, InFlightIds
  <1>23. ASSUME DestroyStopTimeoutPool PROVE IdAcceptedOnce'
    BY <1>23 DEF DestroyStopTimeoutPool
  <1>24. ASSUME DestroyJoinTimeoutPool PROVE IdAcceptedOnce'
    BY <1>24 DEF DestroyJoinTimeoutPool
  <1>25. ASSUME NEW c \in Calls, DestroyResolve(c) PROVE IdAcceptedOnce'
    BY <1>25 DEF DestroyResolve
  <1>26. CASE UNCHANGED vars
    BY <1>26 DEF vars
  <1> HIDE DEF TypeOK, Inv, IdAcceptedOnce
  <1>27. QED
    BY <1>1, <1>2, <1>3, <1>4, <1>5, <1>6, <1>7, <1>8, <1>9, <1>10, <1>11, <1>12, <1>13, <1>14, <1>15, <1>16, <1>17, <1>18, <1>19, <1>20, <1>21, <1>22, <1>23, <1>24, <1>25, <1>26
       DEF Next, CallerStep, ReaderStep, TimeoutStep, DestroyStep

\* dispatchResponse pops the request of the response's own id; nobody swaps it later.
LEMMA NextResponseReachesItsRequest == TypeOK /\ TypeOK' /\ Inv /\ [Next]_vars => ResponseReachesItsRequest'
  <1> SUFFICES ASSUME TypeOK, TypeOK', Inv, [Next]_vars PROVE ResponseReachesItsRequest'
    OBVIOUS
  <1> USE OutboundAssumption DEF TypeOK, tables, history, Goto, Resolve, InFlight, Inv, ResponseReachesItsRequest, MapInv, ReaderStates
  <1>1. ASSUME SetOutboundMessageSender PROVE ResponseReachesItsRequest'
    BY <1>1 DEF SetOutboundMessageSender
  <1>2. ASSUME NEW c \in Calls, RefuseRequest(c) PROVE ResponseReachesItsRequest'
    BY <1>2 DEF RefuseRequest
  <1>3. ASSUME NEW c \in Calls, AddInFlightRequest(c) PROVE ResponseReachesItsRequest'
    BY <1>3 DEF AddInFlightRequest
  <1>4. ASSUME NEW c \in Calls, ArmRequestTimeout(c) PROVE ResponseReachesItsRequest'
    BY <1>4 DEF ArmRequestTimeout
  <1>5. ASSUME NEW c \in Calls, StartTimer(c) PROVE ResponseReachesItsRequest'
    BY <1>5 DEF StartTimer
  <1>6. ASSUME NEW c \in Calls, DispatchRequest(c) PROVE ResponseReachesItsRequest'
    BY <1>6 DEF DispatchRequest
  <1>7. ASSUME NEW c \in Calls, SenderReturns(c) PROVE ResponseReachesItsRequest'
    BY <1>7 DEF SenderReturns
  <1>8. ASSUME NEW c \in Calls, PopFailedRequest(c) PROVE ResponseReachesItsRequest'
    BY <1>8 DEF PopFailedRequest, PopInFlightRequest
  <1>9. ASSUME NEW c \in Calls, ResolveFailedRequest(c) PROVE ResponseReachesItsRequest'
    BY <1>9 DEF ResolveFailedRequest
  <1>10. ASSUME NEW r \in Readers, NEW i \in Ids, NEW task \in BOOLEAN, DispatchResponse(r, i, task) PROVE ResponseReachesItsRequest'
    <2>1. reader'[r].at = "resolve" => req[reader'[r].call].id = reader'[r].id
      <3>1. CASE InFlight(i)
        <4>1. reader'[r] = ReaderState("resolve", inFlightRequests[i], i, FALSE, 0)
          BY <1>10, <3>1 DEF DispatchResponse
        <4>2. QED
          BY <3>1, <4>1 DEF ReaderState
      <3>2. CASE ~InFlight(i)
        BY <1>10, <3>2 DEF DispatchResponse, ReaderState
      <3>3. QED
        BY <3>1, <3>2
    <2>2. \A s \in Readers : s # r => reader'[s] = reader[s]
      BY <1>10 DEF DispatchResponse
    <2>3. req' = req
      BY <1>10 DEF DispatchResponse
    <2>4. QED
      BY <2>1, <2>2, <2>3
  <1>11. ASSUME NEW r \in Readers, NEW t \in Tokens, NEW value \in 1..MaxProgress, DispatchProgress(r, t, value) PROVE ResponseReachesItsRequest'
    BY <1>11 DEF DispatchProgress, IdleReader, ReaderState
  <1>12. ASSUME NEW r \in Readers, ResolveResponse(r) PROVE ResponseReachesItsRequest'
    BY <1>12 DEF ResolveResponse, IdleReader, ReaderState
  <1>13. ASSUME NEW r \in Readers, TakeLateResponse(r) PROVE ResponseReachesItsRequest'
    BY <1>13 DEF TakeLateResponse, IdleReader, ReaderState
  <1>14. ASSUME NEW r \in Readers, SendTasksCancel(r) PROVE ResponseReachesItsRequest'
    BY <1>14 DEF SendTasksCancel, IdleReader, ReaderState
  <1>15. ASSUME NEW r \in Readers, EnterProgressCallback(r) PROVE ResponseReachesItsRequest'
    BY <1>15 DEF EnterProgressCallback, IdleReader, ReaderState
  <1>16. ASSUME NEW r \in Readers, LeaveProgressCallback(r) PROVE ResponseReachesItsRequest'
    BY <1>16 DEF LeaveProgressCallback, IdleReader, ReaderState
  <1>17. ASSUME NEW c \in Calls, TimerExpires(c) PROVE ResponseReachesItsRequest'
    BY <1>17 DEF TimerExpires
  <1>18. ASSUME NEW c \in Calls, HandleRequestTimeout(c) PROVE ResponseReachesItsRequest'
    BY <1>18 DEF HandleRequestTimeout, PopInFlightRequest
  <1>19. ASSUME ResolveTimedOut PROVE ResponseReachesItsRequest'
    BY <1>19 DEF ResolveTimedOut, IdleWorker
  <1>20. ASSUME DeferTaskCancellation PROVE ResponseReachesItsRequest'
    BY <1>20 DEF DeferTaskCancellation, IdleWorker
  <1>21. ASSUME SendCancelled PROVE ResponseReachesItsRequest'
    BY <1>21 DEF SendCancelled, IdleWorker
  <1>22. ASSUME DestroyTakeInFlight PROVE ResponseReachesItsRequest'
    BY <1>22 DEF DestroyTakeInFlight, InFlightIds
  <1>23. ASSUME DestroyStopTimeoutPool PROVE ResponseReachesItsRequest'
    BY <1>23 DEF DestroyStopTimeoutPool
  <1>24. ASSUME DestroyJoinTimeoutPool PROVE ResponseReachesItsRequest'
    BY <1>24 DEF DestroyJoinTimeoutPool
  <1>25. ASSUME NEW c \in Calls, DestroyResolve(c) PROVE ResponseReachesItsRequest'
    BY <1>25 DEF DestroyResolve
  <1>26. CASE UNCHANGED vars
    BY <1>26 DEF vars
  <1> HIDE DEF TypeOK, Inv, ResponseReachesItsRequest
  <1>27. QED
    BY <1>1, <1>2, <1>3, <1>4, <1>5, <1>6, <1>7, <1>8, <1>9, <1>10, <1>11, <1>12, <1>13, <1>14, <1>15, <1>16, <1>17, <1>18, <1>19, <1>20, <1>21, <1>22, <1>23, <1>24, <1>25, <1>26
       DEF Next, CallerStep, ReaderStep, TimeoutStep, DestroyStep

\* Every pop moves a request from the map to one thread, every resolution from it to its outcome.
LEMMA NextOneHolder == TypeOK /\ TypeOK' /\ Inv /\ [Next]_vars => OneHolder'
  <1> SUFFICES ASSUME TypeOK, TypeOK', Inv, [Next]_vars PROVE OneHolder'
    OBVIOUS
  <1> USE OutboundAssumption DEF TypeOK, tables, history, Goto, Resolve, InFlight, Inv, OneHolder, OneHolderOf, MapInv, SeenInv, DestructorInv, ReaderStates, WorkerStates, InMap, HeldByCaller, HeldByWorker, HeldByReader, HeldByDestructor, Settled, Accepted
  <1>1. ASSUME SetOutboundMessageSender PROVE OneHolder'
    BY <1>1 DEF SetOutboundMessageSender
  <1>2. ASSUME NEW c \in Calls, RefuseRequest(c) PROVE OneHolder'
    BY <1>2 DEF RefuseRequest
  <1>3. ASSUME NEW c \in Calls, AddInFlightRequest(c) PROVE OneHolder'
    <2> SUFFICES ASSUME NEW d \in Calls PROVE OneHolderOf(d)'
      BY DEF OneHolder
    <2> OneHolderOf(d)
      BY DEF OneHolder
    <2>1. InMap(d)' <=> InMap(d) \/ d = c
      <3>1. ~InFlight(req[c].id)
        BY <1>3 DEF AddInFlightRequest, Refused
      <3>2. QED
        BY <1>3, <3>1, NoCall \notin Calls DEF AddInFlightRequest
    <2>2. QED
      BY <1>3, <2>1 DEF AddInFlightRequest
  <1>4. ASSUME NEW c \in Calls, ArmRequestTimeout(c) PROVE OneHolder'
    BY <1>4 DEF ArmRequestTimeout
  <1>5. ASSUME NEW c \in Calls, StartTimer(c) PROVE OneHolder'
    BY <1>5 DEF StartTimer
  <1>6. ASSUME NEW c \in Calls, DispatchRequest(c) PROVE OneHolder'
    BY <1>6 DEF DispatchRequest
  <1>7. ASSUME NEW c \in Calls, SenderReturns(c) PROVE OneHolder'
    BY <1>7 DEF SenderReturns
  <1>8. ASSUME NEW c \in Calls, PopFailedRequest(c) PROVE OneHolder'
    <2> SUFFICES ASSUME NEW d \in Calls PROVE OneHolderOf(d)'
      BY DEF OneHolder
    <2> OneHolderOf(d)
      BY DEF OneHolder
    <2>1. /\ \A r \in Readers : HeldByReader(r, d)' <=> HeldByReader(r, d)
          /\ HeldByWorker(d)' <=> HeldByWorker(d)
          /\ HeldByDestructor(d)' <=> HeldByDestructor(d)
          /\ Settled(d)' <=> Settled(d)
      BY <1>8 DEF PopFailedRequest
    <2>2. /\ (pc[d] = "idle")' <=> pc[d] = "idle"
          /\ Accepted(d)' <=> Accepted(d)
      <3>1. pc[c] = "failed" /\ \E label \in {"failing", "done"} : pc' = [pc EXCEPT ![c] = label]
        BY <1>8 DEF PopFailedRequest
      <3>2. QED
        BY <1>8, <3>1 DEF PopFailedRequest
    <2>3. CASE InFlight(req[c].id)
      <3>1. inFlightRequests' = [inFlightRequests EXCEPT ![req[c].id] = NoCall] /\ pc' = [pc EXCEPT ![c] = "failing"]
        BY <1>8, <2>3 DEF PopFailedRequest, PopInFlightRequest
      <3>2. req[c].id \in Ids /\ pc[c] = "failed" /\ Accepted(c)
        BY <1>8 DEF PopFailedRequest, Descriptor
      <3>3. inFlightRequests[req[c].id] = c
        <4> DEFINE e == inFlightRequests[req[c].id]
        <4>1. e \in Calls /\ req[e].id = req[c].id /\ Accepted(e)
          BY <2>3, <3>2 DEF MapInv
        <4> HIDE DEF e
        <4>2. e = c
          BY <3>2, <4>1 DEF IdAcceptedOnce
        <4>3. QED
          BY <4>2 DEF e
      <3>4. InMap(d)' <=> InMap(d) /\ d # c
        BY <3>1, <3>2, <3>3 DEF MapInv
      <3>5. HeldByCaller(d)' <=> HeldByCaller(d) \/ d = c
        BY <3>1
      <3>6. InMap(c)
        BY <3>2, <3>3
      <3>7. QED
        BY <2>1, <2>2, <3>4, <3>5, <3>6, <3>2 DEF Accepted
    <2>4. CASE ~InFlight(req[c].id)
      <3>1. pc[c] = "failed" /\ pc' = [pc EXCEPT ![c] = "done"] /\ inFlightRequests' = inFlightRequests
        BY <1>8, <2>4 DEF PopFailedRequest
      <3>2. (InMap(d)' <=> InMap(d)) /\ (HeldByCaller(d)' <=> HeldByCaller(d))
        BY <3>1
      <3>3. QED
        BY <2>1, <2>2, <3>2
    <2>5. QED
      BY <2>3, <2>4
  <1>9. ASSUME NEW c \in Calls, ResolveFailedRequest(c) PROVE OneHolder'
    BY <1>9 DEF ResolveFailedRequest
  <1>10. ASSUME NEW r \in Readers, NEW i \in Ids, NEW task \in BOOLEAN, DispatchResponse(r, i, task) PROVE OneHolder'
    <2> SUFFICES ASSUME NEW d \in Calls PROVE OneHolderOf(d)'
      BY DEF OneHolder
    <2> OneHolderOf(d)
      BY DEF OneHolder
    <2>1. CASE InFlight(i)
      <3> DEFINE e == inFlightRequests[i]
      <3>1. /\ inFlightRequests' = [inFlightRequests EXCEPT ![i] = NoCall]
            /\ reader' = [reader EXCEPT ![r] = ReaderState("resolve", e, i, FALSE, 0)]
            /\ reader[r].at = "idle"
            /\ UNCHANGED << req, pc, promise, worker, drained >>
        BY <1>10, <2>1 DEF DispatchResponse, PopInFlightRequest
      <3>2. e \in Calls /\ InMap(e)
        BY <2>1
      <3>3. InMap(d)' <=> InMap(d) /\ d # e
        BY <2>1, <3>1, <3>2 DEF MapInv
      <3>4. \A s \in Readers : HeldByReader(s, d)' <=> HeldByReader(s, d) \/ (s = r /\ d = e)
        BY <3>1 DEF ReaderState
      <3>5. /\ HeldByCaller(d)' <=> HeldByCaller(d)
            /\ HeldByWorker(d)' <=> HeldByWorker(d)
            /\ HeldByDestructor(d)' <=> HeldByDestructor(d)
            /\ Settled(d)' <=> Settled(d)
            /\ (pc[d] = "idle")' <=> pc[d] = "idle"
            /\ Accepted(d)' <=> Accepted(d)
        BY <3>1
      <3>6. QED
        <4> HIDE DEF e, InMap, HeldByCaller, HeldByWorker, HeldByReader, HeldByDestructor, Settled, Accepted,
                     InFlight, MapInv, SeenInv, TypeOK, Inv, DestructorInv
        <4>1. QED
          BY <3>2, <3>3, <3>4, <3>5
    <2>2. CASE ~InFlight(i)
      <3>1. /\ reader' = [reader EXCEPT ![r] = ReaderState("late", NoCall, i, task, 0)]
            /\ reader[r].at = "idle"
            /\ UNCHANGED << req, pc, promise, worker, drained, inFlightRequests >>
        BY <1>10, <2>2 DEF DispatchResponse
      <3>2. \A s \in Readers : HeldByReader(s, d)' <=> HeldByReader(s, d)
        BY <3>1 DEF ReaderState
      <3>3. QED
        BY <3>1, <3>2
    <2>3. QED
      BY <2>1, <2>2
  <1>11. ASSUME NEW r \in Readers, NEW t \in Tokens, NEW value \in 1..MaxProgress, DispatchProgress(r, t, value) PROVE OneHolder'
    BY <1>11 DEF DispatchProgress, IdleReader, ReaderState
  <1>12. ASSUME NEW r \in Readers, ResolveResponse(r) PROVE OneHolder'
    BY <1>12 DEF ResolveResponse, IdleReader, ReaderState
  <1>13. ASSUME NEW r \in Readers, TakeLateResponse(r) PROVE OneHolder'
    BY <1>13 DEF TakeLateResponse, IdleReader, ReaderState
  <1>14. ASSUME NEW r \in Readers, SendTasksCancel(r) PROVE OneHolder'
    BY <1>14 DEF SendTasksCancel, IdleReader, ReaderState
  <1>15. ASSUME NEW r \in Readers, EnterProgressCallback(r) PROVE OneHolder'
    <2>1. \A s \in Readers, d \in Calls : HeldByReader(s, d)' <=> HeldByReader(s, d)
      BY <1>15 DEF EnterProgressCallback
    <2>2. UNCHANGED << pc, promise, inFlightRequests, worker, drained >>
      BY <1>15 DEF EnterProgressCallback
    <2> HIDE DEF TypeOK, HeldByReader, ReaderStates, WorkerStates
    <2>3. QED
      BY <2>1, <2>2
  <1>16. ASSUME NEW r \in Readers, LeaveProgressCallback(r) PROVE OneHolder'
    BY <1>16 DEF LeaveProgressCallback, IdleReader, ReaderState
  <1>17. ASSUME NEW c \in Calls, TimerExpires(c) PROVE OneHolder'
    BY <1>17 DEF TimerExpires
  <1>18. ASSUME NEW c \in Calls, HandleRequestTimeout(c) PROVE OneHolder'
    BY <1>18 DEF HandleRequestTimeout, PopInFlightRequest
  <1>19. ASSUME ResolveTimedOut PROVE OneHolder'
    BY <1>19 DEF ResolveTimedOut, IdleWorker
  <1>20. ASSUME DeferTaskCancellation PROVE OneHolder'
    BY <1>20 DEF DeferTaskCancellation, IdleWorker
  <1>21. ASSUME SendCancelled PROVE OneHolder'
    BY <1>21 DEF SendCancelled, IdleWorker
  <1>22. ASSUME DestroyTakeInFlight PROVE OneHolder'
    BY <1>22 DEF DestroyTakeInFlight, InFlightIds
  <1>23. ASSUME DestroyStopTimeoutPool PROVE OneHolder'
    BY <1>23 DEF DestroyStopTimeoutPool
  <1>24. ASSUME DestroyJoinTimeoutPool PROVE OneHolder'
    BY <1>24 DEF DestroyJoinTimeoutPool
  <1>25. ASSUME NEW c \in Calls, DestroyResolve(c) PROVE OneHolder'
    BY <1>25 DEF DestroyResolve
  <1>26. CASE UNCHANGED vars
    BY <1>26 DEF vars
  <1> HIDE DEF TypeOK, Inv, OneHolder
  <1>27. QED
    BY <1>1, <1>2, <1>3, <1>4, <1>5, <1>6, <1>7, <1>8, <1>9, <1>10, <1>11, <1>12, <1>13, <1>14, <1>15, <1>16, <1>17, <1>18, <1>19, <1>20, <1>21, <1>22, <1>23, <1>24, <1>25, <1>26
       DEF Next, CallerStep, ReaderStep, TimeoutStep, DestroyStep

\* A constructed router holds no request.
LEMMA InitInv == Init => Inv
  <1> SUFFICES ASSUME Init PROVE Inv
    OBVIOUS
  <1> USE OutboundAssumption DEF Init, IdleReader, ReaderState, IdleWorker
  <1>1. \A i \in Ids : ~InFlight(i)
    BY DEF InFlight
  <1>2. \A c \in Calls : ~Accepted(c) /\ ~InMap(c) /\ ~HeldByCaller(c) /\ ~HeldByWorker(c)
                         /\ ~HeldByDestructor(c) /\ \A r \in Readers : ~HeldByReader(r, c)
    BY DEF Accepted, InMap, HeldByCaller, HeldByWorker, HeldByDestructor, HeldByReader
  <1>3. MapInv /\ SeenInv /\ DestructorInv /\ IdAcceptedOnce /\ ResponseReachesItsRequest
    BY <1>1, <1>2 DEF MapInv, SeenInv, DestructorInv, IdAcceptedOnce, ResponseReachesItsRequest
  <1>4. OneHolder
    BY <1>2 DEF OneHolder, OneHolderOf
  <1>5. QED
    BY <1>3, <1>4 DEF Inv

\* The inductive invariant of the outbound router.
THEOREM InvHolds == Spec => []Inv
  <1>1. TypeOK /\ TypeOK' /\ Inv /\ [Next]_vars => Inv'
    BY NextMapInv, NextSeenInv, NextDestructorInv, NextIdAcceptedOnce, NextOneHolder,
       NextResponseReachesItsRequest DEF Inv
  <1>2. QED
    BY InitInv, <1>1, TypeCorrect, PTL DEF Spec

-----------------------------------------------------------------------------
(* What follows from it.                                                   *)

\* The pops of popInFlightRequest by the sender, the timeout worker, a transport thread
\* and the destructor never hand one request to two of them, and never lose one.
THEOREM RequestsHaveOneHolder == Spec => []OneHolder
  <1>1. Inv => OneHolder
    BY DEF Inv
  <1>2. QED
    BY <1>1, InvHolds, PTL

\* No two accepted calls ever share a request id.
THEOREM IdsAcceptedOnce == Spec => []IdAcceptedOnce
  <1>1. Inv => IdAcceptedOnce
    BY DEF Inv
  <1>2. QED
    BY <1>1, InvHolds, PTL

\* A response resolves the future of the call that sent its id, in whatever order
\* responses arrive.
THEOREM ResponsesAreCorrelated == Spec => []ResponseReachesItsRequest
  <1>1. Inv => ResponseReachesItsRequest
    BY DEF Inv
  <1>2. QED
    BY <1>1, InvHolds, PTL

\* A destroyed router left no request with anybody.
LEMMA GoneMeansResolved == TypeOK /\ Inv => DestroyedMeansResolved
  <1> SUFFICES ASSUME TypeOK, Inv, dtor = "gone", NEW c \in Calls, pc[c] # "idle"
               PROVE  Settled(c)
    BY DEF DestroyedMeansResolved
  <1>1. \A i \in Ids : ~InFlight(i)
    BY DEF Inv, DestructorInv
  <1>2. ~InMap(c)
    BY <1>1, OutboundAssumption DEF InMap, InFlight
  <1>3. ~HeldByCaller(c) /\ ~HeldByWorker(c) /\ ~HeldByDestructor(c)
    BY DEF Inv, DestructorInv, HeldByCaller, HeldByWorker, HeldByDestructor
  <1>4. \A r \in Readers : ~HeldByReader(r, c)
    BY DEF Inv, DestructorInv, HeldByReader
  <1>5. CASE Accepted(c)
    BY <1>2, <1>3, <1>4, <1>5 DEF Inv, OneHolder, OneHolderOf
  <1>6. CASE promise[c] = "rejected"
    BY <1>6 DEF Settled
  <1>7. QED
    BY <1>5, <1>6 DEF Accepted

\* When ~Router has returned, every future that sendRequest handed out is resolved.
THEOREM NoFutureOutlivesRouter == Spec => []DestroyedMeansResolved
  BY GoneMeansResolved, TypeCorrect, InvHolds, PTL

-----------------------------------------------------------------------------
(* What a timeout leaves behind.                                           *)

TimeoutInv ==
  /\ ignoredResponseIds \subseteq seenOutboundRequestIds
  /\ IgnoredMeansTimedOut
  /\ CancelledMeansTimedOut
  /\ worker.at = "cancel" =>
       /\ Accepted(worker.call) /\ promise[worker.call] = "timeout"
       /\ req[worker.call].cancelOnTimeout /\ req[worker.call].kind # "initialize"

\* A call that is accepted stays so, a promise that is set keeps its value, and only
\* addInFlightRequest accepts a call.
LEMMA CallSteps ==
  ASSUME TypeOK, Inv, [Next]_vars
  PROVE  /\ req' = req /\ seenOutboundRequestIds \subseteq seenOutboundRequestIds'
         /\ \A c \in Calls :
              /\ promise[c] # "none" => promise'[c] = promise[c]
              /\ Accepted(c) => Accepted(c)'
              /\ Accepted(c)' => Accepted(c) \/ AddInFlightRequest(c)
  <1> DEFINE Kept(c) == /\ promise[c] # "none" => promise'[c] = promise[c]
                        /\ Accepted(c) => Accepted(c)'
                        /\ Accepted(c)' => Accepted(c) \/ AddInFlightRequest(c)
             Goal == /\ req' = req /\ seenOutboundRequestIds \subseteq seenOutboundRequestIds'
                     /\ \A c \in Calls : Kept(c)
  <1> SUFFICES Goal
    OBVIOUS
  <1> SeenInv
    BY DEF Inv
  <1> USE DEF TypeOK, SeenInv, Accepted, Resolve, Goto, tables
  <1>1. CASE SetOutboundMessageSender
    BY <1>1 DEF SetOutboundMessageSender
  <1>2. ASSUME NEW c \in Calls, CallerStep(c) PROVE Goal
    <2>1. CASE RefuseRequest(c)
      BY <2>1 DEF RefuseRequest
    <2>2. CASE AddInFlightRequest(c)
      <3>1. \A d \in Calls : d # c => Kept(d)
        BY <2>2 DEF AddInFlightRequest
      <3>2. Kept(c) /\ req' = req /\ seenOutboundRequestIds \subseteq seenOutboundRequestIds'
        BY <2>2 DEF AddInFlightRequest
      <3>3. QED
        BY <3>1, <3>2
    <2>3. CASE ArmRequestTimeout(c) \/ StartTimer(c) \/ DispatchRequest(c) \/ SenderReturns(c)
      <3>1. pc[c] \in {"arm", "startTimer", "send", "sending"} /\ promise' = promise /\ req' = req
            /\ seenOutboundRequestIds' = seenOutboundRequestIds
        BY <2>3 DEF ArmRequestTimeout, StartTimer, DispatchRequest, SenderReturns
      <3>2. \E label \in {"startTimer", "send", "sending", "failed", "done"} : pc' = [pc EXCEPT ![c] = label]
        BY <2>3 DEF ArmRequestTimeout, StartTimer, DispatchRequest, SenderReturns
      <3>3. QED
        BY <3>1, <3>2
    <2>4. CASE PopFailedRequest(c)
      <3>1. pc[c] = "failed" /\ promise' = promise /\ req' = req
        BY <2>4 DEF PopFailedRequest
      <3>2. \E label \in {"failing", "done"} : pc' = [pc EXCEPT ![c] = label]
        BY <2>4 DEF PopFailedRequest
      <3>3. seenOutboundRequestIds' = seenOutboundRequestIds
        BY <2>4 DEF PopFailedRequest, PopInFlightRequest
      <3>4. QED
        BY <3>1, <3>2, <3>3
    <2>5. CASE ResolveFailedRequest(c)
      BY <2>5 DEF ResolveFailedRequest
    <2> HIDE DEF Goal
    <2>6. QED
      BY <1>2, <2>1, <2>2, <2>3, <2>4, <2>5 DEF CallerStep
  <1>3. ASSUME NEW r \in Readers, ReaderStep(r) PROVE Goal
    <2>1. CASE ResolveResponse(r)
      BY <2>1 DEF ResolveResponse
    <2>2. CASE ~ResolveResponse(r)
      <3>1. UNCHANGED << req, pc, promise >>
        BY <1>3, <2>2 DEF ReaderStep, DispatchResponse, DispatchProgress, TakeLateResponse, SendTasksCancel,
           EnterProgressCallback, LeaveProgressCallback
      <3>2. seenOutboundRequestIds' = seenOutboundRequestIds
        BY <1>3, <2>2 DEF ReaderStep, DispatchResponse, DispatchProgress, TakeLateResponse, SendTasksCancel,
           EnterProgressCallback, LeaveProgressCallback, PopInFlightRequest
      <3>3. QED
        BY <3>1, <3>2
    <2>3. QED
      BY <2>1, <2>2
  <1>4. CASE TimeoutStep
    <2>1. CASE ResolveTimedOut
      BY <2>1 DEF ResolveTimedOut
    <2>2. CASE ~ResolveTimedOut
      <3>1. UNCHANGED << req, pc, promise >>
        BY <1>4, <2>2 DEF TimeoutStep, TimerExpires, HandleRequestTimeout, DeferTaskCancellation, SendCancelled
      <3>2. seenOutboundRequestIds' = seenOutboundRequestIds
        BY <1>4, <2>2 DEF TimeoutStep, TimerExpires, HandleRequestTimeout, DeferTaskCancellation, SendCancelled,
           PopInFlightRequest
      <3>3. QED
        BY <3>1, <3>2
    <2>3. QED
      BY <2>1, <2>2
  <1>5. CASE DestroyStep
    <2>1. ASSUME NEW c \in Calls, DestroyResolve(c) PROVE Goal
      BY <2>1 DEF DestroyResolve
    <2>2. CASE DestroyTakeInFlight \/ DestroyStopTimeoutPool \/ DestroyJoinTimeoutPool
      BY <2>2 DEF DestroyTakeInFlight, DestroyStopTimeoutPool, DestroyJoinTimeoutPool
    <2> HIDE DEF Goal
    <2>3. QED
      BY <1>5, <2>1, <2>2 DEF DestroyStep
  <1>6. CASE UNCHANGED vars
    BY <1>6 DEF vars
  <1> HIDE DEF Goal
  <1>7. QED
    BY <1>1, <1>2, <1>3, <1>4, <1>5, <1>6 DEF Next

\* Only the timeout worker moves itself, ignores a response or sends a cancellation.
LEMMA WorkerSteps ==
  ASSUME TypeOK, [Next]_vars
  PROVE  \/ /\ worker' = worker /\ cancelledSent' = cancelledSent
            /\ ignoredResponseIds' \subseteq ignoredResponseIds
         \/ \E c \in Calls : HandleRequestTimeout(c)
         \/ ResolveTimedOut \/ DeferTaskCancellation \/ SendCancelled
  <1> DEFINE Idles == /\ worker' = worker /\ cancelledSent' = cancelledSent
                      /\ ignoredResponseIds' \subseteq ignoredResponseIds
  <1>1. CASE SetOutboundMessageSender
    BY <1>1 DEF SetOutboundMessageSender, tables, history
  <1>2. ASSUME NEW c \in Calls, CallerStep(c) PROVE Idles
    BY <1>2 DEF CallerStep, RefuseRequest, AddInFlightRequest, ArmRequestTimeout, StartTimer, DispatchRequest,
       SenderReturns, PopFailedRequest, PopInFlightRequest, ResolveFailedRequest, tables, history
  <1>3. ASSUME NEW r \in Readers, ReaderStep(r) PROVE Idles
    BY <1>3 DEF ReaderStep, DispatchResponse, DispatchProgress, ResolveResponse, TakeLateResponse, SendTasksCancel,
       EnterProgressCallback, LeaveProgressCallback, PopInFlightRequest, tables, history
  <1>4. ASSUME NEW c \in Calls, TimerExpires(c) PROVE Idles
    BY <1>4 DEF TimerExpires, tables, history
  <1>5. CASE DestroyStep
    BY <1>5 DEF DestroyStep, DestroyTakeInFlight, DestroyResolve, DestroyStopTimeoutPool,
       DestroyJoinTimeoutPool, tables, history
  <1>6. CASE UNCHANGED vars
    BY <1>6 DEF vars, tables, history
  <1> HIDE DEF Idles
  <1>7. QED
    BY <1>1, <1>2, <1>3, <1>4, <1>5, <1>6 DEF Next, TimeoutStep, Idles

\* Every step keeps what timeouts promise.
LEMMA NextTimeoutInv == TypeOK /\ Inv /\ TimeoutInv /\ [Next]_vars => TimeoutInv'
  <1> SUFFICES ASSUME TypeOK, Inv, TimeoutInv, [Next]_vars PROVE TimeoutInv'
    OBVIOUS
  <1>1. /\ req' = req /\ seenOutboundRequestIds \subseteq seenOutboundRequestIds'
        /\ \A c \in Calls : /\ promise[c] # "none" => promise'[c] = promise[c]
                            /\ Accepted(c) => Accepted(c)'
                            /\ Accepted(c)' => Accepted(c) \/ AddInFlightRequest(c)
    BY CallSteps
  <1>2. \A c \in Calls : AddInFlightRequest(c) =>
          req[c].id \notin ignoredResponseIds /\ UNCHANGED << ignoredResponseIds, worker >>
    BY DEF AddInFlightRequest, Refused, TimeoutInv
  <1>3. \A i \in Ids : (\E c \in Calls : Accepted(c) /\ req[c].id = i /\ promise[c] = "timeout"
                                         /\ req[c].kind = "plain" /\ req[c].cancelOnTimeout) =>
                       (\E c \in Calls : Accepted(c) /\ req[c].id = i /\ promise[c] = "timeout"
                                         /\ req[c].kind = "plain" /\ req[c].cancelOnTimeout)'
    BY <1>1
  <1>4. cancelledSent' = cancelledSent => CancelledMeansTimedOut'
    BY <1>3 DEF CancelledMeansTimedOut, TimeoutInv, TypeOK
  <1>5. CASE /\ worker' = worker /\ cancelledSent' = cancelledSent
             /\ ignoredResponseIds' \subseteq ignoredResponseIds
    <2>1. IgnoredMeansTimedOut'
      BY <1>1, <1>2, <1>5 DEF IgnoredMeansTimedOut, TimeoutInv, HeldByWorker
    <2>2. (worker.at = "cancel" =>
             /\ Accepted(worker.call) /\ promise[worker.call] = "timeout"
             /\ req[worker.call].cancelOnTimeout /\ req[worker.call].kind # "initialize")'
      BY <1>1, <1>5 DEF TimeoutInv, TypeOK
    <2>3. QED
      BY <1>1, <1>4, <1>5, <2>1, <2>2 DEF TimeoutInv
  <1>6. ASSUME NEW c \in Calls, HandleRequestTimeout(c) PROVE TimeoutInv'
    <2>1. UNCHANGED << pc, promise, cancelledSent, seenOutboundRequestIds >> /\ worker.at = "idle"
      BY <1>6 DEF HandleRequestTimeout, PopInFlightRequest, tables, history
    <2>2. CASE ~InFlight(req[c].id)
      BY <1>1, <1>4, <1>6, <2>1, <2>2
         DEF HandleRequestTimeout, tables, TimeoutInv, IgnoredMeansTimedOut, HeldByWorker, Accepted
    <2>3. CASE InFlight(req[c].id)
      <3> DEFINE i == req[c].id
                 d == inFlightRequests[i]
      <3>1. i \in Ids /\ d \in Calls /\ req[d].id = i /\ pc[d] # "idle" /\ promise[d] = "none"
        BY <2>3, OutboundAssumption DEF TypeOK, InFlight, Descriptor, Inv, MapInv
      <3>2. /\ worker' = [at |-> "resolve", call |-> d]
            /\ ignoredResponseIds' = ignoredResponseIds \cup {i}
        BY <1>6, <2>3 DEF HandleRequestTimeout, PopInFlightRequest
      <3>3. Accepted(d) /\ i \in seenOutboundRequestIds
        BY <3>1 DEF Accepted, Inv, SeenInv
      <3> HIDE DEF i, d
      <3>4. ASSUME NEW e \in Calls, Accepted(e)', req[e].id \in ignoredResponseIds'
            PROVE  promise'[e] = "timeout" \/ (worker'.at = "resolve" /\ worker'.call = e)
        <4>1. Accepted(e)
          BY <2>1, <3>4, <1>1 DEF Accepted
        <4>2. CASE req[e].id = i
          BY <3>1, <3>2, <3>3, <4>1, <4>2 DEF Inv, IdAcceptedOnce
        <4>3. CASE req[e].id # i
          BY <2>1, <3>2, <3>4, <4>1, <4>3 DEF TimeoutInv, IgnoredMeansTimedOut, HeldByWorker
        <4>4. QED
          BY <4>2, <4>3
      <3>5. IgnoredMeansTimedOut'
        BY <1>1, <3>4 DEF IgnoredMeansTimedOut, HeldByWorker
      <3>6. ignoredResponseIds' \subseteq seenOutboundRequestIds'
        BY <2>1, <3>2, <3>3 DEF TimeoutInv
      <3>7. QED
        BY <1>4, <2>1, <3>2, <3>5, <3>6 DEF TimeoutInv
    <2>4. QED
      BY <2>2, <2>3
  <1>7. CASE ResolveTimedOut
    <2> DEFINE d == worker.call
    <2>1. d \in Calls /\ HeldByWorker(d) /\ worker.at = "resolve"
      BY <1>7 DEF ResolveTimedOut, TypeOK, HeldByWorker
    <2>2. pc[d] # "idle" /\ promise[d] = "none" /\ Accepted(d)
      BY <2>1 DEF Inv, OneHolder, OneHolderOf, Settled, Accepted
    <2>3. /\ promise'[d] = "timeout" /\ UNCHANGED << pc, cancelledSent, ignoredResponseIds >>
          /\ worker' = IF req[d].cancelOnTimeout /\ req[d].kind # "initialize"
                       THEN [worker EXCEPT !.at = "cancel"] ELSE IdleWorker
      BY <1>7, <2>1, <2>2 DEF ResolveTimedOut, Resolve, TypeOK, tables, history
    <2>4. IgnoredMeansTimedOut'
      <3>1. ASSUME NEW e \in Calls, Accepted(e)', req[e].id \in ignoredResponseIds
            PROVE  promise'[e] = "timeout"
        <4>1. Accepted(e)
          BY <1>1, <1>2, <3>1
        <4>2. promise[e] = "timeout" \/ HeldByWorker(e)
          BY <3>1, <4>1 DEF TimeoutInv, IgnoredMeansTimedOut
        <4>3. QED
          BY <1>1, <2>3, <4>2 DEF HeldByWorker
      <3>2. QED
        BY <1>1, <2>3, <3>1 DEF IgnoredMeansTimedOut
    <2>5. (worker.at = "cancel" =>
             /\ Accepted(worker.call) /\ promise[worker.call] = "timeout"
             /\ req[worker.call].cancelOnTimeout /\ req[worker.call].kind # "initialize")'
      <3>1. CASE req[d].cancelOnTimeout /\ req[d].kind # "initialize"
        <4>1. worker'.call = d
          BY <2>3, <3>1 DEF TypeOK, WorkerStates
        <4> HIDE DEF d
        <4>2. QED
          BY <1>1, <2>1, <2>2, <2>3, <3>1, <4>1
      <3>2. CASE ~(req[d].cancelOnTimeout /\ req[d].kind # "initialize")
        BY <2>3, <3>2 DEF IdleWorker
      <3>3. QED
        BY <3>1, <3>2
    <2>6. QED
      BY <1>1, <1>4, <2>3, <2>4, <2>5 DEF TimeoutInv
  <1>8. CASE DeferTaskCancellation
    BY <1>1, <1>4, <1>8
       DEF DeferTaskCancellation, TimeoutInv, IgnoredMeansTimedOut, HeldByWorker, IdleWorker, history, Accepted
  <1>9. CASE SendCancelled
    <2> DEFINE d == worker.call
    <2>1. /\ UNCHANGED << pc, promise, tables >> /\ worker' = IdleWorker /\ worker.at = "cancel"
          /\ req[d].kind # "task"
          /\ cancelledSent' = cancelledSent \/ cancelledSent' = cancelledSent \cup {req[d].id}
      BY <1>9 DEF SendCancelled
    <2>2. /\ d \in Calls /\ Accepted(d) /\ promise[d] = "timeout"
          /\ req[d].cancelOnTimeout /\ req[d].kind = "plain" /\ req[d].id \in Ids
      BY <2>1, OutboundAssumption DEF TimeoutInv, TypeOK, Descriptor
    <2> HIDE DEF d
    <2>3. CancelledMeansTimedOut'
      BY <1>1, <1>3, <2>1, <2>2 DEF CancelledMeansTimedOut, TimeoutInv, TypeOK
    <2>4. IgnoredMeansTimedOut'
      BY <1>1, <2>1 DEF IgnoredMeansTimedOut, TimeoutInv, HeldByWorker, tables, IdleWorker, Accepted
    <2>5. QED
      BY <1>1, <2>1, <2>3, <2>4 DEF TimeoutInv, tables, IdleWorker
  <1>10. QED
    BY <1>5, <1>6, <1>7, <1>8, <1>9, WorkerSteps

\* What timeouts promise holds of every router.
LEMMA TimeoutInvHolds == Spec => []TimeoutInv
  <1>1. Init => TimeoutInv
    BY DEF Init, TimeoutInv, IgnoredMeansTimedOut, CancelledMeansTimedOut, IdleWorker
  <1>2. QED
    BY <1>1, NextTimeoutInv, TypeCorrect, InvHolds, PTL DEF Spec

\* A response is ignored as late only when the caller was, or is being, told of the timeout.
THEOREM IgnoredOnlyAfterTimeout == Spec => []IgnoredMeansTimedOut
  <1>1. TimeoutInv => IgnoredMeansTimedOut
    BY DEF TimeoutInv
  <1>2. QED
    BY <1>1, TimeoutInvHolds, PTL

\* notifications/cancelled names only plain requests that asked for it and whose caller was
\* told of the timeout: no answered request, no initialize.
THEOREM CancelledOnlyAfterTimeout == Spec => []CancelledMeansTimedOut
  <1>1. TimeoutInv => CancelledMeansTimedOut
    BY DEF TimeoutInv
  <1>2. QED
    BY <1>1, TimeoutInvHolds, PTL

-----------------------------------------------------------------------------
(* The index by progress token.                                            *)

\* popInFlightRequest takes the request out of the map and out of the index together.
LEMMA PopKeepsTokenIndex ==
  ASSUME TypeOK, MapInv, TokenIndexExact, NEW i \in Ids, InFlight(i), NEW mark \in BOOLEAN,
         PopInFlightRequest(i, mark), req' = req
  PROVE  TokenIndexExact'
  <1> USE OutboundAssumption DEF TypeOK, InFlight, PopInFlightRequest, Descriptor
  <1> DEFINE token == req[inFlightRequests[i]].token
  <1>1. ASSUME NEW t \in Tokens, requestIdsByProgressToken'[t] # NoId
        PROVE  (/\ InFlight(requestIdsByProgressToken[t])
                /\ req[inFlightRequests[requestIdsByProgressToken[t]]].token = t)'
    <2>1. t # token /\ requestIdsByProgressToken'[t] = requestIdsByProgressToken[t]
      BY <1>1
    <2>2. requestIdsByProgressToken[t] # i
      BY <1>1, <2>1 DEF TokenIndexExact
    <2>3. QED
      BY <1>1, <2>1, <2>2 DEF TokenIndexExact
  <1>2. ASSUME NEW j \in Ids, InFlight(j)', req[inFlightRequests'[j]].token # NoToken
        PROVE  requestIdsByProgressToken'[req[inFlightRequests'[j]].token] = j
    <2>1. j # i /\ inFlightRequests'[j] = inFlightRequests[j] /\ inFlightRequests[j] \in Calls
      BY <1>2
    <2>2. req[inFlightRequests[j]].token \in Tokens
      BY <1>2, <2>1
    <2>3. requestIdsByProgressToken[req[inFlightRequests[j]].token] = j
      BY <1>2, <2>1 DEF TokenIndexExact
    <2>4. req[inFlightRequests[j]].token # token
      BY <2>1, <2>2, <2>3 DEF TokenIndexExact
    <2>5. QED
      BY <2>1, <2>2, <2>3, <2>4
  <1>3. QED
    BY <1>1, <1>2 DEF TokenIndexExact

\* The id of a call that is accepted is not in flight: it was never seen.
LEMMA FreshId ==
  ASSUME TypeOK, MapInv, SeenInv, NEW c \in Calls, ~Refused(c)
  PROVE  ~InFlight(req[c].id)
  BY OutboundAssumption DEF TypeOK, MapInv, SeenInv, Refused, Accepted, InFlight, Descriptor

\* addInFlightRequest indexes the token only when nobody else has it.
LEMMA AddKeepsTokenIndex ==
  ASSUME TypeOK, MapInv, SeenInv, TokenIndexExact, NEW c \in Calls, AddInFlightRequest(c)
  PROVE  TokenIndexExact'
  <1> USE OutboundAssumption DEF TypeOK, InFlight, AddInFlightRequest, Descriptor
  <1> DEFINE i == req[c].id
             token == req[c].token
  <1>1. i \in Ids /\ token \in Tokens \cup {NoToken}
    OBVIOUS
  <1>2. /\ inFlightRequests' = [inFlightRequests EXCEPT ![i] = c]
        /\ requestIdsByProgressToken' =
             [t \in Tokens |-> IF t = token THEN i ELSE requestIdsByProgressToken[t]]
        /\ req' = req
    OBVIOUS
  <1>3. token \in Tokens => requestIdsByProgressToken[token] = NoId
    BY DEF Refused
  <1>4. ~InFlight(i)
    BY FreshId
  <1> HIDE DEF i, token, AddInFlightRequest
  <1>5. ASSUME NEW t \in Tokens, requestIdsByProgressToken'[t] # NoId
        PROVE  (/\ InFlight(requestIdsByProgressToken[t])
                /\ req[inFlightRequests[requestIdsByProgressToken[t]]].token = t)'
    <2>1. CASE t = token
      BY <1>1, <1>2, <2>1 DEF token
    <2>2. CASE t # token
      <3>1. requestIdsByProgressToken'[t] = requestIdsByProgressToken[t]
        BY <1>2, <2>2
      <3>2. requestIdsByProgressToken[t] \in Ids /\ InFlight(requestIdsByProgressToken[t])
        BY <1>5, <3>1 DEF TokenIndexExact
      <3>3. requestIdsByProgressToken[t] # i
        BY <1>4, <3>2
      <3>4. QED
        BY <1>2, <1>5, <3>1, <3>2, <3>3 DEF TokenIndexExact
    <2>3. QED
      BY <2>1, <2>2
  <1>6. ASSUME NEW j \in Ids, InFlight(j)', req[inFlightRequests'[j]].token # NoToken
        PROVE  requestIdsByProgressToken'[req[inFlightRequests'[j]].token] = j
    <2>1. CASE j = i
      BY <1>1, <1>2, <1>6, <2>1 DEF token
    <2>2. CASE j # i
      <3>1. inFlightRequests'[j] = inFlightRequests[j] /\ inFlightRequests[j] \in Calls
        BY <1>1, <1>2, <1>6, <2>2
      <3>2. /\ req[inFlightRequests[j]].token \in Tokens
            /\ requestIdsByProgressToken[req[inFlightRequests[j]].token] = j
        BY <1>6, <3>1 DEF TokenIndexExact
      <3>3. req[inFlightRequests[j]].token # token
        BY <1>3, <3>2
      <3>4. QED
        BY <1>2, <3>1, <3>2, <3>3
    <2>3. QED
      BY <2>1, <2>2
  <1>7. QED
    BY <1>2, <1>5, <1>6 DEF TokenIndexExact

-----------------------------------------------------------------------------
(* The four ways the in-flight tables change.                              *)

\* Outside addInFlightRequest, popInFlightRequest and ~Router no step touches the map or
\* the token index.
LEMMA TableSteps ==
  ASSUME TypeOK, [Next]_vars
  PROVE  /\ req' = req
         /\ \/ UNCHANGED << inFlightRequests, requestIdsByProgressToken >>
            \/ \E c \in Calls : AddInFlightRequest(c)
            \/ \E i \in Ids, mark \in BOOLEAN : InFlight(i) /\ PopInFlightRequest(i, mark)
            \/ DestroyTakeInFlight
  <1> DEFINE Goal == /\ req' = req
                     /\ \/ UNCHANGED << inFlightRequests, requestIdsByProgressToken >>
                        \/ \E c \in Calls : AddInFlightRequest(c)
                        \/ \E i \in Ids, mark \in BOOLEAN :
                             InFlight(i) /\ PopInFlightRequest(i, mark)
                        \/ DestroyTakeInFlight
  <1> SUFFICES Goal
    OBVIOUS
  <1>1. CASE SetOutboundMessageSender
    BY <1>1 DEF SetOutboundMessageSender, tables
  <1>2. ASSUME NEW c \in Calls, CallerStep(c) PROVE Goal
    <2>1. CASE PopFailedRequest(c)
      <3>1. req[c].id \in Ids
        BY OutboundAssumption DEF TypeOK, Descriptor
      <3>2. CASE InFlight(req[c].id)
        BY <2>1, <3>1, <3>2 DEF PopFailedRequest
      <3>3. CASE ~InFlight(req[c].id)
        BY <2>1, <3>3 DEF PopFailedRequest, tables
      <3>4. QED
        BY <3>2, <3>3
    <2>2. CASE AddInFlightRequest(c)
      BY <2>2 DEF AddInFlightRequest
    <2>3. CASE ~PopFailedRequest(c) /\ ~AddInFlightRequest(c)
      BY <1>2, <2>3 DEF CallerStep, RefuseRequest, ArmRequestTimeout, StartTimer, DispatchRequest,
         SenderReturns, ResolveFailedRequest, tables
    <2>4. QED
      BY <2>1, <2>2, <2>3
  <1>3. ASSUME NEW r \in Readers, ReaderStep(r) PROVE Goal
    <2>1. ASSUME NEW i \in Ids, NEW task \in BOOLEAN, DispatchResponse(r, i, task) PROVE Goal
      <3>1. CASE InFlight(i)
        BY <2>1, <3>1 DEF DispatchResponse
      <3>2. CASE ~InFlight(i)
        BY <2>1, <3>2 DEF DispatchResponse, tables
      <3>3. QED
        BY <3>1, <3>2
    <2>2. ASSUME NEW t \in Tokens, NEW value \in 1..MaxProgress, DispatchProgress(r, t, value)
          PROVE  Goal
      BY <2>2 DEF DispatchProgress, tables
    <2>3. CASE ResolveResponse(r) \/ TakeLateResponse(r) \/ SendTasksCancel(r)
               \/ EnterProgressCallback(r) \/ LeaveProgressCallback(r)
      BY <2>3 DEF ResolveResponse, TakeLateResponse, SendTasksCancel, EnterProgressCallback,
         LeaveProgressCallback, tables
    <2> HIDE DEF Goal
    <2>4. QED
      BY <1>3, <2>1, <2>2, <2>3 DEF ReaderStep
  <1>4. CASE TimeoutStep
    <2>1. ASSUME NEW c \in Calls, HandleRequestTimeout(c) PROVE Goal
      <3>1. req[c].id \in Ids
        BY OutboundAssumption DEF TypeOK, Descriptor
      <3>2. CASE InFlight(req[c].id)
        BY <2>1, <3>1, <3>2 DEF HandleRequestTimeout
      <3>3. CASE ~InFlight(req[c].id)
        BY <2>1, <3>3 DEF HandleRequestTimeout, tables
      <3>4. QED
        BY <3>2, <3>3
    <2>2. ASSUME NEW c \in Calls, TimerExpires(c) PROVE Goal
      BY <2>2 DEF TimerExpires, tables
    <2>3. CASE ResolveTimedOut \/ DeferTaskCancellation \/ SendCancelled
      BY <2>3 DEF ResolveTimedOut, DeferTaskCancellation, SendCancelled, tables
    <2> HIDE DEF Goal
    <2>4. QED
      BY <1>4, <2>1, <2>2, <2>3 DEF TimeoutStep
  <1>5. CASE DestroyStep
    BY <1>5 DEF DestroyStep, DestroyTakeInFlight, DestroyResolve, DestroyStopTimeoutPool,
       DestroyJoinTimeoutPool, tables
  <1>6. CASE UNCHANGED vars
    BY <1>6 DEF vars, tables
  <1> HIDE DEF Goal
  <1>7. QED
    BY <1>1, <1>2, <1>3, <1>4, <1>5, <1>6 DEF Next

\* A progress token leads to the in-flight request that carries it, and only to that one.
THEOREM TokenIndexIsExact == Spec => []TokenIndexExact
  <1>1. Init => TokenIndexExact
    BY OutboundAssumption DEF Init, TokenIndexExact, InFlight
  <1>2. TypeOK /\ Inv /\ TokenIndexExact /\ [Next]_vars => TokenIndexExact'
    <2> SUFFICES ASSUME TypeOK, Inv, TokenIndexExact, [Next]_vars
                 PROVE  TokenIndexExact'
      OBVIOUS
    <2>1. MapInv /\ SeenInv
      BY DEF Inv
    <2>2. CASE UNCHANGED << inFlightRequests, requestIdsByProgressToken >>
      BY <2>2, TableSteps DEF TokenIndexExact, InFlight
    <2>3. ASSUME NEW c \in Calls, AddInFlightRequest(c) PROVE TokenIndexExact'
      BY <2>1, <2>3, AddKeepsTokenIndex
    <2>4. ASSUME NEW i \in Ids, NEW mark \in BOOLEAN, InFlight(i), PopInFlightRequest(i, mark)
          PROVE  TokenIndexExact'
      BY <2>1, <2>4, TableSteps, PopKeepsTokenIndex
    <2>5. CASE DestroyTakeInFlight
      BY <2>5 DEF DestroyTakeInFlight, TokenIndexExact, InFlight
    <2>6. QED
      BY <2>2, <2>3, <2>4, <2>5, TableSteps
  <1>3. QED
    BY <1>1, <1>2, TypeCorrect, InvHolds, PTL DEF Spec

\* options_.maxConcurrentInFlightRequests bounds the in-flight map: addInFlightRequest tests
\* and inserts in one lock region.
THEOREM InFlightStaysWithinLimit == Spec => []InFlightWithinLimit
  <1>1. Init => InFlightWithinLimit
    <2> SUFFICES ASSUME Init PROVE InFlightWithinLimit
      OBVIOUS
    <2>1. InFlightIds = {}
      BY DEF Init, InFlightIds, InFlight
    <2>2. QED
      BY <2>1, FS_EmptySet, OutboundAssumption DEF InFlightWithinLimit
  <1>2. TypeOK /\ InFlightWithinLimit /\ [Next]_vars => InFlightWithinLimit'
    <2> SUFFICES ASSUME TypeOK, InFlightWithinLimit, [Next]_vars
                 PROVE  InFlightWithinLimit'
      OBVIOUS
    <2>1. /\ IsFiniteSet(InFlightIds)
          /\ Cardinality(InFlightIds) \in Nat
      BY FS_Subset, FS_CardinalityType, OutboundAssumption DEF InFlightIds
    <2>2. ASSUME InFlightIds' \subseteq InFlightIds PROVE InFlightWithinLimit'
      <3>1. Cardinality(InFlightIds') <= Cardinality(InFlightIds) /\ Cardinality(InFlightIds') \in Nat
        BY <2>1, <2>2, FS_Subset, FS_CardinalityType
      <3>2. QED
        BY <2>1, <3>1, OutboundAssumption DEF InFlightWithinLimit
    <2>3. CASE UNCHANGED << inFlightRequests, requestIdsByProgressToken >>
      BY <2>2, <2>3 DEF InFlightIds, InFlight
    <2>4. ASSUME NEW c \in Calls, AddInFlightRequest(c) PROVE InFlightWithinLimit'
      <3>1. Cardinality(InFlightIds) < MaxConcurrentInFlightRequests
        BY <2>1, <2>4, OutboundAssumption DEF AddInFlightRequest, Refused
      <3>2. InFlightIds' \subseteq InFlightIds \cup {req[c].id}
        BY <2>4 DEF AddInFlightRequest, InFlightIds, InFlight, TypeOK
      <3>3. /\ IsFiniteSet(InFlightIds \cup {req[c].id})
            /\ Cardinality(InFlightIds \cup {req[c].id}) <= Cardinality(InFlightIds) + 1
        <4>1. CASE req[c].id \in InFlightIds
          <5>1. InFlightIds \cup {req[c].id} = InFlightIds
            BY <4>1
          <5>2. Cardinality(InFlightIds) <= Cardinality(InFlightIds) + 1
            BY <2>1
          <5>3. QED
            BY <2>1, <5>1, <5>2
        <4>2. CASE req[c].id \notin InFlightIds
          BY <2>1, <4>2, FS_AddElement
        <4>3. QED
          BY <4>1, <4>2
      <3>4. /\ Cardinality(InFlightIds') <= Cardinality(InFlightIds \cup {req[c].id})
            /\ Cardinality(InFlightIds') \in Nat
            /\ Cardinality(InFlightIds \cup {req[c].id}) \in Nat
        BY <3>2, <3>3, FS_Subset, FS_CardinalityType
      <3>5. QED
        BY <2>1, <3>1, <3>3, <3>4, OutboundAssumption DEF InFlightWithinLimit
    <2>5. ASSUME NEW i \in Ids, NEW mark \in BOOLEAN, PopInFlightRequest(i, mark)
          PROVE  InFlightWithinLimit'
      BY <2>2, <2>5 DEF PopInFlightRequest, InFlightIds, InFlight, TypeOK
    <2>6. CASE DestroyTakeInFlight
      BY <2>2, <2>6 DEF DestroyTakeInFlight, InFlightIds, InFlight
    <2>7. QED
      BY <2>3, <2>4, <2>5, <2>6, TableSteps
  <1>3. QED
    BY <1>1, <1>2, TypeCorrect, PTL DEF Spec

-----------------------------------------------------------------------------
(* Progress.                                                               *)

\* A value in the hands of a thread was recorded by it alone: nobody else holds it and the callback
\* has not seen it.
ProgressInv ==
  /\ \A c \in Calls : \A v \in shownProgress[c] : v <= lastObservedProgress[c]
  /\ \A r \in Readers : reader[r].at = "callback" =>
       /\ reader[r].value <= lastObservedProgress[reader[r].call]
       /\ reader[r].value \notin shownProgress[reader[r].call]
  /\ \A r, s \in Readers :
       /\ reader[r].at = "callback" /\ reader[s].at = "callback"
       /\ reader[r].call = reader[s].call /\ reader[r].value = reader[s].value
       => r = s

\* Only the two halves of dispatchNotification touch the progress of a call or bring a thread
\* to a callback.
LEMMA ProgressSteps ==
  ASSUME TypeOK, [Next]_vars
  PROVE  \/ /\ UNCHANGED << lastObservedProgress, shownProgress >>
            /\ \A r \in Readers : reader'[r].at = "callback" => reader'[r] = reader[r]
            /\ \A r \in Readers : reader[r].at = "callback" => reader'[r] = reader[r]
         \/ \E r \in Readers, t \in Tokens, value \in 1..MaxProgress : DispatchProgress(r, t, value)
         \/ \E r \in Readers : EnterProgressCallback(r)
  <1> DEFINE Keeps == /\ UNCHANGED << lastObservedProgress, shownProgress >>
                      /\ \A r \in Readers : reader'[r].at = "callback" => reader'[r] = reader[r]
                      /\ \A r \in Readers : reader[r].at = "callback" => reader'[r] = reader[r]
  <1>0. ASSUME UNCHANGED << lastObservedProgress, shownProgress, reader >> PROVE Keeps
    BY <1>0
  <1>a. ASSUME NEW r \in Readers, NEW new, UNCHANGED << lastObservedProgress, shownProgress >>,
               reader[r].at # "callback", new.at # "callback", reader' = [reader EXCEPT ![r] = new]
        PROVE  Keeps
    BY <1>a DEF TypeOK
  <1> HIDE DEF Keeps
  <1>1. CASE SetOutboundMessageSender
    BY <1>1, <1>0 DEF SetOutboundMessageSender, tables, history
  <1>2. ASSUME NEW c \in Calls, CallerStep(c) PROVE Keeps
    BY <1>2, <1>0 DEF CallerStep, RefuseRequest, AddInFlightRequest, ArmRequestTimeout, StartTimer,
       DispatchRequest, SenderReturns, PopFailedRequest, PopInFlightRequest, ResolveFailedRequest, tables, history
  <1>3. ASSUME NEW r \in Readers, NEW i \in Ids, NEW task \in BOOLEAN, DispatchResponse(r, i, task) PROVE Keeps
    <2>1. \/ reader' = [reader EXCEPT ![r] = ReaderState("resolve", inFlightRequests[i], i, FALSE, 0)]
          \/ reader' = [reader EXCEPT ![r] = ReaderState("late", NoCall, i, task, 0)]
      BY <1>3 DEF DispatchResponse
    <2>2. UNCHANGED << lastObservedProgress, shownProgress >> /\ reader[r].at = "idle"
      BY <1>3 DEF DispatchResponse, history
    <2>3. QED
      BY <2>1, <2>2, <1>a DEF ReaderState
  <1>4. ASSUME NEW r \in Readers, ResolveResponse(r) PROVE Keeps
    BY <1>4, <1>a DEF ResolveResponse, history, IdleReader, ReaderState
  <1>5. ASSUME NEW r \in Readers, TakeLateResponse(r) PROVE Keeps
    <2>1. \E new : new.at # "callback" /\ reader' = [reader EXCEPT ![r] = new]
      <3>1. [reader[r] EXCEPT !.at = "cancelTask"].at = "cancelTask"
        BY DEF TypeOK, ReaderStates
      <3>2. QED
        BY <1>5, <3>1 DEF TakeLateResponse, IdleReader, ReaderState
    <2>2. QED
      BY <1>5, <2>1, <1>a DEF TakeLateResponse
  <1>6. ASSUME NEW r \in Readers, SendTasksCancel(r) PROVE Keeps
    BY <1>6, <1>a DEF SendTasksCancel, IdleReader, ReaderState
  <1>7. ASSUME NEW r \in Readers, LeaveProgressCallback(r) PROVE Keeps
    BY <1>7, <1>a DEF LeaveProgressCallback, IdleReader, ReaderState, history
  <1>8. CASE TimeoutStep
    BY <1>8, <1>0 DEF TimeoutStep, TimerExpires, HandleRequestTimeout, ResolveTimedOut,
       DeferTaskCancellation, SendCancelled, tables, history
  <1>9. CASE DestroyStep
    BY <1>9, <1>0 DEF DestroyStep, DestroyTakeInFlight, DestroyResolve, DestroyStopTimeoutPool,
       DestroyJoinTimeoutPool, tables, history
  <1>10. CASE UNCHANGED vars
    BY <1>10, <1>0 DEF vars, history
  <1>11. QED
    BY <1>1, <1>2, <1>3, <1>4, <1>5, <1>6, <1>7, <1>8, <1>9, <1>10 DEF Next, ReaderStep, Keeps

\* A value is recorded by one thread because it is above all that were recorded before.
LEMMA NextProgressInv ==
  TypeOK /\ MapInv /\ ProgressInv /\ [Next]_vars => ProgressInv'
  <1> SUFFICES ASSUME TypeOK, MapInv, ProgressInv, [Next]_vars PROVE ProgressInv'
    OBVIOUS
  <1>0. /\ \A c \in Calls : lastObservedProgress[c] \in Nat
        /\ \A c \in Calls : \A v \in shownProgress[c] : v \in Nat
        /\ \A r \in Readers : reader[r].at = "callback" => reader[r].call \in Calls /\ reader[r].value \in Nat
    BY OutboundAssumption DEF TypeOK, ReaderStates
  <1>1. CASE /\ UNCHANGED << lastObservedProgress, shownProgress >>
             /\ \A r \in Readers : reader'[r].at = "callback" => reader'[r] = reader[r]
    BY <1>1 DEF ProgressInv
  <1>2. ASSUME NEW r \in Readers, NEW t \in Tokens, NEW value \in 1..MaxProgress,
               DispatchProgress(r, t, value)
        PROVE  ProgressInv'
    <2>1. PICK c \in Calls :
            /\ value > lastObservedProgress[c]
            /\ lastObservedProgress' = [lastObservedProgress EXCEPT ![c] = value]
            /\ reader' = [reader EXCEPT ![r] = ReaderState("callback", c, NoId, FALSE, value)]
            /\ shownProgress' = shownProgress
      <3>1. inFlightRequests[requestIdsByProgressToken[t]] \in Calls
        BY <1>2 DEF DispatchProgress, TypeOK, InFlight
      <3>2. QED
        BY <1>2, <3>1 DEF DispatchProgress, history
    <2>2. /\ reader'[r].call = c /\ reader'[r].value = value
          /\ \A s \in Readers : s # r => reader'[s] = reader[s]
      BY <2>1 DEF TypeOK, ReaderState
    <2>3. value \in Nat
      BY OutboundAssumption
    <2>4. /\ lastObservedProgress'[c] = value
          /\ \A d \in Calls : d # c => lastObservedProgress'[d] = lastObservedProgress[d]
      BY <2>1 DEF TypeOK
    <2>5. ASSUME NEW d \in Calls, NEW v \in shownProgress'[d] PROVE v <= lastObservedProgress'[d]
      BY <1>0, <2>1, <2>3, <2>4, <2>5 DEF ProgressInv
    <2>6. ASSUME NEW s \in Readers, reader'[s].at = "callback"
          PROVE  /\ reader'[s].value <= lastObservedProgress'[reader'[s].call]
                 /\ reader'[s].value \notin shownProgress'[reader'[s].call]
      <3>1. CASE s = r
        <4>1. \A v \in shownProgress[c] : v < value
          BY <1>0, <2>1, <2>3 DEF ProgressInv
        <4>2. value \notin shownProgress[c] /\ value <= lastObservedProgress'[c]
          BY <2>3, <2>4, <4>1
        <4>3. QED
          BY <2>1, <2>2, <3>1, <4>2
      <3>2. CASE s # r
        BY <1>0, <2>1, <2>2, <2>3, <2>4, <2>6, <3>2 DEF ProgressInv
      <3>3. QED
        BY <3>1, <3>2
    <2>7. ASSUME NEW s \in Readers, s # r, reader'[s].at = "callback", reader'[s].call = c
          PROVE  reader'[s].value # value
      BY <1>0, <2>1, <2>2, <2>3, <2>7 DEF ProgressInv
    <2>8. QED
      BY <2>2, <2>5, <2>6, <2>7 DEF ProgressInv
  <1>3. ASSUME NEW r \in Readers, EnterProgressCallback(r) PROVE ProgressInv'
    <2>1. /\ reader[r].at = "callback" /\ reader[r].call \in Calls
          /\ lastObservedProgress' = lastObservedProgress
          /\ shownProgress' = [shownProgress EXCEPT ![reader[r].call] = @ \cup {reader[r].value}]
      BY <1>0, <1>3 DEF EnterProgressCallback
    <2>2. /\ reader'[r].at = "inCallback"
          /\ \A s \in Readers : s # r => reader'[s] = reader[s]
      BY <1>3 DEF EnterProgressCallback, TypeOK, ReaderStates
    <2>3. \A c \in Calls : shownProgress'[c] =
            shownProgress[c] \cup (IF c = reader[r].call THEN {reader[r].value} ELSE {})
      BY <2>1 DEF TypeOK
    <2>4. \A c \in Calls : \A v \in shownProgress'[c] : v <= lastObservedProgress[c]
      BY <2>1, <2>3 DEF ProgressInv
    <2>5. ASSUME NEW s \in Readers, reader'[s].at = "callback"
          PROVE  /\ s # r /\ reader'[s] = reader[s]
                 /\ reader[s].value \notin shownProgress'[reader[s].call]
      <3>1. s # r /\ reader'[s] = reader[s] /\ reader[s].at = "callback" /\ reader[s].call \in Calls
        BY <1>0, <2>2, <2>5
      <3>2. reader[s].call = reader[r].call => reader[s].value # reader[r].value
        BY <2>1, <3>1 DEF ProgressInv
      <3>3. QED
        BY <2>3, <3>1, <3>2 DEF ProgressInv
    <2>6. QED
      BY <2>1, <2>4, <2>5 DEF ProgressInv
  <1>4. QED
    BY <1>1, <1>2, <1>3, ProgressSteps

\* With any number of dispatching threads a progress callback is never given a value twice: the
\* threads that hold values at one time, and the callbacks that ran, have all different ones.
THEOREM ProgressIsShownOnce == Spec => ProgressShownOnce
  <1>1. Init => ProgressInv
    BY DEF Init, ProgressInv, IdleReader, ReaderState
  <1>2. TypeOK /\ ProgressInv =>
          [\A r \in Readers : reader[r].at = "callback" /\ reader'[r].at = "inCallback" =>
             reader[r].value \notin shownProgress[reader[r].call]]_vars
    BY DEF ProgressInv, TypeOK, ReaderStates
  <1>3. TypeOK /\ MapInv /\ ProgressInv /\ [Next]_vars => ProgressInv'
    BY NextProgressInv
  <1>4. Inv => MapInv
    BY DEF Inv
  <1>5. QED
    BY TypeCorrect, InvHolds, <1>1, <1>2, <1>3, <1>4, PTL DEF Spec, ProgressShownOnce

-----------------------------------------------------------------------------
(* The router implements PendingReplies.                                   *)

\* The phase of the abstract specification follows the destructor.
LEMMA PhaseValues ==
  ASSUME TypeOK
  PROVE  /\ dtor = "live" <=> phaseOf = "open"
         /\ dtor = "gone" <=> phaseOf = "closed"
         /\ dtor \in {"draining", "stopped"} <=> phaseOf = "closing"
  BY DEF TypeOK, phaseOf

\* A step that leaves the futures and the phase alone and starts no call is a stutter.
LEMMA StutterStep ==
  ASSUME req' = req, promise' = promise, phaseOf' = phaseOf,
         \A c \in Calls : pc'[c] = "idle" <=> pc[c] = "idle"
  PROVE  UNCHANGED Replies!vars
  BY DEF Replies!vars, statusOf

\* A thread that holds an accepted request and sets its promise settles it.
LEMMA SettleStep ==
  ASSUME TypeOK, NEW c \in Calls, NEW outcome \in {"response", "sendFailed", "timeout", "shutdown"},
         promise[c] = "none", pc[c] # "idle", Resolve(c, outcome),
         req' = req, phaseOf' = phaseOf,
         \A d \in Calls : pc'[d] = "idle" <=> pc[d] = "idle",
         \/ phaseOf = "open" /\ outcome \in {"response", "sendFailed"}
         \/ phaseOf # "closed" /\ outcome = "timeout"
         \/ phaseOf = "closing" /\ outcome = "shutdown"
  PROVE  Replies!Settle(c, outcome)
  <1>1. promise' = [promise EXCEPT ![c] = outcome]
    BY DEF TypeOK, Resolve
  <1>2. statusOf[c] = "pending"
    BY DEF statusOf
  <1>3. statusOf' = [statusOf EXCEPT ![c] = outcome]
    BY <1>1 DEF statusOf, TypeOK
  <1>4. QED
    BY <1>2, <1>3 DEF Replies!Settle

\* A request that a thread holds is accepted and not resolved.
LEMMA HeldIsPending ==
  ASSUME Inv, NEW c \in Calls,
         HeldByCaller(c) \/ HeldByWorker(c) \/ HeldByDestructor(c)
         \/ \E r \in Readers : HeldByReader(r, c)
  PROVE  promise[c] = "none" /\ pc[c] # "idle"
  BY DEF Inv, OneHolder, OneHolderOf, Settled

\* Each step of a caller refuses, accepts, settles by a failed send, or stutters.
LEMMA CallerRefines ==
  ASSUME TypeOK, Inv, NEW c \in Calls, CallerStep(c)
  PROVE  [Replies!Next]_(Replies!vars)
  <1>1. CASE RefuseRequest(c)
    <2>1. promise' = [promise EXCEPT ![c] = IF @ = "none" THEN "rejected" ELSE @]
      BY <1>1 DEF RefuseRequest, Resolve
    <2>2. promise[c] = "none"
      BY <1>1 DEF RefuseRequest, Inv, IdAcceptedOnce, SeenInv
    <2>3. statusOf' = [statusOf EXCEPT ![c] = "rejected"]
      BY <1>1, <2>1, <2>2 DEF RefuseRequest, Goto, statusOf, TypeOK
    <2>4. Replies!Refuse(c)
      BY <1>1, <2>3 DEF RefuseRequest, Replies!Refuse, statusOf, phaseOf
    <2>5. QED
      BY <2>4 DEF Replies!Next
  <1>2. CASE AddInFlightRequest(c)
    <2>1. promise[c] = "none"
      BY <1>2 DEF AddInFlightRequest, Inv, SeenInv
    <2>2. statusOf' = [statusOf EXCEPT ![c] = "pending"]
      BY <1>2, <2>1 DEF AddInFlightRequest, Goto, statusOf, TypeOK
    <2>3. \A d \in Calls : Replies!Accepted(d) => req[d].id # req[c].id
      BY <1>2 DEF AddInFlightRequest, Refused, Replies!Accepted, statusOf, Inv, SeenInv, Accepted
    <2>4. Replies!Accept(c)
      BY <1>2, <2>2, <2>3 DEF AddInFlightRequest, Replies!Accept, statusOf, phaseOf
    <2>5. QED
      BY <2>4 DEF Replies!Next
  <1>3. CASE ResolveFailedRequest(c)
    <2>1. promise[c] = "none" /\ pc[c] # "idle"
      BY <1>3, HeldIsPending DEF ResolveFailedRequest, HeldByCaller
    <2>2. dtor = "live"
      BY <1>3 DEF ResolveFailedRequest, Inv, DestructorInv
    <2>3. /\ Resolve(c, "sendFailed") /\ req' = req /\ phaseOf' = phaseOf
          /\ \A d \in Calls : pc'[d] = "idle" <=> pc[d] = "idle"
      BY <1>3, <2>1 DEF ResolveFailedRequest, Goto, phaseOf, TypeOK
    <2>4. Replies!Settle(c, "sendFailed")
      BY <2>1, <2>2, <2>3, PhaseValues, SettleStep
    <2>5. QED
      BY <2>4 DEF Replies!Next
  <1>4. CASE \/ ArmRequestTimeout(c) \/ StartTimer(c) \/ DispatchRequest(c)
             \/ SenderReturns(c) \/ PopFailedRequest(c)
    <2>1. /\ req' = req /\ promise' = promise /\ phaseOf' = phaseOf
          /\ \A d \in Calls : pc'[d] = "idle" <=> pc[d] = "idle"
      BY <1>4 DEF ArmRequestTimeout, StartTimer, DispatchRequest, SenderReturns, PopFailedRequest,
         Goto, phaseOf, TypeOK
    <2>2. QED
      BY <2>1, StutterStep
  <1>5. QED
    BY <1>1, <1>2, <1>3, <1>4 DEF CallerStep

\* Each step of a transport thread settles by a response or stutters.
LEMMA ReaderRefines ==
  ASSUME TypeOK, Inv, NEW r \in Readers, ReaderStep(r)
  PROVE  [Replies!Next]_(Replies!vars)
  <1>1. CASE ResolveResponse(r)
    <2> DEFINE c == reader[r].call
    <2>1. c \in Calls /\ HeldByReader(r, c)
      BY <1>1 DEF ResolveResponse, TypeOK, HeldByReader
    <2>2. promise[c] = "none" /\ pc[c] # "idle"
      BY <2>1, HeldIsPending
    <2>3. dtor = "live"
      BY <1>1 DEF ResolveResponse, Inv, DestructorInv
    <2>4. /\ Resolve(c, "response") /\ req' = req /\ phaseOf' = phaseOf
          /\ \A d \in Calls : pc'[d] = "idle" <=> pc[d] = "idle"
      BY <1>1 DEF ResolveResponse, phaseOf
    <2> HIDE DEF c
    <2>5. Replies!Settle(c, "response")
      BY <2>1, <2>2, <2>3, <2>4, PhaseValues, SettleStep
    <2>6. QED
      BY <2>1, <2>5 DEF Replies!Next
  <1>2. CASE ~ResolveResponse(r)
    <2>1. req' = req /\ promise' = promise /\ phaseOf' = phaseOf /\ pc' = pc
      BY <1>2 DEF ReaderStep, DispatchResponse, DispatchProgress, TakeLateResponse, SendTasksCancel,
         EnterProgressCallback, LeaveProgressCallback, phaseOf
    <2>2. QED
      BY <2>1, StutterStep
  <1>3. QED
    BY <1>1, <1>2

\* Each step of the timeout thread settles by a timeout or stutters.
LEMMA TimeoutRefines ==
  ASSUME TypeOK, Inv, TimeoutStep
  PROVE  [Replies!Next]_(Replies!vars)
  <1>1. CASE ResolveTimedOut
    <2> DEFINE c == worker.call
    <2>1. c \in Calls /\ HeldByWorker(c)
      BY <1>1 DEF ResolveTimedOut, TypeOK, HeldByWorker
    <2>2. promise[c] = "none" /\ pc[c] # "idle"
      BY <2>1, HeldIsPending
    <2>3. dtor # "gone"
      BY <1>1 DEF ResolveTimedOut, Inv, DestructorInv
    <2>4. /\ Resolve(c, "timeout") /\ req' = req /\ phaseOf' = phaseOf
          /\ \A d \in Calls : pc'[d] = "idle" <=> pc[d] = "idle"
      BY <1>1 DEF ResolveTimedOut, phaseOf
    <2> HIDE DEF c
    <2>5. Replies!Settle(c, "timeout")
      BY <2>1, <2>2, <2>3, <2>4, PhaseValues, SettleStep
    <2>6. QED
      BY <2>1, <2>5 DEF Replies!Next
  <1>2. CASE ~ResolveTimedOut
    <2>1. req' = req /\ promise' = promise /\ phaseOf' = phaseOf /\ pc' = pc
      BY <1>2 DEF TimeoutStep, TimerExpires, HandleRequestTimeout, DeferTaskCancellation,
         SendCancelled, phaseOf
    <2>2. QED
      BY <2>1, StutterStep
  <1>3. QED
    BY <1>1, <1>2

\* ~Router begins to close, settles by shutdown, or closes when nothing is pending.
LEMMA DestroyRefines ==
  ASSUME TypeOK, TypeOK', Inv, Inv', DestroyStep
  PROVE  [Replies!Next]_(Replies!vars)
  <1>1. CASE DestroyTakeInFlight
    <2>1. Replies!BeginClose
      BY <1>1 DEF DestroyTakeInFlight, Replies!BeginClose, statusOf, phaseOf
    <2>2. QED
      BY <2>1 DEF Replies!Next
  <1>2. ASSUME NEW c \in Calls, DestroyResolve(c) PROVE [Replies!Next]_(Replies!vars)
    <2>1. promise[c] = "none" /\ pc[c] # "idle"
      BY <1>2, HeldIsPending DEF DestroyResolve, HeldByDestructor
    <2>2. /\ Resolve(c, "shutdown") /\ req' = req /\ phaseOf' = phaseOf /\ phaseOf = "closing"
          /\ \A d \in Calls : pc'[d] = "idle" <=> pc[d] = "idle"
      BY <1>2 DEF DestroyResolve, phaseOf
    <2>3. Replies!Settle(c, "shutdown")
      BY <2>1, <2>2, SettleStep
    <2>4. QED
      BY <2>3 DEF Replies!Next
  <1>3. CASE DestroyStopTimeoutPool
    <2>1. req' = req /\ promise' = promise /\ phaseOf' = phaseOf /\ pc' = pc
      BY <1>3 DEF DestroyStopTimeoutPool, phaseOf
    <2>2. QED
      BY <2>1, StutterStep
  <1>4. CASE DestroyJoinTimeoutPool
    <2>1. /\ phaseOf = "closing" /\ phaseOf' = "closed"
          /\ req' = req /\ promise' = promise /\ pc' = pc
      BY <1>4 DEF DestroyJoinTimeoutPool, phaseOf
    <2>2. DestroyedMeansResolved'
      BY GoneMeansResolved, PTL
    <2>3. \A c \in Calls : statusOf[c] # "pending"
      BY <1>4, <2>1, <2>2 DEF DestroyJoinTimeoutPool, DestroyedMeansResolved, Settled, statusOf,
         TypeOK, Outcomes
    <2>4. Replies!FinishClose
      BY <2>1, <2>3 DEF Replies!FinishClose, statusOf
    <2>5. QED
      BY <2>4 DEF Replies!Next
  <1>5. QED
    BY <1>1, <1>2, <1>3, <1>4 DEF DestroyStep

\* The router implements what it promises its callers: one outcome per accepted request,
\* legal in the router's phase, and none pending when ~Router returns.
THEOREM RouterImplementsPendingReplies == Spec => ImplementsPendingReplies
  <1>1. Init => Replies!Init
    BY OutboundAssumption DEF Init, Replies!Init, statusOf, phaseOf, Descriptor
  <1>2. TypeOK /\ TypeOK' /\ Inv /\ Inv' /\ [Next]_vars => [Replies!Next]_(Replies!vars)
    <2> SUFFICES ASSUME TypeOK, TypeOK', Inv, Inv', [Next]_vars
                 PROVE  [Replies!Next]_(Replies!vars)
      OBVIOUS
    <2>1. CASE SetOutboundMessageSender \/ UNCHANGED vars
      <3>1. req' = req /\ promise' = promise /\ phaseOf' = phaseOf /\ pc' = pc
        BY <2>1 DEF SetOutboundMessageSender, phaseOf, vars
      <3>2. QED
        BY <3>1, StutterStep
    <2>2. QED
      BY <2>1, CallerRefines, ReaderRefines, TimeoutRefines, DestroyRefines DEF Next
  <1>3. QED
    BY <1>1, <1>2, TypeCorrect, InvHolds, PTL DEF Spec, ImplementsPendingReplies, Replies!Spec
=============================================================================
