------------------------- MODULE RouterInboundProofs -------------------------
(***************************************************************************)
(* Proofs about RouterInbound, for any sets of calls, senders, ids, tokens *)
(* and threads, any limit and any handlers that never end.                 *)
(***************************************************************************)
EXTENDS RouterInbound, FiniteSetTheorems, TLAPS

-----------------------------------------------------------------------------
(* Type correctness.                                                       *)

\* completeInboundRequest keeps the types of the tables.
LEMMA CompleteTypes ==
  ASSUME TypeOK, NEW d \in Requests, CompleteInboundRequest(d)
  PROVE  /\ inboundRequests' \in [Keys -> Requests \cup {NoRequest}]
         /\ inboundRequestIdsByToken' \in [TokenKeys -> Ids \cup {NoId}]
         /\ inboundResponsePromises' \in [Keys -> Requests \cup {NoRequest}]
  BY DEF TypeOK, CompleteInboundRequest

\* A call has one key, made of its sender and its id.
LEMMA KeyInKeys == ASSUME TypeOK, NEW d \in Requests PROVE KeyOf(d) \in Keys
  BY InboundAssumption DEF TypeOK, Descriptor, Keys, KeyOf

\* Posting a completion leaves a sequence of calls.
LEMMA AppendTypes == ASSUME TypeOK, NEW d \in Requests PROVE Append(queue, d) \in Seq(Requests)
  BY DEF TypeOK

\* A constructed router is well typed.
LEMMA InitTypeOK == Init => TypeOK
  <1> SUFFICES ASSUME Init PROVE TypeOK
    OBVIOUS
  <1> USE InboundAssumption DEF Init
  <1>1. worker \in [Workers -> WorkerStates] /\ \A w \in Workers : worker[w].at = "idle"
    BY DEF WorkerStates, IdleWorker
  <1>2. emitter \in [Emitters -> EmitterStates] /\ \A e \in Emitters : emitter[e].at = "idle"
    BY DEF EmitterStates, IdleEmitter
  <1>3. lastEmitted \in [Requests -> 0..MaxProgress]
    OBVIOUS
  <1>4. req \in [Requests -> Descriptors] /\ pc \in [Requests -> CallPoints] /\ answer \in [Requests -> Answers]
    BY DEF CallPoints, Answers
  <1>5. queue \in Seq(Requests)
    OBVIOUS
  <1>6. /\ inboundRequests \in [Keys -> Requests \cup {NoRequest}]
        /\ inboundRequestIdsByToken \in [TokenKeys -> Ids \cup {NoId}]
        /\ inboundResponsePromises \in [Keys -> Requests \cup {NoRequest}]
    OBVIOUS
  <1>7. QED
    BY <1>1, <1>2, <1>3, <1>4, <1>5, <1>6 DEF TypeOK

\* Every step of every thread keeps the types.
LEMMA NextTypeOK == TypeOK /\ [Next]_vars => TypeOK'
  <1> SUFFICES ASSUME TypeOK, [Next]_vars PROVE TypeOK'
    OBVIOUS
  <1> USE InboundAssumption DEF TypeOK, calls, tables, progress, pool, Goto, Resolve
  <1>1. ASSUME RegisterRequestHandler PROVE TypeOK'
    BY <1>1 DEF RegisterRequestHandler
  <1>2. ASSUME UnregisterHandler PROVE TypeOK'
    BY <1>2 DEF UnregisterHandler
  <1>3. ASSUME NEW d \in Requests, DispatchRequest(d) PROVE TypeOK'
    <2>1. KeyOf(d) \in Keys
      BY KeyInKeys
    <2>2. seenRequestIds' \subseteq Keys
      BY <1>3, <2>1 DEF DispatchRequest
    <2>3. pc' \in [Requests -> CallPoints]
      <3>1. Goto(d, "waiting") \/ Goto(d, "mark")
        BY <1>3 DEF DispatchRequest
      <3>2. QED
        BY <3>1 DEF CallPoints
    <2>5. answer' \in [Requests -> Answers]
      <3>1. UNCHANGED answer \/ Resolve(d, "duplicate") \/ Resolve(d, "unknown")
        BY <1>3 DEF DispatchRequest
      <3>2. QED
        BY <3>1 DEF Answers
    <2>4. QED
      BY <1>3, <2>2, <2>3, <2>5 DEF DispatchRequest
  <1>4. ASSUME NEW d \in Requests, RefuseInboundRequest(d) PROVE TypeOK'
    BY <1>4 DEF RefuseInboundRequest, CallPoints, Answers
  <1>5. ASSUME NEW d \in Requests, MarkInboundRequestActive(d) PROVE TypeOK'
    <2>1. req[d].id \in Ids /\ KeyOf(d) \in Keys
      BY KeyInKeys DEF Descriptor
    <2>2. inboundRequests' \in [Keys -> Requests \cup {NoRequest}] /\ inboundResponsePromises' \in [Keys -> Requests \cup {NoRequest}]
      BY <1>5, <2>1 DEF MarkInboundRequestActive
    <2>3. inboundRequestIdsByToken' \in [TokenKeys -> Ids \cup {NoId}]
      BY <1>5, <2>1 DEF MarkInboundRequestActive
    <2>4. QED
      BY <1>5, <2>2, <2>3 DEF MarkInboundRequestActive, CallPoints
  <1>6. ASSUME NEW d \in Requests, CallHandler(d) PROVE TypeOK'
    <2>1. handlerFuture' \in [Requests -> {"none", "pending", "ready", "failed"}]
      BY <1>6 DEF CallHandler
    <2>2. \E label \in {"pool", "complete"} : pc' = [pc EXCEPT ![d] = label]
      BY <1>6 DEF CallHandler
    <2>3. pc' \in [Requests -> CallPoints]
      BY <2>2 DEF CallPoints
    <2>4. QED
      BY <1>6, <2>1, <2>3 DEF CallHandler
  <1>7. ASSUME NEW d \in Requests, ReadCompletionPool(d) PROVE TypeOK'
    BY <1>7 DEF ReadCompletionPool, CallPoints
  <1>8. ASSUME NEW d \in Requests, PostCompletion(d) PROVE TypeOK'
    <2>1. queue' = queue \/ queue' = Append(queue, d)
      BY <1>8 DEF PostCompletion
    <2>2. pc' \in [Requests -> CallPoints]
      BY <1>8 DEF PostCompletion, CallPoints
    <2>3. queue \in Seq(Requests) /\ Append(queue, d) \in Seq(Requests)
      BY AppendTypes
    <2>4. queue' \in Seq(Requests)
      BY <2>1, <2>3, Zenon
    <2>5. QED
      BY <1>8, <2>2, <2>4 DEF PostCompletion
  <1>9. ASSUME NEW d \in Requests, CompleteFailedRequest(d) PROVE TypeOK'
    BY <1>9, CompleteTypes DEF CompleteFailedRequest, CallPoints
  <1>10. ASSUME NEW d \in Requests, ResolveFailedRequest(d) PROVE TypeOK'
    BY <1>10 DEF ResolveFailedRequest, CallPoints, Answers
  <1>11. ASSUME NEW d \in Requests, DeliverResponse(d) PROVE TypeOK'
    BY <1>11 DEF DeliverResponse, CallPoints
  <1>12. ASSUME NEW d \in Requests, HandlerFinishes(d) PROVE TypeOK'
    BY <1>12 DEF HandlerFinishes
  <1>13. ASSUME NEW w \in Workers, TakeCompletion(w) PROVE TypeOK'
    BY <1>13 DEF TakeCompletion, WorkerStates
  <1>14. ASSUME NEW w \in Workers, CompletionGet(w) PROVE TypeOK'
    <2>1. worker[w].call \in Requests
      BY <1>14 DEF CompletionGet
    <2>2. worker' \in [Workers -> WorkerStates] /\ \A v \in Workers : worker'[v].at # "idle" => worker'[v].call \in Requests
      BY <1>14, <2>1 DEF CompletionGet, WorkerStates
    <2>3. CompleteInboundRequest(worker[w].call)
      BY <1>14 DEF CompletionGet
    <2>4. QED
      BY <1>14, <2>1, <2>2, <2>3, CompleteTypes DEF CompletionGet
  <1>15. ASSUME NEW w \in Workers, CompletionSet(w) PROVE TypeOK'
    BY <1>15 DEF CompletionSet, WorkerStates, IdleWorker, Answers
  <1>16. ASSUME DeleteCompletionPool PROVE TypeOK'
    BY <1>16 DEF DeleteCompletionPool
  <1>17. ASSUME NEW k \in Keys, DispatchCancelled(k) PROVE TypeOK'
    BY <1>17 DEF DispatchCancelled
  <1>18. ASSUME NEW e \in Emitters, NEW tk \in TokenKeys, NEW value \in 1..MaxProgress, EmitProgress(e, tk, value) PROVE TypeOK'
    <2> DEFINE d == inboundRequests[<< tk[1], inboundRequestIdsByToken[tk] >>]
    <2>1. << tk[1], inboundRequestIdsByToken[tk] >> \in Keys
      BY <1>18 DEF EmitProgress, Keys, TokenKeys
    <2>2. d \in Requests /\ value \in 0..MaxProgress
      BY <1>18, <2>1 DEF EmitProgress
    <2> HIDE DEF d
    <2>3. [at |-> "send", call |-> d, value |-> value] \in EmitterStates
      BY <2>2 DEF EmitterStates
    <2>4. /\ emitter' = [emitter EXCEPT ![e] = [at |-> "send", call |-> d, value |-> value]]
          /\ lastEmitted' = [lastEmitted EXCEPT ![d] = value]
      BY <1>18 DEF EmitProgress, d
    <2>5. emitter' \in [Emitters -> EmitterStates] /\ \A f \in Emitters : emitter'[f].at # "idle" => emitter'[f].call \in Requests
      BY <2>2, <2>3, <2>4
    <2>6. lastEmitted' \in [Requests -> 0..MaxProgress]
      BY <2>2, <2>4
    <2>7. QED
      BY <1>18, <2>5, <2>6 DEF EmitProgress
  <1>19. ASSUME NEW e \in Emitters, SendProgress(e) PROVE TypeOK'
    BY <1>19 DEF SendProgress, EmitterStates, IdleEmitter
  <1>20. ASSUME DestroyTakeInbound PROVE TypeOK'
    BY <1>20 DEF DestroyTakeInbound
  <1>21. ASSUME NEW d \in Requests, DestroyResolveInbound(d) PROVE TypeOK'
    BY <1>21 DEF DestroyResolveInbound, Answers
  <1>22. ASSUME DestroyDropPool PROVE TypeOK'
    BY <1>22 DEF DestroyDropPool
  <1>23. ASSUME DestroyMembers PROVE TypeOK'
    BY <1>23 DEF DestroyMembers
  <1>24. CASE UNCHANGED vars
    BY <1>24 DEF vars
  <1>25. QED
    BY <1>1, <1>2, <1>3, <1>4, <1>5, <1>6, <1>7, <1>8, <1>9, <1>10, <1>11, <1>12, <1>13, <1>14, <1>15, <1>16, <1>17, <1>18, <1>19, <1>20, <1>21, <1>22, <1>23, <1>24
       DEF Next, DispatcherStep, DispatcherInside, PoolStep, PeerStep, EmitterStep, DestroyStep

\* Type correctness of the inbound router.
THEOREM TypeCorrect == Spec => []TypeOK
  <1>1. QED
    BY InitTypeOK, NextTypeOK, PTL DEF Spec

-----------------------------------------------------------------------------
(* What the steps do to the three tables.                                  *)

\* The tables change when a request is activated, when one is completed and when ~Router
\* clears them; nothing else writes them, and the arguments of a call never change.
LEMMA TableSteps ==
  ASSUME TypeOK, [Next]_vars
  PROVE  /\ req' = req
         /\ \/ UNCHANGED tables
            \/ \E d \in Requests : MarkInboundRequestActive(d)
            \/ \E d \in Requests : CompleteInboundRequest(d)
            \/ DestroyTakeInbound
  <1> DEFINE Goal == /\ req' = req
                     /\ \/ UNCHANGED tables
                        \/ \E d \in Requests : MarkInboundRequestActive(d)
                        \/ \E d \in Requests : CompleteInboundRequest(d)
                        \/ DestroyTakeInbound
  <1> SUFFICES Goal
    OBVIOUS
  <1> USE DEF calls, tables
  <1>1. ASSUME RegisterRequestHandler PROVE Goal
    BY <1>1 DEF RegisterRequestHandler
  <1>2. ASSUME UnregisterHandler PROVE Goal
    BY <1>2 DEF UnregisterHandler
  <1>3. ASSUME NEW d \in Requests, DispatchRequest(d) PROVE Goal
    BY <1>3 DEF DispatchRequest
  <1>4. ASSUME NEW d \in Requests, RefuseInboundRequest(d) PROVE Goal
    BY <1>4 DEF RefuseInboundRequest
  <1>5. ASSUME NEW d \in Requests, MarkInboundRequestActive(d) PROVE Goal
    <2>1. req' = req
      BY <1>5 DEF MarkInboundRequestActive
    <2>2. QED
      BY <1>5, <2>1
  <1>6. ASSUME NEW d \in Requests, CallHandler(d) PROVE Goal
    BY <1>6 DEF CallHandler
  <1>7. ASSUME NEW d \in Requests, ReadCompletionPool(d) PROVE Goal
    BY <1>7 DEF ReadCompletionPool
  <1>8. ASSUME NEW d \in Requests, PostCompletion(d) PROVE Goal
    BY <1>8 DEF PostCompletion
  <1>9. ASSUME NEW d \in Requests, CompleteFailedRequest(d) PROVE Goal
    BY <1>9 DEF CompleteFailedRequest
  <1>10. ASSUME NEW d \in Requests, ResolveFailedRequest(d) PROVE Goal
    BY <1>10 DEF ResolveFailedRequest
  <1>11. ASSUME NEW d \in Requests, DeliverResponse(d) PROVE Goal
    BY <1>11 DEF DeliverResponse
  <1>12. ASSUME NEW d \in Requests, HandlerFinishes(d) PROVE Goal
    BY <1>12 DEF HandlerFinishes
  <1>13. ASSUME NEW w \in Workers, TakeCompletion(w) PROVE Goal
    BY <1>13 DEF TakeCompletion
  <1>14. ASSUME NEW w \in Workers, CompletionGet(w) PROVE Goal
    <2>1. worker[w].call \in Requests
      BY <1>14 DEF CompletionGet, TypeOK
    <2>2. QED
      BY <1>14, <2>1 DEF CompletionGet
  <1>15. ASSUME NEW w \in Workers, CompletionSet(w) PROVE Goal
    BY <1>15 DEF CompletionSet
  <1>16. ASSUME DeleteCompletionPool PROVE Goal
    BY <1>16 DEF DeleteCompletionPool
  <1>17. ASSUME NEW k \in Keys, DispatchCancelled(k) PROVE Goal
    BY <1>17 DEF DispatchCancelled
  <1>18. ASSUME NEW e \in Emitters, NEW tk \in TokenKeys, NEW value \in 1..MaxProgress, EmitProgress(e, tk, value) PROVE Goal
    BY <1>18 DEF EmitProgress
  <1>19. ASSUME NEW e \in Emitters, SendProgress(e) PROVE Goal
    BY <1>19 DEF SendProgress
  <1>20. ASSUME DestroyTakeInbound PROVE Goal
    BY <1>20 DEF DestroyTakeInbound
  <1>21. ASSUME NEW d \in Requests, DestroyResolveInbound(d) PROVE Goal
    BY <1>21 DEF DestroyResolveInbound
  <1>22. ASSUME DestroyDropPool PROVE Goal
    BY <1>22 DEF DestroyDropPool
  <1>23. ASSUME DestroyMembers PROVE Goal
    BY <1>23 DEF DestroyMembers
  <1>24. CASE UNCHANGED vars
    BY <1>24 DEF vars
  <1> HIDE DEF Goal
  <1>25. QED
    BY <1>1, <1>2, <1>3, <1>4, <1>5, <1>6, <1>7, <1>8, <1>9, <1>10, <1>11, <1>12, <1>13, <1>14, <1>15, <1>16, <1>17, <1>18, <1>19, <1>20, <1>21, <1>22, <1>23, <1>24
       DEF Next, DispatcherStep, DispatcherInside, PoolStep, PeerStep, EmitterStep, DestroyStep

-----------------------------------------------------------------------------
(* An inductive invariant: who may be in the tables.                       *)

Claimed(d) == pc[d] # "idle" /\ answer[d] \notin {"duplicate", "unknown"}
Entered(d) == d \in Requests => pc[d] \notin {"idle", "mark"}

\* A call that got past the duplicate test owns its sender and id for ever; whoever holds a
\* call (a table, the queue, a pool thread, ~Router) holds one that was activated.
ClaimInv ==
  /\ \A d \in Requests : pc[d] \in {"idle", "mark"} => answer[d] = "none"
  /\ \A d \in Requests : Claimed(d) => KeyOf(d) \in seenRequestIds
  /\ \A c, d \in Requests : Claimed(c) /\ Claimed(d) /\ KeyOf(c) = KeyOf(d) => c = d

HolderInv ==
  /\ \A k \in Keys : Entered(inboundRequests[k])
  /\ \A n \in 1..Len(queue) : Entered(queue[n])
  /\ \A w \in Workers : worker[w].at # "idle" => Entered(worker[w].call)
  /\ \A d \in taken : Entered(d)

\* What is in the tables has no answer yet and nobody is about to give it one; after ~Router
\* has cleared the tables they stay empty.
ActiveInv ==
  /\ \A k \in Keys : inboundRequests[k] # NoRequest =>
       answer[inboundRequests[k]] = "none" /\ pc[inboundRequests[k]] # "fail"
  /\ \A w \in Workers, k \in Keys :
       worker[w].at = "set" => inboundRequests[k] # worker[w].call
  /\ dtor # "live" => shuttingDown
  /\ shuttingDown => \A k \in Keys : inboundRequests[k] = NoRequest
  /\ taken # {} => dtor # "live"

Inv == InboundTablesAgree /\ ClaimInv /\ HolderInv /\ ActiveInv

\* A call that moves on inside dispatchRequest keeps the claims.
LEMMA MoveKeepsClaims ==
  ASSUME TypeOK, ClaimInv, NEW d \in Requests, pc[d] # "idle",
         NEW label \in CallPoints \ {"idle", "mark"}, Goto(d, label),
         UNCHANGED << req, answer, seenRequestIds >>
  PROVE  ClaimInv'
  BY DEF TypeOK, ClaimInv, Claimed, KeyOf, Goto

\* Every step keeps the claims: the duplicate test and the insertion are one lock region.
LEMMA NextClaimInv == TypeOK /\ Inv /\ [Next]_vars => ClaimInv'
  <1> SUFFICES ASSUME TypeOK, Inv, [Next]_vars PROVE ClaimInv'
    OBVIOUS
  <1> ClaimInv /\ HolderInv
    BY DEF Inv
  <1> USE DEF TypeOK, calls, Goto, Resolve, ClaimInv, Claimed, KeyOf
  <1>1. ASSUME RegisterRequestHandler PROVE ClaimInv'
    BY <1>1 DEF RegisterRequestHandler
  <1>2. ASSUME UnregisterHandler PROVE ClaimInv'
    BY <1>2 DEF UnregisterHandler
  <1>3. ASSUME NEW d \in Requests, DispatchRequest(d) PROVE ClaimInv'
    <2>1. CASE KeyOf(d) \in seenRequestIds
      <3>0. Resolve(d, "duplicate") /\ Goto(d, "waiting")
        <4> HIDE DEF Resolve, Goto, KeyOf
        <4> QED
          BY <1>3, <2>1 DEF DispatchRequest
      <3>1. Resolve(d, "duplicate") /\ Goto(d, "waiting") /\ seenRequestIds' = seenRequestIds /\ req' = req
        BY <1>3, <2>1, <3>0 DEF DispatchRequest
      <3>2. answer'[d] = "duplicate" /\ pc'[d] = "waiting" /\ \A c \in Requests : c # d => answer'[c] = answer[c] /\ pc'[c] = pc[c]
        BY <1>3, <3>1 DEF DispatchRequest
      <3>3. QED
        BY <3>1, <3>2
    <2>2. CASE KeyOf(d) \notin seenRequestIds
      <3>1. \A c \in Requests : Claimed(c) => KeyOf(c) # KeyOf(d)
        BY <2>2
      <3>2. \A c \in Requests : c # d => (Claimed(c)' <=> Claimed(c))
        BY <1>3 DEF DispatchRequest
      <3>3. req' = req /\ seenRequestIds' = seenRequestIds \cup {KeyOf(d)}
        BY <1>3 DEF DispatchRequest
      <3>4. \A a \in Requests : pc'[a] \in {"idle", "mark"} => answer'[a] = "none"
        BY <1>3, <2>2 DEF DispatchRequest
      <3>5. \A a \in Requests : KeyOf(a)' = KeyOf(a)
        BY <3>3
      <3> HIDE DEF KeyOf, Claimed
      <3>6. \A a \in Requests : Claimed(a)' => KeyOf(a)' \in seenRequestIds'
        BY <3>2, <3>3, <3>5
      <3>7. \A a, b \in Requests : Claimed(a)' /\ Claimed(b)' /\ KeyOf(a)' = KeyOf(b)' => a = b
        BY <3>1, <3>2, <3>5
      <3>8. QED
        BY <3>4, <3>6, <3>7
    <2>3. QED
      BY <2>1, <2>2
  <1>4. ASSUME NEW d \in Requests, RefuseInboundRequest(d) PROVE ClaimInv'
    BY <1>4 DEF RefuseInboundRequest
  <1>5. ASSUME NEW d \in Requests, MarkInboundRequestActive(d) PROVE ClaimInv'
    BY <1>5 DEF MarkInboundRequestActive
  <1>6. ASSUME NEW d \in Requests, CallHandler(d) PROVE ClaimInv'
    <2>1. PICK label \in {"pool", "complete"} : Goto(d, label)
      BY <1>6 DEF CallHandler
    <2>2. pc[d] # "idle" /\ UNCHANGED << req, answer, seenRequestIds >> /\ label \in CallPoints \ {"idle", "mark"}
      BY <1>6, <2>1 DEF CallHandler, CallPoints
    <2> HIDE DEF TypeOK, ClaimInv, Goto
    <2>3. QED
      BY <2>1, <2>2, MoveKeepsClaims
  <1>7. ASSUME NEW d \in Requests, ReadCompletionPool(d) PROVE ClaimInv'
    BY <1>7 DEF ReadCompletionPool
  <1>8. ASSUME NEW d \in Requests, PostCompletion(d) PROVE ClaimInv'
    <2>1. PICK label \in {"waiting", "complete"} : Goto(d, label)
      BY <1>8 DEF PostCompletion
    <2>2. pc[d] # "idle" /\ UNCHANGED << req, answer, seenRequestIds >> /\ label \in CallPoints \ {"idle", "mark"}
      BY <1>8, <2>1 DEF PostCompletion, CallPoints
    <2> HIDE DEF TypeOK, ClaimInv, Goto
    <2>3. QED
      BY <2>1, <2>2, MoveKeepsClaims
  <1>9. ASSUME NEW d \in Requests, CompleteFailedRequest(d) PROVE ClaimInv'
    BY <1>9 DEF CompleteFailedRequest
  <1>10. ASSUME NEW d \in Requests, ResolveFailedRequest(d) PROVE ClaimInv'
    BY <1>10 DEF ResolveFailedRequest
  <1>11. ASSUME NEW d \in Requests, DeliverResponse(d) PROVE ClaimInv'
    BY <1>11 DEF DeliverResponse
  <1>12. ASSUME NEW d \in Requests, HandlerFinishes(d) PROVE ClaimInv'
    BY <1>12 DEF HandlerFinishes
  <1>13. ASSUME NEW w \in Workers, TakeCompletion(w) PROVE ClaimInv'
    BY <1>13 DEF TakeCompletion
  <1>14. ASSUME NEW w \in Workers, CompletionGet(w) PROVE ClaimInv'
    BY <1>14 DEF CompletionGet
  <1>15. ASSUME NEW w \in Workers, CompletionSet(w) PROVE ClaimInv'
    BY <1>15 DEF CompletionSet, HolderInv, Entered
  <1>16. ASSUME DeleteCompletionPool PROVE ClaimInv'
    BY <1>16 DEF DeleteCompletionPool
  <1>17. ASSUME NEW k \in Keys, DispatchCancelled(k) PROVE ClaimInv'
    BY <1>17 DEF DispatchCancelled
  <1>18. ASSUME NEW e \in Emitters, NEW tk \in TokenKeys, NEW value \in 1..MaxProgress, EmitProgress(e, tk, value) PROVE ClaimInv'
    BY <1>18 DEF EmitProgress
  <1>19. ASSUME NEW e \in Emitters, SendProgress(e) PROVE ClaimInv'
    BY <1>19 DEF SendProgress
  <1>20. ASSUME DestroyTakeInbound PROVE ClaimInv'
    BY <1>20 DEF DestroyTakeInbound
  <1>21. ASSUME NEW d \in Requests, DestroyResolveInbound(d) PROVE ClaimInv'
    BY <1>21 DEF DestroyResolveInbound, HolderInv, Entered
  <1>22. ASSUME DestroyDropPool PROVE ClaimInv'
    BY <1>22 DEF DestroyDropPool
  <1>23. ASSUME DestroyMembers PROVE ClaimInv'
    BY <1>23 DEF DestroyMembers
  <1>24. CASE UNCHANGED vars
    BY <1>24 DEF vars
  <1> HIDE DEF ClaimInv, TypeOK
  <1>25. QED
    BY <1>1, <1>2, <1>3, <1>4, <1>5, <1>6, <1>7, <1>8, <1>9, <1>10, <1>11, <1>12, <1>13, <1>14, <1>15, <1>16, <1>17, <1>18, <1>19, <1>20, <1>21, <1>22, <1>23, <1>24
       DEF Next, DispatcherStep, DispatcherInside, PoolStep, PeerStep, EmitterStep, DestroyStep

\* What a posted queue holds.
LEMMA AppendElements ==
  ASSUME NEW S, NEW q \in Seq(S), NEW x \in S, NEW n \in 1..Len(Append(q, x))
  PROVE  Append(q, x)[n] = x \/ (n \in 1..Len(q) /\ Append(q, x)[n] = q[n])
  OBVIOUS

\* Every step that takes hold of a call takes one that was activated.
LEMMA NextHolderInv == TypeOK /\ TypeOK' /\ Inv /\ [Next]_vars => HolderInv'
  <1> SUFFICES ASSUME TypeOK, TypeOK', Inv, [Next]_vars PROVE HolderInv'
    OBVIOUS
  <1> InboundTablesAgree /\ HolderInv
    BY DEF Inv
  <1> USE InboundAssumption DEF TypeOK, calls, tables, progress, pool, Goto, Resolve, HolderInv, Entered
  <1>1. ASSUME RegisterRequestHandler PROVE HolderInv'
    BY <1>1 DEF RegisterRequestHandler
  <1>2. ASSUME UnregisterHandler PROVE HolderInv'
    BY <1>2 DEF UnregisterHandler
  <1>3. ASSUME NEW d \in Requests, DispatchRequest(d) PROVE HolderInv'
    BY <1>3 DEF DispatchRequest
  <1>4. ASSUME NEW d \in Requests, RefuseInboundRequest(d) PROVE HolderInv'
    BY <1>4 DEF RefuseInboundRequest
  <1>5. ASSUME NEW d \in Requests, MarkInboundRequestActive(d) PROVE HolderInv'
    BY <1>5 DEF MarkInboundRequestActive
  <1>6. ASSUME NEW d \in Requests, CallHandler(d) PROVE HolderInv'
    BY <1>6 DEF CallHandler
  <1>7. ASSUME NEW d \in Requests, ReadCompletionPool(d) PROVE HolderInv'
    BY <1>7 DEF ReadCompletionPool
  <1>8. ASSUME NEW d \in Requests, PostCompletion(d) PROVE HolderInv'
    <2>1. pc' = [pc EXCEPT ![d] = "waiting"] \/ pc' = [pc EXCEPT ![d] = "complete"]
      BY <1>8 DEF PostCompletion
    <2>2. \A c \in Requests : Entered(c) => Entered(c)'
      BY <2>1
    <2>3. Entered(d)'
      BY <2>1
    <2>7. queue' = queue \/ queue' = Append(queue, d)
      BY <1>8 DEF PostCompletion
    <2>4. \A n \in 1..Len(queue') : queue'[n] = d \/ (n \in 1..Len(queue) /\ queue'[n] = queue[n])
      <3>1. CASE queue' = queue
        BY <3>1
      <3>2. CASE queue' = Append(queue, d)
        BY <3>2, AppendElements
      <3>3. QED
        BY <2>7, <3>1, <3>2
    <2>5. \A n \in 1..Len(queue') : Entered(queue[n])'
      BY <2>2, <2>3, <2>4
    <2>6. QED
      BY <1>8, <2>2, <2>5 DEF PostCompletion
  <1>9. ASSUME NEW d \in Requests, CompleteFailedRequest(d) PROVE HolderInv'
    BY <1>9 DEF CompleteFailedRequest, CompleteInboundRequest
  <1>10. ASSUME NEW d \in Requests, ResolveFailedRequest(d) PROVE HolderInv'
    BY <1>10 DEF ResolveFailedRequest
  <1>11. ASSUME NEW d \in Requests, DeliverResponse(d) PROVE HolderInv'
    BY <1>11 DEF DeliverResponse
  <1>12. ASSUME NEW d \in Requests, HandlerFinishes(d) PROVE HolderInv'
    BY <1>12 DEF HandlerFinishes
  <1>13. ASSUME NEW w \in Workers, TakeCompletion(w) PROVE HolderInv'
    BY <1>13 DEF TakeCompletion
  <1>14. ASSUME NEW w \in Workers, CompletionGet(w) PROVE HolderInv'
    BY <1>14 DEF CompletionGet, CompleteInboundRequest
  <1>15. ASSUME NEW w \in Workers, CompletionSet(w) PROVE HolderInv'
    BY <1>15 DEF CompletionSet, IdleWorker
  <1>16. ASSUME DeleteCompletionPool PROVE HolderInv'
    BY <1>16 DEF DeleteCompletionPool
  <1>17. ASSUME NEW k \in Keys, DispatchCancelled(k) PROVE HolderInv'
    BY <1>17 DEF DispatchCancelled
  <1>18. ASSUME NEW e \in Emitters, NEW tk \in TokenKeys, NEW value \in 1..MaxProgress, EmitProgress(e, tk, value) PROVE HolderInv'
    BY <1>18 DEF EmitProgress
  <1>19. ASSUME NEW e \in Emitters, SendProgress(e) PROVE HolderInv'
    BY <1>19 DEF SendProgress
  <1>20. ASSUME DestroyTakeInbound PROVE HolderInv'
    BY <1>20 DEF DestroyTakeInbound, InboundTablesAgree
  <1>21. ASSUME NEW d \in Requests, DestroyResolveInbound(d) PROVE HolderInv'
    BY <1>21 DEF DestroyResolveInbound
  <1>22. ASSUME DestroyDropPool PROVE HolderInv'
    BY <1>22 DEF DestroyDropPool
  <1>23. ASSUME DestroyMembers PROVE HolderInv'
    BY <1>23 DEF DestroyMembers
  <1>24. CASE UNCHANGED vars
    BY <1>24 DEF vars
  <1> HIDE DEF HolderInv, TypeOK
  <1>25. QED
    BY <1>1, <1>2, <1>3, <1>4, <1>5, <1>6, <1>7, <1>8, <1>9, <1>10, <1>11, <1>12, <1>13, <1>14, <1>15, <1>16, <1>17, <1>18, <1>19, <1>20, <1>21, <1>22, <1>23, <1>24
       DEF Next, DispatcherStep, DispatcherInside, PoolStep, PeerStep, EmitterStep, DestroyStep

\* Every step keeps answered calls out of the tables.
LEMMA NextActiveInv == TypeOK /\ TypeOK' /\ Inv /\ [Next]_vars => ActiveInv'
  <1> SUFFICES ASSUME TypeOK, TypeOK', Inv, [Next]_vars PROVE ActiveInv'
    OBVIOUS
  <1> InboundTablesAgree /\ ActiveInv /\ HolderInv /\ ClaimInv
    BY DEF Inv
  <1> USE InboundAssumption DEF TypeOK, calls, tables, progress, pool, Goto, Resolve, ActiveInv, HolderInv, Entered
  <1>1. ASSUME RegisterRequestHandler PROVE ActiveInv'
    BY <1>1 DEF RegisterRequestHandler
  <1>2. ASSUME UnregisterHandler PROVE ActiveInv'
    BY <1>2 DEF UnregisterHandler
  <1>3. ASSUME NEW d \in Requests, DispatchRequest(d) PROVE ActiveInv'
    BY <1>3 DEF DispatchRequest
  <1>4. ASSUME NEW d \in Requests, RefuseInboundRequest(d) PROVE ActiveInv'
    BY <1>4 DEF RefuseInboundRequest
  <1>5. ASSUME NEW d \in Requests, MarkInboundRequestActive(d) PROVE ActiveInv'
    BY <1>5 DEF MarkInboundRequestActive, ActivationRefused, ClaimInv
  <1>6. ASSUME NEW d \in Requests, CallHandler(d) PROVE ActiveInv'
    BY <1>6 DEF CallHandler
  <1>7. ASSUME NEW d \in Requests, ReadCompletionPool(d) PROVE ActiveInv'
    BY <1>7 DEF ReadCompletionPool
  <1>8. ASSUME NEW d \in Requests, PostCompletion(d) PROVE ActiveInv'
    BY <1>8 DEF PostCompletion
  <1>9. ASSUME NEW d \in Requests, CompleteFailedRequest(d) PROVE ActiveInv'
    BY <1>9 DEF CompleteFailedRequest, CompleteInboundRequest, InboundTablesAgree
  <1>10. ASSUME NEW d \in Requests, ResolveFailedRequest(d) PROVE ActiveInv'
    BY <1>10 DEF ResolveFailedRequest
  <1>11. ASSUME NEW d \in Requests, DeliverResponse(d) PROVE ActiveInv'
    BY <1>11 DEF DeliverResponse
  <1>12. ASSUME NEW d \in Requests, HandlerFinishes(d) PROVE ActiveInv'
    BY <1>12 DEF HandlerFinishes
  <1>13. ASSUME NEW w \in Workers, TakeCompletion(w) PROVE ActiveInv'
    BY <1>13 DEF TakeCompletion
  <1>14. ASSUME NEW w \in Workers, CompletionGet(w) PROVE ActiveInv'
    BY <1>14 DEF CompletionGet, CompleteInboundRequest, InboundTablesAgree
  <1>15. ASSUME NEW w \in Workers, CompletionSet(w) PROVE ActiveInv'
    BY <1>15 DEF CompletionSet, IdleWorker
  <1>16. ASSUME DeleteCompletionPool PROVE ActiveInv'
    BY <1>16 DEF DeleteCompletionPool
  <1>17. ASSUME NEW k \in Keys, DispatchCancelled(k) PROVE ActiveInv'
    BY <1>17 DEF DispatchCancelled
  <1>18. ASSUME NEW e \in Emitters, NEW tk \in TokenKeys, NEW value \in 1..MaxProgress, EmitProgress(e, tk, value) PROVE ActiveInv'
    BY <1>18 DEF EmitProgress
  <1>19. ASSUME NEW e \in Emitters, SendProgress(e) PROVE ActiveInv'
    BY <1>19 DEF SendProgress
  <1>20. ASSUME DestroyTakeInbound PROVE ActiveInv'
    BY <1>20 DEF DestroyTakeInbound, InboundTablesAgree
  <1>21. ASSUME NEW d \in Requests, DestroyResolveInbound(d) PROVE ActiveInv'
    BY <1>21 DEF DestroyResolveInbound
  <1>22. ASSUME DestroyDropPool PROVE ActiveInv'
    BY <1>22 DEF DestroyDropPool
  <1>23. ASSUME DestroyMembers PROVE ActiveInv'
    BY <1>23 DEF DestroyMembers
  <1>24. CASE UNCHANGED vars
    BY <1>24 DEF vars
  <1> HIDE DEF ActiveInv, TypeOK
  <1>25. QED
    BY <1>1, <1>2, <1>3, <1>4, <1>5, <1>6, <1>7, <1>8, <1>9, <1>10, <1>11, <1>12, <1>13, <1>14, <1>15, <1>16, <1>17, <1>18, <1>19, <1>20, <1>21, <1>22, <1>23, <1>24
       DEF Next, DispatcherStep, DispatcherInside, PoolStep, PeerStep, EmitterStep, DestroyStep

\* markInboundRequestActive inserts under a key that nobody uses.
LEMMA MarkedKeyIsFree ==
  ASSUME TypeOK, Inv, NEW d \in Requests, MarkInboundRequestActive(d)
  PROVE  /\ KeyOf(d) \in Keys
         /\ inboundRequests[KeyOf(d)] = NoRequest
         /\ \A tk \in TokenKeys : inboundRequestIdsByToken[tk] # NoId =>
              << tk[1], inboundRequestIdsByToken[tk] >> # KeyOf(d)
  <1>1. KeyOf(d) \in Keys
    BY KeyInKeys
  <1>2. pc[d] = "mark" /\ answer[d] = "none" /\ Claimed(d)
    BY DEF MarkInboundRequestActive, Inv, ClaimInv, Claimed
  <1>3. inboundRequests[KeyOf(d)] = NoRequest
    <2> SUFFICES ASSUME inboundRequests[KeyOf(d)] # NoRequest PROVE FALSE
      OBVIOUS
    <2> DEFINE c == inboundRequests[KeyOf(d)]
    <2>1. c \in Requests /\ KeyOf(c) = KeyOf(d)
      BY <1>1 DEF TypeOK, Inv, InboundTablesAgree
    <2>2. pc[c] \notin {"idle", "mark"} /\ answer[c] = "none"
      BY <1>1, <2>1 DEF Inv, HolderInv, ActiveInv, Entered
    <2>3. Claimed(c) /\ c # d
      BY <1>2, <2>2 DEF Claimed
    <2>4. QED
      BY <1>2, <2>1, <2>3 DEF Inv, ClaimInv
  <1>4. QED
    BY <1>1, <1>3 DEF Inv, InboundTablesAgree

\* The three tables agree after every step.
LEMMA NextTablesAgree == TypeOK /\ Inv /\ [Next]_vars => InboundTablesAgree'
  <1> SUFFICES ASSUME TypeOK, Inv, [Next]_vars PROVE InboundTablesAgree'
    OBVIOUS
  <1> USE InboundAssumption
  <1>1. InboundTablesAgree /\ req' = req
    BY TableSteps DEF Inv
  <1>2. /\ inboundRequests \in [Keys -> Requests \cup {NoRequest}]
        /\ inboundResponsePromises \in [Keys -> Requests \cup {NoRequest}]
        /\ inboundRequestIdsByToken \in [TokenKeys -> Ids \cup {NoId}]
    BY DEF TypeOK
  <1>3. /\ \A d \in Requests : KeyOf(d) = << req[d].sender, req[d].id >> /\ KeyOf(d) \in Keys
        /\ \A d \in Requests : TokenKeyOf(d) = << req[d].sender, req[d].token >>
        /\ \A d \in Requests : req[d].id \in Ids /\ req[d].sender \in Senders
        /\ \A d \in Requests : KeyOf(d)' = KeyOf(d) /\ TokenKeyOf(d)' = TokenKeyOf(d)
        /\ \A d \in Requests : req[d].token # NoToken => TokenKeyOf(d) \in TokenKeys
    BY <1>1, KeyInKeys DEF KeyOf, TokenKeyOf, TypeOK, Descriptor, TokenKeys
  <1>4. /\ \A k \in Keys : k = << k[1], k[2] >> /\ k[1] \in Senders /\ k[2] \in Ids
        /\ \A tk \in TokenKeys : tk = << tk[1], tk[2] >> /\ tk[1] \in Senders /\ tk[2] \in Tokens
    BY DEF Keys, TokenKeys
  <1>5. CASE UNCHANGED tables
    <2>1. inboundRequests' = inboundRequests /\ inboundRequestIdsByToken' = inboundRequestIdsByToken /\ inboundResponsePromises' = inboundResponsePromises
      BY <1>5 DEF tables
    <2>2. QED
      BY <1>1, <2>1 DEF InboundTablesAgree, KeyOf, TokenKeyOf
  <1>6. ASSUME NEW d \in Requests, MarkInboundRequestActive(d) PROVE InboundTablesAgree'
    <2>1. inboundRequests[KeyOf(d)] = NoRequest /\ \A tk \in TokenKeys : inboundRequestIdsByToken[tk] # NoId =>
              << tk[1], inboundRequestIdsByToken[tk] >> # KeyOf(d)
      BY <1>6, MarkedKeyIsFree
    <2>2. /\ inboundRequests' = [inboundRequests EXCEPT ![KeyOf(d)] = d]
          /\ inboundResponsePromises' = [inboundResponsePromises EXCEPT ![KeyOf(d)] = d]
          /\ inboundRequestIdsByToken' =
               [t \in TokenKeys |-> IF t = TokenKeyOf(d) THEN req[d].id ELSE inboundRequestIdsByToken[t]]
          /\ req[d].token # NoToken => inboundRequestIdsByToken[TokenKeyOf(d)] = NoId
      BY <1>6 DEF MarkInboundRequestActive, ActivationRefused
    <2>3. /\ inboundRequests'[KeyOf(d)] = d /\ inboundResponsePromises'[KeyOf(d)] = d
          /\ \A k \in Keys : k # KeyOf(d) => inboundRequests'[k] = inboundRequests[k]
                                             /\ inboundResponsePromises'[k] = inboundResponsePromises[k]
      BY <1>2, <1>3, <2>2
    <2>4. \A t \in TokenKeys : inboundRequestIdsByToken'[t] =
             IF t = TokenKeyOf(d) THEN req[d].id ELSE inboundRequestIdsByToken[t]
      BY <2>2
    <2>5. ASSUME NEW k \in Keys
          PROVE  /\ inboundRequests'[k] = inboundResponsePromises'[k]
                 /\ inboundRequests'[k] # NoRequest => KeyOf(inboundRequests'[k]) = k
                 /\ inboundRequests'[k] # NoRequest /\ req[inboundRequests'[k]].token # NoToken =>
                      inboundRequestIdsByToken'[TokenKeyOf(inboundRequests'[k])] = k[2]
      <3>1. CASE k = KeyOf(d)
        BY <1>3, <2>3, <2>4, <3>1
      <3>2. CASE k # KeyOf(d)
        <4>1. inboundRequests'[k] = inboundRequests[k] /\ inboundResponsePromises'[k] = inboundResponsePromises[k]
          BY <2>3, <3>2
        <4>2. ASSUME inboundRequests[k] # NoRequest, req[inboundRequests[k]].token # NoToken
              PROVE  inboundRequestIdsByToken'[TokenKeyOf(inboundRequests[k])] = k[2]
          <5>1. inboundRequests[k] \in Requests /\ inboundRequestIdsByToken[TokenKeyOf(inboundRequests[k])] = k[2]
            BY <1>1, <1>2, <4>2 DEF InboundTablesAgree
          <5>2. TokenKeyOf(inboundRequests[k]) \in TokenKeys /\ k[2] # NoId
            BY <1>3, <1>4, <4>2, <5>1
          <5>3. TokenKeyOf(inboundRequests[k]) # TokenKeyOf(d)
            BY <1>3, <2>2, <5>1, <5>2, <4>2
          <5>4. QED
            BY <2>4, <5>1, <5>2, <5>3
        <4>3. QED
          BY <1>1, <4>1, <4>2 DEF InboundTablesAgree
      <3>3. QED
        BY <3>1, <3>2
    <2>6. ASSUME NEW tk \in TokenKeys, inboundRequestIdsByToken'[tk] # NoId
          PROVE  /\ inboundRequests'[<< tk[1], inboundRequestIdsByToken'[tk] >>] # NoRequest
                 /\ req[inboundRequests'[<< tk[1], inboundRequestIdsByToken'[tk] >>]].token = tk[2]
      <3>1. CASE tk = TokenKeyOf(d)
        <4>1. << tk[1], inboundRequestIdsByToken'[tk] >> = KeyOf(d) /\ tk[2] = req[d].token
          BY <1>3, <2>4, <3>1
        <4>2. QED
          BY <2>3, <4>1
      <3>2. CASE tk # TokenKeyOf(d)
        <4>1. inboundRequestIdsByToken'[tk] = inboundRequestIdsByToken[tk]
          BY <2>4, <3>2
        <4>2. << tk[1], inboundRequestIdsByToken[tk] >> \in Keys /\ << tk[1], inboundRequestIdsByToken[tk] >> # KeyOf(d)
          BY <1>2, <1>4, <2>1, <2>6, <4>1 DEF Keys
        <4>3. QED
          BY <1>1, <2>3, <2>6, <4>1, <4>2 DEF InboundTablesAgree
      <3>3. QED
        BY <3>1, <3>2
    <2>7. QED
      BY <1>1, <1>3, <2>5, <2>6 DEF InboundTablesAgree, KeyOf, TokenKeyOf
  <1>7. ASSUME NEW d \in Requests, CompleteInboundRequest(d) PROVE InboundTablesAgree'
    <2> DEFINE kd == KeyOf(d)
               c == inboundRequests[kd]
    <2>1. kd \in Keys
      BY <1>3
    <2>2. /\ inboundRequests'[kd] = NoRequest /\ inboundResponsePromises'[kd] = NoRequest
          /\ \A k \in Keys : k # kd => inboundRequests'[k] = inboundRequests[k]
                                       /\ inboundResponsePromises'[k] = inboundResponsePromises[k]
      BY <1>2, <1>7, <2>1 DEF CompleteInboundRequest
    <2>3. \A t \in TokenKeys : inboundRequestIdsByToken'[t] =
             IF c # NoRequest /\ t = TokenKeyOf(c) THEN NoId ELSE inboundRequestIdsByToken[t]
      BY <1>7 DEF CompleteInboundRequest
    <2>4. c # NoRequest => c \in Requests /\ KeyOf(c) = kd
      BY <1>1, <1>2, <2>1 DEF InboundTablesAgree
    <2> HIDE DEF c, kd
    <2>5. ASSUME NEW k \in Keys
          PROVE  /\ inboundRequests'[k] = inboundResponsePromises'[k]
                 /\ inboundRequests'[k] # NoRequest => KeyOf(inboundRequests'[k]) = k
                 /\ inboundRequests'[k] # NoRequest /\ req[inboundRequests'[k]].token # NoToken =>
                      inboundRequestIdsByToken'[TokenKeyOf(inboundRequests'[k])] = k[2]
      <3>1. CASE k = kd
        BY <2>2, <3>1
      <3>2. CASE k # kd
        <4>1. inboundRequests'[k] = inboundRequests[k] /\ inboundResponsePromises'[k] = inboundResponsePromises[k]
          BY <2>2, <3>2
        <4>2. ASSUME inboundRequests[k] # NoRequest, req[inboundRequests[k]].token # NoToken
              PROVE  inboundRequestIdsByToken'[TokenKeyOf(inboundRequests[k])] = k[2]
          <5> DEFINE b == inboundRequests[k]
          <5>1. b \in Requests /\ inboundRequestIdsByToken[TokenKeyOf(b)] = k[2] /\ KeyOf(b) = k
            BY <1>1, <1>2, <4>2 DEF InboundTablesAgree
          <5>2. TokenKeyOf(b) \in TokenKeys
            BY <1>3, <4>2, <5>1
          <5>3. ASSUME c # NoRequest, TokenKeyOf(b) = TokenKeyOf(c) PROVE FALSE
            <6>1. req[c].sender = req[b].sender /\ req[c].token = req[b].token /\ c \in Requests
              BY <1>3, <2>4, <5>1, <5>3
            <6>2. inboundRequestIdsByToken[TokenKeyOf(c)] = kd[2]
              BY <1>1, <2>1, <4>2, <5>3, <6>1 DEF InboundTablesAgree, c
            <6>3. kd = << req[c].sender, req[c].id >> /\ k = << req[b].sender, req[b].id >>
              BY <1>3, <2>4, <5>1, <5>3, <6>1
            <6>4. QED
              BY <3>2, <5>1, <5>3, <6>1, <6>2, <6>3
          <5>4. QED
            BY <2>3, <5>1, <5>2, <5>3
        <4>3. QED
          BY <1>1, <4>1, <4>2 DEF InboundTablesAgree
      <3>3. QED
        BY <3>1, <3>2
    <2>6. ASSUME NEW tk \in TokenKeys, inboundRequestIdsByToken'[tk] # NoId
          PROVE  /\ inboundRequests'[<< tk[1], inboundRequestIdsByToken'[tk] >>] # NoRequest
                 /\ req[inboundRequests'[<< tk[1], inboundRequestIdsByToken'[tk] >>]].token = tk[2]
      <3> DEFINE kt == << tk[1], inboundRequestIdsByToken[tk] >>
      <3>1. inboundRequestIdsByToken'[tk] = inboundRequestIdsByToken[tk] /\ ~(c # NoRequest /\ tk = TokenKeyOf(c))
        BY <2>3, <2>6
      <3>2. kt \in Keys
        BY <1>2, <1>4, <2>6, <3>1 DEF Keys
      <3>3. inboundRequests[kt] # NoRequest /\ req[inboundRequests[kt]].token = tk[2] /\ KeyOf(inboundRequests[kt]) = kt /\ inboundRequests[kt] \in Requests
        BY <1>1, <1>2, <2>6, <3>1, <3>2 DEF InboundTablesAgree
      <3>4. kt # kd
        <4> SUFFICES ASSUME kt = kd PROVE FALSE
          OBVIOUS
        <4>1. c = inboundRequests[kt]
          BY DEF c
        <4>2. tk = << req[c].sender, req[c].token >>
          BY <1>3, <1>4, <3>3, <4>1
        <4>3. QED
          BY <1>3, <3>1, <3>3, <4>1, <4>2
      <3>5. QED
        BY <2>2, <3>1, <3>2, <3>3, <3>4
    <2>7. QED
      BY <1>1, <1>3, <2>5, <2>6 DEF InboundTablesAgree, KeyOf, TokenKeyOf
  <1>8. CASE DestroyTakeInbound
    BY <1>8 DEF DestroyTakeInbound, InboundTablesAgree
  <1>9. QED
    BY <1>5, <1>6, <1>7, <1>8, TableSteps

\* The invariant holds initially.
LEMMA InitInv == Init => Inv
  <1> SUFFICES ASSUME Init PROVE Inv
    OBVIOUS
  <1> USE DEF Init
  <1>1. InboundTablesAgree
    BY DEF InboundTablesAgree
  <1>2. ClaimInv
    BY DEF ClaimInv, Claimed
  <1>3. HolderInv
    BY InboundAssumption DEF HolderInv, Entered, IdleWorker
  <1>4. ActiveInv
    BY DEF ActiveInv, IdleWorker
  <1>5. QED
    BY <1>1, <1>2, <1>3, <1>4 DEF Inv

\* The inductive invariant of the inbound router.
THEOREM InvHolds == Spec => []Inv
  <1>1. TypeOK /\ TypeOK' /\ Inv /\ [Next]_vars => Inv'
    BY NextTablesAgree, NextClaimInv, NextHolderInv, NextActiveInv DEF Inv
  <1>2. QED
    BY InitInv, TypeCorrect, <1>1, PTL DEF Spec

-----------------------------------------------------------------------------
(* The properties.                                                         *)

\* For any number of calls, senders and threads: the promise table, the request table and the
\* token index of one router always agree (the token table is cleaned with the request).
THEOREM TablesAlwaysAgree == Spec => []InboundTablesAgree
  <1>1. Inv => InboundTablesAgree
    BY DEF Inv
  <1>2. QED
    BY InvHolds, <1>1, PTL

\* "Router enforces unique request ids per sender": no two calls of one sender with the same id
\* get past the duplicate test, whatever threads dispatch them.
THEOREM NoIdIsHandledTwice == Spec => []IdHandledOnce
  <1>1. Inv => IdHandledOnce
    BY DEF Inv, ClaimInv, Claimed, IdHandledOnce, Handled
  <1>2. QED
    BY InvHolds, <1>1, PTL

\* A response future becomes ready only when its request has left the tables.
THEOREM AnsweredRequestsAreInactive == Spec => []AnsweredMeansInactive
  <1>1. TypeOK /\ Inv => AnsweredMeansInactive
    BY InboundAssumption DEF TypeOK, Inv, ActiveInv, AnsweredMeansInactive
  <1>2. QED
    BY InvHolds, TypeCorrect, <1>1, PTL

\* Completing and clearing only shrink the set of active requests; activation adds one key and
\* only below the limit.
LEMMA ActiveKeysStep ==
  ASSUME TypeOK, Inv, ActiveWithinLimit, [Next]_vars
  PROVE  ActiveWithinLimit'
  <1>1. IsFiniteSet(Keys) /\ ActiveKeys \subseteq Keys
    BY InboundAssumption, FS_Product DEF Keys, ActiveKeys
  <1>2. IsFiniteSet(ActiveKeys) /\ Cardinality(ActiveKeys) \in Nat
    BY <1>1, FS_Subset, FS_CardinalityType
  <1>3. CASE ActiveKeys' \subseteq ActiveKeys
    <2>1. IsFiniteSet(ActiveKeys') /\ Cardinality(ActiveKeys') <= Cardinality(ActiveKeys)
      BY <1>2, <1>3, FS_Subset
    <2>2. Cardinality(ActiveKeys') \in Nat
      BY <2>1, FS_CardinalityType
    <2>3. QED
      BY <1>2, <2>1, <2>2, InboundAssumption DEF ActiveWithinLimit
  <1>4. CASE UNCHANGED tables
    BY <1>3, <1>4 DEF tables, ActiveKeys
  <1>5. ASSUME NEW d \in Requests, MarkInboundRequestActive(d) PROVE ActiveWithinLimit'
    <2>1. ~(Cardinality(ActiveKeys) >= MaxConcurrentInFlightRequests)
      BY <1>5 DEF MarkInboundRequestActive, ActivationRefused
    <2>2. ActiveKeys' \subseteq ActiveKeys \cup {KeyOf(d)}
      BY <1>5 DEF MarkInboundRequestActive, ActiveKeys, TypeOK
    <2>3. IsFiniteSet(ActiveKeys \cup {KeyOf(d)}) /\ Cardinality(ActiveKeys \cup {KeyOf(d)}) <= Cardinality(ActiveKeys) + 1
      <3> DEFINE S == ActiveKeys
                 x == KeyOf(d)
      <3>1. IsFiniteSet(S) /\ Cardinality(S) \in Nat
        BY <1>2
      <3> HIDE DEF S, x
      <3>2. IsFiniteSet(S \cup {x}) /\ Cardinality(S \cup {x}) = IF x \in S THEN Cardinality(S) ELSE Cardinality(S) + 1
        BY <3>1, FS_AddElement
      <3>3. IsFiniteSet(S \cup {x}) /\ Cardinality(S \cup {x}) <= Cardinality(S) + 1
        BY <3>1, <3>2
      <3>4. QED
        BY <3>3 DEF S, x
    <2>4. IsFiniteSet(ActiveKeys') /\ Cardinality(ActiveKeys') <= Cardinality(ActiveKeys \cup {KeyOf(d)})
      BY <2>2, <2>3, FS_Subset
    <2>5. Cardinality(ActiveKeys') \in Nat /\ Cardinality(ActiveKeys \cup {KeyOf(d)}) \in Nat
      BY <2>3, <2>4, FS_CardinalityType
    <2>6. QED
      BY <1>2, <2>1, <2>3, <2>4, <2>5, InboundAssumption DEF ActiveWithinLimit
  <1>6. ASSUME NEW d \in Requests, CompleteInboundRequest(d) PROVE ActiveWithinLimit'
    <2>1. ActiveKeys' \subseteq ActiveKeys
      BY <1>6 DEF CompleteInboundRequest, ActiveKeys, TypeOK
    <2>2. QED
      BY <1>3, <2>1
  <1>7. CASE DestroyTakeInbound
    <2>1. ActiveKeys' \subseteq ActiveKeys
      BY <1>7 DEF DestroyTakeInbound, ActiveKeys
    <2>2. QED
      BY <1>3, <2>1
  <1>8. QED
    BY <1>4, <1>5, <1>6, <1>7, TableSteps

\* options_.maxConcurrentInFlightRequests bounds the active requests of all senders together,
\* for any limit: two dispatchers cannot both take the last place.
THEOREM ActiveStaysWithinLimit == Spec => []ActiveWithinLimit
  <1>1. Init => ActiveWithinLimit
    <2> SUFFICES ASSUME Init PROVE ActiveWithinLimit
      OBVIOUS
    <2>1. ActiveKeys = {}
      BY DEF Init, ActiveKeys
    <2>2. QED
      BY <2>1, FS_EmptySet, InboundAssumption DEF ActiveWithinLimit
  <1>2. TypeOK /\ Inv /\ ActiveWithinLimit /\ [Next]_vars => ActiveWithinLimit'
    BY ActiveKeysStep
  <1>3. QED
    BY InvHolds, TypeCorrect, <1>1, <1>2, PTL DEF Spec

-----------------------------------------------------------------------------
(* Who owes an answer.                                                     *)

InQueue(d) == \E i \in 1..Len(queue) : queue[i] = d
AtPool(d, at) == \E w \in Workers : worker[w].at = at /\ worker[w].call = d
Handed(d) == InQueue(d) \/ AtPool(d, "get") \/ AtPool(d, "set")
Inside(d) == pc[d] \in {"handler", "pool", "post", "complete", "fail"}

\* A completion is in one place of the queue or in the hands of one thread.
PlaceInv ==
  /\ \A i, j \in 1..Len(queue) : queue[i] = queue[j] => i = j
  /\ \A w \in Workers, c \in Requests : worker[w].at # "idle" /\ worker[w].call = c => ~InQueue(c)
  /\ \A v, w \in Workers :
       worker[v].at # "idle" /\ worker[w].at # "idle" /\ worker[v].call = worker[w].call => v = w

\* A call is handed to the pool when dispatchRequest is done with it, and from the handler
\* on only the pool or ~Router answers it.
PoolInv ==
  /\ PlaceInv
  /\ \A d \in Requests : Handed(d) => pc[d] \in {"waiting", "delivered"}
  /\ \A d \in Requests : Handed(d) \/ Inside(d) => answer[d] \in {"none", "shutdown"}

\* A call without an answer is with the pool, or taken by ~Router; as long as its completion
\* has not begun, it is in the tables or taken, so that ~Router cannot miss it.
Pending(d) == InQueue(d) \/ AtPool(d, "get") \/ (Inside(d) /\ pc[d] # "fail")

Owed(d) ==
  /\ pc[d] = "waiting" /\ answer[d] = "none" => Handed(d) \/ d \in taken
  /\ answer[d] = "none" /\ Pending(d) => inboundRequests[KeyOf(d)] = d \/ d \in taken

DebtInv ==
  /\ \A d \in Requests : Owed(d)
  /\ completionPool # "set" => dtor \in {"dropped", "gone"}
  /\ dtor \in {"dropped", "gone"} => taken = {}

\* Nothing moves in the pool while its queue and its threads do not.
LEMMA StillPool ==
  ASSUME UNCHANGED << queue, worker >>
  PROVE  /\ \A c \in Requests : /\ InQueue(c)' <=> InQueue(c)
                                /\ AtPool(c, "get")' <=> AtPool(c, "get")
                                /\ AtPool(c, "set")' <=> AtPool(c, "set")
         /\ PlaceInv => PlaceInv'
  BY DEF InQueue, AtPool, PlaceInv

\* What the queue holds after a completion was posted, and after one was taken.
LEMMA PostedQueue ==
  ASSUME TypeOK, NEW d \in Requests, queue' = Append(queue, d)
  PROVE  /\ \A c \in Requests : InQueue(c)' <=> InQueue(c) \/ c = d
         /\ Len(queue') = Len(queue) + 1 /\ queue'[Len(queue) + 1] = d
         /\ \A i \in 1..Len(queue) : queue'[i] = queue[i]
  BY DEF TypeOK, InQueue

\* The head of the queue is a request, and stands in it once.
LEMMA TakenQueue ==
  ASSUME TypeOK, queue # << >>, queue' = Tail(queue), PlaceInv
  PROVE  /\ Head(queue) \in Requests /\ InQueue(Head(queue))
         /\ \A c \in Requests : c = Head(queue) => ~InQueue(c)'
         /\ \A c \in Requests : InQueue(c) <=> InQueue(c)' \/ c = Head(queue)
         /\ \A i, j \in 1..Len(queue') : queue'[i] = queue'[j] => i = j
  <1>1. /\ Len(queue) \in Nat \ {0} /\ Len(queue') = Len(queue) - 1 /\ Head(queue) = queue[1]
        /\ \A i \in 1..Len(queue') : queue'[i] = queue[i + 1]
        /\ \A i \in 1..Len(queue) : queue[i] \in Requests
    BY DEF TypeOK
  <1>2. \A i, j \in 1..Len(queue) : queue[i] = queue[j] => i = j
    BY DEF PlaceInv
  <1>3. \A i \in 1..Len(queue') : i + 1 \in 1..Len(queue)
    BY <1>1
  <1>4. \A i \in 1..Len(queue) : i = 1 \/ (i - 1 \in 1..Len(queue') /\ queue'[i - 1] = queue[i])
    <2> TAKE i \in 1..Len(queue)
    <2>1. CASE i # 1
      <3>1. i - 1 \in 1..Len(queue') /\ (i - 1) + 1 = i
        BY <1>1, <2>1
      <3> QED
        BY <1>1, <3>1
    <2> QED
      BY <2>1
  <1>5. \A i, j \in 1..Len(queue') : queue'[i] = queue'[j] => i = j
    <2> TAKE i, j \in 1..Len(queue')
    <2> HAVE queue'[i] = queue'[j]
    <2>1. queue[i + 1] = queue[j + 1]
      BY <1>1
    <2>2. i + 1 = j + 1
      BY <1>2, <1>3, <2>1
    <2> QED
      BY <2>2
  <1>6. 1 \in 1..Len(queue)
    BY <1>1
  <1>7. ASSUME NEW c \in Requests, c = Head(queue), InQueue(c)' PROVE FALSE
    <2> PICK i \in 1..Len(queue') : queue'[i] = queue[1]
      BY <1>1, <1>7 DEF InQueue
    <2>1. i + 1 = 1
      BY <1>1, <1>2, <1>3, <1>6
    <2> QED
      BY <2>1
  <1>8. \A c \in Requests : InQueue(c) <=> InQueue(c)' \/ c = Head(queue)
    BY <1>1, <1>3, <1>4, <1>6 DEF InQueue
  <1> QED
    BY <1>1, <1>5, <1>6, <1>7, <1>8 DEF InQueue

\* What a thread has in its hands after it went on.
LEMMA MovedThread ==
  ASSUME TypeOK, TypeOK', PlaceInv, NEW w \in Workers, NEW state \in WorkerStates,
         worker' = [worker EXCEPT ![w] = state],
         state.at # "idle" => worker[w].at = "idle" \/ state.call = worker[w].call
  PROVE  \A c \in Requests, at \in {"get", "set"} :
           AtPool(c, at)' <=> \/ state.at = at /\ state.call = c
                              \/ AtPool(c, at) /\ (worker[w].at # "idle" => c # worker[w].call)
  <1> SUFFICES ASSUME NEW c \in Requests, NEW at \in {"get", "set"}
               PROVE  AtPool(c, at)' <=> \/ state.at = at /\ state.call = c
                                         \/ AtPool(c, at) /\ (worker[w].at # "idle" => c # worker[w].call)
    OBVIOUS
  <1>1. worker'[w] = state /\ \A v \in Workers \ {w} : worker'[v] = worker[v]
    BY DEF TypeOK
  <1>2. \A v \in Workers \ {w} : worker[v].at = at /\ worker[v].call = c /\ worker[w].at # "idle"
          => c # worker[w].call
    BY DEF PlaceInv
  <1> QED
    BY <1>1, <1>2 DEF AtPool

\* Every step keeps each completion in one place.
LEMMA NextPlaceInv ==
  ASSUME TypeOK, TypeOK', PoolInv, [Next]_vars
  PROVE  PlaceInv'
  <1> PlaceInv
    BY DEF PoolInv
  <1>1. CASE UNCHANGED << queue, worker >>
    BY <1>1, StillPool
  <1>2. ASSUME NEW d \in Requests, pc[d] = "post", queue' = Append(queue, d), UNCHANGED worker
        PROVE  PlaceInv'
    <2>1. \A i \in 1..Len(queue) : queue[i] # d
      BY <1>2 DEF PoolInv, Handed, InQueue
    <2>2. \A w \in Workers : worker[w].at # "idle" => worker[w].call # d
      BY <1>2 DEF PoolInv, Handed, AtPool, TypeOK, WorkerStates
    <2>3. /\ \A c \in Requests : InQueue(c)' <=> InQueue(c) \/ c = d
          /\ Len(queue') = Len(queue) + 1 /\ queue'[Len(queue) + 1] = d
          /\ \A i \in 1..Len(queue) : queue'[i] = queue[i]
      BY <1>2, PostedQueue
    <2>4. \A i \in 1..Len(queue') : i \in 1..Len(queue) \/ i = Len(queue) + 1
      BY <2>3 DEF TypeOK
    <2>5. \A i, j \in 1..Len(queue') : queue'[i] = queue'[j] => i = j
      BY <2>1, <2>3, <2>4 DEF PlaceInv
    <2>6. \A w \in Workers, c \in Requests : worker'[w].at # "idle" /\ worker'[w].call = c => ~InQueue(c)'
      BY <1>2, <2>2, <2>3 DEF PlaceInv
    <2>7. \A v, w \in Workers :
            worker'[v].at # "idle" /\ worker'[w].at # "idle" /\ worker'[v].call = worker'[w].call => v = w
      BY <1>2 DEF PlaceInv
    <2> QED
      BY <2>5, <2>6, <2>7 DEF PlaceInv
  <1>3. ASSUME NEW w \in Workers, TakeCompletion(w) PROVE PlaceInv'
    <2>1. /\ worker[w].at = "idle" /\ queue # << >> /\ queue' = Tail(queue)
          /\ worker' = [worker EXCEPT ![w] = [at |-> "get", call |-> Head(queue)]]
      BY <1>3 DEF TakeCompletion
    <2>2. /\ Head(queue) \in Requests /\ InQueue(Head(queue))
          /\ \A c \in Requests : c = Head(queue) => ~InQueue(c)'
          /\ \A c \in Requests : InQueue(c) <=> InQueue(c)' \/ c = Head(queue)
          /\ \A i, j \in 1..Len(queue') : queue'[i] = queue'[j] => i = j
      BY <2>1, TakenQueue
    <2>3. worker'[w].call = Head(queue) /\ \A v \in Workers \ {w} : worker'[v] = worker[v]
      BY <2>1 DEF TypeOK
    <2>4. \A v \in Workers, c \in Requests : worker'[v].at # "idle" /\ worker'[v].call = c => ~InQueue(c)'
      <3> TAKE v \in Workers, c \in Requests
      <3>1. CASE v = w
        BY <2>2, <2>3, <3>1
      <3>2. CASE v # w
        BY <2>2, <2>3, <3>2 DEF PlaceInv
      <3> QED
        BY <3>1, <3>2
    <2>5. \A v \in Workers \ {w} : worker[v].at # "idle" => worker[v].call # Head(queue)
      BY <2>2 DEF PlaceInv
    <2>6. \A u, v \in Workers :
            worker'[u].at # "idle" /\ worker'[v].at # "idle" /\ worker'[u].call = worker'[v].call => u = v
      BY <2>3, <2>5 DEF PlaceInv
    <2> QED
      BY <2>2, <2>4, <2>6 DEF PlaceInv
  <1>4. ASSUME NEW w \in Workers, CompletionGet(w) \/ CompletionSet(w) PROVE PlaceInv'
    <2>1. /\ UNCHANGED queue
          /\ worker[w].at # "idle"
          /\ worker' = [worker EXCEPT ![w].at = "set"] \/ worker' = [worker EXCEPT ![w] = IdleWorker]
      BY <1>4 DEF CompletionGet, CompletionSet
    <2>2. \A v \in Workers : worker'[v].at # "idle" => worker[v].at # "idle" /\ worker'[v].call = worker[v].call
      <3>1. worker \in [Workers -> WorkerStates]
        BY DEF TypeOK
      <3>2. \A v \in Workers \ {w} : worker'[v] = worker[v]
        BY <2>1, <3>1
      <3>3. worker'[w] = IdleWorker \/ worker'[w] = [worker[w] EXCEPT !.at = "set"]
        BY <2>1, <3>1
      <3>4. worker'[w].at # "idle" => worker'[w].call = worker[w].call
        BY <3>1, <3>3 DEF IdleWorker, WorkerStates
      <3> QED
        BY <2>1, <3>2, <3>4
    <2>3. \A c \in Requests : InQueue(c)' <=> InQueue(c)
      BY <2>1 DEF InQueue
    <2> QED
      BY <2>1, <2>2, <2>3 DEF PlaceInv
  <1>5. CASE DeleteCompletionPool
    BY <1>5 DEF DeleteCompletionPool, PlaceInv, InQueue
  <1>6. ASSUME NEW d \in Requests, DispatcherStep(d) PROVE PlaceInv'
    <2>1. UNCHANGED worker /\ (UNCHANGED queue \/ (pc[d] = "post" /\ queue' = Append(queue, d)))
      BY <1>6 DEF DispatcherStep, DispatcherInside, DispatchRequest, RefuseInboundRequest, MarkInboundRequestActive,
                  CallHandler, ReadCompletionPool, PostCompletion, CompleteFailedRequest, ResolveFailedRequest,
                  DeliverResponse, pool
    <2> QED
      BY <1>1, <1>2, <2>1
  <1>7. ASSUME RegisterRequestHandler \/ UnregisterHandler \/ PeerStep \/ DestroyStep \/ UNCHANGED vars PROVE PlaceInv'
    <2>1. UNCHANGED << queue, worker >>
      BY <1>7 DEF RegisterRequestHandler, UnregisterHandler, PeerStep, DispatchCancelled, DestroyStep,
             DestroyTakeInbound, DestroyDropPool, DestroyMembers, DestroyResolveInbound, vars, pool
    <2> QED
      BY <1>1, <2>1
  <1>8. ASSUME NEW d \in Requests, HandlerFinishes(d) PROVE PlaceInv'
    BY <1>1, <1>8 DEF HandlerFinishes, pool
  <1>9. ASSUME NEW e \in Emitters, EmitterStep(e) PROVE PlaceInv'
    BY <1>1, <1>9 DEF EmitterStep, EmitProgress, SendProgress, pool
  <1>10. ASSUME PoolStep PROVE PlaceInv'
    BY <1>3, <1>4, <1>5, <1>10 DEF PoolStep
  <1> HIDE DEF PlaceInv
  <1> QED
    BY <1>6, <1>7, <1>8, <1>9, <1>10 DEF Next

\* A call is handed to the pool once.
LEMMA NextPoolInv ==
  ASSUME TypeOK, TypeOK', Inv, PoolInv, [Next]_vars
  PROVE  PoolInv'
  <1> PlaceInv /\ PlaceInv' /\ ClaimInv /\ HolderInv
    BY NextPlaceInv DEF PoolInv, Inv
  <1> USE DEF TypeOK, calls, pool, Goto, Resolve, PoolInv, Inside, Handed
  <1>0. UNCHANGED << queue, worker >> =>
          \A c \in Requests : Handed(c)' <=> Handed(c)
    BY StillPool
  <1>a. ASSUME UNCHANGED << pc, answer, queue, worker >> PROVE PoolInv'
    BY <1>0, <1>a
  <1>1. ASSUME RegisterRequestHandler PROVE PoolInv'
    BY <1>1, <1>a DEF RegisterRequestHandler
  <1>2. ASSUME UnregisterHandler PROVE PoolInv'
    BY <1>2, <1>a DEF UnregisterHandler
  <1>3. ASSUME NEW d \in Requests, DispatchRequest(d) PROVE PoolInv'
    <2>1. ~Handed(d) /\ UNCHANGED << queue, worker >>
      BY <1>3 DEF DispatchRequest
    <2>2. \A c \in Requests \ {d} : pc'[c] = pc[c] /\ answer'[c] = answer[c]
      BY <1>3 DEF DispatchRequest
    <2>3. pc'[d] \in {"waiting", "mark"}
      BY <1>3 DEF DispatchRequest
    <2> QED
      BY <1>0, <2>1, <2>2, <2>3
  <1>4. ASSUME NEW d \in Requests, RefuseInboundRequest(d) PROVE PoolInv'
    BY <1>4, <1>0 DEF RefuseInboundRequest, ClaimInv
  <1>5. ASSUME NEW d \in Requests, MarkInboundRequestActive(d) PROVE PoolInv'
    BY <1>5, <1>0 DEF MarkInboundRequestActive, ClaimInv
  <1>6. ASSUME NEW d \in Requests, CallHandler(d) PROVE PoolInv'
    BY <1>6, <1>0 DEF CallHandler
  <1>7. ASSUME NEW d \in Requests, ReadCompletionPool(d) PROVE PoolInv'
    BY <1>7, <1>0 DEF ReadCompletionPool
  <1>8. ASSUME NEW d \in Requests, PostCompletion(d) PROVE PoolInv'
    <2>1. \A c \in Requests : Handed(c)' => Handed(c) \/ (c = d /\ pc'[d] = "waiting")
      <3>1. CASE queue' = Append(queue, d)
        BY <1>8, <3>1, PostedQueue DEF PostCompletion, AtPool
      <3>2. CASE queue' = queue
        BY <1>8, <3>2, <1>0 DEF PostCompletion
      <3> QED
        BY <1>8, <3>1, <3>2 DEF PostCompletion
    <2> QED
      BY <1>8, <2>1 DEF PostCompletion
  <1>9. ASSUME NEW d \in Requests, CompleteFailedRequest(d) PROVE PoolInv'
    BY <1>9, <1>0 DEF CompleteFailedRequest
  <1>10. ASSUME NEW d \in Requests, ResolveFailedRequest(d) PROVE PoolInv'
    BY <1>10, <1>0 DEF ResolveFailedRequest
  <1>11. ASSUME NEW d \in Requests, DeliverResponse(d) PROVE PoolInv'
    BY <1>11, <1>0 DEF DeliverResponse
  <1>12. ASSUME NEW d \in Requests, HandlerFinishes(d) PROVE PoolInv'
    BY <1>12, <1>a DEF HandlerFinishes
  <1>13. ASSUME NEW w \in Workers, TakeCompletion(w) PROVE PoolInv'
    <2>1. /\ Head(queue) \in Requests /\ InQueue(Head(queue))
          /\ \A c \in Requests : InQueue(c) <=> InQueue(c)' \/ c = Head(queue)
      BY <1>13, TakenQueue DEF TakeCompletion
    <2>2. [at |-> "get", call |-> Head(queue)] \in WorkerStates
      BY <2>1 DEF WorkerStates
    <2>3. \A c \in Requests, at \in {"get", "set"} : AtPool(c, at)' => AtPool(c, at) \/ c = Head(queue)
      <3> DEFINE state == [at |-> "get", call |-> Head(queue)]
      <3>1. worker' = [worker EXCEPT ![w] = state] /\ worker[w].at = "idle" /\ state \in WorkerStates
        BY <1>13, <2>2 DEF TakeCompletion
      <3>2. state.call = Head(queue)
        OBVIOUS
      <3> HIDE DEF state, TypeOK
      <3> QED
        BY <3>1, <3>2, MovedThread
    <2>4. \A c \in Requests : Handed(c)' => Handed(c)
      BY <2>1, <2>3
    <2> QED
      BY <1>13, <2>4 DEF TakeCompletion
  <1>14. ASSUME NEW w \in Workers, CompletionGet(w) PROVE PoolInv'
    <2>1. \A c \in Requests : Handed(c)' => Handed(c)
      BY <1>14 DEF CompletionGet, InQueue, AtPool
    <2> QED
      BY <1>14, <2>1 DEF CompletionGet
  <1>15. ASSUME NEW w \in Workers, CompletionSet(w) PROVE PoolInv'
    <2>1. worker[w].call \in Requests /\ worker[w].at = "set"
      BY <1>15 DEF CompletionSet
    <2>2. \A c \in Requests : Handed(c)' => Handed(c) /\ c # worker[w].call
      <3>1. IdleWorker \in WorkerStates /\ IdleWorker.at = "idle"
        BY DEF IdleWorker, WorkerStates
      <3>2. \A c \in Requests : InQueue(c)' <=> InQueue(c)
        BY <1>15 DEF CompletionSet, InQueue
      <3>3. worker' = [worker EXCEPT ![w] = IdleWorker]
        BY <1>15 DEF CompletionSet
      <3>4. \A c \in Requests, at \in {"get", "set"} : AtPool(c, at)' => AtPool(c, at) /\ c # worker[w].call
        <4> HIDE DEF TypeOK, PoolInv
        <4> QED
          BY <2>1, <3>1, <3>3, MovedThread
      <3>5. ~InQueue(worker[w].call)
        BY <2>1 DEF PlaceInv
      <3> QED
        BY <3>2, <3>4, <3>5
    <2>3. Handed(worker[w].call)
      BY <2>1 DEF AtPool
    <2> QED
      BY <1>15, <2>1, <2>2, <2>3 DEF CompletionSet
  <1>16. ASSUME DeleteCompletionPool PROVE PoolInv'
    <2>1. \A c \in Requests : Handed(c)' => Handed(c)
      BY <1>16 DEF DeleteCompletionPool, InQueue, AtPool
    <2> QED
      BY <1>16, <2>1 DEF DeleteCompletionPool
  <1>17. ASSUME NEW k \in Keys, DispatchCancelled(k) PROVE PoolInv'
    BY <1>17, <1>a DEF DispatchCancelled
  <1>18. ASSUME NEW e \in Emitters, NEW tk \in TokenKeys, NEW value \in 1..MaxProgress, EmitProgress(e, tk, value) PROVE PoolInv'
    BY <1>18, <1>a DEF EmitProgress
  <1>19. ASSUME NEW e \in Emitters, SendProgress(e) PROVE PoolInv'
    BY <1>19, <1>a DEF SendProgress
  <1>20. ASSUME DestroyTakeInbound PROVE PoolInv'
    BY <1>20, <1>a DEF DestroyTakeInbound
  <1>21. ASSUME NEW d \in Requests, DestroyResolveInbound(d) PROVE PoolInv'
    <2>1. UNCHANGED << pc, queue, worker >> /\ \A c \in Requests : answer'[c] \in {answer[c], "shutdown"}
      BY <1>21 DEF DestroyResolveInbound
    <2>2. \A c \in Requests : answer[c] \in {"none", "shutdown"} => answer'[c] \in {"none", "shutdown"}
      BY <2>1
    <2> QED
      BY <1>0, <2>1, <2>2
  <1>22. ASSUME DestroyDropPool PROVE PoolInv'
    BY <1>22, <1>a DEF DestroyDropPool
  <1>23. ASSUME DestroyMembers PROVE PoolInv'
    BY <1>23, <1>a DEF DestroyMembers
  <1>24. CASE UNCHANGED vars
    BY <1>24, <1>a DEF vars
  <1> HIDE DEF PoolInv, TypeOK
  <1>25. QED
    BY <1>1, <1>2, <1>3, <1>4, <1>5, <1>6, <1>7, <1>8, <1>9, <1>10, <1>11, <1>12, <1>13, <1>14, <1>15, <1>16, <1>17, <1>18, <1>19, <1>20, <1>21, <1>22, <1>23, <1>24
       DEF Next, DispatcherStep, DispatcherInside, PoolStep, PeerStep, EmitterStep, DestroyStep

\* A call stays owed as long as it stands still, does not leave the pool and is not dropped
\* from the tables; an answered call is owed nothing.
LEMMA StaysOwed ==
  ASSUME NEW c \in Requests, Owed(c), req' = req, pc'[c] = pc[c], answer'[c] = answer[c],
         Handed(c) => Handed(c)', InQueue(c)' \/ AtPool(c, "get")' => InQueue(c) \/ AtPool(c, "get"),
         c \in taken => c \in taken',
         answer[c] = "none" /\ Pending(c) /\ inboundRequests[KeyOf(c)] = c =>
           inboundRequests'[KeyOf(c)] = c \/ c \in taken'
  PROVE  Owed(c)'
  <1>1. Pending(c)' => Pending(c)
    BY DEF Pending, Inside
  <1>2. KeyOf(c)' = KeyOf(c)
    BY DEF KeyOf
  <1> HIDE DEF Pending, Handed
  <1> QED
    BY <1>1, <1>2, Zenon DEF Owed

\* Nothing is owed to a call that is answered.
LEMMA AnsweredIsPaid ==
  ASSUME NEW c \in Requests, answer'[c] # "none"
  PROVE  Owed(c)'
  BY DEF Owed

\* A call that the pool or its dispatcher still works on shares its key with no other pending call,
\* so completing it takes only its own entry out of the tables.
LEMMA OwnEntryOnly ==
  ASSUME TypeOK, Inv, PoolInv, NEW c \in Requests, NEW d \in Requests, c # d,
         CompleteInboundRequest(d), Handed(d) \/ Inside(d), answer[c] = "none", Pending(c)
  PROVE  inboundRequests'[KeyOf(c)] = inboundRequests[KeyOf(c)]
  <1>1. Claimed(c) /\ Claimed(d)
    BY DEF PoolInv, Pending, Handed, Inside, Claimed
  <1>2. KeyOf(c) # KeyOf(d)
    BY <1>1 DEF Inv, ClaimInv
  <1>3. KeyOf(c) \in Keys /\ KeyOf(d) \in Keys
    BY KeyInKeys
  <1> QED
    BY <1>2, <1>3 DEF CompleteInboundRequest, TypeOK

\* Every step keeps the account of who owes an answer to whom.
LEMMA NextDebtInv ==
  ASSUME TypeOK, TypeOK', Inv, PoolInv, DebtInv, [Next]_vars
  PROVE  DebtInv'
  <1> PlaceInv /\ (\A c \in Requests : Owed(c))
    BY DEF PoolInv, DebtInv
  <1>a. ASSUME \A c \in Requests : Owed(c)', UNCHANGED << completionPool, taken, dtor >> PROVE DebtInv'
    BY <1>a DEF DebtInv
  <1>b. ASSUME UNCHANGED << queue, worker >>
        PROVE  \A c \in Requests : /\ Handed(c)' <=> Handed(c)
                                   /\ InQueue(c)' \/ AtPool(c, "get")' <=> InQueue(c) \/ AtPool(c, "get")
    BY <1>b, StillPool DEF Handed
  <1>c. ASSUME UNCHANGED << req, pc, answer, queue, worker, taken, inboundRequests >>
        PROVE  \A c \in Requests : Owed(c)'
    BY <1>b, <1>c, StaysOwed
  <1>1. ASSUME RegisterRequestHandler PROVE DebtInv'
    BY <1>1, <1>a, <1>c DEF RegisterRequestHandler, calls, tables, pool
  <1>2. ASSUME UnregisterHandler PROVE DebtInv'
    BY <1>2, <1>a, <1>c DEF UnregisterHandler, calls, tables, pool
  <1>3. ASSUME NEW d \in Requests, DispatchRequest(d) PROVE DebtInv'
    <2>1. UNCHANGED << req, queue, worker, taken, inboundRequests >>
      BY <1>3 DEF DispatchRequest, tables, pool
    <2>2. /\ \A c \in Requests \ {d} : pc'[c] = pc[c] /\ answer'[c] = answer[c]
          /\ answer'[d] # "none" \/ (pc'[d] = "mark" /\ pc[d] = "idle")
      BY <1>3 DEF DispatchRequest, TypeOK, Goto, Resolve, Inv, ClaimInv
    <2>3. \A c \in Requests \ {d} : Owed(c)'
      BY <1>b, <2>1, <2>2, StaysOwed
    <2>4. Owed(d)'
      <3>1. pc[d] = "idle"
        BY <1>3 DEF DispatchRequest
      <3> QED
        BY <1>b, <2>1, <2>2, <3>1 DEF Owed, PoolInv, Pending, Inside, Handed
    <2> QED
      BY <1>3, <2>3, <2>4, <1>a DEF DispatchRequest, pool
  <1>4. ASSUME NEW d \in Requests, RefuseInboundRequest(d) PROVE DebtInv'
    <2>1. UNCHANGED << req, queue, worker, taken, inboundRequests >>
      BY <1>4 DEF RefuseInboundRequest, tables, pool
    <2>2. /\ \A c \in Requests \ {d} : pc'[c] = pc[c] /\ answer'[c] = answer[c]
          /\ answer'[d] # "none"
      BY <1>4 DEF RefuseInboundRequest, TypeOK, Goto, Resolve, Inv, ClaimInv
    <2>3. \A c \in Requests \ {d} : Owed(c)'
      BY <1>b, <2>1, <2>2, StaysOwed
    <2>4. Owed(d)'
      BY <2>2, AnsweredIsPaid
    <2> QED
      BY <1>4, <2>3, <2>4, <1>a DEF RefuseInboundRequest, pool
  <1>5. ASSUME NEW d \in Requests, MarkInboundRequestActive(d) PROVE DebtInv'
    <2>1. UNCHANGED << req, queue, worker, taken, answer >> /\ pc'[d] = "handler"
      BY <1>5 DEF MarkInboundRequestActive, calls, pool, Goto, TypeOK
    <2>2. KeyOf(d) \in Keys /\ inboundRequests[KeyOf(d)] = NoRequest
      BY <1>5, MarkedKeyIsFree
    <2>3. inboundRequests' = [inboundRequests EXCEPT ![KeyOf(d)] = d]
      BY <1>5 DEF MarkInboundRequestActive
    <2>4. \A c \in Requests \ {d} : pc'[c] = pc[c]
      BY <1>5 DEF MarkInboundRequestActive, Goto, TypeOK
    <2>5. \A c \in Requests \ {d} : Owed(c)'
      <3> TAKE c \in Requests \ {d}
      <3>1. inboundRequests[KeyOf(c)] = c => inboundRequests'[KeyOf(c)] = c
        BY <2>2, <2>3, KeyInKeys, InboundAssumption DEF TypeOK
      <3> QED
        BY <1>b, <2>1, <2>4, <3>1, StaysOwed
    <2>6. Owed(d)'
      <3>1. inboundRequests'[KeyOf(d)] = d /\ KeyOf(d)' = KeyOf(d)
        BY <2>1, <2>2, <2>3 DEF TypeOK, KeyOf
      <3> QED
        BY <2>1, <3>1 DEF Owed
    <2> QED
      BY <1>5, <2>5, <2>6, <1>a DEF MarkInboundRequestActive, pool
  <1>6. ASSUME NEW d \in Requests, CallHandler(d) PROVE DebtInv'
    <2>1. UNCHANGED << req, queue, worker, taken, inboundRequests >>
      BY <1>6 DEF CallHandler, tables, pool
    <2>2. /\ \A c \in Requests \ {d} : pc'[c] = pc[c] /\ answer'[c] = answer[c]
          /\ pc[d] = "handler" /\ pc'[d] \in {"pool", "complete"} /\ answer'[d] = answer[d]
      BY <1>6 DEF CallHandler, TypeOK, Goto, Resolve, Inv, ClaimInv
    <2>3. \A c \in Requests \ {d} : Owed(c)'
      BY <1>b, <2>1, <2>2, StaysOwed
    <2>4. Owed(d)'
      <3>1. Pending(d) /\ KeyOf(d)' = KeyOf(d)
        BY <2>1, <2>2 DEF Pending, Inside, KeyOf
      <3> QED
        BY <2>1, <2>2, <3>1 DEF Owed
    <2> QED
      BY <1>6, <2>3, <2>4, <1>a DEF CallHandler, pool
  <1>7. ASSUME NEW d \in Requests, ReadCompletionPool(d) PROVE DebtInv'
    <2>1. UNCHANGED << req, queue, worker, taken, inboundRequests >>
      BY <1>7 DEF ReadCompletionPool, tables, pool
    <2>2. /\ \A c \in Requests \ {d} : pc'[c] = pc[c] /\ answer'[c] = answer[c]
          /\ pc[d] = "pool" /\ pc'[d] \in {"post", "complete"} /\ answer'[d] = answer[d]
      BY <1>7 DEF ReadCompletionPool, TypeOK, Goto, Resolve, Inv, ClaimInv
    <2>3. \A c \in Requests \ {d} : Owed(c)'
      BY <1>b, <2>1, <2>2, StaysOwed
    <2>4. Owed(d)'
      <3>1. Pending(d) /\ KeyOf(d)' = KeyOf(d)
        BY <2>1, <2>2 DEF Pending, Inside, KeyOf
      <3> QED
        BY <2>1, <2>2, <3>1 DEF Owed
    <2> QED
      BY <1>7, <2>3, <2>4, <1>a DEF ReadCompletionPool, pool
  <1>8. ASSUME NEW d \in Requests, PostCompletion(d) PROVE DebtInv'
    <2>1. UNCHANGED << req, worker, taken, inboundRequests, answer >> /\ pc[d] = "post"
      BY <1>8 DEF PostCompletion, tables
    <2>2. \A c \in Requests \ {d} : pc'[c] = pc[c]
      BY <1>8 DEF PostCompletion, Goto, TypeOK
    <2>3. Pending(d) /\ KeyOf(d)' = KeyOf(d)
      BY <2>1 DEF Pending, Inside, KeyOf
    <2>4. CASE pc'[d] = "waiting" /\ queue' = Append(queue, d)
      <3>1. \A c \in Requests : InQueue(c)' <=> InQueue(c) \/ c = d
        BY <2>4, PostedQueue
      <3>2. \A c \in Requests : (AtPool(c, "get")' <=> AtPool(c, "get")) /\ (AtPool(c, "set")' <=> AtPool(c, "set"))
        BY <2>1 DEF AtPool
      <3>3. \A c \in Requests \ {d} : Owed(c)'
        BY <2>1, <2>2, <3>1, <3>2, StaysOwed DEF Handed
      <3>4. Owed(d)'
        BY <2>1, <2>3, <2>4, <3>1 DEF Owed, Handed
      <3> QED
        BY <1>8, <3>3, <3>4, <1>a DEF PostCompletion, pool
    <2>5. CASE pc'[d] = "complete" /\ queue' = queue
      <3>1. \A c \in Requests \ {d} : Owed(c)'
        BY <1>b, <2>1, <2>2, <2>5, StaysOwed
      <3>2. Owed(d)'
        BY <2>1, <2>3, <2>5 DEF Owed
      <3> QED
        BY <1>8, <3>1, <3>2, <1>a DEF PostCompletion, pool
    <2> QED
      BY <1>8, <2>4, <2>5 DEF PostCompletion, Goto, TypeOK
  <1>9. ASSUME NEW d \in Requests, CompleteFailedRequest(d) PROVE DebtInv'
    <2>1. /\ UNCHANGED << req, queue, worker, taken, answer >>
          /\ pc[d] = "complete" /\ pc'[d] = "fail" /\ CompleteInboundRequest(d)
      BY <1>9 DEF CompleteFailedRequest, pool, Goto, TypeOK
    <2>2. \A c \in Requests \ {d} : pc'[c] = pc[c]
      BY <1>9 DEF CompleteFailedRequest, Goto, TypeOK
    <2>3. \A c \in Requests \ {d} : Owed(c)'
      <3> TAKE c \in Requests \ {d}
      <3>1. answer[c] = "none" /\ Pending(c) => inboundRequests'[KeyOf(c)] = inboundRequests[KeyOf(c)]
        BY <2>1, OwnEntryOnly DEF Inside
      <3> QED
        BY <1>b, <2>1, <2>2, <3>1, StaysOwed
    <2>4. ~Handed(d)' /\ ~Pending(d)'
      BY <1>b, <2>1 DEF PoolInv, Pending, Inside, Handed
    <2>5. Owed(d)'
      BY <2>1, <2>4 DEF Owed
    <2> QED
      BY <1>9, <2>3, <2>5, <1>a DEF CompleteFailedRequest, pool
  <1>10. ASSUME NEW d \in Requests, ResolveFailedRequest(d) PROVE DebtInv'
    <2>1. UNCHANGED << req, queue, worker, taken, inboundRequests >>
      BY <1>10 DEF ResolveFailedRequest, tables, pool
    <2>2. /\ \A c \in Requests \ {d} : pc'[c] = pc[c] /\ answer'[c] = answer[c]
          /\ answer'[d] # "none"
      BY <1>10 DEF ResolveFailedRequest, TypeOK, Goto, Resolve, Inv, ClaimInv
    <2>3. \A c \in Requests \ {d} : Owed(c)'
      BY <1>b, <2>1, <2>2, StaysOwed
    <2>4. Owed(d)'
      BY <2>2, AnsweredIsPaid
    <2> QED
      BY <1>10, <2>3, <2>4, <1>a DEF ResolveFailedRequest, pool
  <1>11. ASSUME NEW d \in Requests, DeliverResponse(d) PROVE DebtInv'
    <2>1. UNCHANGED << req, queue, worker, taken, inboundRequests >>
      BY <1>11 DEF DeliverResponse, tables, pool
    <2>2. /\ \A c \in Requests \ {d} : pc'[c] = pc[c] /\ answer'[c] = answer[c]
          /\ answer'[d] # "none"
      BY <1>11 DEF DeliverResponse, TypeOK, Goto, Resolve, Inv, ClaimInv
    <2>3. \A c \in Requests \ {d} : Owed(c)'
      BY <1>b, <2>1, <2>2, StaysOwed
    <2>4. Owed(d)'
      BY <2>2, AnsweredIsPaid
    <2> QED
      BY <1>11, <2>3, <2>4, <1>a DEF DeliverResponse, pool
  <1>12. ASSUME NEW d \in Requests, HandlerFinishes(d) PROVE DebtInv'
    BY <1>12, <1>a, <1>c DEF HandlerFinishes, calls, tables, pool
  <1>13. ASSUME NEW w \in Workers, TakeCompletion(w) PROVE DebtInv'
    <2> DEFINE state == [at |-> "get", call |-> Head(queue)]
    <2>1. /\ Head(queue) \in Requests
          /\ \A c \in Requests : InQueue(c) <=> InQueue(c)' \/ c = Head(queue)
      BY <1>13, TakenQueue DEF TakeCompletion
    <2>2. /\ worker' = [worker EXCEPT ![w] = state] /\ worker[w].at = "idle"
          /\ state \in WorkerStates /\ state.at = "get" /\ state.call = Head(queue)
      BY <1>13, <2>1 DEF TakeCompletion, WorkerStates
    <2>3. \A c \in Requests, at \in {"get", "set"} :
            AtPool(c, at)' <=> (at = "get" /\ c = Head(queue)) \/ AtPool(c, at)
      <3> HIDE DEF state
      <3> QED
        BY <2>1, <2>2, MovedThread
    <2>4. UNCHANGED << req, pc, answer, taken, inboundRequests >>
      BY <1>13 DEF TakeCompletion, calls, tables
    <2>5. \A c \in Requests : Owed(c)'
      BY <2>1, <2>3, <2>4, StaysOwed DEF Handed
    <2> QED
      BY <1>13, <2>5, <1>a DEF TakeCompletion
  <1>14. ASSUME NEW w \in Workers, CompletionGet(w) PROVE DebtInv'
    <2> DEFINE d == worker[w].call
               state == [worker[w] EXCEPT !.at = "set"]
    <2>1. d \in Requests /\ worker[w].at = "get" /\ CompleteInboundRequest(d)
      BY <1>14 DEF CompletionGet, TypeOK
    <2>2. /\ worker' = [worker EXCEPT ![w] = state]
          /\ state \in WorkerStates /\ state.at = "set" /\ state.call = worker[w].call
      BY <1>14 DEF CompletionGet, WorkerStates, TypeOK
    <2>3. UNCHANGED << req, pc, answer, taken, queue >>
      BY <1>14 DEF CompletionGet, calls
    <2>4. \A c \in Requests, at \in {"get", "set"} :
            AtPool(c, at)' <=> (at = "set" /\ c = d) \/ (AtPool(c, at) /\ c # d)
      <3> HIDE DEF state
      <3>1. \A c \in Requests, at \in {"get", "set"} :
           AtPool(c, at)' <=> \/ state.at = at /\ state.call = c
                              \/ AtPool(c, at) /\ (worker[w].at # "idle" => c # worker[w].call)
        BY <2>2, MovedThread
      <3> QED
        BY <2>1, <2>2, <3>1
    <2>5. \A c \in Requests : InQueue(c)' <=> InQueue(c)
      BY <2>3 DEF InQueue
    <2>6. Handed(d) /\ ~InQueue(d)
      BY <2>1 DEF Handed, AtPool, PlaceInv
    <2> HIDE DEF d, state
    <2>7. \A c \in Requests \ {d} : Owed(c)'
      <3> TAKE c \in Requests \ {d}
      <3>1. answer[c] = "none" /\ Pending(c) => inboundRequests'[KeyOf(c)] = inboundRequests[KeyOf(c)]
        BY <2>1, <2>6, OwnEntryOnly
      <3>2. Handed(c)' <=> Handed(c)
        BY <2>4, <2>5 DEF Handed
      <3>3. InQueue(c)' \/ AtPool(c, "get")' => InQueue(c) \/ AtPool(c, "get")
        BY <2>4, <2>5
      <3> QED
        BY <2>3, <3>1, <3>2, <3>3, StaysOwed
    <2>8. \A c \in Requests : c = d => Owed(c)'
      <3> SUFFICES ASSUME NEW c \in Requests, c = d PROVE Owed(c)'
        OBVIOUS
      <3>1. AtPool(c, "set")' /\ ~AtPool(c, "get")' /\ ~InQueue(c)'
        BY <2>4, <2>5, <2>6
      <3>2. pc'[c] \in {"waiting", "delivered"}
        BY <2>3, <2>6 DEF PoolInv
      <3> QED
        BY <3>1, <3>2 DEF Owed, Handed, Pending, Inside
    <2> QED
      BY <1>14, <2>7, <2>8, <1>a DEF CompletionGet
  <1>15. ASSUME NEW w \in Workers, CompletionSet(w) PROVE DebtInv'
    <2> DEFINE d == worker[w].call
    <2>1. d \in Requests /\ worker[w].at = "set"
      BY <1>15 DEF CompletionSet, TypeOK
    <2>2. /\ worker' = [worker EXCEPT ![w] = IdleWorker]
          /\ IdleWorker \in WorkerStates /\ IdleWorker.at = "idle"
      BY <1>15 DEF CompletionSet, WorkerStates, IdleWorker
    <2>3. UNCHANGED << req, pc, taken, queue, inboundRequests >>
      BY <1>15 DEF CompletionSet, tables
    <2>4. \A c \in Requests, at \in {"get", "set"} : AtPool(c, at)' <=> AtPool(c, at) /\ c # d
      <3>1. \A c \in Requests, at \in {"get", "set"} :
           AtPool(c, at)' <=> \/ IdleWorker.at = at /\ IdleWorker.call = c
                              \/ AtPool(c, at) /\ (worker[w].at # "idle" => c # worker[w].call)
        BY <2>2, MovedThread
      <3> QED
        BY <2>1, <2>2, <3>1
    <2>5. \A c \in Requests : InQueue(c)' <=> InQueue(c)
      BY <2>3 DEF InQueue
    <2>6. (\A c \in Requests \ {d} : answer'[c] = answer[c]) /\ (\A c \in Requests : c = d => answer'[c] # "none")
      BY <1>15, <2>1 DEF CompletionSet, Resolve, TypeOK
    <2> HIDE DEF d
    <2>7. \A c \in Requests \ {d} : Owed(c)'
      BY <2>3, <2>4, <2>5, <2>6, StaysOwed DEF Handed
    <2>8. \A c \in Requests : c = d => Owed(c)'
      BY <2>6, AnsweredIsPaid
    <2> QED
      BY <1>15, <2>7, <2>8, <1>a DEF CompletionSet
  <1>16. ASSUME DeleteCompletionPool PROVE DebtInv'
    <2>1. /\ UNCHANGED << req, pc, answer, taken, worker, inboundRequests >>
          /\ queue' = << >> /\ completionPool = "null"
      BY <1>16 DEF DeleteCompletionPool, calls, tables
    <2>2. taken = {} /\ \A k \in Keys : inboundRequests[k] = NoRequest
      BY <2>1 DEF DebtInv, Inv, ActiveInv
    <2>3. \A c \in Requests : answer[c] = "none" => ~InQueue(c)
      BY <2>2, KeyInKeys, InboundAssumption DEF DebtInv, Owed, Pending
    <2>4. \A c \in Requests : ~InQueue(c)'
      BY <2>1 DEF InQueue
    <2>5. \A c \in Requests : (AtPool(c, "get")' <=> AtPool(c, "get")) /\ (AtPool(c, "set")' <=> AtPool(c, "set"))
      BY <2>1 DEF AtPool
    <2>6. \A c \in Requests : answer[c] = "none" => Owed(c)'
      BY <2>1, <2>3, <2>4, <2>5, StaysOwed DEF Handed
    <2>7. \A c \in Requests : answer[c] # "none" => Owed(c)'
      BY <2>1, AnsweredIsPaid
    <2> QED
      BY <1>16, <2>6, <2>7 DEF DeleteCompletionPool, DebtInv
  <1>17. ASSUME NEW k \in Keys, DispatchCancelled(k) PROVE DebtInv'
    BY <1>17, <1>a, <1>c DEF DispatchCancelled, calls, tables, pool
  <1>18. ASSUME NEW e \in Emitters, NEW tk \in TokenKeys, NEW value \in 1..MaxProgress, EmitProgress(e, tk, value) PROVE DebtInv'
    BY <1>18, <1>a, <1>c DEF EmitProgress, calls, tables, pool
  <1>19. ASSUME NEW e \in Emitters, SendProgress(e) PROVE DebtInv'
    BY <1>19, <1>a, <1>c DEF SendProgress, calls, tables, pool
  <1>20. ASSUME DestroyTakeInbound PROVE DebtInv'
    <2>1. /\ UNCHANGED << req, pc, answer, queue, worker, completionPool >> /\ dtor = "live" /\ dtor' = "resolving"
          /\ taken' = { inboundResponsePromises[k] : k \in Keys } \ {NoRequest}
      BY <1>20 DEF DestroyTakeInbound, calls, pool
    <2>2. taken = {} /\ \A k \in Keys : inboundRequests[k] = inboundResponsePromises[k]
      BY <2>1 DEF Inv, ActiveInv, InboundTablesAgree
    <2>3. \A c \in Requests : inboundRequests[KeyOf(c)] = c => c \in taken'
      BY <2>1, <2>2, KeyInKeys, InboundAssumption
    <2>4. \A c \in Requests : Owed(c)'
      BY <1>b, <2>1, <2>2, <2>3, StaysOwed
    <2> QED
      BY <2>1, <2>4 DEF DebtInv
  <1>21. ASSUME NEW d \in Requests, DestroyResolveInbound(d) PROVE DebtInv'
    <2>1. /\ UNCHANGED << req, pc, queue, worker, inboundRequests, completionPool, dtor >>
          /\ taken' = taken \ {d} /\ dtor = "resolving"
      BY <1>21 DEF DestroyResolveInbound, tables, pool
    <2>2. (\A c \in Requests \ {d} : answer'[c] = answer[c]) /\ answer'[d] # "none"
      BY <1>21 DEF DestroyResolveInbound, Resolve, TypeOK
    <2>3. \A c \in Requests \ {d} : Owed(c)'
      BY <1>b, <2>1, <2>2, StaysOwed
    <2>4. Owed(d)'
      BY <2>2, AnsweredIsPaid
    <2> QED
      BY <2>1, <2>3, <2>4 DEF DebtInv
  <1>22. ASSUME DestroyDropPool PROVE DebtInv'
    BY <1>22, <1>c DEF DestroyDropPool, calls, tables, pool, DebtInv
  <1>23. ASSUME DestroyMembers PROVE DebtInv'
    BY <1>23, <1>c DEF DestroyMembers, calls, tables, pool, DebtInv
  <1>24. CASE UNCHANGED vars
    BY <1>24, <1>a, <1>c DEF vars, calls, tables, pool
  <1>25. QED
    BY <1>1, <1>2, <1>3, <1>4, <1>5, <1>6, <1>7, <1>8, <1>9, <1>10, <1>11, <1>12, <1>13, <1>14, <1>15, <1>16, <1>17, <1>18, <1>19, <1>20, <1>21, <1>22, <1>23, <1>24
       DEF Next, DispatcherStep, DispatcherInside, PoolStep, PeerStep, EmitterStep, DestroyStep

\* A constructed router owes nothing.
LEMMA InitDebt == Init => PoolInv /\ DebtInv
  <1> SUFFICES ASSUME Init PROVE PoolInv /\ DebtInv
    OBVIOUS
  <1>1. /\ pc = [d \in Requests |-> "idle"] /\ answer = [d \in Requests |-> "none"]
        /\ queue = << >> /\ worker = [w \in Workers |-> IdleWorker]
        /\ completionPool = "set" /\ dtor = "live"
    BY DEF Init
  <1>2. (\A c \in Requests : ~InQueue(c)) /\ (\A w \in Workers : worker[w].at = "idle")
    BY <1>1 DEF InQueue, IdleWorker
  <1>3. \A c \in Requests : ~AtPool(c, "get") /\ ~AtPool(c, "set")
    BY <1>2 DEF AtPool
  <1>4. \A c \in Requests : ~Handed(c) /\ ~Inside(c) /\ ~Pending(c)
    BY <1>1, <1>2, <1>3 DEF Handed, Inside, Pending
  <1>5. PlaceInv
    BY <1>1, <1>2 DEF PlaceInv
  <1>6. \A c \in Requests : Owed(c)
    BY <1>1, <1>4 DEF Owed
  <1> QED
    BY <1>1, <1>4, <1>5, <1>6 DEF PoolInv, DebtInv

\* The account of owed answers is an invariant of the router.
THEOREM DebtHolds == Spec => [](PoolInv /\ DebtInv)
  <1>1. TypeOK /\ TypeOK' /\ Inv /\ PoolInv /\ DebtInv /\ [Next]_vars => PoolInv' /\ DebtInv'
    BY NextPoolInv, NextDebtInv
  <1>2. QED
    BY InitDebt, TypeCorrect, InvHolds, <1>1, PTL DEF Spec

\* A runner that waits for a response is always owed one: by a pool thread, by ~Router, or, until
\* ~Router has returned, by the queue or a handler; nobody's promise is dropped in between.
THEOREM WaitersAreOwed == Spec => []WaitingIsOwed
  <1>1. TypeOK /\ Inv /\ DebtInv => WaitingIsOwed
    <2> SUFFICES ASSUME TypeOK, Inv, DebtInv, NEW d \in Requests, pc[d] = "waiting", answer[d] = "none"
                 PROVE  \/ \E w \in Workers : worker[w] = [at |-> "set", call |-> d]
                        \/ d \in taken
                        \/ /\ dtor # "gone"
                           /\ \/ \E w \in Workers : worker[w] = [at |-> "get", call |-> d]
                              \/ \E i \in 1..Len(queue) : queue[i] = d
      BY DEF WaitingIsOwed
    <2>1. Handed(d) \/ d \in taken
      BY DEF DebtInv, Owed
    <2>2. \A w \in Workers : worker[w] = [at |-> worker[w].at, call |-> worker[w].call]
      BY DEF TypeOK, WorkerStates
    <2>3. AtPool(d, "set") => \E w \in Workers : worker[w] = [at |-> "set", call |-> d]
      BY <2>2 DEF AtPool
    <2>4. AtPool(d, "get") => \E w \in Workers : worker[w] = [at |-> "get", call |-> d]
      BY <2>2 DEF AtPool
    <2>5. ASSUME InQueue(d) \/ AtPool(d, "get"), d \notin taken PROVE dtor # "gone"
      <3>1. inboundRequests[KeyOf(d)] = d /\ KeyOf(d) \in Keys
        BY <2>5, KeyInKeys DEF DebtInv, Owed, Pending
      <3> QED
        BY <3>1, InboundAssumption DEF Inv, ActiveInv
    <2> QED
      BY <2>1, <2>3, <2>4, <2>5 DEF Handed, InQueue
  <1>2. QED
    BY TypeCorrect, InvHolds, DebtHolds, <1>1, PTL

-----------------------------------------------------------------------------
(* Progress of requests that are over.                                     *)

\* Only the two halves of emitProgress move an emitting thread.
LEMMA EmitterSteps ==
  ASSUME [Next]_vars
  PROVE  \/ UNCHANGED << emitter, late >>
         \/ \E e \in Emitters, tk \in TokenKeys, value \in 1..MaxProgress : EmitProgress(e, tk, value)
         \/ \E e \in Emitters : SendProgress(e)
  <1> USE DEF progress
  <1>1. ASSUME RegisterRequestHandler PROVE UNCHANGED << emitter, late >>
    BY <1>1 DEF RegisterRequestHandler
  <1>2. ASSUME UnregisterHandler PROVE UNCHANGED << emitter, late >>
    BY <1>2 DEF UnregisterHandler
  <1>3. ASSUME NEW d \in Requests, DispatchRequest(d) PROVE UNCHANGED << emitter, late >>
    BY <1>3 DEF DispatchRequest
  <1>4. ASSUME NEW d \in Requests, RefuseInboundRequest(d) PROVE UNCHANGED << emitter, late >>
    BY <1>4 DEF RefuseInboundRequest
  <1>5. ASSUME NEW d \in Requests, MarkInboundRequestActive(d) PROVE UNCHANGED << emitter, late >>
    BY <1>5 DEF MarkInboundRequestActive
  <1>6. ASSUME NEW d \in Requests, CallHandler(d) PROVE UNCHANGED << emitter, late >>
    BY <1>6 DEF CallHandler
  <1>7. ASSUME NEW d \in Requests, ReadCompletionPool(d) PROVE UNCHANGED << emitter, late >>
    BY <1>7 DEF ReadCompletionPool
  <1>8. ASSUME NEW d \in Requests, PostCompletion(d) PROVE UNCHANGED << emitter, late >>
    BY <1>8 DEF PostCompletion
  <1>9. ASSUME NEW d \in Requests, CompleteFailedRequest(d) PROVE UNCHANGED << emitter, late >>
    BY <1>9 DEF CompleteFailedRequest
  <1>10. ASSUME NEW d \in Requests, ResolveFailedRequest(d) PROVE UNCHANGED << emitter, late >>
    BY <1>10 DEF ResolveFailedRequest
  <1>11. ASSUME NEW d \in Requests, DeliverResponse(d) PROVE UNCHANGED << emitter, late >>
    BY <1>11 DEF DeliverResponse
  <1>12. ASSUME NEW d \in Requests, HandlerFinishes(d) PROVE UNCHANGED << emitter, late >>
    BY <1>12 DEF HandlerFinishes
  <1>13. ASSUME NEW w \in Workers, TakeCompletion(w) PROVE UNCHANGED << emitter, late >>
    BY <1>13 DEF TakeCompletion
  <1>14. ASSUME NEW w \in Workers, CompletionGet(w) PROVE UNCHANGED << emitter, late >>
    BY <1>14 DEF CompletionGet
  <1>15. ASSUME NEW w \in Workers, CompletionSet(w) PROVE UNCHANGED << emitter, late >>
    BY <1>15 DEF CompletionSet
  <1>16. ASSUME DeleteCompletionPool PROVE UNCHANGED << emitter, late >>
    BY <1>16 DEF DeleteCompletionPool
  <1>17. ASSUME NEW k \in Keys, DispatchCancelled(k) PROVE UNCHANGED << emitter, late >>
    BY <1>17 DEF DispatchCancelled
  <1>20. ASSUME DestroyTakeInbound PROVE UNCHANGED << emitter, late >>
    BY <1>20 DEF DestroyTakeInbound
  <1>21. ASSUME NEW d \in Requests, DestroyResolveInbound(d) PROVE UNCHANGED << emitter, late >>
    BY <1>21 DEF DestroyResolveInbound
  <1>22. ASSUME DestroyDropPool PROVE UNCHANGED << emitter, late >>
    BY <1>22 DEF DestroyDropPool
  <1>23. ASSUME DestroyMembers PROVE UNCHANGED << emitter, late >>
    BY <1>23 DEF DestroyMembers
  <1>24. CASE UNCHANGED vars
    BY <1>24 DEF vars
  <1>25. QED
    BY <1>1, <1>2, <1>3, <1>4, <1>5, <1>6, <1>7, <1>8, <1>9, <1>10, <1>11, <1>12, <1>13, <1>14, <1>15, <1>16, <1>17, <1>20, <1>21, <1>22, <1>23, <1>24
       DEF Next, DispatcherStep, DispatcherInside, PoolStep, PeerStep, EmitterStep, DestroyStep

\* What is over stays over: a cancellation is never taken back, the first value of a promise stays,
\* and ~Router resolves what it took before it forgets it.
LEMMA OverStays ==
  ASSUME TypeOK, Inv, [Next]_vars, NEW c \in Requests, Over(c)
  PROVE  Over(c)'
  <1>a. ASSUME UNCHANGED << cancelled, answer, taken >> PROVE Over(c)'
    BY <1>a DEF Over
  <1>b. ASSUME NEW d \in Requests, NEW value \in Answers, Resolve(d, value),
               UNCHANGED << cancelled, taken >>
        PROVE  Over(c)'
    BY <1>b DEF Over, Resolve, TypeOK
  <1>1. ASSUME RegisterRequestHandler PROVE Over(c)'
    BY <1>1, <1>a DEF RegisterRequestHandler, calls, progress
  <1>2. ASSUME UnregisterHandler PROVE Over(c)'
    BY <1>2, <1>a DEF UnregisterHandler, calls, progress
  <1>3. ASSUME NEW d \in Requests, DispatchRequest(d) PROVE Over(c)'
    <2>1. CASE Resolve(d, "duplicate") \/ Resolve(d, "unknown")
      BY <1>3, <2>1, <1>b DEF DispatchRequest, progress, Answers
    <2>2. CASE UNCHANGED answer
      BY <1>3, <2>2, <1>a DEF DispatchRequest, progress
    <2>3. QED
      BY <1>3, <2>1, <2>2 DEF DispatchRequest
  <1>4. ASSUME NEW d \in Requests, RefuseInboundRequest(d) PROVE Over(c)'
    BY <1>4, <1>b DEF RefuseInboundRequest, progress, Answers
  <1>5. ASSUME NEW d \in Requests, MarkInboundRequestActive(d) PROVE Over(c)'
    BY <1>5, <1>a DEF MarkInboundRequestActive, calls, progress
  <1>6. ASSUME NEW d \in Requests, CallHandler(d) PROVE Over(c)'
    BY <1>6, <1>a DEF CallHandler, calls, progress
  <1>7. ASSUME NEW d \in Requests, ReadCompletionPool(d) PROVE Over(c)'
    BY <1>7, <1>a DEF ReadCompletionPool, calls, progress
  <1>8. ASSUME NEW d \in Requests, PostCompletion(d) PROVE Over(c)'
    BY <1>8, <1>a DEF PostCompletion, calls, progress
  <1>9. ASSUME NEW d \in Requests, CompleteFailedRequest(d) PROVE Over(c)'
    BY <1>9, <1>a DEF CompleteFailedRequest, calls, progress
  <1>10. ASSUME NEW d \in Requests, ResolveFailedRequest(d) PROVE Over(c)'
    BY <1>10, <1>b DEF ResolveFailedRequest, progress, Answers
  <1>11. ASSUME NEW d \in Requests, DeliverResponse(d) PROVE Over(c)'
    BY <1>11, <1>a DEF DeliverResponse, calls, progress
  <1>12. ASSUME NEW d \in Requests, HandlerFinishes(d) PROVE Over(c)'
    BY <1>12, <1>a DEF HandlerFinishes, calls, progress
  <1>13. ASSUME NEW w \in Workers, TakeCompletion(w) PROVE Over(c)'
    BY <1>13, <1>a DEF TakeCompletion, calls, progress
  <1>14. ASSUME NEW w \in Workers, CompletionGet(w) PROVE Over(c)'
    BY <1>14, <1>a DEF CompletionGet, calls, progress
  <1>15. ASSUME NEW w \in Workers, CompletionSet(w) PROVE Over(c)'
    <2>1. worker[w].call \in Requests
      BY <1>15 DEF CompletionSet, TypeOK
    <2>2. QED
      BY <1>15, <2>1, <1>b DEF CompletionSet, progress, Answers
  <1>16. ASSUME DeleteCompletionPool PROVE Over(c)'
    BY <1>16, <1>a DEF DeleteCompletionPool, calls, progress
  <1>17. ASSUME NEW k \in Keys, DispatchCancelled(k) PROVE Over(c)'
    BY <1>17 DEF DispatchCancelled, calls, Over, TypeOK
  <1>18. ASSUME NEW e \in Emitters, NEW tk \in TokenKeys, NEW value \in 1..MaxProgress, EmitProgress(e, tk, value) PROVE Over(c)'
    BY <1>18, <1>a DEF EmitProgress, calls, progress
  <1>19. ASSUME NEW e \in Emitters, SendProgress(e) PROVE Over(c)'
    BY <1>19, <1>a DEF SendProgress, calls, progress
  <1>20. ASSUME DestroyTakeInbound PROVE Over(c)'
    <2>1. taken = {}
      BY <1>20 DEF DestroyTakeInbound, Inv, ActiveInv
    <2>2. QED
      BY <1>20, <2>1 DEF DestroyTakeInbound, calls, progress, Over
  <1>21. ASSUME NEW d \in Requests, DestroyResolveInbound(d) PROVE Over(c)'
    <2>1. CASE c = d
      BY <1>21, <2>1 DEF DestroyResolveInbound, Resolve, Over, TypeOK
    <2>2. CASE c # d
      BY <1>21, <2>2 DEF DestroyResolveInbound, Resolve, Over, TypeOK, progress
    <2>3. QED
      BY <2>1, <2>2
  <1>22. ASSUME DestroyDropPool PROVE Over(c)'
    BY <1>22, <1>a DEF DestroyDropPool, calls, progress
  <1>23. ASSUME DestroyMembers PROVE Over(c)'
    BY <1>23, <1>a DEF DestroyMembers, calls, progress
  <1>24. CASE UNCHANGED vars
    BY <1>24, <1>a DEF vars, calls, progress
  <1>25. QED
    BY <1>1, <1>2, <1>3, <1>4, <1>5, <1>6, <1>7, <1>8, <1>9, <1>10, <1>11, <1>12, <1>13, <1>14, <1>15, <1>16, <1>17, <1>18, <1>19, <1>20, <1>21, <1>22, <1>23, <1>24
       DEF Next, DispatcherStep, DispatcherInside, PoolStep, PeerStep, EmitterStep, DestroyStep

\* Who sends for a request that is over passed the test before it was over.
LateInv ==
  /\ \A e \in Emitters : \A c \in late[e] : Over(c)
  /\ LateProgressOnce

\* Every step keeps the account of late notifications.
LEMMA NextLateInv == TypeOK /\ Inv /\ LateInv /\ [Next]_vars => LateInv'
  <1> SUFFICES ASSUME TypeOK, Inv, LateInv, [Next]_vars PROVE LateInv'
    OBVIOUS
  <1>a. \A c \in Requests : Over(c) => Over(c)'
    BY OverStays
  <1>b. \A e \in Emitters : late[e] \subseteq Requests /\ (emitter[e].at = "send" => emitter[e].call \in Requests)
    BY DEF TypeOK
  <1>1. CASE UNCHANGED << emitter, late >>
    BY <1>1, <1>a, <1>b DEF LateInv, LateProgressOnce
  <1>2. ASSUME NEW e \in Emitters, NEW tk \in TokenKeys, NEW value \in 1..MaxProgress,
               EmitProgress(e, tk, value)
        PROVE  LateInv'
    <2> DEFINE k == << tk[1], inboundRequestIdsByToken[tk] >>
    <2>1. k \in Keys /\ inboundRequests[k] \in Requests
      BY <1>2 DEF EmitProgress, Keys, TokenKeys, TypeOK
    <2>2. PICK d \in Requests :
            /\ inboundRequests[k] = d /\ ~cancelled[d]
            /\ emitter' = [emitter EXCEPT ![e] = [at |-> "send", call |-> d, value |-> value]]
            /\ late' = late
      BY <1>2, <2>1 DEF EmitProgress
    <2>3. answer[d] = "none"
      BY <2>1, <2>2, InboundAssumption DEF Inv, ActiveInv
    <2>4. taken = {}
      BY <2>1, <2>2, InboundAssumption DEF Inv, ActiveInv
    <2>5. /\ emitter'[e].call = d
          /\ \A f \in Emitters : f # e => emitter'[f] = emitter[f]
      BY <2>2 DEF TypeOK
    <2>6. d \notin late[e]
      BY <2>2, <2>3, <2>4 DEF LateInv, Over
    <2>7. QED
      BY <1>a, <1>b, <2>2, <2>5, <2>6 DEF LateInv, LateProgressOnce
  <1>3. ASSUME NEW e \in Emitters, SendProgress(e) PROVE LateInv'
    <2> DEFINE d == emitter[e].call
    <2>1. /\ emitter[e].at = "send" /\ d \in Requests
          /\ emitter' = [emitter EXCEPT ![e] = IdleEmitter]
          /\ late' = IF Over(d) THEN [late EXCEPT ![e] = @ \cup {d}] ELSE late
      BY <1>3, <1>b DEF SendProgress
    <2>2. /\ emitter'[e].at = "idle"
          /\ \A f \in Emitters : f # e => emitter'[f] = emitter[f] /\ late'[f] = late[f]
      BY <2>1 DEF TypeOK, IdleEmitter
    <2>3. \A c \in late'[e] : c \in Requests /\ Over(c)
      BY <1>b, <2>1 DEF LateInv, TypeOK
    <2> HIDE DEF d
    <2>4. \A f \in Emitters : \A c \in late'[f] : Over(c)'
      BY <1>a, <1>b, <2>2, <2>3 DEF LateInv
    <2>5. QED
      BY <1>a, <1>b, <2>2, <2>4 DEF LateInv, LateProgressOnce
  <1>4. QED
    BY <1>1, <1>2, <1>3, EmitterSteps

\* A request that was cancelled, answered or taken by ~Router hears at most one more notification
\* of each thread: the one that was past the lock of emitProgress when the request ended.
THEOREM LateProgressIsBounded == Spec => []LateProgressOnce
  <1>1. Init => LateInv
    BY DEF Init, LateInv, LateProgressOnce, IdleEmitter
  <1>2. LateInv => LateProgressOnce
    BY DEF LateInv
  <1>3. QED
    BY TypeCorrect, InvHolds, NextLateInv, <1>1, <1>2, PTL DEF Spec
=============================================================================
