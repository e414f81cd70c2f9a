--------------------------- MODULE HandshakeProofs ---------------------------
(***************************************************************************)
(* Proofs about Handshake, for any calls, versions and proposals.          *)
(***************************************************************************)
EXTENDS Handshake, TLAPS

-----------------------------------------------------------------------------
(* The pipes.                                                              *)

\* What the two ends write is a message.
LEMMA WrittenMessages ==
  /\ \A c \in Calls, v \in Versions : Request(c, v) \in Messages
  /\ \A c \in Calls, ok \in BOOLEAN, v \in Versions : Response(c, ok, v) \in Messages
  /\ Initialized \in Messages /\ ListChanged \in Messages
  BY DEF Request, Response, Initialized, ListChanged, Messages

\* What they read has the fields of its type.
LEMMA ReadMessages ==
  ASSUME NEW m \in Messages, m.type \in {"request", "response"}
  PROVE  m.call \in Calls /\ m.ok \in BOOLEAN /\ m.version \in Versions
  BY DEF Messages

\* A pipe is read at its head and written at its end.
LEMMA Pipes ==
  ASSUME NEW S, NEW s \in Seq(S)
  PROVE  /\ \A m \in S : Append(s, m) \in Seq(S)
         /\ s # << >> => Head(s) \in S /\ Tail(s) \in Seq(S)
  OBVIOUS

\* A pipe of messages of one kind is a pipe of messages of a wider kind.
LEMMA WiderPipe ==
  ASSUME NEW S, NEW T, S \subseteq T
  PROVE  Seq(S) \subseteq Seq(T)
  OBVIOUS

-----------------------------------------------------------------------------
(* Type correctness.                                                       *)

\* Only an initialize call reaches the steps that exist for it.
OnlyInitsAdopt ==
  \A c \in Calls : pc[c] \in {"setPending", "check", "adopt", "adoptSession"} => c \in Inits

TypeInv == TypeOK /\ OnlyInitsAdopt

\* The version the server selects is one of its own.
LEMMA SelectedIsSupported ==
  ASSUME ServerVersions # {}, NEW v
  PROVE  SelectedVersion(v) \in ServerVersions
  BY HandshakeAssumption DEF SelectedVersion

\* The session only takes a version of the client's.
LEMMA SessionTypes ==
  ASSUME TypeOK, NEW ok \in BOOLEAN, NEW v \in Versions, SessionTakes(ok, v)
  PROVE  client' \in ClientStates /\ clientVersion' \in ClientVersions \cup {NoVersion}
  BY DEF TypeOK, SessionTakes, Accepted, ClientStates

\* What the reader holds and hands on is well typed.
ReaderStates ==
  [ at : ReaderPoints, msg : [ call : Calls \cup {NoCall}, ok : BOOLEAN, version : Versions ] ]

\* The steps of the reader keep it well typed.
LEMMA ReaderTypes ==
  ASSUME TypeOK
  PROVE  /\ NextLine => reader' \in ReaderStates /\ reader'.at \in {"idle", "ended"}
         /\ \A at \in ReaderPoints :
              ReaderGoto(at) => reader' \in ReaderStates /\ reader'.at = at /\ reader'.msg = reader.msg
         /\ reader \in ReaderStates
         /\ FutureOf(reader.msg) \in Futures
  <1>1. reader \in ReaderStates
    BY DEF TypeOK, ReaderStates
  <1>2. NextLine => reader' \in ReaderStates /\ reader'.at \in {"idle", "ended"}
    <2>1. \A at \in ReaderPoints : [ IdleReader EXCEPT !.at = at ] \in ReaderStates
                                 /\ [ IdleReader EXCEPT !.at = at ].at = at
      BY DEF IdleReader, NoResponse, ReaderStates, Versions
    <2>2. QED
      BY <2>1 DEF NextLine, ReaderPoints
  <1>3. \A at \in ReaderPoints :
          ReaderGoto(at) => reader' \in ReaderStates /\ reader'.at = at /\ reader'.msg = reader.msg
    BY <1>1 DEF ReaderGoto, ReaderStates
  <1>4. FutureOf(reader.msg) \in Futures
    BY <1>1 DEF FutureOf, Futures, ReaderStates
  <1>5. QED
    BY <1>1, <1>2, <1>3, <1>4

\* So does the write of notifications/initialized.
LEMMA AnnounceTypes ==
  ASSUME TypeOK, Announce
  PROVE  toServer' \in Seq(Messages) /\ announcements' \in Nat
  <1>1. Append(toServer, Initialized) \in Seq(Messages)
    BY Pipes, WrittenMessages DEF TypeOK
  <1>2. announcements \in Nat /\ toServer \in Seq(Messages)
    BY DEF TypeOK
  <1>3. QED
    BY <1>1, <1>2 DEF Announce

\* The types hold at the start.
LEMMA InitTypes == Init => TypeInv
  BY HandshakeAssumption DEF Init, TypeInv, TypeOK, OnlyInitsAdopt, IdleReader, NoResponse, Holds, Futures, Versions,
     ReaderPoints, CallPoints, ClientStates, ServerStates

\* Every step keeps them.
LEMMA NextTypes == TypeInv /\ [Next]_vars => TypeInv'
  <1> SUFFICES ASSUME TypeInv, [Next]_vars PROVE TypeInv'
    OBVIOUS
  <1> USE DEF TypeInv, TypeOK, OnlyInitsAdopt, calls, session, serverSide
  <1>1. ASSUME NEW c \in Calls, SendRequest(c) PROVE TypeInv'
    <2>1. client' \in ClientStates
      BY <1>1 DEF SendRequest, ClientStates
    <2>2. pc' \in [Calls -> CallPoints]
      BY <1>1 DEF SendRequest, Goto, CallPoints
    <2>3. OnlyInitsAdopt'
      BY <1>1 DEF SendRequest, Goto
    <2>4. QED
      BY <1>1, <2>1, <2>2, <2>3 DEF SendRequest
  <1>2. ASSUME NEW c \in Calls, SetPendingInitialize(c) PROVE TypeInv'
    BY <1>2 DEF SetPendingInitialize, Goto, CallPoints
  <1>3. ASSUME NEW c \in Calls, RouteRequest(c) PROVE TypeInv'
    <2>1. toServer' \in Seq(Messages)
      <3>1. CASE toServer' = toServer
        BY <3>1
      <3>2. ASSUME NEW v \in IF c \in Inits THEN Proposals ELSE {NoVersion}, toServer' = Append(toServer, Request(c, v))
            PROVE  toServer' \in Seq(Messages)
        <4>1. v \in Versions
          BY DEF Versions
        <4>2. QED
          BY <3>2, <4>1, WrittenMessages, Pipes
      <3>3. QED
        BY <1>3, <3>1, <3>2 DEF RouteRequest
    <2>2. future' \in [Calls -> Futures]
      BY <1>3 DEF RouteRequest, Holds, Futures, Versions
    <2>3. QED
      BY <1>3, <2>1, <2>2 DEF RouteRequest, Goto, CallPoints
  <1>4. ASSUME NEW c \in Calls, CheckInitializeFuture(c) PROVE TypeInv'
    BY <1>4 DEF CheckInitializeFuture, Goto, CallPoints
  <1>5. ASSUME NEW c \in Calls, AdoptResetPending(c) PROVE TypeInv'
    BY <1>5 DEF AdoptResetPending, Goto, CallPoints
  <1>6. ASSUME NEW c \in Calls, AdoptResponse(c) PROVE TypeInv'
    <2>1. future[c].version \in Versions /\ (future[c].is = "success") \in BOOLEAN
      BY DEF Futures
    <2>2. client' \in ClientStates /\ clientVersion' \in ClientVersions \cup {NoVersion}
      BY <1>6, <2>1, SessionTypes DEF AdoptResponse
    <2>3. QED
      BY <1>6, <2>2 DEF AdoptResponse, Goto, CallPoints
  <1>7. ASSUME NEW c \in Calls, RequestTimesOut(c) PROVE TypeInv'
    BY <1>7 DEF RequestTimesOut, Resolve, Holds, Futures, Versions
  <1>8. ASSUME ReaderEnds PROVE TypeInv'
    BY <1>8, ReaderTypes DEF ReaderEnds, ReaderPoints, ReaderStates
  <1>9. ASSUME ReceiveMessage PROVE TypeInv'
    <2> DEFINE m == Head(toClient)
    <2>1. m \in Messages /\ toClient' \in Seq(Messages)
      BY <1>9, Pipes DEF ReceiveMessage
    <2>2. reader' \in ReaderStates /\ (reader'.at \notin {"idle", "ended"} => reader'.msg.call \in Calls)
      <3>1. CASE m.type = "response"
        <4>1. m.call \in Calls /\ m.ok \in BOOLEAN /\ m.version \in Versions
          BY <2>1, <3>1, ReadMessages
        <4> HIDE DEF m
        <4>2. QED
          BY <1>9, <3>1, <4>1 DEF ReceiveMessage, ReaderStates, ReaderPoints, m
      <3>2. CASE m.type # "response"
        BY <1>9, <3>2, ReaderTypes DEF ReceiveMessage
      <3>3. QED
        BY <3>1, <3>2
    <2>3. QED
      BY <1>9, <2>1, <2>2 DEF ReceiveMessage, ReaderStates
  <1>10. ASSUME ResetPending PROVE TypeInv'
    BY <1>10, ReaderTypes DEF ResetPending, ReaderPoints, ReaderStates
  <1>11. ASSUME HandleInitializeSuccess PROVE TypeInv'
    <2>1. reader.msg.ok \in BOOLEAN /\ reader.msg.version \in Versions
      BY ReaderTypes DEF ReaderStates
    <2>2. client' \in ClientStates /\ clientVersion' \in ClientVersions \cup {NoVersion}
      BY <1>11, <2>1, SessionTypes DEF HandleInitializeSuccess
    <2>3. QED
      BY <1>11, <2>2, ReaderTypes DEF HandleInitializeSuccess, ReaderPoints, ReaderStates
  <1>12. ASSUME ReaderNotifies PROVE TypeInv'
    BY <1>12, ReaderTypes DEF ReaderNotifies, ReaderPoints, ReaderStates, ClientStates
  <1>13. ASSUME ReaderAnnounces PROVE TypeInv'
    <2>1. toServer' \in Seq(Messages) /\ announcements' \in Nat
      BY <1>13, AnnounceTypes DEF ReaderAnnounces
    <2>2. QED
      BY <1>13, <2>1, ReaderTypes DEF ReaderAnnounces, ReaderPoints, ReaderStates
  <1>14. ASSUME DispatchResponse PROVE TypeInv'
    <2>1. future' \in [Calls -> Futures]
      BY <1>14, ReaderTypes DEF DispatchResponse, Resolve
    <2>2. QED
      BY <1>14, <2>1, ReaderTypes DEF DispatchResponse, ReaderStates
  <1>15. ASSUME DispatchErrorResponse PROVE TypeInv'
    <2>1. future' \in [Calls -> Futures]
      BY <1>15 DEF DispatchErrorResponse, Resolve, Holds, Futures, Versions
    <2>2. QED
      BY <1>15, <2>1, ReaderTypes DEF DispatchErrorResponse, ReaderStates, ReaderPoints
  <1>16. ASSUME HandleInitializeError PROVE TypeInv'
    <2>1. client' \in ClientStates /\ clientVersion' \in ClientVersions \cup {NoVersion}
      BY <1>16, SessionTypes DEF HandleInitializeError, Versions
    <2>2. QED
      BY <1>16, <2>1, ReaderTypes DEF HandleInitializeError, ReaderStates
  <1>17. ASSUME AppNotifies PROVE TypeInv'
    BY <1>17 DEF AppNotifies, ClientStates
  <1>18. ASSUME AppAnnounces PROVE TypeInv'
    <2>1. toServer' \in Seq(Messages) /\ announcements' \in Nat
      BY <1>18, AnnounceTypes DEF AppAnnounces
    <2>2. QED
      BY <1>18, <2>1 DEF AppAnnounces
  <1>19. ASSUME StopTransport PROVE TypeInv'
    BY <1>19 DEF StopTransport
  <1>20. ASSUME StopSession PROVE TypeInv'
    BY <1>20 DEF StopSession, ClientStates
  <1>21. ASSUME HandleInitialize PROVE TypeInv'
    <2> DEFINE m == Head(toServer)
               v == IF server = "operating" \/ ServerVersions = {} THEN NoVersion ELSE SelectedVersion(m.version)
    <2>1. m \in Messages /\ m.call \in Calls /\ toServer' \in Seq(Messages)
      BY <1>21, Pipes, ReadMessages DEF HandleInitialize
    <2>2. v \in Versions /\ (v # NoVersion => v \in ServerVersions)
      BY SelectedIsSupported DEF Versions
    <2>3. toClient' \in Seq(Messages)
      <3>1. \E ok \in BOOLEAN : toClient' = Append(toClient, Response(m.call, ok, v))
        BY <1>21 DEF HandleInitialize, Answers
      <3>2. QED
        BY <2>1, <2>2, <3>1, WrittenMessages, Pipes
    <2>4. server' \in ServerStates /\ serverVersion' \in ServerVersions \cup {NoVersion}
      <3>1. CASE server # "operating" /\ ServerVersions # {}
        <4>1. SelectedVersion(Head(toServer).version) \in ServerVersions
          BY <3>1, SelectedIsSupported
        <4>2. server' = "initialized" /\ serverVersion' = SelectedVersion(Head(toServer).version)
          BY <1>21, <3>1 DEF HandleInitialize
        <4>3. QED
          BY <4>1, <4>2 DEF ServerStates
      <3>2. CASE server = "operating" \/ ServerVersions = {}
        BY <1>21, <3>2 DEF HandleInitialize
      <3>3. QED
        BY <3>1, <3>2
    <2>5. QED
      BY <1>21, <2>1, <2>3, <2>4 DEF HandleInitialize
  <1>22. ASSUME HandleRequest PROVE TypeInv'
    <2> DEFINE m == Head(toServer)
    <2>1. m \in Messages /\ m.call \in Calls /\ toServer' \in Seq(Messages)
      BY <1>22, Pipes, ReadMessages DEF HandleRequest
    <2>2. NoVersion \in Versions /\ CanHandleRequest(m.call) \in BOOLEAN
      BY DEF Versions, CanHandleRequest
    <2>3. toClient' \in Seq(Messages)
      BY <1>22, <2>1, <2>2, WrittenMessages, Pipes DEF HandleRequest, Answers
    <2>4. QED
      BY <1>22, <2>1, <2>3 DEF HandleRequest
  <1>23. ASSUME HandleInitializedNotification PROVE TypeInv'
    BY <1>23, Pipes DEF HandleInitializedNotification, ServerStates
  <1>24. ASSUME CheckCanPush PROVE TypeInv'
    BY <1>24, HandshakeAssumption DEF CheckCanPush
  <1>25. ASSUME Push PROVE TypeInv'
    BY <1>25, Pipes, WrittenMessages, HandshakeAssumption DEF Push
  <1>26. ASSUME ServerStops PROVE TypeInv'
    BY <1>26 DEF ServerStops, ServerStates
  <1>27. CASE UNCHANGED vars
    BY <1>27 DEF vars, calls, session, serverSide
  <1>28. QED
    BY <1>1, <1>2, <1>3, <1>4, <1>5, <1>6, <1>7, <1>8, <1>9, <1>10, <1>11, <1>12, <1>13,
       <1>14, <1>15, <1>16, <1>17, <1>18, <1>19, <1>20, <1>21, <1>22, <1>23, <1>24, <1>25, <1>26,
       <1>27
    DEF Next, CallerInside, ReaderStep, AppStep, RunnerStep, ServerStep

\* Every variable keeps its type in every behaviour of client and server.
THEOREM TypeCorrect == Spec => []TypeOK
  <1>1. Spec => []TypeInv
    BY InitTypes, NextTypes, PTL DEF Spec
  <1>2. TypeInv => TypeOK
    BY DEF TypeInv
  <1>3. QED
    BY <1>1, <1>2, PTL

-----------------------------------------------------------------------------
(* notifications/initialized is announced once.                            *)

\* initialize leaves only a session in its first state.
LEMMA InitializeFromCreated ==
  ASSUME NEW c \in Inits, Allowed(c)
  PROVE  client = "created"
  BY HandshakeAssumption DEF Allowed

\* Where the reader goes, without the records around it.
LEMMA ReaderMoves ==
  ASSUME TypeOK
  PROVE  /\ NextLine => reader'.at \in {"idle", "ended"} /\ reader'.msg = NoResponse
         /\ \A at \in ReaderPoints : ReaderGoto(at) => reader'.at = at /\ reader'.msg = reader.msg
  <1>1. \A at \in ReaderPoints : [ IdleReader EXCEPT !.at = at ].at = at
                               /\ [ IdleReader EXCEPT !.at = at ].msg = NoResponse
    BY DEF IdleReader
  <1>2. NextLine => reader'.at \in {"idle", "ended"} /\ reader'.msg = NoResponse
    BY <1>1 DEF NextLine, ReaderPoints
  <1>3. QED
    BY <1>2, ReaderTypes

\* What a received message makes of the reader.
LEMMA ReceiveMoves ==
  ASSUME TypeOK, ReceiveMessage
  PROVE  /\ toClient # << >> /\ toClient' = Tail(toClient)
         /\ \/ /\ Head(toClient).type = "response"
               /\ reader'.at = IF Head(toClient).call = pendingInitializeRequestId THEN "reset" ELSE "dispatch"
               /\ reader'.msg.call = Head(toClient).call /\ reader'.msg.ok = Head(toClient).ok
               /\ reader'.msg.version = Head(toClient).version
            \/ reader'.at \in {"idle", "ended"} /\ reader'.msg = NoResponse
  <1>1. CASE Head(toClient).type = "response"
    BY <1>1 DEF ReceiveMessage
  <1>2. CASE Head(toClient).type # "response"
    BY <1>2, ReaderMoves DEF ReceiveMessage
  <1>3. QED
    BY <1>1, <1>2 DEF ReceiveMessage

\* At most one thread is about to write the notification, and only after the session has left the
\* states from which it may be written; nobody returns to them.
Announcements ==
  /\ client \in {"created", "initializing", "initialized"} =>
       announcements = 0 /\ announcer = "idle" /\ reader.at # "announce"
  /\ announcer = "announce" => announcements = 0 /\ reader.at # "announce"
  /\ reader.at = "announce" => announcements = 0
  /\ announcements \in 0..1

\* Every step keeps the account of announcements.
LEMMA NextAnnouncements == TypeOK /\ Announcements /\ [Next]_vars => Announcements'
  <1> SUFFICES ASSUME TypeOK, Announcements, [Next]_vars PROVE Announcements'
    OBVIOUS
  <1> USE ReaderMoves DEF Announcements, calls, session, serverSide, ReaderPoints
  <1>1. ASSUME NEW c \in Calls, SendRequest(c) PROVE Announcements'
    BY <1>1, InitializeFromCreated DEF SendRequest
  <1>2. ASSUME NEW c \in Calls, SetPendingInitialize(c) PROVE Announcements'
    BY <1>2 DEF SetPendingInitialize
  <1>3. ASSUME NEW c \in Calls, RouteRequest(c) PROVE Announcements'
    BY <1>3 DEF RouteRequest
  <1>4. ASSUME NEW c \in Calls, CheckInitializeFuture(c) PROVE Announcements'
    BY <1>4 DEF CheckInitializeFuture
  <1>5. ASSUME NEW c \in Calls, AdoptResetPending(c) PROVE Announcements'
    BY <1>5 DEF AdoptResetPending
  <1>6. ASSUME NEW c \in Calls, AdoptResponse(c) PROVE Announcements'
    BY <1>6 DEF AdoptResponse, SessionTakes, Accepted
  <1>7. ASSUME NEW c \in Calls, RequestTimesOut(c) PROVE Announcements'
    BY <1>7 DEF RequestTimesOut
  <1>8. ASSUME ReaderEnds PROVE Announcements'
    BY <1>8 DEF ReaderEnds
  <1>9. ASSUME ReceiveMessage PROVE Announcements'
    BY <1>9, ReceiveMoves DEF ReceiveMessage
  <1>10. ASSUME ResetPending PROVE Announcements'
    BY <1>10 DEF ResetPending
  <1>11. ASSUME HandleInitializeSuccess PROVE Announcements'
    BY <1>11 DEF HandleInitializeSuccess, SessionTakes, Accepted
  <1>12. ASSUME ReaderNotifies PROVE Announcements'
    BY <1>12 DEF ReaderNotifies
  <1>13. ASSUME ReaderAnnounces PROVE Announcements'
    BY <1>13 DEF ReaderAnnounces, Announce
  <1>14. ASSUME DispatchResponse PROVE Announcements'
    BY <1>14 DEF DispatchResponse
  <1>15. ASSUME DispatchErrorResponse PROVE Announcements'
    BY <1>15 DEF DispatchErrorResponse
  <1>16. ASSUME HandleInitializeError PROVE Announcements'
    BY <1>16 DEF HandleInitializeError, SessionTakes, Accepted
  <1>17. ASSUME AppNotifies PROVE Announcements'
    BY <1>17 DEF AppNotifies
  <1>18. ASSUME AppAnnounces PROVE Announcements'
    BY <1>18 DEF AppAnnounces, Announce
  <1>19. ASSUME StopTransport PROVE Announcements'
    BY <1>19 DEF StopTransport
  <1>20. ASSUME StopSession PROVE Announcements'
    BY <1>20 DEF StopSession
  <1>21. ASSUME HandleInitialize PROVE Announcements'
    BY <1>21 DEF HandleInitialize
  <1>22. ASSUME HandleRequest PROVE Announcements'
    BY <1>22 DEF HandleRequest
  <1>23. ASSUME HandleInitializedNotification PROVE Announcements'
    BY <1>23 DEF HandleInitializedNotification
  <1>24. ASSUME CheckCanPush PROVE Announcements'
    BY <1>24 DEF CheckCanPush
  <1>25. ASSUME Push PROVE Announcements'
    BY <1>25 DEF Push
  <1>26. ASSUME ServerStops PROVE Announcements'
    BY <1>26 DEF ServerStops
  <1>27. CASE UNCHANGED vars
    BY <1>27 DEF vars, calls, session, serverSide
  <1>28. QED
    BY <1>1, <1>2, <1>3, <1>4, <1>5, <1>6, <1>7, <1>8, <1>9, <1>10, <1>11, <1>12, <1>13,
       <1>14, <1>15, <1>16, <1>17, <1>18, <1>19, <1>20, <1>21, <1>22, <1>23, <1>24, <1>25, <1>26,
       <1>27
    DEF Next, CallerInside, ReaderStep, AppStep, RunnerStep, ServerStep

\* However the reader and the application race, notifications/initialized is written once.
THEOREM InitializedIsAnnouncedOnce == Spec => []AnnouncedOnce
  <1>1. Init => Announcements
    BY DEF Init, Announcements, IdleReader
  <1>2. Announcements => AnnouncedOnce
    BY DEF Announcements, AnnouncedOnce
  <1>3. QED
    BY <1>1, <1>2, TypeCorrect, NextAnnouncements, PTL DEF Spec

-----------------------------------------------------------------------------
(* Both ends agree on the version.                                         *)

\* A success that answers initialize, wherever it is, names the version the server negotiated.
TrueAnswer(r) == r.ok /\ r.call \in Inits => r.version = serverVersion /\ r.version \in ServerVersions
TrueAnswers == {m \in Messages : m.type = "response" => TrueAnswer(m)}
FuturesTrue ==
  \A c \in Inits : future[c].is = "success" =>
    future[c].version = serverVersion /\ future[c].version \in ServerVersions

\* The server negotiates once: while its session is created no version and no success exists.
Negotiation ==
  /\ server = "created" => serverVersion = NoVersion
  /\ toClient \in Seq(TrueAnswers)
  /\ TrueAnswer(reader.msg)
  /\ reader.at \in {"reset", "session"} => reader.msg.call \in Inits
  /\ reader.at = "session" => reader.msg.ok
  /\ FuturesTrue
  /\ VersionsAgree

\* The server leaves its first state for good.
LEMMA ServerAdvances ==
  ASSUME TypeOK, [Next]_vars
  PROVE  server' = "created" => server = "created"
  <1> USE DEF calls, session, serverSide
  <1>1. ASSUME NEW c \in Calls, SendRequest(c) PROVE server' = "created" => server = "created"
    BY <1>1 DEF SendRequest
  <1>2. ASSUME NEW c \in Calls, SetPendingInitialize(c) PROVE server' = "created" => server = "created"
    BY <1>2 DEF SetPendingInitialize
  <1>3. ASSUME NEW c \in Calls, RouteRequest(c) PROVE server' = "created" => server = "created"
    BY <1>3 DEF RouteRequest
  <1>4. ASSUME NEW c \in Calls, CheckInitializeFuture(c) PROVE server' = "created" => server = "created"
    BY <1>4 DEF CheckInitializeFuture
  <1>5. ASSUME NEW c \in Calls, AdoptResetPending(c) PROVE server' = "created" => server = "created"
    BY <1>5 DEF AdoptResetPending
  <1>6. ASSUME NEW c \in Calls, AdoptResponse(c) PROVE server' = "created" => server = "created"
    BY <1>6 DEF AdoptResponse
  <1>7. ASSUME NEW c \in Calls, RequestTimesOut(c) PROVE server' = "created" => server = "created"
    BY <1>7 DEF RequestTimesOut
  <1>8. ASSUME ReaderEnds PROVE server' = "created" => server = "created"
    BY <1>8 DEF ReaderEnds
  <1>9. ASSUME ReceiveMessage PROVE server' = "created" => server = "created"
    BY <1>9 DEF ReceiveMessage
  <1>10. ASSUME ResetPending PROVE server' = "created" => server = "created"
    BY <1>10 DEF ResetPending
  <1>11. ASSUME HandleInitializeSuccess PROVE server' = "created" => server = "created"
    BY <1>11 DEF HandleInitializeSuccess
  <1>12. ASSUME ReaderNotifies PROVE server' = "created" => server = "created"
    BY <1>12 DEF ReaderNotifies
  <1>13. ASSUME ReaderAnnounces PROVE server' = "created" => server = "created"
    BY <1>13 DEF ReaderAnnounces
  <1>14. ASSUME DispatchResponse PROVE server' = "created" => server = "created"
    BY <1>14 DEF DispatchResponse
  <1>15. ASSUME DispatchErrorResponse PROVE server' = "created" => server = "created"
    BY <1>15 DEF DispatchErrorResponse
  <1>16. ASSUME HandleInitializeError PROVE server' = "created" => server = "created"
    BY <1>16 DEF HandleInitializeError
  <1>17. ASSUME AppNotifies PROVE server' = "created" => server = "created"
    BY <1>17 DEF AppNotifies
  <1>18. ASSUME AppAnnounces PROVE server' = "created" => server = "created"
    BY <1>18 DEF AppAnnounces
  <1>19. ASSUME StopTransport PROVE server' = "created" => server = "created"
    BY <1>19 DEF StopTransport
  <1>20. ASSUME StopSession PROVE server' = "created" => server = "created"
    BY <1>20 DEF StopSession
  <1>21. ASSUME HandleInitialize PROVE server' = "created" => server = "created"
    BY <1>21 DEF HandleInitialize
  <1>22. ASSUME HandleRequest PROVE server' = "created" => server = "created"
    BY <1>22 DEF HandleRequest
  <1>23. ASSUME HandleInitializedNotification PROVE server' = "created" => server = "created"
    BY <1>23 DEF HandleInitializedNotification
  <1>24. ASSUME CheckCanPush PROVE server' = "created" => server = "created"
    BY <1>24 DEF CheckCanPush
  <1>25. ASSUME Push PROVE server' = "created" => server = "created"
    BY <1>25 DEF Push
  <1>26. ASSUME ServerStops PROVE server' = "created" => server = "created"
    BY <1>26 DEF ServerStops
  <1>27. CASE UNCHANGED vars
    BY <1>27 DEF vars, calls, session, serverSide
  <1>28. QED
    BY <1>1, <1>2, <1>3, <1>4, <1>5, <1>6, <1>7, <1>8, <1>9, <1>10, <1>11, <1>12, <1>13,
       <1>14, <1>15, <1>16, <1>17, <1>18, <1>19, <1>20, <1>21, <1>22, <1>23, <1>24, <1>25, <1>26,
       <1>27
    DEF Next, CallerInside, ReaderStep, AppStep, RunnerStep, ServerStep

\* Every step keeps what is known of the server's answers.
LEMMA NextNegotiation == TypeInv /\ Negotiation /\ [Next]_vars => Negotiation'
  <1> SUFFICES ASSUME TypeInv, Negotiation, [Next]_vars PROVE Negotiation'
    OBVIOUS
  <1>a. TypeOK /\ OnlyInitsAdopt /\ (server' = "created" => server = "created")
    BY ServerAdvances DEF TypeInv
  <1> USE <1>a, ReaderMoves DEF Negotiation, FuturesTrue, TrueAnswer, TrueAnswers, calls, session, serverSide, ReaderPoints
  <1>1. ASSUME NEW c \in Calls, SendRequest(c) PROVE Negotiation'
    BY <1>1 DEF SendRequest, VersionsAgree
  <1>2. ASSUME NEW c \in Calls, SetPendingInitialize(c) PROVE Negotiation'
    BY <1>2 DEF SetPendingInitialize, VersionsAgree
  <1>3. ASSUME NEW c \in Calls, RouteRequest(c) PROVE Negotiation'
    <2>1. FuturesTrue'
      <3>1. \E what \in {"pending", "error"} : future' = [future EXCEPT ![c] = Holds(what)]
        BY <1>3 DEF RouteRequest
      <3>2. UNCHANGED serverVersion
        BY <1>3 DEF RouteRequest
      <3>3. QED
        BY <3>1, <3>2 DEF Holds, TypeOK
    <2>2. QED
      BY <1>3, <2>1 DEF RouteRequest, VersionsAgree
  <1>4. ASSUME NEW c \in Calls, CheckInitializeFuture(c) PROVE Negotiation'
    BY <1>4 DEF CheckInitializeFuture, VersionsAgree
  <1>5. ASSUME NEW c \in Calls, AdoptResetPending(c) PROVE Negotiation'
    BY <1>5 DEF AdoptResetPending, VersionsAgree
  <1>6. ASSUME NEW c \in Calls, AdoptResponse(c) PROVE Negotiation'
    <2>1. c \in Inits
      BY <1>6 DEF AdoptResponse, OnlyInitsAdopt
    <2>2. clientVersion' # NoVersion => clientVersion' = serverVersion /\ clientVersion' \in ClientVersions \cap ServerVersions
      BY <1>6, <2>1 DEF AdoptResponse, SessionTakes, Accepted, VersionsAgree
    <2>3. QED
      BY <1>6, <2>2 DEF AdoptResponse, VersionsAgree
  <1>7. ASSUME NEW c \in Calls, RequestTimesOut(c) PROVE Negotiation'
    <2>1. FuturesTrue'
      BY <1>7 DEF RequestTimesOut, Resolve, Holds
    <2>2. QED
      BY <1>7, <2>1 DEF RequestTimesOut, VersionsAgree
  <1>8. ASSUME ReaderEnds PROVE Negotiation'
    BY <1>8 DEF ReaderEnds, VersionsAgree, NoResponse
  <1>9. ASSUME ReceiveMessage PROVE Negotiation'
    <2>1. Head(toClient) \in TrueAnswers /\ toClient' \in Seq(TrueAnswers)
      BY <1>9, ReceiveMoves, Pipes
    <2>2. TrueAnswer(reader'.msg)
      <3>1. UNCHANGED serverVersion
        BY <1>9 DEF ReceiveMessage
      <3>2. CASE reader'.msg = NoResponse
        BY <3>2 DEF NoResponse
      <3>3. CASE reader'.msg # NoResponse
        BY <1>9, <2>1, <3>3, ReceiveMoves
      <3>4. QED
        BY <3>2, <3>3
    <2>3. reader'.at \in {"reset", "session"} => reader'.msg.call \in Inits
      BY <1>9, <2>1, ReceiveMoves, ReadMessages, HandshakeAssumption DEF TypeOK, TrueAnswers
    <2>4. VersionsAgree'
      BY <1>9 DEF ReceiveMessage, VersionsAgree
    <2>5. QED
      BY <1>9, <2>1, <2>2, <2>3, <2>4 DEF ReceiveMessage
  <1>10. ASSUME ResetPending PROVE Negotiation'
    BY <1>10 DEF ResetPending, VersionsAgree
  <1>11. ASSUME HandleInitializeSuccess PROVE Negotiation'
    <2>1. reader'.msg = reader.msg /\ reader'.at \notin {"reset", "session"}
      BY <1>11 DEF HandleInitializeSuccess
    <2>2. VersionsAgree'
      BY <1>11 DEF HandleInitializeSuccess, SessionTakes, Accepted, VersionsAgree
    <2>3. QED
      BY <1>11, <2>1, <2>2 DEF HandleInitializeSuccess
  <1>12. ASSUME ReaderNotifies PROVE Negotiation'
    BY <1>12 DEF ReaderNotifies, VersionsAgree
  <1>13. ASSUME ReaderAnnounces PROVE Negotiation'
    BY <1>13 DEF ReaderAnnounces, VersionsAgree, NoResponse
  <1>14. ASSUME DispatchResponse PROVE Negotiation'
    <2>1. FuturesTrue'
      BY <1>14 DEF DispatchResponse, Resolve, FutureOf
    <2>2. QED
      BY <1>14, <2>1 DEF DispatchResponse, NoResponse, VersionsAgree
  <1>15. ASSUME DispatchErrorResponse PROVE Negotiation'
    <2>1. FuturesTrue'
      BY <1>15 DEF DispatchErrorResponse, Resolve, Holds
    <2>2. QED
      BY <1>15, <2>1 DEF DispatchErrorResponse, VersionsAgree
  <1>16. ASSUME HandleInitializeError PROVE Negotiation'
    BY <1>16 DEF HandleInitializeError, SessionTakes, Accepted, VersionsAgree, NoResponse
  <1>17. ASSUME AppNotifies PROVE Negotiation'
    BY <1>17 DEF AppNotifies, VersionsAgree
  <1>18. ASSUME AppAnnounces PROVE Negotiation'
    BY <1>18 DEF AppAnnounces, VersionsAgree
  <1>19. ASSUME StopTransport PROVE Negotiation'
    BY <1>19 DEF StopTransport, VersionsAgree
  <1>20. ASSUME StopSession PROVE Negotiation'
    BY <1>20 DEF StopSession, VersionsAgree
  <1>21. ASSUME HandleInitialize PROVE Negotiation'
    <2> DEFINE m == Head(toServer)
    <2>0. m.type = "request" /\ m.call \in Inits /\ m \in Messages
      BY <1>21, Pipes DEF HandleInitialize, TypeOK
    <2>1. CASE server = "operating" \/ ServerVersions = {}
      <3>1. Response(m.call, FALSE, NoVersion) \in TrueAnswers
        BY <2>0, ReadMessages, WrittenMessages DEF TrueAnswers, TrueAnswer, Response, Versions
      <3>2. UNCHANGED << serverVersion, server >> /\ toClient' = Append(toClient, Response(m.call, FALSE, NoVersion))
        BY <1>21, <2>1 DEF HandleInitialize, Answers
      <3>3. QED
        BY <1>21, <3>1, <3>2, Pipes DEF HandleInitialize, VersionsAgree
    <2>2. CASE server # "operating" /\ ServerVersions # {}
      <3> DEFINE v == SelectedVersion(m.version)
      <3>1. server = "created" /\ serverVersion = NoVersion
        BY <1>21, <2>2, HandshakeAssumption DEF HandleInitialize, CanHandleRequest
      <3>2. serverVersion' = v /\ server' = "initialized" /\ toClient' = Append(toClient, Response(m.call, TRUE, v))
        BY <1>21, <2>2 DEF HandleInitialize, Answers
      <3>3. NoVersion \notin ServerVersions
        BY HandshakeAssumption
      <3>4. v \in ServerVersions
        BY <2>2, SelectedIsSupported
      <3>5. TrueAnswers \subseteq TrueAnswers'
        BY <3>1, <3>3 DEF TrueAnswers, TrueAnswer
      <3>6. Response(m.call, TRUE, v) \in TrueAnswers'
        BY <2>0, <3>2, <3>4, ReadMessages, WrittenMessages DEF TrueAnswers, TrueAnswer, Response, Versions
      <3>7. toClient' \in Seq(TrueAnswers')
        <4>1. toClient \in Seq(TrueAnswers')
          BY <3>5, WiderPipe
        <4>2. QED
          BY <3>2, <3>6, <4>1, Pipes
      <3>8. TrueAnswer(reader.msg)'
        BY <1>21, <3>1, <3>3 DEF HandleInitialize, TrueAnswer
      <3>9. FuturesTrue'
        BY <1>21, <3>1, <3>3 DEF HandleInitialize
      <3>10. VersionsAgree'
        BY <1>21, <3>1, <3>3 DEF HandleInitialize, VersionsAgree
      <3>11. QED
        BY <1>21, <3>2, <3>7, <3>8, <3>9, <3>10 DEF HandleInitialize
    <2>3. QED
      BY <2>1, <2>2
  <1>22. ASSUME HandleRequest PROVE Negotiation'
    <2> DEFINE m == Head(toServer)
               answer == Response(m.call, CanHandleRequest(m.call), NoVersion)
    <2>1. m.type = "request" /\ m \in Messages /\ (m.call \in Inits => ~CanHandleRequest(m.call))
      BY <1>22, Pipes DEF HandleRequest, TypeOK
    <2>2. answer \in TrueAnswers
      BY <2>1, ReadMessages, WrittenMessages DEF TrueAnswers, TrueAnswer, Response, Versions, CanHandleRequest
    <2>3. toClient' \in Seq(TrueAnswers)
      BY <1>22, <2>2, Pipes DEF HandleRequest, Answers
    <2>4. QED
      BY <1>22, <2>3 DEF HandleRequest, VersionsAgree
  <1>23. ASSUME HandleInitializedNotification PROVE Negotiation'
    BY <1>23 DEF HandleInitializedNotification, VersionsAgree
  <1>24. ASSUME CheckCanPush PROVE Negotiation'
    BY <1>24 DEF CheckCanPush, VersionsAgree
  <1>25. ASSUME Push PROVE Negotiation'
    <2>1. ListChanged \in TrueAnswers
      BY WrittenMessages DEF TrueAnswers, ListChanged
    <2>2. toClient' \in Seq(TrueAnswers)
      BY <1>25, <2>1, Pipes DEF Push
    <2>3. QED
      BY <1>25, <2>2 DEF Push, VersionsAgree
  <1>26. ASSUME ServerStops PROVE Negotiation'
    BY <1>26 DEF ServerStops, VersionsAgree
  <1>27. CASE UNCHANGED vars
    BY <1>27 DEF vars, calls, session, serverSide, VersionsAgree
  <1>28. QED
    BY <1>1, <1>2, <1>3, <1>4, <1>5, <1>6, <1>7, <1>8, <1>9, <1>10, <1>11, <1>12, <1>13,
       <1>14, <1>15, <1>16, <1>17, <1>18, <1>19, <1>20, <1>21, <1>22, <1>23, <1>24, <1>25, <1>26,
       <1>27
    DEF Next, CallerInside, ReaderStep, AppStep, RunnerStep, ServerStep

\* Every success the client sees carries the version the server selected.
THEOREM NegotiationHolds == Spec => [](TypeInv /\ Negotiation)
  <1>1. Init => TypeInv /\ Negotiation
    <2>1. Init => Negotiation
      <3> SUFFICES ASSUME Init PROVE Negotiation
        OBVIOUS
      <3>1. toClient \in Seq(TrueAnswers)
        BY DEF Init
      <3>2. FuturesTrue
        BY DEF Init, FuturesTrue, Holds, Calls
      <3>3. TrueAnswer(reader.msg) /\ reader.at = "idle"
        BY DEF Init, TrueAnswer, IdleReader, NoResponse
      <3>4. QED
        BY <3>1, <3>2, <3>3 DEF Init, Negotiation, VersionsAgree
    <2>2. QED
      BY <2>1, InitTypes
  <1>2. TypeInv /\ Negotiation /\ [Next]_vars => TypeInv' /\ Negotiation'
    BY NextTypes, NextNegotiation
  <1>3. QED
    BY <1>1, <1>2, PTL DEF Spec

\* Whatever was proposed, timed out, retried and answered late, the two ends have one version.
THEOREM BothEndsAgree == Spec => []VersionsAgree
  <1>1. Negotiation => VersionsAgree
    BY DEF Negotiation
  <1>2. QED
    BY NegotiationHolds, <1>1, PTL

-----------------------------------------------------------------------------
(* The server waits for the announcement.                                  *)

\* What the pipes may hold before the client has announced.
Unannounced == {m \in Messages : m = Initialized => announcements > 0}
Unspoken == {m \in Messages : m = ListChanged => announcements > 0}

Waits ==
  /\ client \in {"initialized", "operating"} \/ reader.at = "announce" \/ announcer = "announce"
       \/ announcements > 0 => clientVersion # NoVersion
  /\ server = "operating" \/ pusher.at = "send" => announcements > 0
  /\ toServer \in Seq(Unannounced)
  /\ toClient \in Seq(Unspoken)

\* Writing the notification opens both pipes.
LEMMA AnnounceKeeps ==
  ASSUME TypeOK, Waits, Announce
  PROVE  /\ toServer' \in Seq(Unannounced')
         /\ UNCHANGED toClient => toClient' \in Seq(Unspoken')
  <1>1. announcements \in Nat /\ announcements' \in Nat /\ announcements' >= announcements
    BY DEF TypeOK, Announce
  <1>2. Unannounced \subseteq Unannounced' /\ Unspoken \subseteq Unspoken'
    BY <1>1 DEF Unannounced, Unspoken
  <1>3. toServer \in Seq(Unannounced') /\ toClient \in Seq(Unspoken')
    BY <1>2, WiderPipe DEF Waits
  <1>4. running => Initialized \in Unannounced'
    BY <1>1, WrittenMessages DEF Announce, Unannounced
  <1>5. QED
    BY <1>3, <1>4, Pipes DEF Announce

\* An answer is no notification.
LEMMA AnswersKeep ==
  ASSUME TypeOK, Waits, toServer # << >>, Head(toServer).type = "request",
         \E v \in Versions, ok \in BOOLEAN : toClient' = Append(toClient, Response(Head(toServer).call, ok, v))
  PROVE  toClient' \in Seq(Unspoken)
  <1>1. Head(toServer).call \in Calls
    BY Pipes, ReadMessages DEF TypeOK
  <1>2. PICK v \in Versions, ok \in BOOLEAN : toClient' = Append(toClient, Response(Head(toServer).call, ok, v))
    OBVIOUS
  <1>3. Response(Head(toServer).call, ok, v) \in Unspoken
    <2>1. Response(Head(toServer).call, ok, v) # ListChanged
      BY DEF Response, ListChanged
    <2>2. QED
      BY <1>1, <2>1, WrittenMessages DEF Unspoken
  <1>4. QED
    BY <1>2, <1>3, Pipes DEF Waits

\* Every step keeps the server waiting for its client.
LEMMA NextWaits == TypeOK /\ Waits /\ [Next]_vars => Waits'
  <1> SUFFICES ASSUME TypeOK, Waits, [Next]_vars PROVE Waits'
    OBVIOUS
  <1> USE ReaderMoves DEF Waits, Unannounced, Unspoken, calls, session, serverSide, ReaderPoints
  <1>1. ASSUME NEW c \in Calls, SendRequest(c) PROVE Waits'
    BY <1>1, InitializeFromCreated DEF SendRequest
  <1>2. ASSUME NEW c \in Calls, SetPendingInitialize(c) PROVE Waits'
    BY <1>2 DEF SetPendingInitialize
  <1>3. ASSUME NEW c \in Calls, RouteRequest(c) PROVE Waits'
    <2>1. \A v : Request(c, v) # Initialized /\ Request(c, v).type = "request"
      BY DEF Request, Initialized
    <2>2. toServer' \in Seq(Unannounced)
      <3>1. CASE toServer' = toServer
        BY <3>1
      <3>2. ASSUME NEW v \in IF c \in Inits THEN Proposals ELSE {NoVersion}, toServer' = Append(toServer, Request(c, v))
            PROVE  toServer' \in Seq(Unannounced)
        <4>1. Request(c, v) \in Messages
          <5>1. v \in Versions
            BY DEF Versions
          <5>2. QED
            BY <5>1, WrittenMessages
        <4>2. QED
          BY <2>1, <3>2, <4>1, Pipes
      <3>3. QED
        BY <1>3, <3>1, <3>2 DEF RouteRequest
    <2>3. QED
      BY <1>3, <2>2 DEF RouteRequest
  <1>4. ASSUME NEW c \in Calls, CheckInitializeFuture(c) PROVE Waits'
    BY <1>4 DEF CheckInitializeFuture
  <1>5. ASSUME NEW c \in Calls, AdoptResetPending(c) PROVE Waits'
    BY <1>5 DEF AdoptResetPending
  <1>6. ASSUME NEW c \in Calls, AdoptResponse(c) PROVE Waits'
    BY <1>6, HandshakeAssumption DEF AdoptResponse, SessionTakes, Accepted
  <1>7. ASSUME NEW c \in Calls, RequestTimesOut(c) PROVE Waits'
    BY <1>7 DEF RequestTimesOut
  <1>8. ASSUME ReaderEnds PROVE Waits'
    BY <1>8 DEF ReaderEnds
  <1>9. ASSUME ReceiveMessage PROVE Waits'
    BY <1>9, ReceiveMoves, Pipes DEF ReceiveMessage
  <1>10. ASSUME ResetPending PROVE Waits'
    BY <1>10 DEF ResetPending
  <1>11. ASSUME HandleInitializeSuccess PROVE Waits'
    BY <1>11, HandshakeAssumption DEF HandleInitializeSuccess, SessionTakes, Accepted
  <1>12. ASSUME ReaderNotifies PROVE Waits'
    BY <1>12 DEF ReaderNotifies
  <1>13. ASSUME ReaderAnnounces PROVE Waits'
    <2>1. toServer' \in Seq(Unannounced')
      BY <1>13, AnnounceKeeps DEF ReaderAnnounces
    <2>2. toClient' \in Seq(Unspoken')
      BY <1>13, AnnounceKeeps DEF ReaderAnnounces
    <2>3. announcements > 0 => announcements' > 0
      BY <1>13 DEF ReaderAnnounces, Announce, TypeOK
    <2> HIDE DEF Unannounced, Unspoken
    <2>4. QED
      BY <1>13, <2>1, <2>2, <2>3 DEF ReaderAnnounces
  <1>14. ASSUME DispatchResponse PROVE Waits'
    BY <1>14 DEF DispatchResponse
  <1>15. ASSUME DispatchErrorResponse PROVE Waits'
    BY <1>15 DEF DispatchErrorResponse
  <1>16. ASSUME HandleInitializeError PROVE Waits'
    BY <1>16 DEF HandleInitializeError, SessionTakes, Accepted
  <1>17. ASSUME AppNotifies PROVE Waits'
    BY <1>17 DEF AppNotifies
  <1>18. ASSUME AppAnnounces PROVE Waits'
    <2>1. toServer' \in Seq(Unannounced')
      BY <1>18, AnnounceKeeps DEF AppAnnounces
    <2>2. toClient' \in Seq(Unspoken')
      BY <1>18, AnnounceKeeps DEF AppAnnounces
    <2>3. announcements > 0 => announcements' > 0
      BY <1>18 DEF AppAnnounces, Announce, TypeOK
    <2> HIDE DEF Unannounced, Unspoken
    <2>4. QED
      BY <1>18, <2>1, <2>2, <2>3 DEF AppAnnounces
  <1>19. ASSUME StopTransport PROVE Waits'
    BY <1>19 DEF StopTransport
  <1>20. ASSUME StopSession PROVE Waits'
    BY <1>20 DEF StopSession
  <1>21. ASSUME HandleInitialize PROVE Waits'
    <2>1. \E v \in Versions, ok \in BOOLEAN : toClient' = Append(toClient, Response(Head(toServer).call, ok, v))
      BY <1>21, SelectedIsSupported DEF HandleInitialize, Answers, Versions
    <2>2. toClient' \in Seq(Unspoken)
      BY <1>21, <2>1, AnswersKeep DEF HandleInitialize
    <2>3. toServer' \in Seq(Unannounced)
      BY <1>21, Pipes DEF HandleInitialize
    <2> HIDE DEF Unannounced, Unspoken
    <2>4. UNCHANGED announcements /\ (server' = "operating" => server = "operating")
      BY <1>21 DEF HandleInitialize
    <2>5. Unannounced' = Unannounced /\ Unspoken' = Unspoken
      BY <2>4 DEF Unannounced, Unspoken
    <2>6. QED
      BY <1>21, <2>2, <2>3, <2>4, <2>5 DEF HandleInitialize
  <1>22. ASSUME HandleRequest PROVE Waits'
    <2>1. \E v \in Versions, ok \in BOOLEAN : toClient' = Append(toClient, Response(Head(toServer).call, ok, v))
      BY <1>22 DEF HandleRequest, Answers, Versions, CanHandleRequest
    <2>2. toClient' \in Seq(Unspoken)
      BY <1>22, <2>1, AnswersKeep DEF HandleRequest
    <2>3. toServer' \in Seq(Unannounced)
      BY <1>22, Pipes DEF HandleRequest
    <2>4. QED
      BY <1>22, <2>2, <2>3 DEF HandleRequest
  <1>23. ASSUME HandleInitializedNotification PROVE Waits'
    <2>1. Head(toServer) \in Unannounced /\ toServer' \in Seq(Unannounced)
      BY <1>23, Pipes DEF HandleInitializedNotification
    <2>2. Head(toServer) = Initialized
      BY <1>23, <2>1 DEF HandleInitializedNotification, Messages, Initialized
    <2>3. announcements > 0
      BY <2>1, <2>2
    <2>4. QED
      BY <1>23, <2>1, <2>3 DEF HandleInitializedNotification
  <1>24. ASSUME CheckCanPush PROVE Waits'
    BY <1>24 DEF CheckCanPush
  <1>25. ASSUME Push PROVE Waits'
    <2>1. ListChanged \in Unspoken
      BY <1>25, WrittenMessages DEF Push
    <2>2. toClient' \in Seq(Unspoken)
      BY <1>25, <2>1, Pipes DEF Push
    <2>3. QED
      BY <1>25, <2>2 DEF Push
  <1>26. ASSUME ServerStops PROVE Waits'
    BY <1>26 DEF ServerStops
  <1>27. CASE UNCHANGED vars
    BY <1>27 DEF vars, calls, session, serverSide
  <1>28. QED
    BY <1>1, <1>2, <1>3, <1>4, <1>5, <1>6, <1>7, <1>8, <1>9, <1>10, <1>11, <1>12, <1>13,
       <1>14, <1>15, <1>16, <1>17, <1>18, <1>19, <1>20, <1>21, <1>22, <1>23, <1>24, <1>25, <1>26,
       <1>27
    DEF Next, CallerInside, ReaderStep, AppStep, RunnerStep, ServerStep

\* The server operates and notifies only a client that has taken its version and announced it.
THEOREM ServerIsSilentUntilAnnounced == Spec => []ServerWaitsForClient
  <1>1. Init => Waits
    <2> SUFFICES ASSUME Init PROVE Waits
      OBVIOUS
    <2>1. toServer \in Seq(Unannounced) /\ toClient \in Seq(Unspoken)
      BY DEF Init
    <2>2. QED
      BY <2>1 DEF Init, Waits, IdleReader
  <1>2. Waits => ServerWaitsForClient
    <2> SUFFICES ASSUME Waits PROVE ServerWaitsForClient
      OBVIOUS
    <2>1. ASSUME NEW i \in 1..Len(toClient), toClient[i] = ListChanged PROVE announcements > 0
      <3>1. toClient[i] \in Unspoken
        BY DEF Waits
      <3>2. QED
        BY <2>1, <3>1 DEF Unspoken
    <2>2. QED
      BY <2>1 DEF Waits, ServerWaitsForClient
  <1>3. QED
    BY <1>1, <1>2, TypeCorrect, NextWaits, PTL DEF Spec

-----------------------------------------------------------------------------
(* The one call that negotiates.                                           *)

\* Where an initialize call and its message are.
Active(c) == pc[c] \notin {"idle", "refused"}
Unrouted(c) == pc[c] \in {"idle", "refused", "setPending", "route"}
Alone(c) == \A d \in Inits \ {c} : ~Active(d)
RequestAt(i, c) == i \in 1..Len(toServer) /\ toServer[i].type = "request" /\ toServer[i].call = c
ResponseAt(i, c) == i \in 1..Len(toClient) /\ toClient[i].type = "response" /\ toClient[i].call = c
AcceptAt(i, c) == ResponseAt(i, c) /\ toClient[i].ok
Held(c) == reader.at \notin {"idle", "ended"} /\ reader.msg.call = c

\* A call is routed once and answered once: its message is in one place at a time.
OneMessage(c) ==
  /\ \A i, j \in Nat : RequestAt(i, c) /\ RequestAt(j, c) => i = j
  /\ \A i, j \in Nat : ResponseAt(i, c) /\ ResponseAt(j, c) => i = j
  /\ \A i, j \in Nat : RequestAt(i, c) => ~ResponseAt(j, c)
  /\ \A i \in Nat : RequestAt(i, c) \/ ResponseAt(i, c) => ~Unrouted(c) /\ ~Held(c)
  /\ Held(c) => ~Unrouted(c)

\* The session waits for c alone, and the response of c has not been seen.
Fresh(c) ==
  /\ Alone(c) /\ pc[c] \in {"check", "waiting"} /\ future[c].is = "pending"
  /\ pendingInitializeRequestId = c /\ client \in {"initializing", "stopped"}

\* No initialize call but c has ever been made, and nobody waits for a response any more.
Settled(c) ==
  Alone(c) /\ pc[c] \in {"check", "waiting"} /\ pendingInitializeRequestId = NoCall

FirstAt(i, c) == RequestAt(i, c) /\ \A j \in Nat, d \in Inits : RequestAt(j, d) => i <= j

\* Before the server has negotiated, the first initialize request in the pipe is fresh or timed
\* out, and as long as none is in the pipe at most one call is on its way.
Asked ==
  server = "created" /\ ServerVersions # {} =>
    /\ \A c \in Inits : ~Held(c) /\ \A i \in Nat : ~ResponseAt(i, c)
    /\ \A c \in Inits, i \in Nat : FirstAt(i, c) /\ future[c].is # "timeout" => Fresh(c)
    /\ running /\ (\A c \in Inits, i \in Nat : ~RequestAt(i, c)) =>
         \A c \in Inits : Active(c) =>
           /\ Alone(c) /\ pc[c] \in {"setPending", "route"} /\ client = "initializing"
           /\ pc[c] = "route" => pendingInitializeRequestId = c

\* The server's acceptance on its way to the session and to the caller, unless the caller has
\* given up: the session is still waiting for it, and then it waits for no other.
Taking(c) ==
  /\ reader.at = "reset" => Fresh(c)
  /\ reader.at = "session" => Settled(c) /\ future[c].is = "pending" /\ client = "initializing"
  /\ reader.at = "notify" =>
       Settled(c) /\ future[c].is = "pending" /\ client \in {"initialized", "operating"}
  /\ reader.at \in {"announce", "dispatch"} /\ reader.msg.version \in ClientVersions =>
       Settled(c) /\ future[c].is = "pending" /\ client = "operating"

Accepting(c) ==
  future[c].is # "timeout" =>
    /\ \A i \in Nat : AcceptAt(i, c) => Fresh(c)
    /\ Held(c) /\ reader.msg.ok => Taking(c)
    /\ future[c].is = "success" /\ future[c].version \in ClientVersions =>
         Settled(c) /\ client \in {"operating", "stopped"}

\* The reader does for an initialize call what it does for no other; a stopped client has no reader.
ReaderInv ==
  /\ reader.at \notin {"idle", "ended", "dispatch"} => reader.msg.call \in Inits
  /\ reader.at \in {"session", "notify", "announce"} => reader.msg.ok
  /\ reader.at \in {"notify", "announce"} => reader.msg.version \in ClientVersions
  /\ reader.at \in {"dispatchError", "sessionError"} => ~reader.msg.ok
  /\ reader.at = "ended" => ~running
  /\ stopping # "no" => ~running
  /\ client = "stopped" => reader.at = "ended"

NegotiatesOnce ==
  /\ ReaderInv /\ Asked
  /\ \A c \in Inits : OneMessage(c) /\ Accepting(c)

\* A written message is the last in the pipe.
LEMMA Appended ==
  ASSUME NEW S, NEW s \in Seq(S), NEW m \in S
  PROVE  /\ Len(s) \in Nat /\ Len(Append(s, m)) = Len(s) + 1 /\ Append(s, m)[Len(s) + 1] = m
         /\ \A i \in 1..Len(s) : Append(s, m)[i] = s[i]
  OBVIOUS

\* The head of a pipe is read, and everything behind it moves up.
LEMMA Tailed ==
  ASSUME NEW S, NEW s \in Seq(S), s # << >>
  PROVE  /\ Len(s) \in Nat \ {0} /\ Len(Tail(s)) = Len(s) - 1 /\ Head(s) = s[1]
         /\ \A i \in 1..Len(Tail(s)) : Tail(s)[i] = s[i + 1]
  OBVIOUS

\* The notification is no request.
LEMMA QuietRequests ==
  ASSUME TypeOK, toServer' = toServer \/ toServer' = Append(toServer, Initialized)
  PROVE  \A c \in Inits, i \in Nat : RequestAt(i, c)' <=> RequestAt(i, c)
  <1>1. CASE toServer' = Append(toServer, Initialized)
    <2>1. /\ Len(toServer) \in Nat /\ Len(toServer') = Len(toServer) + 1
          /\ toServer'[Len(toServer) + 1] = Initialized /\ \A i \in 1..Len(toServer) : toServer'[i] = toServer[i]
      BY <1>1, Appended, WrittenMessages DEF TypeOK
    <2>2. Initialized.type = "initialized"
      BY DEF Initialized
    <2>3. \A i \in Nat : i \in 1..Len(toServer') <=> i \in 1..Len(toServer) \/ i = Len(toServer) + 1
      BY <2>1
    <2> QED
      BY <2>1, <2>2, <2>3 DEF RequestAt
  <1> QED
    BY <1>1 DEF RequestAt

\* A routed request is the last in the pipe.
LEMMA NewRequest ==
  ASSUME TypeOK, NEW d \in Calls, NEW v \in Versions, toServer' = Append(toServer, Request(d, v))
  PROVE  /\ Len(toServer) \in Nat
         /\ \A c \in Inits, i \in Nat : RequestAt(i, c)' <=> RequestAt(i, c) \/ (i = Len(toServer) + 1 /\ c = d)
         /\ \A c \in Inits, i \in Nat : RequestAt(i, c) => i < Len(toServer) + 1
  <1>1. /\ Len(toServer) \in Nat /\ Len(toServer') = Len(toServer) + 1
        /\ toServer'[Len(toServer) + 1] = Request(d, v) /\ \A i \in 1..Len(toServer) : toServer'[i] = toServer[i]
    BY Appended, WrittenMessages DEF TypeOK
  <1>2. Request(d, v).type = "request" /\ Request(d, v).call = d
    BY DEF Request
  <1>3. \A i \in Nat : i \in 1..Len(toServer') <=> i \in 1..Len(toServer) \/ i = Len(toServer) + 1
    BY <1>1
  <1>4. \A c \in Inits, i \in Nat : RequestAt(i, c) => i < Len(toServer) + 1
    BY <1>1 DEF RequestAt
  <1>5. \A c \in Inits, i \in Nat : RequestAt(i, c)' <=> RequestAt(i, c) \/ (i = Len(toServer) + 1 /\ c = d)
    <2> TAKE c \in Inits, i \in Nat
    <2>1. CASE i = Len(toServer) + 1
      BY <1>1, <1>2, <1>3, <1>4, <2>1 DEF RequestAt
    <2>2. CASE i # Len(toServer) + 1
      BY <1>1, <1>3, <2>2 DEF RequestAt
    <2> QED
      BY <2>1, <2>2
  <1> QED
    BY <1>1, <1>4, <1>5

\* The runner reads the request at the head of the pipe.
LEMMA ReadRequest ==
  ASSUME TypeOK, toServer # << >>, toServer' = Tail(toServer)
  PROVE  /\ \A c \in Inits, i \in Nat : RequestAt(i, c)' <=> i # 0 /\ RequestAt(i + 1, c)
         /\ \A c \in Inits : RequestAt(1, c) <=> Head(toServer).type = "request" /\ Head(toServer).call = c
         /\ \A c \in Inits : ~RequestAt(0, c)
  <1>1. /\ Len(toServer) \in Nat \ {0} /\ Len(toServer') = Len(toServer) - 1 /\ Head(toServer) = toServer[1]
        /\ \A i \in 1..Len(toServer') : toServer'[i] = toServer[i + 1]
    BY Tailed DEF TypeOK
  <1>2. \A i \in Nat : i \in 1..Len(toServer') <=> i # 0 /\ i + 1 \in 1..Len(toServer)
    BY <1>1
  <1> QED
    BY <1>1, <1>2 DEF RequestAt

\* A pushed notification is no response.
LEMMA QuietResponses ==
  ASSUME TypeOK, toClient' = toClient \/ toClient' = Append(toClient, ListChanged)
  PROVE  \A c \in Inits, i \in Nat : /\ ResponseAt(i, c)' <=> ResponseAt(i, c)
                                     /\ AcceptAt(i, c)' <=> AcceptAt(i, c)
  <1>1. CASE toClient' = Append(toClient, ListChanged)
    <2>1. /\ Len(toClient) \in Nat /\ Len(toClient') = Len(toClient) + 1
          /\ toClient'[Len(toClient) + 1] = ListChanged /\ \A i \in 1..Len(toClient) : toClient'[i] = toClient[i]
      BY <1>1, Appended, WrittenMessages DEF TypeOK
    <2>2. ListChanged.type = "listChanged"
      BY DEF ListChanged
    <2>3. \A i \in Nat : i \in 1..Len(toClient') <=> i \in 1..Len(toClient) \/ i = Len(toClient) + 1
      BY <2>1
    <2> QED
      BY <2>1, <2>2, <2>3 DEF ResponseAt, AcceptAt
  <1> QED
    BY <1>1 DEF ResponseAt, AcceptAt

\* An answer is the last in the pipe.
LEMMA NewResponse ==
  ASSUME TypeOK, NEW d \in Calls, NEW ok \in BOOLEAN, NEW v \in Versions, Answers(d, ok, v)
  PROVE  /\ Len(toClient) \in Nat
         /\ \A c \in Inits, i \in Nat :
              /\ ResponseAt(i, c)' <=> ResponseAt(i, c) \/ (i = Len(toClient) + 1 /\ c = d)
              /\ AcceptAt(i, c)' <=> AcceptAt(i, c) \/ (i = Len(toClient) + 1 /\ c = d /\ ok)
  <1>1. /\ Len(toClient) \in Nat /\ Len(toClient') = Len(toClient) + 1
        /\ toClient'[Len(toClient) + 1] = Response(d, ok, v) /\ \A i \in 1..Len(toClient) : toClient'[i] = toClient[i]
    BY Appended, WrittenMessages DEF TypeOK, Answers
  <1>2. Response(d, ok, v).type = "response" /\ Response(d, ok, v).call = d /\ Response(d, ok, v).ok = ok
    BY DEF Response
  <1>3. \A i \in Nat : i \in 1..Len(toClient') <=> i \in 1..Len(toClient) \/ i = Len(toClient) + 1
    BY <1>1
  <1>4. Len(toClient) + 1 \notin 1..Len(toClient)
    BY <1>1
  <1>5. ASSUME NEW c \in Inits, NEW i \in Nat
        PROVE  /\ ResponseAt(i, c)' <=> ResponseAt(i, c) \/ (i = Len(toClient) + 1 /\ c = d)
               /\ AcceptAt(i, c)' <=> AcceptAt(i, c) \/ (i = Len(toClient) + 1 /\ c = d /\ ok)
    <2>1. CASE i = Len(toClient) + 1
      <3>1. ~ResponseAt(i, c)
        BY <1>4, <2>1 DEF ResponseAt
      <3>2. ResponseAt(i, c)' <=> c = d
        BY <1>1, <1>2, <1>3, <2>1 DEF ResponseAt
      <3>3. toClient'[i].ok = ok
        BY <1>1, <1>2, <2>1
      <3> QED
        BY <2>1, <3>1, <3>2, <3>3 DEF AcceptAt
    <2>2. CASE i # Len(toClient) + 1
      BY <1>1, <1>3, <2>2 DEF ResponseAt, AcceptAt
    <2> QED
      BY <2>1, <2>2
  <1> QED
    BY <1>1, <1>5

\* The reader takes the response at the head of the pipe.
LEMMA ReadResponse ==
  ASSUME TypeOK, toClient # << >>, toClient' = Tail(toClient)
  PROVE  /\ \A c \in Inits, i \in Nat : /\ ResponseAt(i, c)' <=> i # 0 /\ ResponseAt(i + 1, c)
                                        /\ AcceptAt(i, c)' <=> i # 0 /\ AcceptAt(i + 1, c)
         /\ \A c \in Inits : ResponseAt(1, c) <=> Head(toClient).type = "response" /\ Head(toClient).call = c
         /\ \A c \in Inits : AcceptAt(1, c) <=> ResponseAt(1, c) /\ Head(toClient).ok
  <1>1. /\ Len(toClient) \in Nat \ {0} /\ Len(toClient') = Len(toClient) - 1 /\ Head(toClient) = toClient[1]
        /\ \A i \in 1..Len(toClient') : toClient'[i] = toClient[i + 1]
    BY Tailed DEF TypeOK
  <1>2. \A i \in Nat : i \in 1..Len(toClient') <=> i # 0 /\ i + 1 \in 1..Len(toClient)
    BY <1>1
  <1>3. \A c \in Inits, i \in Nat : /\ ResponseAt(i, c)' <=> i # 0 /\ ResponseAt(i + 1, c)
                                    /\ AcceptAt(i, c)' <=> i # 0 /\ AcceptAt(i + 1, c)
    BY <1>1, <1>2 DEF ResponseAt, AcceptAt
  <1>4. 1 \in 1..Len(toClient)
    BY <1>1
  <1>5. \A c \in Inits : ResponseAt(1, c) <=> Head(toClient).type = "response" /\ Head(toClient).call = c
    BY <1>1, <1>4 DEF ResponseAt
  <1>6. \A c \in Inits : AcceptAt(1, c) <=> ResponseAt(1, c) /\ Head(toClient).ok
    BY <1>1 DEF AcceptAt
  <1> QED
    BY <1>3, <1>5, <1>6

\* The reader goes through the stages of one initialize response.
LEMMA NextReaderInv == TypeInv /\ ReaderInv /\ [Next]_vars => ReaderInv'
  <1> SUFFICES ASSUME TypeInv, ReaderInv, [Next]_vars PROVE ReaderInv'
    OBVIOUS
  <1> TypeOK
    BY DEF TypeInv
  <1> USE ReaderMoves DEF ReaderInv, calls, session, serverSide, ReaderPoints
  <1>0. NextLine => (reader'.at = "ended" => ~running)
    <2>1. \A at \in ReaderPoints : [ IdleReader EXCEPT !.at = at ].at = at
      BY DEF IdleReader
    <2> QED
      BY <2>1 DEF NextLine
  <1>1. ASSUME NEW c \in Calls, SendRequest(c) PROVE ReaderInv'
    BY <1>1, InitializeFromCreated DEF SendRequest
  <1>2. ASSUME NEW c \in Calls, SetPendingInitialize(c) PROVE ReaderInv'
    BY <1>2 DEF SetPendingInitialize
  <1>3. ASSUME NEW c \in Calls, RouteRequest(c) PROVE ReaderInv'
    BY <1>3 DEF RouteRequest
  <1>4. ASSUME NEW c \in Calls, CheckInitializeFuture(c) PROVE ReaderInv'
    BY <1>4 DEF CheckInitializeFuture
  <1>5. ASSUME NEW c \in Calls, AdoptResetPending(c) PROVE ReaderInv'
    BY <1>5 DEF AdoptResetPending
  <1>6. ASSUME NEW c \in Calls, AdoptResponse(c) PROVE ReaderInv'
    BY <1>6 DEF AdoptResponse, SessionTakes, Accepted
  <1>7. ASSUME NEW c \in Calls, RequestTimesOut(c) PROVE ReaderInv'
    BY <1>7 DEF RequestTimesOut
  <1>8. ASSUME ReaderEnds PROVE ReaderInv'
    BY <1>8, <1>0 DEF ReaderEnds
  <1>9. ASSUME ReceiveMessage PROVE ReaderInv'
    <2>1. CASE Head(toClient).type = "response"
      <3>1. pendingInitializeRequestId \in Inits \cup {NoCall} /\ reader.at = "idle"
        BY <1>9 DEF TypeOK, ReceiveMessage
      <3>2. Head(toClient).call \in Calls
        BY <1>9, <2>1, Pipes, ReadMessages DEF TypeOK, ReceiveMessage
      <3>3. Head(toClient).call # NoCall
        BY <3>2, HandshakeAssumption
      <3> QED
        BY <1>9, <2>1, <3>1, <3>3 DEF ReceiveMessage
    <2>2. CASE Head(toClient).type # "response"
      BY <1>9, <1>0, <2>2 DEF ReceiveMessage
    <2> QED
      BY <2>1, <2>2
  <1>10. ASSUME ResetPending PROVE ReaderInv'
    BY <1>10 DEF ResetPending
  <1>11. ASSUME HandleInitializeSuccess PROVE ReaderInv'
    BY <1>11 DEF HandleInitializeSuccess, SessionTakes, Accepted
  <1>12. ASSUME ReaderNotifies PROVE ReaderInv'
    BY <1>12 DEF ReaderNotifies
  <1>13. ASSUME ReaderAnnounces PROVE ReaderInv'
    BY <1>13, <1>0 DEF ReaderAnnounces
  <1>14. ASSUME DispatchResponse PROVE ReaderInv'
    BY <1>14, <1>0 DEF DispatchResponse
  <1>15. ASSUME DispatchErrorResponse PROVE ReaderInv'
    BY <1>15 DEF DispatchErrorResponse
  <1>16. ASSUME HandleInitializeError PROVE ReaderInv'
    BY <1>16, <1>0 DEF HandleInitializeError, SessionTakes, Accepted
  <1>17. ASSUME AppNotifies PROVE ReaderInv'
    BY <1>17 DEF AppNotifies
  <1>18. ASSUME AppAnnounces PROVE ReaderInv'
    BY <1>18 DEF AppAnnounces
  <1>19. ASSUME StopTransport PROVE ReaderInv'
    BY <1>19 DEF StopTransport
  <1>20. ASSUME StopSession PROVE ReaderInv'
    BY <1>20 DEF StopSession
  <1>21. ASSUME HandleInitialize PROVE ReaderInv'
    BY <1>21 DEF HandleInitialize
  <1>22. ASSUME HandleRequest PROVE ReaderInv'
    BY <1>22 DEF HandleRequest
  <1>23. ASSUME HandleInitializedNotification PROVE ReaderInv'
    BY <1>23 DEF HandleInitializedNotification
  <1>24. ASSUME CheckCanPush PROVE ReaderInv'
    BY <1>24 DEF CheckCanPush
  <1>25. ASSUME Push PROVE ReaderInv'
    BY <1>25 DEF Push
  <1>26. ASSUME ServerStops PROVE ReaderInv'
    BY <1>26 DEF ServerStops
  <1>27. CASE UNCHANGED vars
    BY <1>27 DEF vars
  <1>28. QED
    BY <1>1, <1>2, <1>3, <1>4, <1>5, <1>6, <1>7, <1>8, <1>9, <1>10, <1>11, <1>12, <1>13, <1>14, <1>15, <1>16, <1>17, <1>18, <1>19, <1>20, <1>21, <1>22, <1>23, <1>24, <1>25, <1>26, <1>27
    DEF Next, CallerInside, ReaderStep, AppStep, RunnerStep, ServerStep

\* A call's message stays in one place.
LEMMA OneMessageKeeps ==
  ASSUME NEW c \in Inits, OneMessage(c), Unrouted(c)' => Unrouted(c), Held(c)' => Held(c),
         \A i \in Nat : (RequestAt(i, c)' <=> RequestAt(i, c)) /\ (ResponseAt(i, c)' <=> ResponseAt(i, c))
  PROVE  OneMessage(c)'
  <1> HIDE DEF Held, Unrouted, RequestAt, ResponseAt
  <1> QED
    BY DEF OneMessage

\* Routing, answering and receiving move the message of a call, nothing copies it.
LEMMA NextOneMessage ==
  ASSUME TypeInv, NEW c \in Inits, OneMessage(c), [Next]_vars
  PROVE  OneMessage(c)'
  <1> TypeOK /\ c \in Calls
    BY DEF TypeInv, Calls
  <1> USE ReaderMoves DEF calls, session, serverSide, ReaderPoints
  <1>a. ASSUME Unrouted(c)' => Unrouted(c), Held(c)' => Held(c),
               toServer' = toServer \/ toServer' = Append(toServer, Initialized),
               toClient' = toClient \/ toClient' = Append(toClient, ListChanged)
        PROVE  OneMessage(c)'
    BY <1>a, QuietRequests, QuietResponses, OneMessageKeeps
  <1>b. UNCHANGED pc => (Unrouted(c)' <=> Unrouted(c))
    BY DEF Unrouted
  <1>c. UNCHANGED reader => (Held(c)' <=> Held(c))
    BY DEF Held
  <1>d. NextLine => ~Held(c)'
    BY DEF Held
  <1>e. ASSUME toServer # << >>, toServer' = Tail(toServer), Head(toServer).type = "request", UNCHANGED << pc, reader >>,
               NEW ok \in BOOLEAN, NEW v \in Versions, Answers(Head(toServer).call, ok, v)
        PROVE  OneMessage(c)'
    <2> DEFINE d == Head(toServer).call
    <2>1. d \in Calls
      BY <1>e, Pipes, ReadMessages DEF TypeOK
    <2>2. /\ \A i \in Nat : RequestAt(i, c)' <=> i # 0 /\ RequestAt(i + 1, c)
          /\ RequestAt(1, c) <=> d = c
      BY <1>e, ReadRequest
    <2>3. /\ Len(toClient) \in Nat
          /\ \A i \in Nat : ResponseAt(i, c)' <=> ResponseAt(i, c) \/ (i = Len(toClient) + 1 /\ c = d)
      BY <1>e, <2>1, NewResponse
    <2>4. (Unrouted(c)' <=> Unrouted(c)) /\ (Held(c)' <=> Held(c))
      BY <1>b, <1>c, <1>e
    <2> HIDE DEF d
    <2>5. \A i, j \in Nat : RequestAt(i, c)' /\ RequestAt(j, c)' => i = j
      <3> SUFFICES ASSUME NEW i \in Nat, NEW j \in Nat, RequestAt(i + 1, c), RequestAt(j + 1, c) PROVE i = j
        BY <2>2
      <3>1. i + 1 \in Nat /\ j + 1 \in Nat
        OBVIOUS
      <3>2. i + 1 = j + 1
        BY <3>1 DEF OneMessage
      <3> QED
        BY <3>2
    <2>6. \A i \in Nat : RequestAt(i, c)' => d # c /\ \E j \in Nat : RequestAt(j, c)
      <3> SUFFICES ASSUME NEW i \in Nat, i # 0, RequestAt(i + 1, c) PROVE d # c /\ \E j \in Nat : RequestAt(j, c)
        BY <2>2
      <3>1. i + 1 \in Nat /\ i + 1 # 1 /\ 1 \in Nat
        OBVIOUS
      <3> QED
        BY <2>2, <3>1 DEF OneMessage
    <2>7. d = c => ~Unrouted(c) /\ ~Held(c) /\ \A i \in Nat : ~ResponseAt(i, c)
      <3>1. 1 \in Nat
        OBVIOUS
      <3> QED
        BY <2>2, <3>1 DEF OneMessage
    <2> QED
      BY <2>3, <2>4, <2>5, <2>6, <2>7 DEF OneMessage
  <1>1. ASSUME NEW d \in Calls, SendRequest(d) PROVE OneMessage(c)'
    BY <1>1, <1>a, <1>c DEF SendRequest, Goto, Unrouted, TypeOK
  <1>2. ASSUME NEW d \in Calls, SetPendingInitialize(d) PROVE OneMessage(c)'
    BY <1>2, <1>a, <1>c DEF SetPendingInitialize, Goto, Unrouted, TypeOK
  <1>3. ASSUME NEW d \in Calls, RouteRequest(d) PROVE OneMessage(c)'
    <2>1. (c = d => Unrouted(c)) /\ (Unrouted(c)' => Unrouted(c)) /\ (c = d => ~Unrouted(c)')
      BY <1>3 DEF RouteRequest, Goto, Unrouted, TypeOK
    <2>2. CASE toServer' = toServer
      BY <1>3, <1>a, <1>c, <2>1, <2>2 DEF RouteRequest
    <2>3. ASSUME NEW v \in Versions, toServer' = Append(toServer, Request(d, v)) PROVE OneMessage(c)'
      <3>1. /\ Len(toServer) \in Nat
            /\ \A i \in Nat : RequestAt(i, c)' <=> RequestAt(i, c) \/ (i = Len(toServer) + 1 /\ c = d)
        BY <2>3, NewRequest
      <3>2. UNCHANGED << reader, toClient >>
        BY <1>3 DEF RouteRequest
      <3>3. \A i \in Nat : ResponseAt(i, c)' <=> ResponseAt(i, c)
        BY <3>2, QuietResponses
      <3>4. Held(c)' <=> Held(c)
        BY <1>c, <3>2
      <3> QED
        BY <2>1, <3>1, <3>3, <3>4 DEF OneMessage
    <2> QED
      BY <1>3, <2>2, <2>3 DEF RouteRequest, Versions
  <1>4. ASSUME NEW d \in Calls, CheckInitializeFuture(d) PROVE OneMessage(c)'
    BY <1>4, <1>a, <1>c DEF CheckInitializeFuture, Goto, Unrouted, TypeOK
  <1>5. ASSUME NEW d \in Calls, AdoptResetPending(d) PROVE OneMessage(c)'
    BY <1>5, <1>a, <1>c DEF AdoptResetPending, Goto, Unrouted, TypeOK
  <1>6. ASSUME NEW d \in Calls, AdoptResponse(d) PROVE OneMessage(c)'
    BY <1>6, <1>a, <1>c DEF AdoptResponse, Goto, Unrouted, TypeOK
  <1>7. ASSUME NEW d \in Calls, RequestTimesOut(d) PROVE OneMessage(c)'
    BY <1>7, <1>a, <1>b, <1>c DEF RequestTimesOut
  <1>8. ASSUME ReaderEnds PROVE OneMessage(c)'
    BY <1>8, <1>a, <1>b, <1>d DEF ReaderEnds
  <1>9. ASSUME ReceiveMessage PROVE OneMessage(c)'
    <2>1. toClient # << >> /\ toClient' = Tail(toClient) /\ reader.at = "idle" /\ UNCHANGED << pc, toServer >>
      BY <1>9 DEF ReceiveMessage
    <2>2. /\ \A i \in Nat : ResponseAt(i, c)' <=> i # 0 /\ ResponseAt(i + 1, c)
          /\ ResponseAt(1, c) <=> Head(toClient).type = "response" /\ Head(toClient).call = c
      BY <2>1, ReadResponse
    <2>3. \A i \in Nat : RequestAt(i, c)' <=> RequestAt(i, c)
      BY <2>1, QuietRequests
    <2>4. ~Held(c) /\ (Held(c)' => ResponseAt(1, c))
      BY <1>9, <2>1, <2>2, ReceiveMoves, HandshakeAssumption DEF Held, NoResponse
    <2>5. Unrouted(c)' <=> Unrouted(c)
      BY <1>b, <2>1
    <2>6. \A i, j \in Nat : ResponseAt(i, c)' /\ ResponseAt(j, c)' => i = j
      <3> SUFFICES ASSUME NEW i \in Nat, NEW j \in Nat, ResponseAt(i + 1, c), ResponseAt(j + 1, c) PROVE i = j
        BY <2>2
      <3>1. i + 1 \in Nat /\ j + 1 \in Nat
        OBVIOUS
      <3>2. i + 1 = j + 1
        BY <3>1 DEF OneMessage
      <3> QED
        BY <3>2
    <2>7. \A i \in Nat : ResponseAt(i, c)' => ~ResponseAt(1, c) /\ ~Unrouted(c) /\ \A j \in Nat : ~RequestAt(j, c)
      <3> SUFFICES ASSUME NEW i \in Nat, i # 0, ResponseAt(i + 1, c)
                   PROVE  ~ResponseAt(1, c) /\ ~Unrouted(c) /\ \A j \in Nat : ~RequestAt(j, c)
        BY <2>2
      <3>1. i + 1 \in Nat /\ i + 1 # 1 /\ 1 \in Nat
        OBVIOUS
      <3> QED
        BY <3>1 DEF OneMessage
    <2>8. ResponseAt(1, c) => ~Unrouted(c) /\ \A j \in Nat : ~RequestAt(j, c)
      BY DEF OneMessage
    <2> QED
      BY <2>3, <2>4, <2>5, <2>6, <2>7, <2>8 DEF OneMessage
  <1>10. ASSUME ResetPending PROVE OneMessage(c)'
    <2>1. Held(c)' => Held(c)
      BY <1>10 DEF ResetPending, Held
    <2> QED
      BY <1>10, <1>a, <1>b, <2>1 DEF ResetPending
  <1>11. ASSUME HandleInitializeSuccess PROVE OneMessage(c)'
    <2>1. Held(c)' => Held(c)
      BY <1>11 DEF HandleInitializeSuccess, Held
    <2> QED
      BY <1>11, <1>a, <1>b, <2>1 DEF HandleInitializeSuccess
  <1>12. ASSUME ReaderNotifies PROVE OneMessage(c)'
    <2>1. Held(c)' => Held(c)
      BY <1>12 DEF ReaderNotifies, Held
    <2> QED
      BY <1>12, <1>a, <1>b, <2>1 DEF ReaderNotifies
  <1>13. ASSUME ReaderAnnounces PROVE OneMessage(c)'
    <2>1. Held(c)' => Held(c)
      BY <1>13, <1>d DEF ReaderAnnounces, Held
    <2> QED
      BY <1>13, <1>a, <1>b, <2>1 DEF ReaderAnnounces, Announce
  <1>14. ASSUME DispatchResponse PROVE OneMessage(c)'
    BY <1>14, <1>a, <1>b, <1>d DEF DispatchResponse
  <1>15. ASSUME DispatchErrorResponse PROVE OneMessage(c)'
    <2>1. Held(c)' => Held(c)
      BY <1>15 DEF DispatchErrorResponse, Held
    <2> QED
      BY <1>15, <1>a, <1>b, <2>1 DEF DispatchErrorResponse
  <1>16. ASSUME HandleInitializeError PROVE OneMessage(c)'
    BY <1>16, <1>a, <1>b, <1>d DEF HandleInitializeError
  <1>17. ASSUME AppNotifies PROVE OneMessage(c)'
    BY <1>17, <1>a, <1>b, <1>c DEF AppNotifies
  <1>18. ASSUME AppAnnounces PROVE OneMessage(c)'
    BY <1>18, <1>a, <1>b, <1>c DEF AppAnnounces, Announce
  <1>19. ASSUME StopTransport PROVE OneMessage(c)'
    BY <1>19, <1>a, <1>b, <1>c DEF StopTransport
  <1>20. ASSUME StopSession PROVE OneMessage(c)'
    BY <1>20, <1>a, <1>b, <1>c DEF StopSession
  <1>21. ASSUME HandleInitialize PROVE OneMessage(c)'
    BY <1>21, <1>e, SelectedIsSupported DEF HandleInitialize, Versions
  <1>22. ASSUME HandleRequest PROVE OneMessage(c)'
    BY <1>22, <1>e DEF HandleRequest, Versions, CanHandleRequest
  <1>23. ASSUME HandleInitializedNotification PROVE OneMessage(c)'
    <2>1. toServer # << >> /\ toServer' = Tail(toServer) /\ UNCHANGED << pc, reader, toClient >> /\ Head(toServer).type # "request"
      BY <1>23 DEF HandleInitializedNotification
    <2>2. /\ \A i \in Nat : RequestAt(i, c)' <=> i # 0 /\ RequestAt(i + 1, c)
          /\ ~RequestAt(1, c) /\ ~RequestAt(0, c)
      BY <2>1, ReadRequest
    <2>3. \A i \in Nat : ResponseAt(i, c)' <=> ResponseAt(i, c)
      BY <2>1, QuietResponses
    <2>4. (Unrouted(c)' <=> Unrouted(c)) /\ (Held(c)' <=> Held(c))
      BY <1>b, <1>c, <2>1
    <2>5. \A i, j \in Nat : RequestAt(i, c)' /\ RequestAt(j, c)' => i = j
      <3> SUFFICES ASSUME NEW i \in Nat, NEW j \in Nat, RequestAt(i + 1, c), RequestAt(j + 1, c) PROVE i = j
        BY <2>2
      <3>1. i + 1 \in Nat /\ j + 1 \in Nat
        OBVIOUS
      <3>2. i + 1 = j + 1
        BY <3>1 DEF OneMessage
      <3> QED
        BY <3>2
    <2>6. \A i \in Nat : RequestAt(i, c)' => \E j \in Nat : RequestAt(j, c)
      BY <2>2
    <2> QED
      BY <2>3, <2>4, <2>5, <2>6 DEF OneMessage
  <1>24. ASSUME CheckCanPush PROVE OneMessage(c)'
    BY <1>24, <1>a, <1>b, <1>c DEF CheckCanPush
  <1>25. ASSUME Push PROVE OneMessage(c)'
    BY <1>25, <1>a, <1>b, <1>c DEF Push
  <1>26. ASSUME ServerStops PROVE OneMessage(c)'
    BY <1>26, <1>a, <1>b, <1>c DEF ServerStops
  <1>27. CASE UNCHANGED vars
    BY <1>27, <1>a, <1>b, <1>c DEF vars
  <1>28. QED
    BY <1>1, <1>2, <1>3, <1>4, <1>5, <1>6, <1>7, <1>8, <1>9, <1>10, <1>11, <1>12, <1>13, <1>14, <1>15, <1>16, <1>17, <1>18, <1>19, <1>20, <1>21, <1>22, <1>23, <1>24, <1>25, <1>26, <1>27
    DEF Next, CallerInside, ReaderStep, AppStep, RunnerStep, ServerStep

\* What keeps an acceptance on its way.
LEMMA AcceptingKeeps ==
  ASSUME NEW c \in Inits, Accepting(c), future'[c] = future[c],
         \A i \in Nat : future[c].is # "timeout" /\ AcceptAt(i, c)' => Fresh(c)',
         future[c].is # "timeout" /\ Held(c)' /\ reader'.msg.ok => Taking(c)',
         Settled(c) /\ client \in {"operating", "stopped"} => Settled(c)' /\ client' \in {"operating", "stopped"}
  PROVE  Accepting(c)'
  <1> HIDE DEF AcceptAt, Held, Fresh, Taking, Settled
  <1> QED
    BY DEF Accepting

\* A step of another thread on another call changes nothing for the acceptance.
LEMMA AcceptingStays ==
  ASSUME NEW c \in Inits, Accepting(c), future'[c] = future[c], UNCHANGED reader,
         \A i \in Nat : AcceptAt(i, c)' => AcceptAt(i, c),
         Fresh(c) => Fresh(c)',
         Settled(c) /\ client # "created" => Settled(c)' /\ client' = client
  PROVE  Accepting(c)'
  <1>1. Held(c)' <=> Held(c)
    BY DEF Held
  <1>2. \A i \in Nat : future[c].is # "timeout" /\ AcceptAt(i, c)' => Fresh(c)'
    BY DEF Accepting
  <1>3. future[c].is # "timeout" /\ Held(c)' /\ reader'.msg.ok => Taking(c)'
    <2> SUFFICES ASSUME future[c].is # "timeout", Held(c), reader.msg.ok PROVE Taking(c)'
      BY <1>1
    <2>1. Taking(c)
      BY DEF Accepting
    <2> HIDE DEF Fresh, Settled
    <2> QED
      BY <2>1 DEF Taking
  <1> HIDE DEF AcceptAt, Held, Fresh, Taking, Settled
  <1> QED
    BY <1>2, <1>3, AcceptingKeeps

\* The pipes and the reader hand the acceptance on to the session and the caller.
LEMMA NextAccepting ==
  ASSUME TypeInv, ReaderInv, Asked, NEW c \in Inits, \A d \in Inits : OneMessage(d), Accepting(c), [Next]_vars
  PROVE  Accepting(c)'
  <1> TypeOK /\ OnlyInitsAdopt /\ c \in Calls /\ c # NoCall
    BY HandshakeAssumption DEF TypeInv, Calls
  <1> USE ReaderMoves DEF calls, session, serverSide, ReaderPoints
  <1>a. UNCHANGED toClient => \A i \in Nat : AcceptAt(i, c)' <=> AcceptAt(i, c)
    BY QuietResponses
  <1>b. ASSUME NEW d \in Inits, d # c, Active(d) PROVE ~Fresh(c) /\ ~Settled(c)
    BY <1>b DEF Fresh, Settled, Alone
  <1>c. UNCHANGED pc => (Alone(c)' <=> Alone(c))
    BY DEF Alone, Active
  <1>d. UNCHANGED << pc, future, pendingInitializeRequestId, client >> =>
          (Fresh(c)' <=> Fresh(c)) /\ (Settled(c)' <=> Settled(c))
    BY <1>c DEF Fresh, Settled
  <1>e. Held(c) => \A i \in Nat : ~AcceptAt(i, c)
    BY DEF OneMessage, AcceptAt
  <1>f. \A d \in Inits : Held(d) => Active(d)
    BY DEF OneMessage, Unrouted, Active
  <1>g. NextLine => ~Held(c)'
    BY DEF Held
  <1>h. reader.at \notin {"idle", "ended"} => reader.msg.call \in Calls /\ Held(reader.msg.call)
    BY DEF TypeOK, Held
  <1>i. reader.at \notin {"idle", "ended", "dispatch"} /\ reader.msg.call # c => ~Fresh(c) /\ ~Settled(c)
    BY <1>b, <1>f, <1>h DEF ReaderInv
  <1>j. (\A d \in Inits \ {c} : Active(d)' => Active(d)) => (Alone(c) => Alone(c)')
    BY DEF Alone
  <1>1. ASSUME NEW d \in Calls, SendRequest(d) PROVE Accepting(c)'
    <2>1. UNCHANGED << future, pendingInitializeRequestId, reader, toClient >> /\ pc[d] = "idle"
      BY <1>1 DEF SendRequest
    <2>2. CASE Allowed(d) /\ d \in Inits
      <3>1. client = "created"
        BY <2>2, InitializeFromCreated
      <3>2. ~Fresh(c)
        BY <3>1 DEF Fresh
      <3> QED
        BY <1>a, <2>1, <3>1, <3>2, AcceptingStays
    <2>3. CASE ~(Allowed(d) /\ d \in Inits)
      <3>1. UNCHANGED client /\ \A e \in Inits \ {d} : pc'[e] = pc[e]
        BY <1>1, <2>3 DEF SendRequest, Goto, TypeOK, Calls
      <3>2. d \in Inits => pc'[d] = "refused"
        BY <1>1, <2>3 DEF SendRequest, Goto, TypeOK
      <3>3. Alone(c) => Alone(c)'
        BY <1>j, <3>1, <3>2 DEF Active
      <3>4. pc[c] \in {"check", "waiting"} => pc'[c] = pc[c]
        BY <2>1, <3>1
      <3>5. (Fresh(c) => Fresh(c)') /\ (Settled(c) => Settled(c)')
        BY <2>1, <3>1, <3>3, <3>4 DEF Fresh, Settled
      <3> QED
        BY <1>a, <2>1, <3>1, <3>5, AcceptingStays
    <2> QED
      BY <2>2, <2>3
  <1>2. ASSUME NEW d \in Calls, SetPendingInitialize(d) PROVE Accepting(c)'
    <2>1. d \in Inits /\ Active(d) /\ pc[d] = "setPending"
      BY <1>2 DEF SetPendingInitialize, OnlyInitsAdopt, Active
    <2>2. ~Fresh(c) /\ ~Settled(c)
      BY <1>b, <2>1 DEF Fresh, Settled
    <2> QED
      BY <1>2, <1>a, <2>2, AcceptingStays DEF SetPendingInitialize
  <1>3. ASSUME NEW d \in Calls, RouteRequest(d) PROVE Accepting(c)'
    <2>1. UNCHANGED << client, pendingInitializeRequestId, reader, toClient >> /\ pc[d] = "route"
      BY <1>3 DEF RouteRequest
    <2>2. CASE d = c
      <3>1. Unrouted(c) /\ future'[c].is # "success"
        BY <1>3, <2>1, <2>2 DEF RouteRequest, Unrouted, TypeOK, Holds
      <3>2. (\A i \in Nat : ~AcceptAt(i, c)) /\ ~Held(c)
        BY <3>1 DEF OneMessage, AcceptAt
      <3>3. (\A i \in Nat : ~AcceptAt(i, c)') /\ ~Held(c)'
        BY <1>a, <2>1, <3>2 DEF Held
      <3> QED
        BY <3>1, <3>3 DEF Accepting
    <2>3. CASE d # c
      <3>1. future'[c] = future[c] /\ pc'[c] = pc[c]
        BY <1>3, <2>3 DEF RouteRequest, Goto, TypeOK
      <3>2. CASE d \in Inits
        <4>1. ~Fresh(c) /\ ~Settled(c)
          BY <1>b, <2>1, <2>3, <3>2 DEF Active
        <4> QED
          BY <1>a, <2>1, <3>1, <4>1, AcceptingStays
      <3>3. CASE d \notin Inits
        <4>1. \A e \in Inits : pc'[e] = pc[e]
          BY <1>3, <3>3 DEF RouteRequest, Goto, TypeOK, Calls
        <4>2. Alone(c) => Alone(c)'
          BY <1>j, <4>1 DEF Active
        <4>3. (Fresh(c) => Fresh(c)') /\ (Settled(c) => Settled(c)')
          BY <2>1, <3>1, <4>2 DEF Fresh, Settled
        <4> QED
          BY <1>a, <2>1, <3>1, <4>3, AcceptingStays
      <3> QED
        BY <3>2, <3>3
    <2> QED
      BY <2>2, <2>3
  <1>4. ASSUME NEW d \in Calls, CheckInitializeFuture(d) PROVE Accepting(c)'
    <2>1. d \in Inits /\ pc[d] = "check" /\ UNCHANGED << future, client, pendingInitializeRequestId, reader, toClient >>
      BY <1>4 DEF CheckInitializeFuture, OnlyInitsAdopt
    <2>2. CASE d # c
      <3>1. ~Fresh(c) /\ ~Settled(c)
        BY <1>b, <2>1, <2>2 DEF Active
      <3> QED
        BY <1>a, <2>1, <3>1, AcceptingStays
    <2>3. CASE d = c
      <3>1. Fresh(c) \/ Settled(c) => pc'[c] = "waiting"
        BY <1>4, <2>3 DEF CheckInitializeFuture, Goto, TypeOK, Fresh, Settled
      <3>2. \A e \in Inits \ {c} : pc'[e] = pc[e]
        BY <1>4, <2>3 DEF CheckInitializeFuture, Goto, TypeOK, Calls
      <3>3. Alone(c) => Alone(c)'
        BY <1>j, <3>2 DEF Active
      <3>4. (Fresh(c) => Fresh(c)') /\ (Settled(c) => Settled(c)')
        BY <2>1, <3>1, <3>3 DEF Fresh, Settled
      <3> QED
        BY <1>a, <2>1, <3>4, AcceptingStays
    <2> QED
      BY <2>2, <2>3
  <1>5. ASSUME NEW d \in Calls, AdoptResetPending(d) PROVE Accepting(c)'
    <2>1. d \in Inits /\ Active(d) /\ pc[d] = "adopt"
      BY <1>5 DEF AdoptResetPending, OnlyInitsAdopt, Active
    <2>2. ~Fresh(c) /\ ~Settled(c)
      BY <1>b, <2>1 DEF Fresh, Settled
    <2> QED
      BY <1>5, <1>a, <2>2, AcceptingStays DEF AdoptResetPending
  <1>6. ASSUME NEW d \in Calls, AdoptResponse(d) PROVE Accepting(c)'
    <2>1. d \in Inits /\ Active(d) /\ pc[d] = "adoptSession"
      BY <1>6 DEF AdoptResponse, OnlyInitsAdopt, Active
    <2>2. ~Fresh(c) /\ ~Settled(c)
      BY <1>b, <2>1 DEF Fresh, Settled
    <2> QED
      BY <1>6, <1>a, <2>2, AcceptingStays DEF AdoptResponse
  <1>7. ASSUME NEW d \in Calls, RequestTimesOut(d) PROVE Accepting(c)'
    <2>1. UNCHANGED << pc, pendingInitializeRequestId, client, reader, toClient >>
      BY <1>7 DEF RequestTimesOut
    <2>2. CASE d = c
      <3>1. future'[c].is = "timeout"
        BY <1>7, <2>2 DEF RequestTimesOut, Resolve, Holds, TypeOK
      <3> QED
        BY <3>1 DEF Accepting
    <2>3. CASE d # c
      <3>1. future'[c] = future[c]
        BY <1>7, <2>3 DEF RequestTimesOut, Resolve, TypeOK
      <3>2. (Fresh(c) => Fresh(c)') /\ (Settled(c) => Settled(c)')
        BY <1>c, <2>1, <3>1 DEF Fresh, Settled
      <3> QED
        BY <1>a, <2>1, <3>1, <3>2, AcceptingStays
    <2> QED
      BY <2>2, <2>3
  <1>8. ASSUME ReaderEnds PROVE Accepting(c)'
    <2>1. UNCHANGED << pc, future, pendingInitializeRequestId, client, toClient >> /\ ~Held(c)'
      BY <1>8, <1>g DEF ReaderEnds
    <2>2. \A i \in Nat : future[c].is # "timeout" /\ AcceptAt(i, c)' => Fresh(c)'
      BY <1>a, <1>d, <2>1 DEF Accepting
    <2> QED
      BY <1>d, <2>1, <2>2, AcceptingKeeps
  <1>9. ASSUME ReceiveMessage PROVE Accepting(c)'
    <2>1. UNCHANGED << pc, future, pendingInitializeRequestId, client >> /\ reader.at = "idle"
      BY <1>9 DEF ReceiveMessage
    <2>2. toClient # << >> /\ toClient' = Tail(toClient)
      BY <1>9 DEF ReceiveMessage
    <2>3. /\ \A i \in Nat : AcceptAt(i, c)' <=> i # 0 /\ AcceptAt(i + 1, c)
          /\ AcceptAt(1, c) <=> Head(toClient).type = "response" /\ Head(toClient).call = c /\ Head(toClient).ok
      BY <2>2, ReadResponse
    <2>4. \A i \in Nat : future[c].is # "timeout" /\ AcceptAt(i, c) => Fresh(c)
      BY DEF Accepting
    <2>5. \A i \in Nat : i + 1 \in Nat /\ 1 \in Nat
      OBVIOUS
    <2>6. \A i \in Nat : future[c].is # "timeout" /\ AcceptAt(i, c)' => Fresh(c)'
      BY <1>d, <2>1, <2>3, <2>4, <2>5
    <2>7. future[c].is # "timeout" /\ Held(c)' /\ reader'.msg.ok => Taking(c)'
      <3> SUFFICES ASSUME future[c].is # "timeout", Held(c)', reader'.msg.ok PROVE Taking(c)'
        OBVIOUS
      <3>1. /\ Head(toClient).type = "response" /\ Head(toClient).call = c /\ Head(toClient).ok
            /\ reader'.at = IF Head(toClient).call = pendingInitializeRequestId THEN "reset" ELSE "dispatch"
        BY <1>9, ReceiveMoves DEF Held, NoResponse
      <3>2. Fresh(c)
        BY <2>3, <2>4, <2>5, <3>1
      <3>3. reader'.at = "reset"
        BY <3>1, <3>2 DEF Fresh
      <3>4. Fresh(c)'
        BY <1>d, <2>1, <3>2
      <3> HIDE DEF Fresh
      <3> QED
        BY <3>3, <3>4 DEF Taking
    <2>8. UNCHANGED future /\ (Settled(c) <=> Settled(c)')
      BY <1>d, <2>1
    <2> QED
      BY <2>1, <2>6, <2>7, <2>8, AcceptingKeeps
  <1>10. ASSUME ResetPending PROVE Accepting(c)'
    <2>1. /\ UNCHANGED << pc, future, client, toClient >> /\ reader.at = "reset"
          /\ pendingInitializeRequestId' = NoCall /\ reader'.msg = reader.msg
          /\ reader'.at = IF reader.msg.ok THEN "session" ELSE "dispatchError"
      BY <1>10 DEF ResetPending
    <2>2. CASE reader.msg.call # c
      <3>1. ~Fresh(c) /\ ~Settled(c) /\ ~Held(c)'
        BY <1>i, <2>1, <2>2 DEF Held
      <3>2. \A i \in Nat : future[c].is # "timeout" /\ AcceptAt(i, c)' => Fresh(c)'
        BY <1>a, <2>1, <3>1 DEF Accepting
      <3> QED
        BY <2>1, <3>1, <3>2, AcceptingKeeps
    <2>3. CASE reader.msg.call = c
      <3>1. Held(c) /\ \A i \in Nat : ~AcceptAt(i, c)'
        BY <1>a, <1>e, <1>h, <2>1, <2>3
      <3>2. Settled(c) => Settled(c)'
        BY <1>c, <2>1 DEF Settled
      <3>3. future[c].is # "timeout" /\ Held(c)' /\ reader'.msg.ok => Taking(c)'
        <4> SUFFICES ASSUME future[c].is # "timeout", reader.msg.ok PROVE Taking(c)'
          BY <2>1
        <4>1. Fresh(c)
          BY <2>1, <3>1 DEF Accepting, Taking
        <4>2. client' = "initializing" /\ reader'.at = "session"
          BY <2>1, <4>1 DEF Fresh, ReaderInv
        <4>3. Settled(c)' /\ future'[c].is = "pending"
          BY <1>c, <2>1, <4>1 DEF Fresh, Settled
        <4> HIDE DEF Settled, Fresh
        <4> QED
          BY <4>2, <4>3 DEF Taking
      <3> QED
        BY <2>1, <3>1, <3>2, <3>3, AcceptingKeeps
    <2> QED
      BY <2>2, <2>3
  <1>11. ASSUME HandleInitializeSuccess PROVE Accepting(c)'
    <2>1. /\ UNCHANGED << pc, future, pendingInitializeRequestId, toClient >> /\ reader.at = "session"
          /\ reader'.msg = reader.msg /\ SessionTakes(reader.msg.ok, reader.msg.version)
          /\ reader'.at = IF Accepted(reader.msg.ok, reader.msg.version) THEN "notify" ELSE "dispatch"
      BY <1>11 DEF HandleInitializeSuccess
    <2>2. CASE reader.msg.call # c
      <3>1. ~Fresh(c) /\ ~Settled(c) /\ ~Held(c)'
        BY <1>i, <2>1, <2>2 DEF Held
      <3>2. \A i \in Nat : future[c].is # "timeout" /\ AcceptAt(i, c)' => Fresh(c)'
        BY <1>a, <2>1, <3>1 DEF Accepting
      <3> QED
        BY <2>1, <3>1, <3>2, AcceptingKeeps
    <2>3. CASE reader.msg.call = c
      <3>1. Held(c) /\ \A i \in Nat : ~AcceptAt(i, c)'
        BY <1>a, <1>e, <1>h, <2>1, <2>3
      <3>2. Settled(c) <=> Settled(c)'
        BY <1>c, <2>1 DEF Settled
      <3>3. client \in {"operating", "stopped"} => client' = client
        BY <2>1 DEF SessionTakes
      <3>4. future[c].is # "timeout" /\ Held(c)' /\ reader'.msg.ok => Taking(c)'
        <4> SUFFICES ASSUME future[c].is # "timeout", reader.msg.ok PROVE Taking(c)'
          BY <2>1
        <4>1. Settled(c) /\ future[c].is = "pending" /\ client = "initializing"
          BY <2>1, <3>1 DEF Accepting, Taking
        <4>2. CASE reader.msg.version \in ClientVersions
          <5>1. reader'.at = "notify" /\ client' = "initialized"
            BY <2>1, <4>1, <4>2 DEF SessionTakes, Accepted
          <5> QED
            BY <2>1, <3>2, <4>1, <5>1 DEF Taking
        <4>3. CASE reader.msg.version \notin ClientVersions
          <5>1. reader'.at = "dispatch" /\ reader'.msg.version \notin ClientVersions
            BY <2>1, <4>1, <4>3 DEF Accepted
          <5> QED
            BY <5>1 DEF Taking
        <4> QED
          BY <4>2, <4>3
      <3> QED
        BY <2>1, <3>1, <3>2, <3>3, <3>4, AcceptingKeeps
    <2> QED
      BY <2>2, <2>3
  <1>12. ASSUME ReaderNotifies PROVE Accepting(c)'
    <2>1. /\ UNCHANGED << pc, future, pendingInitializeRequestId, toClient >> /\ reader.at = "notify"
          /\ reader'.msg = reader.msg
          /\ \/ client = "initialized" /\ client' = "operating" /\ reader'.at = "announce"
             \/ client # "initialized" /\ client' = client /\ reader'.at = "dispatch"
      BY <1>12 DEF ReaderNotifies
    <2>2. CASE reader.msg.call # c
      <3>1. ~Fresh(c) /\ ~Settled(c) /\ ~Held(c)'
        BY <1>i, <2>1, <2>2 DEF Held
      <3>2. \A i \in Nat : future[c].is # "timeout" /\ AcceptAt(i, c)' => Fresh(c)'
        BY <1>a, <2>1, <3>1 DEF Accepting
      <3> QED
        BY <2>1, <3>1, <3>2, AcceptingKeeps
    <2>3. CASE reader.msg.call = c
      <3>1. Held(c) /\ \A i \in Nat : ~AcceptAt(i, c)'
        BY <1>a, <1>e, <1>h, <2>1, <2>3
      <3>2. Settled(c) <=> Settled(c)'
        BY <1>c, <2>1 DEF Settled
      <3>3. client \in {"operating", "stopped"} => client' = client
        BY <2>1
      <3>4. future[c].is # "timeout" /\ Held(c)' /\ reader'.msg.ok => Taking(c)'
        <4> SUFFICES ASSUME future[c].is # "timeout", reader.msg.ok PROVE Taking(c)'
          BY <2>1
        <4>1. Settled(c) /\ future[c].is = "pending" /\ client \in {"initialized", "operating"}
          BY <2>1, <3>1 DEF Accepting, Taking
        <4> QED
          BY <2>1, <3>2, <4>1 DEF Taking
      <3> QED
        BY <2>1, <3>1, <3>2, <3>3, <3>4, AcceptingKeeps
    <2> QED
      BY <2>2, <2>3
  <1>13. ASSUME ReaderAnnounces PROVE Accepting(c)'
    <2>1. /\ UNCHANGED << pc, future, pendingInitializeRequestId, client, toClient >> /\ reader.at = "announce"
          /\ (reader'.at = "dispatch" /\ reader'.msg = reader.msg) \/ ~Held(c)'
      BY <1>13, <1>g DEF ReaderAnnounces
    <2>2. \A i \in Nat : future[c].is # "timeout" /\ AcceptAt(i, c)' => Fresh(c)'
      BY <1>a, <1>d, <2>1 DEF Accepting
    <2>3. future[c].is # "timeout" /\ Held(c)' /\ reader'.msg.ok => Taking(c)'
      <3> SUFFICES ASSUME future[c].is # "timeout", Held(c)', reader'.msg.ok PROVE Taking(c)'
        OBVIOUS
      <3>1. reader'.at = "dispatch" /\ reader'.msg = reader.msg /\ Held(c)
        BY <2>1 DEF Held
      <3>2. Settled(c) /\ future[c].is = "pending" /\ client = "operating"
        BY <2>1, <3>1 DEF Accepting, Taking, ReaderInv
      <3> QED
        BY <1>d, <2>1, <3>1, <3>2 DEF Taking
    <2> QED
      BY <1>d, <2>1, <2>2, <2>3, AcceptingKeeps
  <1>14. ASSUME DispatchResponse PROVE Accepting(c)'
    <2>1. /\ UNCHANGED << pc, pendingInitializeRequestId, client, toClient >> /\ ~Held(c)' /\ reader.at = "dispatch"
          /\ Resolve(reader.msg.call, FutureOf(reader.msg))
      BY <1>14, <1>g DEF DispatchResponse
    <2>2. CASE reader.msg.call # c
      <3>1. future'[c] = future[c]
        BY <2>1, <2>2, <1>h DEF Resolve, TypeOK
      <3>2. (Fresh(c) => Fresh(c)') /\ (Settled(c) => Settled(c)')
        BY <1>c, <2>1, <3>1 DEF Fresh, Settled
      <3>3. \A i \in Nat : future[c].is # "timeout" /\ AcceptAt(i, c)' => Fresh(c)'
        BY <1>a, <2>1, <3>2 DEF Accepting
      <3> QED
        BY <2>1, <3>1, <3>2, <3>3, AcceptingKeeps
    <2>3. CASE reader.msg.call = c
      <3>1. Held(c) /\ \A i \in Nat : ~AcceptAt(i, c)'
        BY <1>a, <1>e, <1>h, <2>1, <2>3
      <3>2. Settled(c) <=> Settled(c)'
        BY <1>c, <2>1 DEF Settled
      <3>3. CASE future[c].is # "pending"
        <4>1. future'[c] = future[c]
          BY <2>1, <2>3, <3>3 DEF Resolve, TypeOK
        <4> QED
          BY <2>1, <3>1, <3>2, <4>1, AcceptingKeeps
      <3>4. CASE future[c].is = "pending"
        <4>1. future'[c] = FutureOf(reader.msg)
          BY <2>1, <2>3, <3>4 DEF Resolve, TypeOK
        <4>2. future'[c].is = "success" => reader.msg.ok
          BY <4>1 DEF FutureOf
        <4>3. future'[c].version = reader.msg.version
          BY <4>1 DEF FutureOf
        <4>4. future'[c].is = "success" /\ future'[c].version \in ClientVersions => Settled(c) /\ client = "operating"
          BY <2>1, <3>1, <3>4, <4>2, <4>3 DEF Accepting, Taking
        <4> QED
          BY <2>1, <3>1, <3>2, <4>4 DEF Accepting
      <3> QED
        BY <3>3, <3>4
    <2> QED
      BY <2>2, <2>3
  <1>15. ASSUME DispatchErrorResponse PROVE Accepting(c)'
    <2>1. /\ UNCHANGED << pc, pendingInitializeRequestId, client, toClient >> /\ reader.at = "dispatchError"
          /\ reader'.msg = reader.msg /\ reader'.at = "sessionError" /\ ~reader.msg.ok
          /\ Resolve(reader.msg.call, Holds("error"))
      BY <1>15 DEF DispatchErrorResponse, ReaderInv
    <2>2. CASE reader.msg.call # c
      <3>1. ~Fresh(c) /\ ~Settled(c) /\ future'[c] = future[c]
        BY <1>h, <1>i, <2>1, <2>2 DEF Resolve, TypeOK
      <3>2. \A i \in Nat : future[c].is # "timeout" /\ AcceptAt(i, c)' => Fresh(c)'
        BY <1>a, <2>1, <3>1 DEF Accepting
      <3> QED
        BY <2>1, <3>1, <3>2, AcceptingKeeps
    <2>3. CASE reader.msg.call = c
      <3>1. Held(c) /\ \A i \in Nat : ~AcceptAt(i, c)'
        BY <1>a, <1>e, <1>h, <2>1, <2>3
      <3>2. Settled(c) <=> Settled(c)'
        BY <1>c, <2>1 DEF Settled
      <3>3. future'[c] = future[c] \/ future'[c].is = "error"
        BY <2>1, <2>3 DEF Resolve, Holds, TypeOK
      <3>4. CASE future'[c] = future[c]
        BY <2>1, <3>1, <3>2, <3>4, AcceptingKeeps
      <3>5. CASE future'[c].is = "error"
        BY <2>1, <3>1, <3>5 DEF Accepting
      <3> QED
        BY <3>3, <3>4, <3>5
    <2> QED
      BY <2>2, <2>3
  <1>16. ASSUME HandleInitializeError PROVE Accepting(c)'
    <2>1. /\ UNCHANGED << pc, future, pendingInitializeRequestId, toClient >> /\ reader.at = "sessionError" /\ ~Held(c)'
          /\ client # "initializing" => client' = client
      BY <1>16, <1>g DEF HandleInitializeError, SessionTakes
    <2>2. \A i \in Nat : ~(future[c].is # "timeout" /\ AcceptAt(i, c)')
      <3>1. CASE reader.msg.call # c
        BY <1>a, <1>i, <2>1, <3>1 DEF Accepting
      <3>2. CASE reader.msg.call = c
        BY <1>a, <1>e, <1>h, <2>1, <3>2
      <3> QED
        BY <3>1, <3>2
    <2>3. Settled(c) <=> Settled(c)'
      BY <1>c, <2>1 DEF Settled
    <2> QED
      BY <2>1, <2>2, <2>3, AcceptingKeeps
  <1>17. ASSUME AppNotifies PROVE Accepting(c)'
    <2>1. /\ UNCHANGED << pc, future, pendingInitializeRequestId, toClient, reader >>
          /\ client = "initialized" /\ client' = "operating"
      BY <1>17 DEF AppNotifies
    <2>2. ~Fresh(c)
      BY <2>1 DEF Fresh
    <2>3. (Settled(c) <=> Settled(c)') /\ (Held(c)' <=> Held(c))
      BY <1>c, <2>1 DEF Settled, Held
    <2>4. \A i \in Nat : future[c].is # "timeout" /\ AcceptAt(i, c)' => Fresh(c)'
      BY <1>a, <2>1, <2>2 DEF Accepting
    <2>5. future[c].is # "timeout" /\ Held(c)' /\ reader'.msg.ok => Taking(c)'
      BY <2>1, <2>2, <2>3 DEF Accepting, Taking
    <2> QED
      BY <2>1, <2>3, <2>4, <2>5, AcceptingKeeps
  <1>18. ASSUME AppAnnounces PROVE Accepting(c)'
    BY <1>18, <1>a, <1>d, AcceptingStays DEF AppAnnounces
  <1>19. ASSUME StopTransport PROVE Accepting(c)'
    BY <1>19, <1>a, <1>d, AcceptingStays DEF StopTransport
  <1>20. ASSUME StopSession PROVE Accepting(c)'
    <2>1. /\ UNCHANGED << pc, future, pendingInitializeRequestId, toClient, reader >>
          /\ reader.at = "ended" /\ client' = "stopped"
      BY <1>20 DEF StopSession
    <2>2. ~Held(c)'
      BY <2>1 DEF Held
    <2>3. (Settled(c) => Settled(c)') /\ (Fresh(c) => Fresh(c)')
      BY <1>c, <2>1 DEF Settled, Fresh
    <2>4. \A i \in Nat : future[c].is # "timeout" /\ AcceptAt(i, c)' => Fresh(c)'
      BY <1>a, <2>1, <2>3 DEF Accepting
    <2> QED
      BY <2>1, <2>2, <2>3, <2>4, AcceptingKeeps
  <1>21. ASSUME HandleInitialize PROVE Accepting(c)'
    <2> DEFINE d == Head(toServer).call
    <2>1. /\ UNCHANGED << pc, future, pendingInitializeRequestId, client, reader >> /\ d \in Inits
          /\ toServer # << >> /\ toServer' = Tail(toServer) /\ Head(toServer).type = "request"
      BY <1>21 DEF HandleInitialize
    <2>2. d \in Calls
      BY <2>1 DEF Calls
    <2>3. CASE server = "operating" \/ ServerVersions = {}
      <3>1. Answers(d, FALSE, NoVersion)
        BY <1>21, <2>3 DEF HandleInitialize
      <3>2. \A i \in Nat : AcceptAt(i, c)' <=> AcceptAt(i, c)
        BY <2>2, <3>1, NewResponse DEF Versions
      <3> QED
        BY <1>d, <2>1, <3>2, AcceptingStays
    <2>4. CASE server # "operating" /\ ServerVersions # {}
      <3>1. Answers(d, TRUE, SelectedVersion(Head(toServer).version)) /\ server = "created"
        BY <1>21, <2>1, <2>4, HandshakeAssumption DEF HandleInitialize, CanHandleRequest
      <3>2. SelectedVersion(Head(toServer).version) \in Versions
        BY <2>4, SelectedIsSupported DEF Versions
      <3>3. \A i \in Nat : AcceptAt(i, c)' => AcceptAt(i, c) \/ c = d
        BY <2>2, <3>1, <3>2, NewResponse
      <3>4. RequestAt(1, c) <=> c = d
        BY <2>1, ReadRequest
      <3>5. \A j \in Nat, e \in Inits : RequestAt(j, e) => 1 <= j
        BY DEF RequestAt
      <3>6. c = d /\ future[c].is # "timeout" => Fresh(c)
        <4>1. 1 \in Nat
          OBVIOUS
        <4> QED
          BY <2>4, <3>1, <3>4, <3>5, <4>1 DEF Asked, FirstAt
      <3>7. \A i \in Nat : future[c].is # "timeout" /\ AcceptAt(i, c)' => Fresh(c)'
        BY <1>d, <2>1, <3>3, <3>6 DEF Accepting
      <3>8. (Held(c)' <=> Held(c)) /\ (Settled(c)' <=> Settled(c)) /\ (Fresh(c)' <=> Fresh(c))
        BY <1>d, <2>1 DEF Held
      <3>9. future[c].is # "timeout" /\ Held(c)' /\ reader'.msg.ok => Taking(c)'
        BY <2>1, <3>8 DEF Accepting, Taking
      <3> QED
        BY <2>1, <3>7, <3>8, <3>9, AcceptingKeeps
    <2> QED
      BY <2>3, <2>4
  <1>22. ASSUME HandleRequest PROVE Accepting(c)'
    <2> DEFINE d == Head(toServer).call
    <2>1. /\ UNCHANGED << pc, future, pendingInitializeRequestId, client, reader >>
          /\ toServer # << >> /\ Head(toServer).type = "request" /\ (d \in Inits => ~CanHandleRequest(d))
          /\ Answers(d, CanHandleRequest(d), NoVersion)
      BY <1>22 DEF HandleRequest
    <2>2. d \in Calls /\ CanHandleRequest(d) \in BOOLEAN /\ NoVersion \in Versions
      BY <2>1, Pipes, ReadMessages DEF TypeOK, CanHandleRequest, Versions
    <2>3. \A i \in Nat : AcceptAt(i, c)' => AcceptAt(i, c)
      BY <2>1, <2>2, NewResponse
    <2> QED
      BY <1>d, <2>1, <2>3, AcceptingStays
  <1>23. ASSUME HandleInitializedNotification PROVE Accepting(c)'
    BY <1>23, <1>a, <1>d, AcceptingStays DEF HandleInitializedNotification
  <1>24. ASSUME CheckCanPush PROVE Accepting(c)'
    BY <1>24, <1>a, <1>d, AcceptingStays DEF CheckCanPush
  <1>25. ASSUME Push PROVE Accepting(c)'
    BY <1>25, <1>d, QuietResponses, AcceptingStays DEF Push
  <1>26. ASSUME ServerStops PROVE Accepting(c)'
    BY <1>26, <1>a, <1>d, AcceptingStays DEF ServerStops
  <1>27. CASE UNCHANGED vars
    BY <1>27, <1>a, <1>d, AcceptingStays DEF vars
  <1>28. QED
    BY <1>1, <1>2, <1>3, <1>4, <1>5, <1>6, <1>7, <1>8, <1>9, <1>10, <1>11, <1>12, <1>13, <1>14, <1>15, <1>16, <1>17, <1>18, <1>19, <1>20, <1>21, <1>22, <1>23, <1>24, <1>25, <1>26, <1>27
    DEF Next, CallerInside, ReaderStep, AppStep, RunnerStep, ServerStep

\* The call whose request reaches the server first is the only one until it times out.
LEMMA NextAsked ==
  ASSUME TypeInv, ReaderInv, Asked, \A c \in Inits : OneMessage(c), [Next]_vars
  PROVE  Asked'
  <1> DEFINE Nowhere == \A c \in Inits : ~Held(c) /\ \A i \in Nat : ~ResponseAt(i, c)
             FirstIsFresh == \A c \in Inits, i \in Nat : FirstAt(i, c) /\ future[c].is # "timeout" => Fresh(c)
             OnItsWay(c) == /\ Alone(c) /\ pc[c] \in {"setPending", "route"} /\ client = "initializing"
                            /\ pc[c] = "route" => pendingInitializeRequestId = c
             Unasked == running /\ \A c \in Inits, i \in Nat : ~RequestAt(i, c)
             OneOnItsWay == Unasked => \A c \in Inits : Active(c) => OnItsWay(c)
  <1> TypeOK /\ OnlyInitsAdopt /\ Inits \subseteq Calls /\ NoCall \notin Inits
    BY HandshakeAssumption DEF TypeInv, Calls
  <1>0. server' = "created" => server = "created"
    BY DEF Next, ReaderStep, AppStep, ServerStep, RunnerStep, CallerInside, SendRequest, SetPendingInitialize,
           RouteRequest, CheckInitializeFuture, AdoptResetPending, AdoptResponse, RequestTimesOut, ReaderEnds,
           ReceiveMessage, ResetPending, HandleInitializeSuccess, ReaderNotifies, ReaderAnnounces,
           DispatchResponse, DispatchErrorResponse, HandleInitializeError, AppNotifies, AppAnnounces,
           StopTransport, StopSession, HandleInitialize, HandleRequest, HandleInitializedNotification,
           CheckCanPush, Push, ServerStops, serverSide, vars
  <1> SUFFICES ASSUME server' = "created", ServerVersions # {} PROVE Nowhere' /\ FirstIsFresh' /\ OneOnItsWay'
    BY DEF Asked
  <1> server = "created"
    BY <1>0
  <1> Nowhere /\ FirstIsFresh /\ OneOnItsWay
    BY DEF Asked
  <1> USE ReaderMoves DEF calls, session, serverSide, ReaderPoints
  <1>a. ASSUME NEW d \in Inits, Active(d) PROVE \A c \in Inits \ {d} : ~Fresh(c)
    BY <1>a DEF Fresh, Alone
  <1>b. UNCHANGED pc => \A c \in Inits : (Alone(c)' <=> Alone(c)) /\ (Active(c)' <=> Active(c))
    BY DEF Alone, Active
  <1>c. UNCHANGED reader => \A c \in Inits : Held(c)' <=> Held(c)
    BY DEF Held
  <1>d. reader.at \notin {"idle", "ended"} => Held(reader.msg.call) /\ reader.msg.call \notin Inits
    BY DEF Held
  <1>e. reader.at \in {"idle", "ended", "dispatch"}
    BY <1>d DEF ReaderInv
  <1>f. NextLine => \A c \in Inits : ~Held(c)'
    BY DEF Held
  \* a step that leaves the pipes of the requests alone
  <1>g. ASSUME UNCHANGED toServer \/ toServer' = Append(toServer, Initialized)
        PROVE  \A c \in Inits, i \in Nat : (RequestAt(i, c)' <=> RequestAt(i, c)) /\ (FirstAt(i, c)' <=> FirstAt(i, c))
    BY <1>g, QuietRequests DEF FirstAt
  <1>h. UNCHANGED toClient \/ toClient' = Append(toClient, ListChanged) =>
          \A c \in Inits, i \in Nat : ResponseAt(i, c)' <=> ResponseAt(i, c)
    BY QuietResponses
  <1>i. ASSUME \A c \in Inits : Held(c)' => Held(c), UNCHANGED toClient \/ toClient' = Append(toClient, ListChanged)
        PROVE  Nowhere'
    BY <1>h, <1>i
  \* a step that keeps fresh calls fresh and those on their way on it
  <1>j. ASSUME Nowhere', UNCHANGED << pc, client, pendingInitializeRequestId >>, \A c \in Inits : future'[c] = future[c],
               running' => running,
               \A c \in Inits, i \in Nat : FirstAt(i, c)' => \E k \in Nat : FirstAt(k, c),
               Unasked' => Unasked
        PROVE  Nowhere' /\ FirstIsFresh' /\ OneOnItsWay'
    <2>1. \A c \in Inits : (Fresh(c)' <=> Fresh(c)) /\ (OnItsWay(c)' <=> OnItsWay(c))
      BY <1>b, <1>j DEF Fresh
    <2>2. FirstIsFresh'
      BY <1>j, <2>1
    <2>3. OneOnItsWay'
      BY <1>b, <1>j, <2>1
    <2> QED
      BY <1>j, <2>2, <2>3
  \* a step of an initialize call that is past its first point, other than routing
  <1>k. ASSUME NEW d \in Inits, Active(d), ~Fresh(d), Nowhere', \A c \in Inits : future'[c] = future[c],
               UNCHANGED << toServer, running >>,
               Unasked => \A c \in Inits : Active(c)' => OnItsWay(c)'
        PROVE  Nowhere' /\ FirstIsFresh' /\ OneOnItsWay'
    <2>1. \A c \in Inits : ~Fresh(c)
      BY <1>a, <1>k
    <2>2. FirstIsFresh'
      BY <1>g, <1>k, <2>1
    <2>3. Unasked' => Unasked
      BY <1>g, <1>k
    <2> QED
      BY <1>k, <2>2, <2>3
  <1> HIDE DEF Nowhere, FirstIsFresh, OnItsWay, Unasked, OneOnItsWay
  <1>l. \A c \in Inits, i \in Nat : FirstAt(i, c) /\ future[c].is # "timeout" => Fresh(c)
    BY DEF FirstIsFresh
  <1>m. Unasked => \A c \in Inits : Active(c) => OnItsWay(c)
    BY DEF OneOnItsWay
  <1>n. UNCHANGED << running, toServer >> => (Unasked' <=> Unasked)
    BY <1>g DEF Unasked
  <1>o. ASSUME Nowhere', UNCHANGED << pc, client, pendingInitializeRequestId, future, running >>,
               toServer # << >>, toServer' = Tail(toServer), \A e \in Inits : ~RequestAt(1, e)
        PROVE  Nowhere' /\ FirstIsFresh' /\ OneOnItsWay'
    <2>1. \A c \in Inits, i \in Nat : RequestAt(i, c)' <=> i # 0 /\ RequestAt(i + 1, c)
      BY <1>o, ReadRequest
    <2>2. \A c \in Inits : ~RequestAt(0, c)
      BY <1>o, ReadRequest
    <2>3. ASSUME NEW c \in Inits, NEW i \in Nat, RequestAt(i, c) PROVE i - 1 \in Nat /\ RequestAt(i - 1, c)'
      <3>1. i # 0 /\ i # 1
        BY <1>o, <2>2, <2>3
      <3>2. i - 1 \in Nat /\ i - 1 # 0 /\ (i - 1) + 1 = i
        BY <3>1
      <3> QED
        BY <2>1, <2>3, <3>2
    <2>4. ASSUME NEW c \in Inits, NEW i \in Nat, FirstAt(i, c)' PROVE FirstAt(i + 1, c)
      <3>1. RequestAt(i + 1, c)
        BY <2>1, <2>4 DEF FirstAt
      <3>2. ASSUME NEW j \in Nat, NEW e \in Inits, RequestAt(j, e) PROVE i + 1 <= j
        <4>1. j - 1 \in Nat /\ RequestAt(j - 1, e)'
          BY <2>3, <3>2
        <4>2. i <= j - 1
          BY <2>4, <4>1 DEF FirstAt
        <4> QED
          BY <4>2
      <3> QED
        BY <3>1, <3>2 DEF FirstAt
    <2>5. \A c \in Inits, i \in Nat : FirstAt(i, c)' => \E k \in Nat : FirstAt(k, c)
      <3>1. \A i \in Nat : i + 1 \in Nat
        OBVIOUS
      <3> QED
        BY <2>4, <3>1
    <2>6. Unasked' => Unasked
      BY <1>o, <2>3 DEF Unasked
    <2> QED
      BY <1>j, <1>o, <2>5, <2>6
  <1>p. ASSUME UNCHANGED << pc, client, pendingInitializeRequestId, future, reader, running, toServer >>,
               UNCHANGED toClient \/ toClient' = Append(toClient, ListChanged)
        PROVE  Nowhere' /\ FirstIsFresh' /\ OneOnItsWay'
    <2>1. Nowhere'
      BY <1>c, <1>i, <1>p
    <2> QED
      BY <1>g, <1>j, <1>n, <1>p, <2>1
  <1>1. ASSUME NEW c \in Calls, SendRequest(c) PROVE Nowhere' /\ FirstIsFresh' /\ OneOnItsWay'
    <2>1. UNCHANGED << future, pendingInitializeRequestId, reader, toClient, toServer, running >> /\ pc[c] = "idle"
      BY <1>1 DEF SendRequest
    <2>2. Nowhere'
      BY <1>c, <1>i, <2>1
    <2>3. \A d \in Inits \ {c} : pc'[d] = pc[d]
      BY <1>1 DEF SendRequest, Goto, TypeOK
    <2>4. CASE Allowed(c) /\ c \in Inits
      <3>1. client = "created" /\ client' = "initializing" /\ pc'[c] = "setPending"
        BY <1>1, <2>4, InitializeFromCreated DEF SendRequest, Goto, TypeOK
      <3>2. \A d \in Inits : ~Fresh(d)
        BY <3>1 DEF Fresh
      <3>3. FirstIsFresh'
        BY <1>g, <1>l, <2>1, <3>2 DEF FirstIsFresh
      <3>4. Unasked => \A d \in Inits : ~Active(d)
        BY <1>m, <3>1 DEF OnItsWay
      <3>5. (\A d \in Inits : ~Active(d)) => \A d \in Inits : Active(d)' => OnItsWay(d)'
        <4> SUFFICES ASSUME \A d \in Inits : ~Active(d), NEW d \in Inits, Active(d)' PROVE OnItsWay(d)'
          OBVIOUS
        <4>1. d = c
          BY <2>3 DEF Active
        <4>2. Alone(d)'
          BY <2>3, <4>1 DEF Alone, Active
        <4> QED
          BY <3>1, <4>1, <4>2 DEF OnItsWay
      <3> QED
        BY <1>n, <2>1, <2>2, <3>3, <3>4, <3>5 DEF OneOnItsWay
    <2>5. CASE ~(Allowed(c) /\ c \in Inits)
      <3>1. UNCHANGED client /\ (c \in Inits => pc'[c] = "refused")
        BY <1>1, <2>5 DEF SendRequest, Goto, TypeOK
      <3>2. \A d \in Inits : (Active(d)' <=> Active(d)) /\ (Active(d) => pc'[d] = pc[d])
        BY <2>1, <2>3, <3>1 DEF Active
      <3>3. \A d \in Inits : Alone(d)' <=> Alone(d)
        BY <3>2 DEF Alone
      <3>4. \A d \in Inits : Fresh(d) => Fresh(d)'
        BY <2>1, <3>1, <3>2, <3>3 DEF Fresh, Active
      <3>5. FirstIsFresh'
        BY <1>g, <1>l, <2>1, <3>4 DEF FirstIsFresh
      <3>6. \A d \in Inits : Active(d) /\ OnItsWay(d) => OnItsWay(d)'
        BY <2>1, <3>1, <3>2, <3>3 DEF OnItsWay
      <3> QED
        BY <1>m, <1>n, <2>1, <2>2, <3>2, <3>5, <3>6 DEF OneOnItsWay
    <2> QED
      BY <2>4, <2>5
  <1>2. ASSUME NEW c \in Calls, SetPendingInitialize(c) PROVE Nowhere' /\ FirstIsFresh' /\ OneOnItsWay'
    <2>1. /\ UNCHANGED << future, client, reader, toClient, toServer, running >> /\ pc[c] = "setPending"
          /\ c \in Inits /\ Active(c) /\ ~Fresh(c) /\ pc'[c] = "route" /\ pendingInitializeRequestId' = c
          /\ \A d \in Inits \ {c} : pc'[d] = pc[d]
      BY <1>2 DEF SetPendingInitialize, OnlyInitsAdopt, Active, Fresh, Goto, TypeOK
    <2>2. Nowhere'
      BY <1>c, <1>i, <2>1
    <2>3. Unasked => \A d \in Inits : Active(d)' => OnItsWay(d)'
      <3> SUFFICES ASSUME Unasked, NEW d \in Inits, Active(d)' PROVE OnItsWay(d)'
        OBVIOUS
      <3>1. OnItsWay(c)
        BY <1>m, <2>1
      <3>2. d = c
        BY <2>1, <3>1 DEF OnItsWay, Alone, Active
      <3>3. Alone(c)'
        BY <2>1, <3>1 DEF OnItsWay, Alone, Active
      <3> QED
        BY <2>1, <3>1, <3>2, <3>3 DEF OnItsWay
    <2> QED
      BY <1>k, <2>1, <2>2, <2>3
  <1>3. ASSUME NEW c \in Calls, RouteRequest(c) PROVE Nowhere' /\ FirstIsFresh' /\ OneOnItsWay'
    <2>1. /\ UNCHANGED << client, pendingInitializeRequestId, reader, toClient, running >> /\ pc[c] = "route"
          /\ \A d \in Inits \ {c} : pc'[d] = pc[d] /\ future'[d] = future[d]
      BY <1>3 DEF RouteRequest, Goto, TypeOK
    <2>2. Nowhere'
      BY <1>c, <1>i, <2>1
    <2>3. CASE c \notin Inits
      <3>1. \A d \in Inits, i \in Nat : RequestAt(i, d)' <=> RequestAt(i, d)
        <4>1. CASE UNCHANGED toServer
          BY <1>g, <4>1
        <4>2. ASSUME NEW v \in Versions, toServer' = Append(toServer, Request(c, v))
              PROVE  \A d \in Inits, i \in Nat : RequestAt(i, d)' <=> RequestAt(i, d)
          BY <2>3, <4>2, NewRequest
        <4> QED
          BY <1>3, <4>1, <4>2 DEF RouteRequest, Versions
      <3>2. (Unasked' => Unasked) /\ \A d \in Inits, i \in Nat : FirstAt(i, d)' <=> FirstAt(i, d)
        BY <2>1, <3>1 DEF Unasked, FirstAt
      <3>3. \A d \in Inits : pc'[d] = pc[d] /\ future'[d] = future[d]
        BY <2>1, <2>3
      <3>4. \A d \in Inits : (Active(d)' <=> Active(d)) /\ (Alone(d)' <=> Alone(d))
        BY <3>3 DEF Active, Alone
      <3>5. \A d \in Inits : (Fresh(d) => Fresh(d)') /\ (OnItsWay(d) => OnItsWay(d)')
        BY <2>1, <3>3, <3>4 DEF Fresh, OnItsWay
      <3>6. FirstIsFresh'
        BY <1>l, <3>2, <3>3, <3>5 DEF FirstIsFresh
      <3> QED
        BY <1>m, <2>2, <3>2, <3>4, <3>5, <3>6 DEF OneOnItsWay
    <2>4. CASE c \in Inits
      <3>1. Active(c) /\ Unrouted(c) /\ ~Fresh(c)
        BY <2>1 DEF Active, Unrouted, Fresh
      <3>2. (\A d \in Inits : ~Fresh(d)) /\ (\A i \in Nat : ~RequestAt(i, c))
        BY <1>a, <2>4, <3>1 DEF OneMessage
      <3>3. \A d \in Inits, i \in Nat : FirstAt(i, d) => d # c /\ future[d].is = "timeout"
        BY <1>l, <3>2 DEF FirstAt
      <3>4. CASE ~running
        <4>1. UNCHANGED toServer
          BY <1>3, <3>4 DEF RouteRequest
        <4>2. FirstIsFresh'
          BY <1>g, <2>1, <3>3, <4>1 DEF FirstIsFresh
        <4> QED
          BY <2>1, <2>2, <3>4, <4>2 DEF OneOnItsWay, Unasked
      <3>5. CASE running
        <4>1. PICK v \in Versions : toServer' = Append(toServer, Request(c, v))
          BY <1>3, <3>5 DEF RouteRequest, Versions
        <4>2. future'[c].is = "pending" /\ pc'[c] = "check"
          BY <1>3, <2>4, <3>5 DEF RouteRequest, Goto, Holds, TypeOK
        <4>3. /\ Len(toServer) \in Nat
              /\ \A d \in Inits, i \in Nat : RequestAt(i, d)' <=> RequestAt(i, d) \/ (i = Len(toServer) + 1 /\ d = c)
              /\ \A d \in Inits, i \in Nat : RequestAt(i, d) => i < Len(toServer) + 1
          BY <4>1, NewRequest
        <4>4. \E k \in Nat : RequestAt(k, c)'
          BY <2>4, <4>3
        <4>5. FirstIsFresh'
          <5> SUFFICES ASSUME NEW d \in Inits, NEW i \in Nat, FirstAt(i, d)', future'[d].is # "timeout" PROVE Fresh(d)'
            BY DEF FirstIsFresh
          <5>1. CASE RequestAt(i, d)
            <6>1. FirstAt(i, d)
              BY <4>3, <5>1 DEF FirstAt
            <6> QED
              BY <2>1, <3>3, <6>1
          <5>2. CASE ~RequestAt(i, d)
            <6>1. d = c /\ i = Len(toServer) + 1
              BY <4>3, <5>2 DEF FirstAt
            <6>2. \A e \in Inits, j \in Nat : ~RequestAt(j, e)
              BY <4>3, <6>1 DEF FirstAt
            <6>3. OnItsWay(c)
              BY <1>m, <2>4, <3>1, <3>5, <6>2 DEF Unasked
            <6>4. Alone(c)'
              BY <2>1, <6>3 DEF OnItsWay, Alone, Active
            <6> QED
              BY <2>1, <4>2, <6>1, <6>3, <6>4 DEF OnItsWay, Fresh
          <5> QED
            BY <5>1, <5>2
        <4>6. ~Unasked'
          BY <2>4, <4>4 DEF Unasked
        <4> QED
          BY <2>2, <4>5, <4>6 DEF OneOnItsWay
      <3> QED
        BY <3>4, <3>5
    <2> QED
      BY <2>3, <2>4
  <1>4. ASSUME NEW c \in Calls, CheckInitializeFuture(c) PROVE Nowhere' /\ FirstIsFresh' /\ OneOnItsWay'
    <2>1. /\ UNCHANGED << future, client, pendingInitializeRequestId, reader, toClient, toServer, running >>
          /\ pc[c] = "check" /\ c \in Inits /\ Active(c) /\ \A d \in Inits \ {c} : pc'[d] = pc[d]
      BY <1>4 DEF CheckInitializeFuture, OnlyInitsAdopt, Active, Goto, TypeOK
    <2>2. Nowhere'
      BY <1>c, <1>i, <2>1
    <2>3. ~Unasked
      BY <1>m, <2>1 DEF OnItsWay
    <2>4. \A d \in Inits \ {c} : ~Fresh(d)
      BY <1>a, <2>1
    <2>5. Fresh(c) => Fresh(c)'
      <3> SUFFICES ASSUME Fresh(c) PROVE Fresh(c)'
        OBVIOUS
      <3>1. pc'[c] = "waiting"
        BY <1>4 DEF CheckInitializeFuture, Goto, TypeOK, Fresh
      <3>2. Alone(c)'
        BY <2>1 DEF Fresh, Alone, Active
      <3> QED
        BY <2>1, <3>1, <3>2 DEF Fresh
    <2>6. FirstIsFresh'
      BY <1>g, <1>l, <2>1, <2>4, <2>5 DEF FirstIsFresh
    <2> QED
      BY <1>n, <2>1, <2>2, <2>3, <2>6 DEF OneOnItsWay
  <1>5. ASSUME NEW c \in Calls, AdoptResetPending(c) PROVE Nowhere' /\ FirstIsFresh' /\ OneOnItsWay'
    <2>1. /\ UNCHANGED << future, reader, toClient, toServer, running >>
          /\ c \in Inits /\ Active(c) /\ ~Fresh(c) /\ pc[c] = "adopt"
      BY <1>5 DEF AdoptResetPending, OnlyInitsAdopt, Active, Fresh
    <2>2. Nowhere'
      BY <1>c, <1>i, <2>1
    <2>3. ~Unasked
      BY <1>m, <2>1 DEF OnItsWay
    <2> QED
      BY <1>k, <2>1, <2>2, <2>3
  <1>6. ASSUME NEW c \in Calls, AdoptResponse(c) PROVE Nowhere' /\ FirstIsFresh' /\ OneOnItsWay'
    <2>1. /\ UNCHANGED << future, reader, toClient, toServer, running >>
          /\ c \in Inits /\ Active(c) /\ ~Fresh(c) /\ pc[c] = "adoptSession"
      BY <1>6 DEF AdoptResponse, OnlyInitsAdopt, Active, Fresh
    <2>2. Nowhere'
      BY <1>c, <1>i, <2>1
    <2>3. ~Unasked
      BY <1>m, <2>1 DEF OnItsWay
    <2> QED
      BY <1>k, <2>1, <2>2, <2>3
  <1>7. ASSUME NEW c \in Calls, RequestTimesOut(c) PROVE Nowhere' /\ FirstIsFresh' /\ OneOnItsWay'
    <2>1. /\ UNCHANGED << pc, client, pendingInitializeRequestId, reader, toClient, toServer, running >>
          /\ \A d \in Inits \ {c} : future'[d] = future[d]
          /\ c \in Inits => future'[c].is = "timeout"
      BY <1>7 DEF RequestTimesOut, Resolve, Holds, TypeOK
    <2>2. Nowhere'
      BY <1>c, <1>i, <2>1
    <2>3. \A d \in Inits : future'[d].is # "timeout" => future'[d] = future[d]
      BY <2>1
    <2>4. \A d \in Inits : future'[d].is # "timeout" /\ Fresh(d) => Fresh(d)'
      BY <1>b, <2>1, <2>3 DEF Fresh
    <2>5. FirstIsFresh'
      BY <1>g, <1>l, <2>1, <2>3, <2>4 DEF FirstIsFresh
    <2>6. \A d \in Inits : (OnItsWay(d)' <=> OnItsWay(d)) /\ (Active(d)' <=> Active(d))
      BY <1>b, <2>1 DEF OnItsWay
    <2> QED
      BY <1>m, <1>n, <2>1, <2>2, <2>5, <2>6 DEF OneOnItsWay
  <1>8. ASSUME ReaderEnds PROVE Nowhere' /\ FirstIsFresh' /\ OneOnItsWay'
    <2>1. UNCHANGED << pc, client, pendingInitializeRequestId, future, toServer, toClient, running >>
      BY <1>8 DEF ReaderEnds
    <2>2. Nowhere'
      BY <1>8, <1>f, <1>i, <2>1 DEF ReaderEnds
    <2> QED
      BY <1>g, <1>j, <1>n, <2>1, <2>2
  <1>9. ASSUME ReceiveMessage PROVE Nowhere' /\ FirstIsFresh' /\ OneOnItsWay'
    <2>1. /\ UNCHANGED << pc, client, pendingInitializeRequestId, future, toServer, running >>
          /\ toClient # << >> /\ toClient' = Tail(toClient)
      BY <1>9 DEF ReceiveMessage
    <2>2. \A d \in Inits : /\ \A i \in Nat : ResponseAt(i, d)' <=> i # 0 /\ ResponseAt(i + 1, d)
                           /\ ResponseAt(1, d) <=> Head(toClient).type = "response" /\ Head(toClient).call = d
      BY <2>1, ReadResponse
    <2>3. \A d \in Inits : Held(d)' => ResponseAt(1, d)
      BY <1>9, <2>2, ReceiveMoves DEF Held, NoResponse
    <2>4. \A i \in Nat : i + 1 \in Nat /\ 1 \in Nat
      OBVIOUS
    <2>5. Nowhere'
      BY <2>2, <2>3, <2>4 DEF Nowhere
    <2> QED
      BY <1>g, <1>j, <1>n, <2>1, <2>5
  <1>10. ASSUME ResetPending PROVE Nowhere' /\ FirstIsFresh' /\ OneOnItsWay'
    BY <1>10, <1>e DEF ResetPending
  <1>11. ASSUME HandleInitializeSuccess PROVE Nowhere' /\ FirstIsFresh' /\ OneOnItsWay'
    BY <1>11, <1>e DEF HandleInitializeSuccess
  <1>12. ASSUME ReaderNotifies PROVE Nowhere' /\ FirstIsFresh' /\ OneOnItsWay'
    BY <1>12, <1>e DEF ReaderNotifies
  <1>13. ASSUME ReaderAnnounces PROVE Nowhere' /\ FirstIsFresh' /\ OneOnItsWay'
    BY <1>13, <1>e DEF ReaderAnnounces
  <1>14. ASSUME DispatchResponse PROVE Nowhere' /\ FirstIsFresh' /\ OneOnItsWay'
    <2>1. /\ UNCHANGED << pc, client, pendingInitializeRequestId, toServer, toClient, running >> /\ NextLine
          /\ reader.at = "dispatch" /\ Resolve(reader.msg.call, FutureOf(reader.msg))
      BY <1>14 DEF DispatchResponse
    <2>2. Nowhere'
      BY <1>f, <1>i, <2>1
    <2>3. \A d \in Inits : future'[d] = future[d]
      BY <1>d, <2>1 DEF Resolve, TypeOK
    <2> QED
      BY <1>g, <1>j, <1>n, <2>1, <2>2, <2>3
  <1>15. ASSUME DispatchErrorResponse PROVE Nowhere' /\ FirstIsFresh' /\ OneOnItsWay'
    BY <1>15, <1>e DEF DispatchErrorResponse
  <1>16. ASSUME HandleInitializeError PROVE Nowhere' /\ FirstIsFresh' /\ OneOnItsWay'
    BY <1>16, <1>e DEF HandleInitializeError
  <1>17. ASSUME AppNotifies PROVE Nowhere' /\ FirstIsFresh' /\ OneOnItsWay'
    <2>1. /\ UNCHANGED << pc, pendingInitializeRequestId, future, reader, toServer, toClient, running >>
          /\ client = "initialized"
      BY <1>17 DEF AppNotifies
    <2>2. Nowhere'
      BY <1>c, <1>i, <2>1
    <2>3. (\A d \in Inits : ~Fresh(d)) /\ (Unasked => \A d \in Inits : ~Active(d))
      BY <1>m, <2>1 DEF Fresh, OnItsWay
    <2>4. FirstIsFresh'
      BY <1>g, <1>l, <2>1, <2>3 DEF FirstIsFresh
    <2>5. OneOnItsWay'
      BY <1>b, <1>n, <2>1, <2>3 DEF OneOnItsWay
    <2> QED
      BY <2>2, <2>4, <2>5
  <1>18. ASSUME AppAnnounces PROVE Nowhere' /\ FirstIsFresh' /\ OneOnItsWay'
    <2>1. /\ UNCHANGED << pc, client, pendingInitializeRequestId, future, reader, toClient, running >>
          /\ UNCHANGED toServer \/ toServer' = Append(toServer, Initialized)
      BY <1>18 DEF AppAnnounces, Announce
    <2>2. Nowhere'
      BY <1>c, <1>i, <2>1
    <2>3. Unasked' => Unasked
      BY <1>g, <2>1 DEF Unasked
    <2> QED
      BY <1>g, <1>j, <2>1, <2>2, <2>3
  <1>19. ASSUME StopTransport PROVE Nowhere' /\ FirstIsFresh' /\ OneOnItsWay'
    <2>1. UNCHANGED << pc, client, pendingInitializeRequestId, future, reader, toServer, toClient >> /\ running' = FALSE
      BY <1>19 DEF StopTransport
    <2>2. Nowhere'
      BY <1>c, <1>i, <2>1
    <2>3. ~Unasked'
      BY <2>1 DEF Unasked
    <2> QED
      BY <1>g, <1>j, <2>1, <2>2, <2>3
  <1>20. ASSUME StopSession PROVE Nowhere' /\ FirstIsFresh' /\ OneOnItsWay'
    <2>1. /\ UNCHANGED << pc, pendingInitializeRequestId, future, reader, toServer, toClient, running >>
          /\ client' = "stopped" /\ ~running
      BY <1>20 DEF StopSession, ReaderInv
    <2>2. Nowhere'
      BY <1>c, <1>i, <2>1
    <2>3. \A d \in Inits : Fresh(d) => Fresh(d)'
      BY <1>b, <2>1 DEF Fresh
    <2>4. FirstIsFresh'
      BY <1>g, <1>l, <2>1, <2>3 DEF FirstIsFresh
    <2> QED
      BY <2>1, <2>2, <2>4 DEF OneOnItsWay, Unasked
  <1>21. ASSUME HandleInitialize PROVE Nowhere' /\ FirstIsFresh' /\ OneOnItsWay'
    <2>1. server' = "initialized"
      BY <1>21 DEF HandleInitialize
    <2> QED
      BY <2>1
  <1>22. ASSUME HandleRequest PROVE Nowhere' /\ FirstIsFresh' /\ OneOnItsWay'
    <2> DEFINE d == Head(toServer).call
    <2>1. /\ UNCHANGED << pc, client, pendingInitializeRequestId, future, reader, running >>
          /\ toServer # << >> /\ toServer' = Tail(toServer) /\ Head(toServer).type = "request" /\ d \notin Inits
          /\ Answers(d, CanHandleRequest(d), NoVersion)
      BY <1>22 DEF HandleRequest, CanHandleRequest
    <2>2. d \in Calls /\ CanHandleRequest(d) \in BOOLEAN /\ NoVersion \in Versions
      BY <2>1, Pipes, ReadMessages DEF TypeOK, CanHandleRequest, Versions
    <2>3. \A e \in Inits, i \in Nat : ResponseAt(i, e)' <=> ResponseAt(i, e)
      BY <2>1, <2>2, NewResponse
    <2>4. Nowhere'
      BY <1>c, <2>1, <2>3 DEF Nowhere
    <2>5. \A e \in Inits : ~RequestAt(1, e)
      BY <2>1, ReadRequest
    <2> QED
      BY <1>o, <2>1, <2>4, <2>5
  <1>23. ASSUME HandleInitializedNotification PROVE Nowhere' /\ FirstIsFresh' /\ OneOnItsWay'
    <2>1. /\ UNCHANGED << pc, client, pendingInitializeRequestId, future, reader, running, toClient >>
          /\ toServer # << >> /\ toServer' = Tail(toServer) /\ Head(toServer).type # "request"
      BY <1>23 DEF HandleInitializedNotification
    <2>2. Nowhere'
      BY <1>c, <1>i, <2>1
    <2>3. \A e \in Inits : ~RequestAt(1, e)
      BY <2>1, ReadRequest
    <2> QED
      BY <1>o, <2>1, <2>2, <2>3
  <1>24. ASSUME CheckCanPush PROVE Nowhere' /\ FirstIsFresh' /\ OneOnItsWay'
    BY <1>24, <1>p DEF CheckCanPush
  <1>25. ASSUME Push PROVE Nowhere' /\ FirstIsFresh' /\ OneOnItsWay'
    BY <1>25, <1>p DEF Push
  <1>26. ASSUME ServerStops PROVE Nowhere' /\ FirstIsFresh' /\ OneOnItsWay'
    BY <1>26 DEF ServerStops
  <1>27. CASE UNCHANGED vars
    BY <1>27, <1>p DEF vars
  <1>28. QED
    BY <1>1, <1>2, <1>3, <1>4, <1>5, <1>6, <1>7, <1>8, <1>9, <1>10, <1>11, <1>12, <1>13, <1>14, <1>15, <1>16, <1>17, <1>18, <1>19, <1>20, <1>21, <1>22, <1>23, <1>24, <1>25, <1>26, <1>27
    DEF Next, CallerInside, ReaderStep, AppStep, RunnerStep, ServerStep

\* No call has been made, and none has been answered.
LEMMA InitNegotiates == Init => NegotiatesOnce
  <1> SUFFICES ASSUME Init PROVE NegotiatesOnce
    OBVIOUS
  <1>1. /\ pc = [c \in Calls |-> "idle"] /\ future = [c \in Calls |-> Holds("none")] /\ client = "created"
        /\ running /\ stopping = "no" /\ reader.at = "idle" /\ toServer = << >> /\ toClient = << >>
    BY DEF Init, IdleReader
  <1>2. \A c \in Inits : ~Active(c) /\ Unrouted(c) /\ ~Held(c)
    BY <1>1 DEF Active, Unrouted, Held, Calls
  <1>3. \A c \in Inits, i \in Nat : ~RequestAt(i, c) /\ ~ResponseAt(i, c) /\ ~AcceptAt(i, c)
    BY <1>1 DEF RequestAt, ResponseAt, AcceptAt
  <1>4. \A c \in Inits : OneMessage(c)
    BY <1>2, <1>3 DEF OneMessage
  <1>5. \A c \in Inits : future[c].is # "success"
    BY <1>1 DEF Holds, Calls
  <1>6. \A c \in Inits : Accepting(c)
    BY <1>2, <1>3, <1>5 DEF Accepting
  <1>7. Asked
    BY <1>2, <1>3 DEF Asked, FirstAt
  <1>8. ReaderInv
    BY <1>1 DEF ReaderInv
  <1> QED
    BY <1>4, <1>6, <1>7, <1>8 DEF NegotiatesOnce

\* The server negotiates with one call, and the session waits for that one or its caller has given up.
THEOREM OneCallNegotiates == Spec => []NegotiatesOnce
  <1>1. Init => TypeInv /\ NegotiatesOnce
    BY InitTypes, InitNegotiates
  <1>2. TypeInv /\ NegotiatesOnce /\ [Next]_vars => TypeInv' /\ NegotiatesOnce'
    <2> SUFFICES ASSUME TypeInv, NegotiatesOnce, [Next]_vars PROVE TypeInv' /\ NegotiatesOnce'
      OBVIOUS
    <2>1. ReaderInv /\ Asked /\ (\A c \in Inits : OneMessage(c)) /\ (\A c \in Inits : Accepting(c))
      BY DEF NegotiatesOnce
    <2>2. TypeInv' /\ ReaderInv' /\ Asked'
      BY <2>1, NextTypes, NextReaderInv, NextAsked
    <2>3. \A c \in Inits : OneMessage(c)'
      BY <2>1, NextOneMessage
    <2>4. \A c \in Inits : Accepting(c)'
      BY <2>1, NextAccepting
    <2> QED
      BY <2>2, <2>3, <2>4 DEF NegotiatesOnce
  <1>3. QED
    BY <1>1, <1>2, PTL DEF Spec

\* A response that Client::sendRequest handles itself is never one the session would accept.
THEOREM OnlyRefusalsAreAdopted == Spec => []AdoptsOnlyRefusals
  <1>1. NegotiatesOnce => AdoptsOnlyRefusals
    <2> SUFFICES ASSUME NegotiatesOnce, NEW c \in Inits, pc[c] \in {"adopt", "adoptSession"},
                        future[c].is = "success", future[c].version \in ClientVersions
                 PROVE  FALSE
      BY DEF AdoptsOnlyRefusals
    <2>1. Accepting(c)
      BY DEF NegotiatesOnce
    <2>2. Settled(c)
      BY <2>1 DEF Accepting
    <2> QED
      BY <2>2 DEF Settled
  <1>2. QED
    BY OneCallNegotiates, <1>1, PTL

\* A caller that gets a success from initialize may send feature requests at once, unless the
\* server's version was refused or the client stops.
THEOREM ReadyMeansOperating == Spec => []InitializedWhenReady
  <1>1. TypeInv /\ Negotiation /\ NegotiatesOnce => InitializedWhenReady
    <2> SUFFICES ASSUME TypeInv, Negotiation, NegotiatesOnce, NEW c \in Inits,
                        future[c].is = "success", running, serverVersion \in ClientVersions
                 PROVE  client = "operating"
      BY DEF InitializedWhenReady
    <2>1. Accepting(c) /\ ReaderInv
      BY DEF NegotiatesOnce
    <2>2. future[c].version = serverVersion
      BY DEF Negotiation, FuturesTrue
    <2>3. client \in {"operating", "stopped"}
      BY <2>1, <2>2 DEF Accepting
    <2>4. client # "stopped"
      BY <2>1 DEF ReaderInv
    <2> QED
      BY <2>3, <2>4
  <1>2. QED
    BY OneCallNegotiates, NegotiationHolds, <1>1, PTL

-----------------------------------------------------------------------------
(* Once a version is settled the server may ask the client to sample: what  *)
(* the client refuses before it calls its handler does not depend on what   *)
(* else was negotiated or registered.                                       *)

CONSTANTS Negotiated, Registered   \* the parameters of ClientRequests
Requests == INSTANCE ClientRequests

\* A turn of the assistant that uses tools, and a turn of the user that only has results.
UseTurn(message) == message.role = "assistant" /\ Requests!ToolUseIds(message) # << >>
ResultTurn(message) == message.role = "user" /\ Requests!ContainsOnlyToolResults(message)

\* The pairs the protocol asks for: uses are answered in the next message, each once and
\* nothing else, and results answer the message before them.
UsesAreAnswered(messages) ==
  \A i \in DOMAIN messages : UseTurn(messages[i]) =>
    /\ i + 1 \in DOMAIN messages /\ ResultTurn(messages[i + 1])
    /\ Requests!SameIds(Requests!ToolResultIds(messages[i + 1]), Requests!ToolUseIds(messages[i]))
ResultsAnswer(messages) ==
  \A i \in DOMAIN messages : ResultTurn(messages[i]) =>
    i - 1 \in DOMAIN messages /\ UseTurn(messages[i - 1])

\* The two looks of the code's loop, back from results and forward from uses, accept exactly
\* the conversations in which uses and results pair up: the comparison of ids, made only when
\* the loop looks back, is made for every use (client.cpp:880).
THEOREM BalancedMeansPaired ==
  ASSUME NEW T, NEW messages \in Seq(T)
  PROVE  Requests!HasBalancedToolUseSequence(messages) <=> UsesAreAnswered(messages) /\ ResultsAnswer(messages)
  <1> DEFINE Results(i) == ResultTurn(messages[i])
             Uses(i) == UseTurn(messages[i])
             Same(i) == Requests!SameIds(Requests!ToolResultIds(messages[i + 1]), Requests!ToolUseIds(messages[i]))
             Back(i) == Requests!SameIds(Requests!ToolResultIds(messages[i]), Requests!ToolUseIds(messages[i - 1]))
  <1>1. DOMAIN messages = 1..Len(messages) /\ Len(messages) \in Nat
    OBVIOUS
  <1>2. Requests!HasBalancedToolUseSequence(messages) <=>
          \A i \in DOMAIN messages :
            /\ Results(i) => i # 1 /\ Uses(i - 1) /\ Back(i)
            /\ Uses(i) => i + 1 \in DOMAIN messages /\ Results(i + 1)
    BY Zenon DEF Requests!HasBalancedToolUseSequence, ResultTurn, UseTurn
  <1>3. ASSUME NEW i \in 1..Len(messages), i + 1 \in 1..Len(messages)
        PROVE  Same(i) <=> Back(i + 1)
    BY <1>3
  <1>4. UsesAreAnswered(messages) <=>
          \A i \in DOMAIN messages : Uses(i) => i + 1 \in DOMAIN messages /\ Results(i + 1) /\ Same(i)
    BY Zenon DEF UsesAreAnswered
  <1>5. ResultsAnswer(messages) <=>
          \A i \in DOMAIN messages : Results(i) => i - 1 \in DOMAIN messages /\ Uses(i - 1)
    BY Zenon DEF ResultsAnswer
  <1>6. \A i \in 2..Len(messages) : Back(i) <=> Same(i - 1)
    BY <1>1, <1>3
  <1> HIDE DEF Results, Uses, Same, Back
  <1>7. QED
    BY <1>1, <1>2, <1>3, <1>4, <1>5, <1>6
=============================================================================
