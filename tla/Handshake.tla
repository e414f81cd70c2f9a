------------------------------- MODULE Handshake -------------------------------
(***************************************************************************)
(* The initialize handshake between an mcp::Client and an mcp::Server over *)
(* stdio: the two lifecycle Sessions, Client::sendRequest and handleResponse *)
(* on their threads, the runner's loop, Client::stop.  A lock region is one *)
(* step.  Routers are reduced to the future of each call, which a response, *)
(* a timeout or a failed send resolves once (RouterOutbound has the rest).  *)
(***************************************************************************)
EXTENDS Integers, Sequences

CONSTANTS
  Inits, Pings, Features,  \* calls of Client::sendRequest by their method
  Timed,                   \* calls that may time out
  ClientVersions, ServerVersions,  \* supported versions, ordered as their dates
  Proposals,               \* versions an initialize call may propose
  MaxPushes,               \* notifications the server's application sends (bounds the model)
  NoCall, NoVersion

Calls == Inits \cup Pings \cup Features

ASSUME HandshakeAssumption ==
  /\ Inits \cap (Pings \cup Features) = {} /\ Pings \cap Features = {}
  /\ Timed \subseteq Calls /\ NoCall \notin Calls
  /\ ClientVersions \cup ServerVersions \cup Proposals \subseteq Nat
  /\ NoVersion \in Int \ Nat
  /\ ServerVersions # {} => \E v \in ServerVersions : \A u \in ServerVersions : u <= v
  /\ MaxPushes \in Nat

VARIABLES
  pc,             \* where each call is in Client::sendRequest
  future,         \* what its response future holds
  pendingInitializeRequestId,
  client, clientVersion,   \* state_ and negotiatedParams_ of the client's session
  running, stopping,       \* the client's transport, and Client::stop
  reader,         \* the client's transport thread
  announcer,      \* a thread of the application that sends notifications/initialized
  server, serverVersion,   \* state_ and negotiatedParams_ of the server's session
  pusher,         \* a thread of the server's application that sends a notification
  toServer, toClient,      \* the two pipes
  announcements   \* history: notifications/initialized written

session == << client, clientVersion, running, stopping >>
calls == << pc, future, pendingInitializeRequestId >>
serverSide == << server, serverVersion, pusher >>
vars == << calls, session, reader, announcer, serverSide, toServer, toClient, announcements >>

ClientStates == {"created", "initializing", "initialized", "operating", "stopped"}
ServerStates == {"created", "initialized", "operating", "stopped"}
CallPoints == {"idle", "refused", "setPending", "route", "check", "adopt", "adoptSession", "waiting"}
Versions == Proposals \cup ServerVersions \cup {NoVersion}
Futures == [ is : {"none", "pending", "success", "error", "timeout"}, version : Versions ]

Messages ==
  [ type : {"request", "response"}, call : Calls, ok : BOOLEAN,
    version : Versions ]
  \cup [ type : {"initialized", "listChanged"} ]
Request(c, v) == [ type |-> "request", call |-> c, ok |-> TRUE, version |-> v ]
Response(c, ok, v) == [ type |-> "response", call |-> c, ok |-> ok, version |-> v ]
Initialized == [ type |-> "initialized" ]
ListChanged == [ type |-> "listChanged" ]

ReaderPoints == {"idle", "reset", "session", "notify", "announce", "dispatch", "dispatchError",
                 "sessionError", "ended"}
NoResponse == [ call |-> NoCall, ok |-> FALSE, version |-> NoVersion ]
IdleReader == [ at |-> "idle", msg |-> NoResponse ]

Holds(what) == [ is |-> what, version |-> NoVersion ]
FutureOf(response) ==
  [ is |-> IF response.ok THEN "success" ELSE "error", version |-> response.version ]

Init ==
  /\ pc = [c \in Calls |-> "idle"]
  /\ future = [c \in Calls |-> Holds("none")]
  /\ pendingInitializeRequestId = NoCall
  /\ client = "created" /\ clientVersion = NoVersion
  /\ running = TRUE /\ stopping = "no"
  /\ reader = IdleReader
  /\ announcer = "idle"
  /\ server = "created" /\ serverVersion = NoVersion
  /\ pusher = [ at |-> "idle", sent |-> 0 ]
  /\ toServer = << >> /\ toClient = << >>
  /\ announcements = 0

Goto(c, label) == pc' = [pc EXCEPT ![c] = label]
Resolve(c, value) ==          \* the router pops a call once
  future' = [future EXCEPT ![c] = IF @.is = "pending" THEN value ELSE @]

-----------------------------------------------------------------------------
(* Client::sendRequest.                                                    *)

\* enforceOutboundRequestLifecycle, the client's half
Allowed(c) ==
  \/ c \in Inits /\ client = "created"
  \/ c \in Pings /\ client \in {"initializing", "operating", "stopped"}
  \/ c \in Features /\ client \in {"operating", "stopped"}

SendRequest(c) ==
  /\ pc[c] = "idle"
  /\ \/ ~Allowed(c) /\ Goto(c, "refused") /\ UNCHANGED client
     \/ Allowed(c) /\ c \in Inits /\ Goto(c, "setPending") /\ client' = "initializing"
     \/ Allowed(c) /\ c \notin Inits /\ Goto(c, "route") /\ UNCHANGED client
  /\ UNCHANGED << future, pendingInitializeRequestId, clientVersion, running, stopping,
                  reader, announcer, serverSide, toServer, toClient, announcements >>

SetPendingInitialize(c) ==
  /\ pc[c] = "setPending"
  /\ pendingInitializeRequestId' = c
  /\ Goto(c, "route")
  /\ UNCHANGED << future, session, reader, announcer, serverSide, toServer, toClient, announcements >>

\* router_.sendRequest: a transport that is not running throws and the future gets the error
RouteRequest(c) ==
  /\ pc[c] = "route"
  /\ Goto(c, IF c \in Inits THEN "check" ELSE "waiting")
  /\ \/ /\ running
        /\ future' = [future EXCEPT ![c] = Holds("pending")]
        /\ \E v \in IF c \in Inits THEN Proposals ELSE {NoVersion} :
             toServer' = Append(toServer, Request(c, v))
     \/ /\ ~running
        /\ future' = [future EXCEPT ![c] = Holds("error")]
        /\ UNCHANGED toServer
  /\ UNCHANGED << pendingInitializeRequestId, session, reader, announcer, serverSide,
                  toClient, announcements >>

\* the future is ready at once and an initialize is pending, this one or a later one: the caller
\* handles the response itself
CheckInitializeFuture(c) ==
  /\ pc[c] = "check"
  /\ Goto(c, IF future[c].is # "pending" /\ pendingInitializeRequestId # NoCall
             THEN "adopt" ELSE "waiting")
  /\ UNCHANGED << future, pendingInitializeRequestId, session, reader, announcer, serverSide,
                  toServer, toClient, announcements >>

AdoptResetPending(c) ==
  /\ pc[c] = "adopt"
  /\ pendingInitializeRequestId' = NoCall
  /\ Goto(c, "adoptSession")
  /\ UNCHANGED << future, session, reader, announcer, serverSide, toServer, toClient, announcements >>

\* Mutant of Accepted: the server's version is not compared with the client's.
AcceptedUnchecked(ok, version) == client = "initializing" /\ ok

\* what handleInitializeResponse does to the session up to the release of its mutex
Accepted(ok, version) == client = "initializing" /\ ok /\ version \in ClientVersions
SessionTakes(ok, version) ==
  /\ client' = IF client # "initializing" THEN client
               ELSE IF Accepted(ok, version) THEN "initialized" ELSE "created"
  /\ clientVersion' = IF Accepted(ok, version) THEN version ELSE clientVersion

\* the session throws a LifecycleError, which is reported: AdoptsOnlyRefusals shows that it never
\* accepts here, so the caller does not announce
AdoptResponse(c) ==
  /\ pc[c] = "adoptSession"
  /\ SessionTakes(future[c].is = "success", future[c].version)
  /\ Goto(c, "waiting")
  /\ UNCHANGED << future, pendingInitializeRequestId, running, stopping,
                  reader, announcer, serverSide, toServer, toClient, announcements >>

RequestTimesOut(c) ==
  /\ c \in Timed /\ future[c].is = "pending"
  /\ Resolve(c, Holds("timeout"))
  /\ UNCHANGED << pc, pendingInitializeRequestId, session, reader, announcer, serverSide,
                  toServer, toClient, announcements >>

-----------------------------------------------------------------------------
(* The client's transport thread: Client::handleResponse.                  *)

ReaderGoto(label) == reader' = [reader EXCEPT !.at = label]

\* the top of the loop: the thread ends when the transport no longer runs
NextLine == reader' = [ IdleReader EXCEPT !.at = IF running THEN "idle" ELSE "ended" ]

\* readLine at the end of the input
ReaderEnds ==
  /\ reader.at = "idle" /\ ~running
  /\ NextLine
  /\ UNCHANGED << calls, session, announcer, serverSide, toServer, toClient, announcements >>

\* the next message; a response is compared with the pending initialize request
ReceiveMessage ==
  LET m == Head(toClient) IN
  /\ reader.at = "idle" /\ toClient # << >>
  /\ toClient' = Tail(toClient)
  /\ IF m.type = "response"
     THEN reader' = [ at |-> IF m.call = pendingInitializeRequestId THEN "reset"
                             ELSE "dispatch",
                      msg |-> [ call |-> m.call, ok |-> m.ok, version |-> m.version ] ]
     ELSE NextLine
  /\ UNCHANGED << calls, session, announcer, serverSide, toServer, announcements >>

\* Mutant of ResetPending: the future is resolved before the session has seen the response.
ResetPendingDispatches ==
  /\ reader.at = "reset"
  /\ pendingInitializeRequestId' = NoCall
  /\ ReaderGoto(IF reader.msg.ok THEN "session" ELSE "dispatchError")
  /\ Resolve(reader.msg.call, FutureOf(reader.msg))
  /\ UNCHANGED << pc, session, announcer, serverSide, toServer, toClient, announcements >>

\* Mutant of ResetPending: pendingInitializeRequestId_ is not reset.
ResetPendingForgets ==
  /\ reader.at = "reset"
  /\ ReaderGoto(IF reader.msg.ok THEN "session" ELSE "dispatchError")
  /\ UNCHANGED << calls, session, announcer, serverSide, toServer, toClient, announcements >>

ResetPending ==
  /\ reader.at = "reset"
  /\ pendingInitializeRequestId' = NoCall
  /\ ReaderGoto(IF reader.msg.ok THEN "session" ELSE "dispatchError")
  /\ UNCHANGED << pc, future, session, announcer, serverSide, toServer, toClient, announcements >>

\* handleInitializeResponse up to the release of the session's mutex
HandleInitializeSuccess ==
  /\ reader.at = "session"
  /\ SessionTakes(reader.msg.ok, reader.msg.version)
  /\ ReaderGoto(IF Accepted(reader.msg.ok, reader.msg.version) THEN "notify" ELSE "dispatch")
  /\ UNCHANGED << calls, running, stopping, announcer, serverSide, toServer, toClient, announcements >>

\* sendNotification('notifications/initialized'), its lock region: it throws unless the session is
\* initialized, for instance because the application was first
ReaderNotifies ==
  /\ reader.at = "notify"
  /\ \/ client = "initialized" /\ client' = "operating" /\ ReaderGoto("announce")
     \/ client # "initialized" /\ ReaderGoto("dispatch") /\ UNCHANGED client
  /\ UNCHANGED << calls, clientVersion, running, stopping, announcer, serverSide,
                  toServer, toClient, announcements >>

\* transport->send, outside the lock
Announce ==
  \/ running /\ toServer' = Append(toServer, Initialized) /\ announcements' = announcements + 1
  \/ ~running /\ UNCHANGED << toServer, announcements >>

\* a failed write is not a LifecycleError: it leaves handleResponse before the dispatch
ReaderAnnounces ==
  /\ reader.at = "announce"
  /\ Announce
  /\ IF running THEN ReaderGoto("dispatch") ELSE NextLine
  /\ UNCHANGED << calls, session, announcer, serverSide, toClient >>

DispatchResponse ==
  /\ reader.at = "dispatch"
  /\ Resolve(reader.msg.call, FutureOf(reader.msg))
  /\ NextLine
  /\ UNCHANGED << pc, pendingInitializeRequestId, session, announcer, serverSide,
                  toServer, toClient, announcements >>

\* an error response goes to the router first and to the session afterwards
DispatchErrorResponse ==
  /\ reader.at = "dispatchError"
  /\ Resolve(reader.msg.call, Holds("error"))
  /\ ReaderGoto("sessionError")
  /\ UNCHANGED << pc, pendingInitializeRequestId, session, announcer, serverSide,
                  toServer, toClient, announcements >>

\* Mutant of HandleInitializeError: the session keeps waiting.
HandleInitializeErrorLost ==
  /\ reader.at = "sessionError"
  /\ NextLine
  /\ UNCHANGED << calls, session, announcer, serverSide, toServer, toClient, announcements >>

HandleInitializeError ==
  /\ reader.at = "sessionError"
  /\ SessionTakes(FALSE, NoVersion)
  /\ NextLine
  /\ UNCHANGED << calls, running, stopping, announcer, serverSide,
                  toServer, toClient, announcements >>

-----------------------------------------------------------------------------
(* The application: notifications/initialized by hand, and Client::stop.   *)

AppNotifies ==
  /\ announcer = "idle" /\ client = "initialized"
  /\ client' = "operating" /\ announcer' = "announce"
  /\ UNCHANGED << calls, clientVersion, running, stopping, reader, serverSide,
                  toServer, toClient, announcements >>

AppAnnounces ==
  /\ announcer = "announce"
  /\ Announce
  /\ announcer' = "idle"
  /\ UNCHANGED << calls, session, reader, serverSide, toClient >>

StopTransport ==
  /\ stopping = "no"
  /\ running' = FALSE /\ stopping' = "join"
  /\ UNCHANGED << calls, client, clientVersion, reader, announcer, serverSide,
                  toServer, toClient, announcements >>

\* the reader thread is joined; then the session is stopped
StopSession ==
  /\ stopping = "join" /\ reader.at = "ended"
  /\ client' = "stopped" /\ stopping' = "done"
  /\ UNCHANGED << calls, clientVersion, running, reader, announcer, serverSide,
                  toServer, toClient, announcements >>

-----------------------------------------------------------------------------
(* The server: StdioServerRunner handles one message at a time.            *)

\* canHandleRequest
CanHandleRequest(c) ==
  \/ server = "operating"
  \/ c \in Inits /\ server = "created"
  \/ c \in Pings

\* selectServerProtocolVersion
SelectedVersion(proposed) ==
  IF proposed \in ServerVersions THEN proposed
  ELSE CHOOSE v \in ServerVersions : \A u \in ServerVersions : u <= v

Answers(c, ok, v) == toClient' = Append(toClient, Response(c, ok, v))

\* handleInitializeRequest tests the state again
HandleInitialize ==
  LET m == Head(toServer) IN
  /\ toServer # << >> /\ server # "stopped"
  /\ m.type = "request" /\ m.call \in Inits /\ CanHandleRequest(m.call)
  /\ toServer' = Tail(toServer)
  /\ \/ /\ server = "operating" \/ ServerVersions = {}
        /\ Answers(m.call, FALSE, NoVersion)
        /\ UNCHANGED << server, serverVersion >>
     \/ /\ server # "operating" /\ ServerVersions # {}
        /\ serverVersion' = SelectedVersion(m.version)
        /\ server' = "initialized"
        /\ Answers(m.call, TRUE, SelectedVersion(m.version))
  /\ UNCHANGED << calls, session, reader, announcer, pusher, announcements >>

HandleRequest ==
  LET m == Head(toServer) IN
  /\ toServer # << >> /\ server # "stopped"
  /\ m.type = "request"
  /\ m.call \in Inits => ~CanHandleRequest(m.call)
  /\ toServer' = Tail(toServer)
  /\ Answers(m.call, CanHandleRequest(m.call), NoVersion)
  /\ UNCHANGED << calls, session, reader, announcer, serverSide, announcements >>

HandleInitializedNotification ==
  /\ toServer # << >> /\ server # "stopped" /\ Head(toServer).type = "initialized"
  /\ toServer' = Tail(toServer)
  /\ server' = IF server = "initialized" THEN "operating" ELSE server
  /\ UNCHANGED << calls, session, reader, announcer, serverVersion, pusher, toClient, announcements >>

\* notifyToolsListChanged: canSendNotification, then the router's sender without the lock
CheckCanPush ==
  /\ pusher.at = "idle" /\ pusher.sent < MaxPushes /\ server = "operating"
  /\ pusher' = [pusher EXCEPT !.at = "send"]
  /\ UNCHANGED << calls, session, reader, announcer, server, serverVersion,
                  toServer, toClient, announcements >>

Push ==
  /\ pusher.at = "send"
  /\ pusher' = [ at |-> "idle", sent |-> pusher.sent + 1 ]
  /\ toClient' = Append(toClient, ListChanged)
  /\ UNCHANGED << calls, session, reader, announcer, server, serverVersion,
                  toServer, announcements >>

\* end of input: the stop guard
ServerStops ==
  /\ ~running /\ toServer = << >> /\ server # "stopped"
  /\ server' = "stopped"
  /\ UNCHANGED << calls, session, reader, announcer, serverVersion, pusher,
                  toServer, toClient, announcements >>

-----------------------------------------------------------------------------
CallerInside(c) ==
  \/ SetPendingInitialize(c) \/ RouteRequest(c) \/ CheckInitializeFuture(c)
  \/ AdoptResetPending(c) \/ AdoptResponse(c)

ReaderStep ==
  \/ ReaderEnds \/ ReceiveMessage \/ ResetPending \/ HandleInitializeSuccess \/ ReaderNotifies
  \/ ReaderAnnounces \/ DispatchResponse \/ DispatchErrorResponse \/ HandleInitializeError

AppStep == AppNotifies \/ AppAnnounces \/ StopTransport \/ StopSession

RunnerStep == HandleInitialize \/ HandleRequest \/ HandleInitializedNotification
ServerStep == RunnerStep \/ CheckCanPush \/ Push \/ ServerStops

Next ==
  \/ \E c \in Calls : SendRequest(c) \/ CallerInside(c) \/ RequestTimesOut(c)
  \/ ReaderStep
  \/ AppStep
  \/ ServerStep

Spec == Init /\ [][Next]_vars

(***************************************************************************)
(* Fairness: threads that are inside a call, the reader and the runner go  *)
(* on.  Nothing has to time out, to be called or to be stopped.            *)
(***************************************************************************)
Fairness ==
  /\ \A c \in Calls : WF_vars(CallerInside(c))
  /\ WF_vars(ReaderStep) /\ WF_vars(AppAnnounces) /\ WF_vars(StopSession)
  /\ WF_vars(RunnerStep)

FairSpec == Spec /\ Fairness

-----------------------------------------------------------------------------
(* Type invariant.                                                         *)

\* Every variable has its type.
TypeOK ==
  /\ pc \in [Calls -> CallPoints]
  /\ future \in [Calls -> Futures]
  /\ pendingInitializeRequestId \in Inits \cup {NoCall}
  /\ client \in ClientStates /\ server \in ServerStates
  /\ clientVersion \in ClientVersions \cup {NoVersion}
  /\ serverVersion \in ServerVersions \cup {NoVersion}
  /\ running \in BOOLEAN /\ stopping \in {"no", "join", "done"}
  /\ reader \in [ at : ReaderPoints,
                 msg : [ call : Calls \cup {NoCall}, ok : BOOLEAN, version : Versions ] ]
  /\ reader.at \notin {"idle", "ended"} => reader.msg.call \in Calls
  /\ announcer \in {"idle", "announce"}
  /\ pusher \in [ at : {"idle", "send"}, sent : 0..MaxPushes ]
  /\ pusher.at = "send" => pusher.sent < MaxPushes
  /\ toServer \in Seq(Messages) /\ toClient \in Seq(Messages)
  /\ announcements \in Nat

-----------------------------------------------------------------------------
(* Safety.                                                                 *)

\* Both ends that have negotiated have the same protocol version, one that both support, whatever
\* was proposed, timed out, retried and answered late in between.
VersionsAgree ==
  clientVersion # NoVersion =>
    clientVersion = serverVersion /\ clientVersion \in ClientVersions \cap ServerVersions

\* notifications/initialized is written once, although the reader and the application may both
\* try and a late response may meet a retry.
AnnouncedOnce == announcements <= 1

\* The server operates, and speaks unasked, only to a client that has accepted the server's
\* version and announced it.
ServerWaitsForClient ==
  server = "operating" \/ pusher.at = "send" \/ (\E i \in 1..Len(toClient) : toClient[i] = ListChanged)
    => clientVersion # NoVersion /\ announcements > 0

\* "initialize() completes the handshake": a caller that gets a success from initialize may send
\* feature requests at once, unless the server's version was refused or the client stops.
InitializedWhenReady ==
  \A c \in Inits :
    future[c].is = "success" /\ running /\ serverVersion \in ClientVersions =>
      client = "operating"

\* A response that sendRequest handles itself, because it found its future ready, is never one
\* the session would accept: the reader takes an accepted one, resets pendingInitializeRequestId_
\* before the future becomes ready, and leaves no later initialize to be mistaken for it.
AdoptsOnlyRefusals ==
  \A c \in Inits :
    pc[c] \in {"adopt", "adoptSession"} =>
      future[c].is # "success" \/ future[c].version \notin ClientVersions

-----------------------------------------------------------------------------
(* Liveness.                                                               *)

\* The client does not stay in kInitializing: a timeout of initialize leaves the session waiting,
\* but the late answer still moves it, unless the client is stopped.
InitializingEnds == (client = "initializing") ~> (client # "initializing")

=============================================================================
