------------------------------ MODULE HttpRunner ------------------------------
(***************************************************************************)
(* mcp::server::StreamableHttpServerRunner with its HttpServerRuntime, and *)
(* the CombinedServerRunner around them.                                   *)
(*                                                                         *)
(* One controlling thread starts and stops; one server thread accepts one  *)
(* connection at a time, reads a request, hands it to the transport and to *)
(* the Server instance of its session, and answers.  The transport is      *)
(* module HttpServer reduced to the state of each session.                 *)
(***************************************************************************)
EXTENDS Naturals, FiniteSets

CONSTANTS
  Sessions,    \* session ids the transport may generate
  Servers,     \* instances the ServerFactory may return
  None,        \* no session, no server
  MaxBacklog,  \* connections that wait in the listen queue (bounds the model)
  MaxStarts,   \* calls of start() (bounds the model)
  WakeReaches  \* the address that is bound can be reached through loopback

ASSUME HttpRunnerAssumption ==
  /\ None \notin Sessions \cup Servers
  /\ MaxBacklog \in Nat \ {0} /\ MaxStarts \in Nat
  /\ WakeReaches \in BOOLEAN

VARIABLES
  requireSessionId, \* option, fixed
  stdio,            \* CombinedServerRunnerOptions.enableStdio, fixed
  ctl,              \* where the controlling thread is
  starts,           \* calls of start() so far
  running,          \* the runner's flag
  active,           \* running_ of the runtime
  runtimeStopRequested,
  thread,           \* where the server thread is; "none" when joined
  backlog,          \* connections that were not accepted yet
  cur,              \* what the server thread works on
  sessions,         \* the transport's session table
  sessionServers, singleServer,
  server,           \* life of each instance
  unversioned       \* sessions whose initialize succeeded without a usable version

runtime == << active, runtimeStopRequested, thread, backlog >>
control == << ctl, starts, running >>
instances == << sessionServers, singleServer, server >>
options == << requireSessionId, stdio >>
runnerVars == << options, control, runtime, cur, sessions, instances, unversioned >>

NoWork == [ kind |-> "none", session |-> None, server |-> None ]

RunnerInit ==
  /\ requireSessionId \in BOOLEAN /\ stdio \in BOOLEAN
  /\ ctl = "idle" /\ starts = 0 /\ running = FALSE
  /\ active = FALSE /\ runtimeStopRequested = FALSE /\ thread = "none" /\ backlog = 0
  /\ cur = NoWork
  /\ sessions = [s \in Sessions |-> "none"]
  /\ sessionServers = [s \in Sessions |-> None]
  /\ singleServer = None
  /\ server = [v \in Servers |-> "unused"]
  /\ unversioned = {}

-----------------------------------------------------------------------------
(* start() and stop(), on the controlling thread.                          *)

\* runner.start(): HttpServerRuntime::start spawns the thread and waits for it
Start ==
  /\ ctl = "idle" /\ ~running /\ starts < MaxStarts
  /\ starts' = starts + 1
  /\ active' = TRUE /\ runtimeStopRequested' = FALSE /\ thread' = "bind"
  /\ ctl' = "starting"
  /\ UNCHANGED << options, running, backlog, cur, sessions, instances, unversioned >>

\* run(): open, bind and listen, then the promise
Bind ==
  /\ thread = "bind"
  /\ \/ thread' = "loop" /\ UNCHANGED active
     \/ thread' = "failed" /\ active' = FALSE
  /\ UNCHANGED << options, control, runtimeStopRequested, backlog, cur, sessions, instances, unversioned >>

\* CombinedServerRunner::start goes on with stdio in the foreground
StartReturns ==
  /\ ctl = "starting" /\ thread \notin {"bind", "failed"}
  /\ running' = TRUE
  /\ ctl' = IF stdio THEN "stdio" ELSE "idle"
  /\ UNCHANGED << options, starts, runtime, cur, sessions, instances, unversioned >>

\* The startup future holds the exception: join and throw, the runner's flag was never set.
StartThrows ==
  /\ ctl = "starting" /\ thread = "failed"
  /\ active' = FALSE /\ runtimeStopRequested' = TRUE /\ thread' = "none"
  /\ ctl' = "idle"
  /\ UNCHANGED << options, starts, running, backlog, cur, sessions, instances, unversioned >>

\* runStdio(): at end of input the HTTP runner is stopped before start() returns
StdioEnds ==
  /\ ctl = "stdio"
  /\ ctl' = "stop" /\ running' = FALSE
  /\ UNCHANGED << options, starts, runtime, cur, sessions, instances, unversioned >>

Stop ==
  /\ ctl = "idle" /\ running
  /\ ctl' = "stop" /\ running' = FALSE
  /\ UNCHANGED << options, starts, runtime, cur, sessions, instances, unversioned >>

\* Mutant of RequestStop: nobody wakes the thread that accepts.
RequestStopSilently ==
  /\ ctl = "stop"
  /\ active' = FALSE /\ runtimeStopRequested' = TRUE
  /\ ctl' = "join"
  /\ UNCHANGED << options, starts, running, thread, backlog, cur, sessions, instances, unversioned >>

Listening == thread \notin {"none", "bind", "failed", "ended"}

\* HttpServerRuntime::stop up to the join: wakeAcceptLoop connects to loopback
RequestStop ==
  /\ ctl = "stop"
  /\ active' = FALSE /\ runtimeStopRequested' = TRUE
  /\ backlog' = IF active /\ WakeReaches /\ Listening THEN backlog + 1 ELSE backlog
  /\ ctl' = "join"
  /\ UNCHANGED << options, starts, running, thread, cur, sessions, instances, unversioned >>

Join ==
  /\ ctl = "join" /\ thread \in {"ended", "failed"}
  /\ thread' = "none"
  /\ ctl' = "servers"
  /\ UNCHANGED << options, starts, running, active, runtimeStopRequested, backlog, cur, sessions,
                  instances, unversioned >>

Stopped(set) ==
  server' = [v \in Servers |-> IF v \in set /\ server[v] = "started" THEN "stopped" ELSE server[v]]

Owned == { sessionServers[s] : s \in Sessions } \cup {singleServer}

StopAllServers ==
  /\ ctl = "servers"
  /\ Stopped(Owned)
  /\ sessionServers' = [s \in Sessions |-> None]
  /\ singleServer' = None
  /\ ctl' = "idle"
  /\ UNCHANGED << options, starts, running, runtime, cur, sessions, unversioned >>

-----------------------------------------------------------------------------
(* The server thread: accept, read, dispatch.                              *)

ClientConnects ==
  /\ Listening /\ backlog < MaxBacklog
  /\ backlog' = backlog + 1
  /\ UNCHANGED << options, control, active, runtimeStopRequested, thread, cur, sessions, instances, unversioned >>

\* The thread leaves run(): the acceptor is closed with what waits in its queue.
EndThread == thread' = "ended" /\ active' = FALSE /\ backlog' = 0 /\ cur' = NoWork

Loop ==
  /\ thread = "loop"
  /\ \/ runtimeStopRequested /\ EndThread
     \/ ~runtimeStopRequested /\ thread' = "accept" /\ UNCHANGED << active, backlog, cur >>
  /\ UNCHANGED << options, control, runtimeStopRequested, sessions, instances, unversioned >>

Accept ==
  /\ thread = "accept" /\ backlog > 0
  /\ \/ runtimeStopRequested /\ EndThread
     \/ ~runtimeStopRequested /\ thread' = "read" /\ backlog' = backlog - 1 /\ UNCHANGED << active, cur >>
  /\ UNCHANGED << options, control, runtimeStopRequested, sessions, instances, unversioned >>

Kinds == {"initialize", "request", "notification", "delete", "get"}

\* beast_http::read; a client that names no session is not told apart here
Read ==
  /\ thread = "read"
  /\ \E kind \in Kinds, s \in Sessions \cup {None} :
       /\ kind = "initialize" => s = None
       /\ cur' = [NoWork EXCEPT !.kind = kind, !.session = s]
  /\ thread' = "dispatch"
  /\ UNCHANGED << options, control, active, runtimeStopRequested, backlog, sessions, instances, unversioned >>

\* The client goes away, or its method is none of the three (405).
ReadNothing ==
  /\ thread = "read"
  /\ thread' = "loop"
  /\ UNCHANGED << options, control, active, runtimeStopRequested, backlog, cur, sessions, instances, unversioned >>

Answered == thread' = "loop" /\ cur' = NoWork /\ UNCHANGED << active, backlog >>

\* Mutant of RemoveServer: the instance stays in the map.
RemoveKeepsEntry(s) ==
  /\ Stopped({sessionServers[s]})
  /\ UNCHANGED << sessionServers, singleServer >>

\* removeServer: stopped, then erased
RemoveServer(s) ==
  /\ Stopped({sessionServers[s]})
  /\ sessionServers' = [sessionServers EXCEPT ![s] = None]
  /\ UNCHANGED singleServer

Active(s) == s \in Sessions /\ sessions[s] = "active"

\* Any answer 404 drops the server of the session the request named, whoever it was for:
\* a session that is not active, but also an unknown stream, or a path nobody serves.
NotFound ==
  /\ thread = "dispatch" /\ cur.session \in Sessions
  /\ cur.kind \in {"request", "notification", "get"}
  /\ ~Active(cur.session) \/ cur.kind = "get"
  /\ RemoveServer(cur.session)
  /\ Answered
  /\ UNCHANGED << options, control, runtimeStopRequested, sessions, unversioned >>

\* DELETE drops the server whatever the transport answered
Delete ==
  /\ thread = "dispatch" /\ cur.kind = "delete" /\ cur.session \in Sessions
  /\ \/ Active(cur.session) /\ sessions' = [sessions EXCEPT ![cur.session] = "terminated"]
     \/ UNCHANGED sessions      \* 404, or refused: 400, 401, 403, 405
  /\ RemoveServer(cur.session)
  /\ Answered
  /\ UNCHANGED << options, control, runtimeStopRequested, unversioned >>

\* The transport answers without the runner: an SSE stream, or a request it refuses.
TransportAnswers ==
  /\ thread = "dispatch"
  /\ \/ cur.kind = "get"
     \/ cur.kind # "initialize" /\ cur.session = None /\ (requireSessionId \/ cur.kind = "delete")
  /\ Answered
  /\ UNCHANGED << options, control, runtimeStopRequested, sessions, instances, unversioned >>

\* The server a message goes to, None if the runner has none.
Target == IF requireSessionId THEN (IF cur.session = None THEN None ELSE sessionServers[cur.session])
          ELSE singleServer

Reaches == cur.session = None \/ Active(cur.session)

\* "Session not initialized", "Server not initialized" or a refused notification
NoServer ==
  /\ thread = "dispatch" /\ cur.kind \in {"request", "notification"} /\ Reaches
  /\ requireSessionId => cur.session # None
  /\ Target = None
  /\ Answered
  /\ UNCHANGED << options, control, runtimeStopRequested, sessions, instances, unversioned >>

EnterServer ==
  /\ thread = "dispatch" /\ Reaches
  /\ \/ cur.kind \in {"request", "notification"}
     \/ cur.kind = "initialize" /\ ~requireSessionId
  /\ Target # None
  /\ cur' = [cur EXCEPT !.server = Target]
  /\ thread' = "handling"
  /\ UNCHANGED << options, control, active, runtimeStopRequested, backlog, sessions, instances, unversioned >>

\* The factory or Server::start throws: an internal error is the answer.  In single mode
\* the instance is kept, started or not.
Creates == cur.kind = "initialize" /\ (requireSessionId \/ singleServer = None)

CreateFails ==
  /\ thread = "dispatch" /\ Creates
  /\ \/ UNCHANGED instances
     \/ \E v \in Servers :
          /\ server[v] = "unused"
          /\ server' = [server EXCEPT ![v] = "startFailed"]
          /\ singleServer' = IF requireSessionId THEN singleServer ELSE v
          /\ UNCHANGED sessionServers
  /\ Answered
  /\ UNCHANGED << options, control, runtimeStopRequested, sessions, unversioned >>

\* The transport generated an id nobody has; the server is started but in no map yet.
CreateServer ==
  /\ thread = "dispatch" /\ Creates
  /\ \E v \in Servers, s \in Sessions \cup {None} :
       /\ IF requireSessionId
          THEN s # None /\ sessions[s] = "none" /\ s \notin unversioned
          ELSE s = None
       /\ server[v] = "unused"
       /\ server' = [server EXCEPT ![v] = "started"]
       /\ singleServer' = IF requireSessionId THEN singleServer ELSE v
       /\ cur' = [cur EXCEPT !.session = s, !.server = v]
  /\ thread' = "handling"
  /\ UNCHANGED << options, control, active, runtimeStopRequested, backlog, sessions, sessionServers, unversioned >>

New == cur.kind = "initialize" /\ requireSessionId

\* An existing server answers, with a result or an error.
ServerAnswers ==
  /\ thread = "handling" /\ ~New
  /\ Answered
  /\ UNCHANGED << options, control, runtimeStopRequested, sessions, instances, unversioned >>

\* Mutant of InitializeAnswered: the version decides before the server is kept.
InitializeForgotten(version) ==
  /\ thread = "handling" /\ New
  /\ sessions' = [sessions EXCEPT ![cur.session] = "active"]
  /\ UNCHANGED << unversioned, sessionServers >>
  /\ Answered
  /\ UNCHANGED << options, control, runtimeStopRequested, singleServer, server >>

\* The runner commits the server to its map, then the transport looks for the version.
InitializeAnswered(version) ==
  /\ thread = "handling" /\ New
  /\ sessionServers' = [sessionServers EXCEPT ![cur.session] = cur.server]
  /\ \/ /\ version = "valid"
        /\ sessions' = [sessions EXCEPT ![cur.session] = "active"]
        /\ UNCHANGED unversioned
     \/ /\ version = "invalid"
        /\ unversioned' = unversioned \cup {cur.session}
        /\ UNCHANGED sessions
  /\ Answered
  /\ UNCHANGED << options, control, runtimeStopRequested, singleServer, server >>

\* An error response or an exception: the new server is stopped and forgotten.
InitializeRefused ==
  /\ thread = "handling" /\ New
  /\ Stopped({cur.server})
  /\ Answered
  /\ UNCHANGED << options, control, runtimeStopRequested, sessions, sessionServers, singleServer, unversioned >>

\* An exception that is no std::exception passes the runner, the transport and dispatch:
\* run() reports it and the thread ends, while the runner still says that it runs.
EscapingException ==
  /\ thread = "handling"
  /\ IF New THEN Stopped({cur.server}) ELSE UNCHANGED server
  /\ EndThread
  /\ UNCHANGED << options, control, runtimeStopRequested, sessions, sessionServers, singleServer, unversioned >>

-----------------------------------------------------------------------------
ServerThread ==
  \/ Bind \/ Loop \/ Accept
  \/ NotFound \/ Delete \/ TransportAnswers \/ NoServer \/ EnterServer
  \/ CreateFails \/ CreateServer
  \/ ServerAnswers \/ InitializeRefused \/ EscapingException
  \/ \E version \in {"valid", "invalid"} : InitializeAnswered(version)

Client == ClientConnects \/ Read \/ ReadNothing

Stopping == RequestStop \/ Join \/ StopAllServers
Starting == Start \/ StartReturns \/ StartThrows

RunnerNext == ServerThread \/ Client \/ Stopping \/ Starting \/ StdioEnds \/ Stop

RunnerSpec == RunnerInit /\ [][RunnerNext]_runnerVars

\* Threads make progress, Server instances answer, and a client that was accepted sends
\* its request or goes away: nothing in the runtime bounds how long it may take.
RunnerFairSpec ==
  RunnerSpec /\ WF_runnerVars(ServerThread) /\ WF_runnerVars(Stopping \/ StartReturns \/ StartThrows)
       /\ WF_runnerVars(Read \/ ReadNothing)

-----------------------------------------------------------------------------
(* Properties.                                                             *)

\* A server instance that was stopped handles no message any more, and none handles a
\* message before start() was called on it.
OnlyLiveServersHandle ==
  thread = "handling" => server[cur.server] \in {"started", "startFailed"}

\* Every instance that runs is the one of a session, the single one, or the one whose
\* initialize is in progress; a session has a server only if the transport made it
\* active, or could not because the result named no usable version.
ServersMatchSessions ==
  /\ \A v \in Servers : server[v] = "started" => v \in Owned \cup {cur.server}
  /\ \A s, t \in Sessions :
       sessionServers[s] # None =>
         /\ s # t => sessionServers[s] # sessionServers[t]
         /\ sessions[s] = "active" \/ s \in unversioned

\* stop() comes to its end: the thread that accepts is woken, the one that handles a
\* request finishes it and sees the flag.
StopReturns == ctl \in {"stop", "join", "servers"} ~> ctl = "idle"

=============================================================================
