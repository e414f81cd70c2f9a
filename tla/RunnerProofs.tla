----------------------------- MODULE RunnerProofs -----------------------------
(***************************************************************************)
(* The two runners of a server.  For any number of sessions, instances and *)
(* starts, the HTTP runner's server instances handle messages only while   *)
(* they are live, and its maps and the transport's session table stay in   *)
(* step.  For any registries, calls, tools and bounds, the subscriptions   *)
(* of the client behind the stdio runner are the server's, and a finished  *)
(* listing that is out of date has been or will be announced so.           *)
(***************************************************************************)
EXTENDS StdioServer, HttpRunner, SequenceTheorems, TLAPS

-----------------------------------------------------------------------------
(***************************************************************************)
(* The Streamable HTTP runner (HttpRunner).                                *)
(***************************************************************************)

Threads == {"none", "bind", "failed", "loop", "accept", "read", "dispatch", "handling", "ended"}

RunnerTypeOK ==
  /\ requireSessionId \in BOOLEAN
  /\ ctl \in {"idle", "starting", "stdio", "stop", "join", "servers"}
  /\ running \in BOOLEAN
  /\ thread \in Threads
  /\ cur \in [ kind : Kinds \cup {"none"}, session : Sessions \cup {None}, server : Servers \cup {None} ]
  /\ sessions \in [Sessions -> {"none", "active", "terminated"}]
  /\ sessionServers \in [Sessions -> Servers \cup {None}]
  /\ singleServer \in Servers \cup {None}
  /\ server \in [Servers -> {"unused", "started", "stopped", "startFailed"}]
  /\ unversioned \subseteq Sessions \cup {None}

\* The thread is gone whenever the controlling thread may start another one or stop the
\* servers, and it holds a server only while it handles a message.
RunnerThreadInv ==
  /\ ctl = "servers" \/ (ctl = "idle" /\ ~running) => thread = "none"
  /\ thread # "handling" => cur.server = None
  /\ thread = "dispatch" /\ cur.kind = "initialize" => cur.session = None

\* What the maps hold is live, and each mode uses its own map.
MapsInv ==
  /\ \A s \in Sessions : sessionServers[s] # None =>
       /\ requireSessionId
       /\ server[sessionServers[s]] = "started"
       /\ sessions[s] = "active" \/ s \in unversioned
  /\ \A s, t \in Sessions :
       sessionServers[s] # None /\ s # t => sessionServers[s] # sessionServers[t]
  /\ singleServer # None =>
       ~requireSessionId /\ server[singleServer] \in {"started", "startFailed"}

\* The server that handles a message: a new one, in no map and for a session that
\* nobody knows yet, or one of the maps.
HandlingInv ==
  thread = "handling" =>
    /\ cur.server \in Servers
    /\ IF New
       THEN /\ server[cur.server] = "started"
            /\ cur.session \in Sessions
            /\ sessions[cur.session] = "none" /\ cur.session \notin unversioned
            /\ \A s \in Sessions : sessionServers[s] # cur.server
       ELSE cur.server \in Owned

\* No instance runs that nobody would stop.
NoneForgotten == \A v \in Servers : server[v] = "started" => v \in Owned \cup {cur.server}

InstancesInv == MapsInv /\ HandlingInv /\ NoneForgotten
-----------------------------------------------------------------------------
(* Types.                                                                  *)

\* The constructors establish the types.
LEMMA InitRunnerType == RunnerInit => RunnerTypeOK
  <1> SUFFICES ASSUME RunnerInit PROVE RunnerTypeOK
    OBVIOUS
  <1>1. cur \in [ kind : Kinds \cup {"none"}, session : Sessions \cup {None}, server : Servers \cup {None} ]
    BY DEF RunnerInit, NoWork
  <1>2. requireSessionId \in BOOLEAN /\ running \in BOOLEAN
    BY Zenon DEF RunnerInit
  <1>3. thread \in Threads /\ unversioned \subseteq Sessions \cup {None}
    BY DEF RunnerInit, Threads
  <1> QED
    BY <1>1, <1>2, <1>3 DEF RunnerInit, RunnerTypeOK

\* Every step keeps the types.
LEMMA NextRunnerType == RunnerTypeOK /\ [RunnerNext]_runnerVars => RunnerTypeOK'
  <1> SUFFICES ASSUME RunnerTypeOK, [RunnerNext]_runnerVars PROVE RunnerTypeOK'
    OBVIOUS
  <1> USE DEF RunnerTypeOK, Threads, options, control, runtime, instances, NoWork, EndThread, Answered, Stopped, RemoveServer
  <1>1. CASE Start
    BY <1>1 DEF Start
  <1>2. CASE Bind
    BY <1>2 DEF Bind
  <1>3. CASE StartReturns
    BY <1>3 DEF StartReturns
  <1>4. CASE StartThrows
    BY <1>4 DEF StartThrows
  <1>5. CASE StdioEnds
    BY <1>5 DEF StdioEnds
  <1>6. CASE Stop
    BY <1>6 DEF Stop
  <1>7. CASE RequestStop
    BY <1>7 DEF RequestStop
  <1>8. CASE Join
    BY <1>8 DEF Join
  <1>9. CASE ClientConnects
    BY <1>9 DEF ClientConnects
  <1>10. CASE Loop
    BY <1>10 DEF Loop
  <1>11. CASE Accept
    BY <1>11 DEF Accept
  <1>12. CASE Read
    BY <1>12 DEF Read, Kinds
  <1>13. CASE ReadNothing
    BY <1>13 DEF ReadNothing
  <1>14. CASE TransportAnswers
    BY <1>14 DEF TransportAnswers
  <1>15. CASE NoServer
    BY <1>15 DEF NoServer
  <1>16. CASE EnterServer
    BY <1>16 DEF EnterServer, Target
  <1>17. CASE ServerAnswers
    BY <1>17 DEF ServerAnswers
  <1>18. CASE StopAllServers
    BY <1>18 DEF StopAllServers
  <1>19. CASE NotFound
    BY <1>19 DEF NotFound
  <1>20. CASE Delete
    BY <1>20 DEF Delete
  <1>21. CASE CreateFails
    BY <1>21 DEF CreateFails
  <1>22. CASE CreateServer
    BY <1>22 DEF CreateServer
  <1>23. CASE InitializeRefused
    BY <1>23 DEF InitializeRefused
  <1>24. CASE EscapingException
    BY <1>24 DEF EscapingException
  <1>25. ASSUME NEW version \in {"valid", "invalid"}, InitializeAnswered(version) PROVE RunnerTypeOK'
    BY <1>25 DEF InitializeAnswered
  <1>26. CASE UNCHANGED runnerVars
    BY <1>26 DEF runnerVars
  <1> QED
    BY <1>1, <1>2, <1>3, <1>4, <1>5, <1>6, <1>7, <1>8, <1>9, <1>10, <1>11, <1>12, <1>13, <1>14,
       <1>15, <1>16, <1>17, <1>18, <1>19, <1>20, <1>21, <1>22, <1>23, <1>24, <1>25, <1>26
       DEF RunnerNext, ServerThread, Client, Stopping, Starting

-----------------------------------------------------------------------------
(* Where the threads are.                                                  *)

\* A thread is started only when the last one is gone, and a message leaves with its server.
LEMMA NextRunnerThread == RunnerTypeOK /\ RunnerThreadInv /\ [RunnerNext]_runnerVars => RunnerThreadInv'
  <1> SUFFICES ASSUME RunnerTypeOK, RunnerThreadInv, [RunnerNext]_runnerVars PROVE RunnerThreadInv'
    OBVIOUS
  <1> USE DEF RunnerTypeOK, RunnerThreadInv, options, control, runtime, instances, NoWork, EndThread, Answered
  <1>1. CASE Start
    BY <1>1 DEF Start
  <1>2. CASE Bind
    BY <1>2 DEF Bind
  <1>3. CASE StartReturns
    BY <1>3 DEF StartReturns
  <1>4. CASE StartThrows
    BY <1>4 DEF StartThrows
  <1>5. CASE StdioEnds
    BY <1>5 DEF StdioEnds
  <1>6. CASE Stop
    BY <1>6 DEF Stop
  <1>7. CASE RequestStop
    BY <1>7 DEF RequestStop
  <1>8. CASE Join
    BY <1>8 DEF Join
  <1>9. CASE ClientConnects
    BY <1>9 DEF ClientConnects
  <1>10. CASE Loop
    BY <1>10 DEF Loop
  <1>11. CASE Accept
    BY <1>11 DEF Accept
  <1>12. CASE Read
    BY <1>12 DEF Read
  <1>13. CASE ReadNothing
    BY <1>13 DEF ReadNothing
  <1>14. CASE TransportAnswers
    BY <1>14 DEF TransportAnswers
  <1>15. CASE NoServer
    BY <1>15 DEF NoServer
  <1>16. CASE EnterServer
    BY <1>16 DEF EnterServer
  <1>17. CASE ServerAnswers
    BY <1>17 DEF ServerAnswers, New
  <1>18. CASE StopAllServers
    BY <1>18 DEF StopAllServers
  <1>19. CASE NotFound
    BY <1>19 DEF NotFound
  <1>20. CASE Delete
    BY <1>20 DEF Delete
  <1>21. CASE CreateFails
    BY <1>21 DEF CreateFails
  <1>22. CASE CreateServer
    BY <1>22 DEF CreateServer
  <1>23. CASE InitializeRefused
    BY <1>23 DEF InitializeRefused, New
  <1>24. CASE EscapingException
    BY <1>24 DEF EscapingException, New
  <1>25. ASSUME NEW version \in {"valid", "invalid"}, InitializeAnswered(version) PROVE RunnerThreadInv'
    BY <1>25 DEF InitializeAnswered, New
  <1>26. CASE UNCHANGED runnerVars
    BY <1>26 DEF runnerVars
  <1> QED
    BY <1>1, <1>2, <1>3, <1>4, <1>5, <1>6, <1>7, <1>8, <1>9, <1>10, <1>11, <1>12, <1>13, <1>14,
       <1>15, <1>16, <1>17, <1>18, <1>19, <1>20, <1>21, <1>22, <1>23, <1>24, <1>25, <1>26
       DEF RunnerNext, ServerThread, Client, Stopping, Starting

-----------------------------------------------------------------------------
(* The maps and the server that handles a message.                         *)

\* At first there is no thread and no instance.
LEMMA InitInstances == RunnerInit => RunnerThreadInv /\ InstancesInv
  BY DEF RunnerInit, NoWork, RunnerThreadInv, InstancesInv, MapsInv, HandlingInv, NoneForgotten

\* A step that touches no instance keeps them all, if the thread gives back only what a map holds.
LEMMA QuietInstances ==
  ASSUME RunnerTypeOK, RunnerThreadInv, InstancesInv,
         UNCHANGED << requireSessionId, sessions, instances, unversioned >>,
         UNCHANGED cur \/ (cur' = NoWork /\ (cur.server # None => cur.server \in Owned)),
         thread' = "handling" => thread = "handling" /\ UNCHANGED cur
  PROVE  InstancesInv'
  BY HttpRunnerAssumption
     DEF RunnerTypeOK, RunnerThreadInv, InstancesInv, MapsInv, HandlingInv, NoneForgotten, instances, Owned, New, NoWork

\* Every step keeps maps, sessions and instances in step: a removal empties the one entry of the
\* instance it stops, and an instance enters a map only from the hands of the thread.
LEMMA NextInstances ==
  RunnerTypeOK /\ RunnerThreadInv /\ InstancesInv /\ [RunnerNext]_runnerVars => InstancesInv'
  <1> SUFFICES ASSUME RunnerTypeOK, RunnerThreadInv, InstancesInv, [RunnerNext]_runnerVars PROVE InstancesInv'
    OBVIOUS
  <1> USE HttpRunnerAssumption DEF options, control, runtime, instances, RunnerTypeOK, RunnerThreadInv, InstancesInv, HandlingInv
  <1>1. CASE Start
    BY <1>1, QuietInstances DEF Start
  <1>2. CASE Bind
    BY <1>2, QuietInstances DEF Bind
  <1>3. CASE StartReturns
    BY <1>3, QuietInstances DEF StartReturns
  <1>4. CASE StartThrows
    BY <1>4, QuietInstances DEF StartThrows
  <1>5. CASE StdioEnds
    BY <1>5, QuietInstances DEF StdioEnds
  <1>6. CASE Stop
    BY <1>6, QuietInstances DEF Stop
  <1>7. CASE RequestStop
    BY <1>7, QuietInstances DEF RequestStop
  <1>8. CASE Join
    BY <1>8, QuietInstances DEF Join
  <1>9. CASE ClientConnects
    BY <1>9, QuietInstances DEF ClientConnects
  <1>10. CASE Loop
    BY <1>10, QuietInstances DEF Loop, EndThread
  <1>11. CASE Accept
    BY <1>11, QuietInstances DEF Accept, EndThread
  <1>12. CASE ReadNothing
    BY <1>12, QuietInstances DEF ReadNothing
  <1>13. CASE TransportAnswers
    BY <1>13, QuietInstances DEF TransportAnswers, Answered
  <1>14. CASE NoServer
    BY <1>14, QuietInstances DEF NoServer, Answered
  <1>15. CASE ServerAnswers
    BY <1>15, QuietInstances DEF ServerAnswers, Answered
  <1>16. CASE Read
    BY <1>16 DEF Read, MapsInv, NoneForgotten, Owned, New, NoWork, Kinds
  <1>17. CASE EnterServer
    BY <1>17 DEF EnterServer, MapsInv, NoneForgotten, Owned, New, NoWork, Target
  <1>18. CASE StopAllServers
    BY <1>18 DEF StopAllServers, MapsInv, NoneForgotten, Owned, New, NoWork, Stopped
  <1>19. CASE NotFound
    BY <1>19 DEF NotFound, MapsInv, NoneForgotten, Owned, New, NoWork, RemoveServer, Stopped, Answered
  <1>20. CASE Delete
    BY <1>20 DEF Delete, MapsInv, NoneForgotten, Owned, New, NoWork, RemoveServer, Stopped, Answered, Active
  <1>21. CASE CreateFails
    BY <1>21 DEF CreateFails, MapsInv, NoneForgotten, Owned, New, NoWork, Answered, Creates
  <1>22. CASE CreateServer
    BY <1>22 DEF CreateServer, MapsInv, NoneForgotten, Owned, New, NoWork, Creates
  <1>23. CASE InitializeRefused
    BY <1>23 DEF InitializeRefused, MapsInv, NoneForgotten, Owned, New, NoWork, Stopped, Answered
  <1>24. CASE EscapingException
    BY <1>24 DEF EscapingException, MapsInv, NoneForgotten, Owned, New, NoWork, Stopped, EndThread
  <1>25. ASSUME NEW version \in {"valid", "invalid"}, InitializeAnswered(version) PROVE InstancesInv'
    BY <1>25 DEF InitializeAnswered, MapsInv, NoneForgotten, Owned, New, NoWork, Answered
  <1>26. CASE UNCHANGED runnerVars
    BY <1>26, QuietInstances DEF runnerVars
  <1> QED
    BY <1>1, <1>2, <1>3, <1>4, <1>5, <1>6, <1>7, <1>8, <1>9, <1>10, <1>11, <1>12, <1>13, <1>14,
       <1>15, <1>16, <1>17, <1>18, <1>19, <1>20, <1>21, <1>22, <1>23, <1>24, <1>25, <1>26
       DEF RunnerNext, ServerThread, Client, Stopping, Starting

-----------------------------------------------------------------------------
\* The invariant the theorems follow from.
LEMMA RunnerInvHolds == RunnerSpec => [](RunnerTypeOK /\ RunnerThreadInv /\ InstancesInv)
  <1>1. RunnerInit => RunnerTypeOK /\ RunnerThreadInv /\ InstancesInv
    BY InitRunnerType, InitInstances
  <1>2. RunnerTypeOK /\ RunnerThreadInv /\ InstancesInv /\ [RunnerNext]_runnerVars => (RunnerTypeOK /\ RunnerThreadInv /\ InstancesInv)'
    BY NextRunnerType, NextRunnerThread, NextInstances
  <1> QED
    BY <1>1, <1>2, PTL DEF RunnerSpec

\* Every variable of the runner that a property reads has its type.
THEOREM RunnerTypeCorrect == RunnerSpec => []RunnerTypeOK
  BY RunnerInvHolds, PTL

\* An instance that handles a message was started, and not stopped since: removals and
\* stop() never meet a message in progress (streamable_http_runner.cpp:112).
THEOREM OnlyLiveServersAreUsed == RunnerSpec => []OnlyLiveServersHandle
  <1>1. RunnerTypeOK /\ RunnerThreadInv /\ InstancesInv => OnlyLiveServersHandle
    BY HttpRunnerAssumption DEF OnlyLiveServersHandle, RunnerTypeOK, InstancesInv, MapsInv, HandlingInv, Owned
  <1> QED
    BY <1>1, RunnerInvHolds, PTL

\* No instance runs that stop() would not reach, no two sessions share one, and only a
\* session the transport made active, or would have but for its version, has one
\* (streamable_http_runner.cpp:281).
THEOREM ServersAlwaysMatchSessions == RunnerSpec => []ServersMatchSessions
  <1>1. RunnerTypeOK /\ RunnerThreadInv /\ InstancesInv => ServersMatchSessions
    BY DEF ServersMatchSessions, InstancesInv, MapsInv, NoneForgotten
  <1> QED
    BY <1>1, RunnerInvHolds, PTL

-----------------------------------------------------------------------------
(***************************************************************************)
(* The server behind the stdio runner (StdioServer).                       *)
(***************************************************************************)

IsSeq(s) == s \in Seq(ToSet(s))

\* What a thread has still to put on standard output, but for a newline.
Unsent(t) == IF mid[t] THEN Tail(out[t]) ELSE out[t]

\* Every message between a thread and the client's reader.
InQueues == UNION {ToSet(Unsent(t)) : t \in Writers}
InLines == UNION {ToSet(stdout[i]) : i \in DOMAIN stdout}
Flying == InQueues \cup ToSet(partial) \cup InLines

IsAnswer(f) == f.kind = "answer" /\ f.id = 1
NoneIn(s) == \A f \in ToSet(s) : ~IsAnswer(f)
OneIn(s) == \A i, j \in DOMAIN s : IsAnswer(s[i]) /\ IsAnswer(s[j]) => i = j
Quiet == \A f \in Flying : ~IsAnswer(f)
NoneInLines == \A i \in DOMAIN stdout : NoneIn(stdout[i])

\* The queues of the writers and the lines they have become.
WireOK ==
    /\ DOMAIN out = Writers /\ DOMAIN mid = Writers
    /\ \A t \in Writers : IsSeq(out[t]) /\ mid[t] \in BOOLEAN /\ (mid[t] => out[t] # << >>)
    /\ IsSeq(partial) /\ IsSeq(stdout)
    /\ \A i \in DOMAIN stdout : IsSeq(stdout[i]) /\ stdout[i] # << >> /\ (Len(stdout[i]) > 1 => torn)

\* Only the loop answers, and no two answers are on their way.
Single ==
    /\ NoneIn(Unsent("app")) /\ NoneIn(Unsent("job"))
    /\ OneIn(Unsent("loop")) /\ OneIn(partial) /\ \A i \in DOMAIN stdout : OneIn(stdout[i])
    /\ \A i, j \in DOMAIN stdout : NoneIn(stdout[i]) \/ NoneIn(stdout[j]) \/ i = j
    /\ NoneIn(Unsent("loop")) \/ (NoneIn(partial) /\ NoneInLines)
    /\ NoneIn(partial) \/ NoneInLines

\* The threads: the loop writes its answer before the next line, and a thread announces its
\* edit before it edits again.
ThreadInv ==
    /\ loop \in {"checking", "getline", "tool", "awaiting", "ended"}
    /\ DOMAIN run = {"loop", "job"}
    /\ \A t \in {"loop", "job"} : run[t] = [tool |-> run[t].tool, stage |-> run[t].stage, arguments |-> run[t].arguments]
    /\ edited \in [Writers -> Endpoints \cup {"none"}]
    /\ loop \in {"getline", "awaiting"} => out["loop"] = << >>
    /\ loop # "tool" => edited["loop"] = "none" /\ run["loop"].stage # "running"
    /\ \A t \in {"loop", "job"} : run[t].stage = "running" => edited[t] = "none"
    /\ task = "none" => run["job"].stage # "running" /\ edited["job"] = "none"

AsksTask(r) == r.method = "tools/call" /\ r.task

\* Nothing was answered before the session began to operate.
Fresh ==
    /\ ~operating /\ Quiet /\ loop \in {"checking", "getline", "ended"}
    /\ listing.state # "done" /\ listing.seen = << >> /\ listing.next = NoCursor

\* The one request of the client: on its way, with the loop, or answered on the way back.
RequestInv ==
    /\ call = NoCall \/ call = [id |-> 1, request |-> call.request]
    /\ call = NoCall => Quiet
    /\ loop \in {"tool", "awaiting"} => serving = call /\ call # NoCall /\ Quiet
    /\ IsSeq(stdin)
    /\ \A i \in DOMAIN stdin : stdin[i].kind = "request" =>
         /\ call # NoCall /\ stdin[i].id = 1 /\ stdin[i].request = call.request
         /\ Quiet /\ loop \notin {"tool", "awaiting"}
         /\ AsksTask(call.request) => task = "none"
    /\ \A i, j \in DOMAIN stdin : stdin[i].kind = "request" /\ stdin[j].kind = "request" => i = j
    /\ \A i \in DOMAIN stdin : stdin[i].kind = "initialized" => i = 1 /\ Fresh

\* What holds the loop is a tool or a task, never a list or a subscription.
ServingInv == loop \in {"tool", "awaiting"} => call.request.method \in {"tools/call", "tasks/result"}

RegistryOK == DOMAIN registry = Endpoints /\ \A e \in Endpoints : IsSeq(registry[e])

Calling(method) == call # NoCall /\ call.request.method = method

\* The subscriptions of both ends, and the answer that tells the client of one.
SubscriptionInv ==
    /\ \A uri \in subscriptions : Contains(registry["resources"], uri)
    /\ held \subseteq subscriptions \cup dropped
    /\ Calling("resources/unsubscribe") => call.request.name \notin held
    /\ \A f \in Flying : IsAnswer(f) /\ f.answer = Result /\ Calling("resources/subscribe")
         => call.request.name \in subscriptions \cup dropped

\* A step whose messages, if it sends any, are no answers.
Carries == Flying \subseteq Flying' /\ \A f \in Flying' : f \in Flying \/ ~IsAnswer(f)

\* An answer keeps its promise: who is told of a subscription has it, and a page is cut from
\* the registry at the cursor that was sent.
Fair(f) == f.answer.class = "result" =>
    /\ Calling("resources/subscribe") => call.request.name \in subscriptions'
    /\ \A m \in DOMAIN ListMethods :
         Calling(m) => f.answer = ListAnswer(ListMethods[m], registry[ListMethods[m]], call.request.cursor)

\* A change of the list of e that the client has not heard of and that nobody will announce.
WillAnnounce(e) ==
    \/ \E t \in Writers : edited[t] # "none" /\ ListChangedOf(edited[t]) = ListChangedOf(e)
    \/ \E f \in Flying : f.kind = "listChanged" /\ f.about = ListChangedOf(e)
InSilence(e) ==
    /\ ~torn /\ operating /\ ListChangedCapability(e) \in Capabilities
    /\ ListChangedOf(e) \notin heard /\ ~WillAnnounce(e)

\* The items s are those of the registry up to the cursor next.
UpTo(items, e, s, next) ==
    IF next = NoCursor THEN s = items
    ELSE \E n \in 0..Len(items) : s = SubSeq(items, 1, n) /\ next = MakePaginationCursor(e, n)

\* What the client asks next begins where what it has seen ends.
Follows(items, e, s, next) == (next = NoCursor /\ s = << >>) \/ (next # NoCursor /\ UpTo(items, e, s, next))

Lists == call # NoCall /\ call.request.method \in DOMAIN ListMethods

\* A listing during which nothing changed in silence shows the registry, page by page.
ListingInv ==
    /\ listing = [endpoint |-> listing.endpoint, state |-> listing.state, seen |-> listing.seen, next |-> listing.next]
    /\ listing.state \in {"running", "done"} => listing.endpoint \in Endpoints
    /\ Lists => /\ listing.state = "running" /\ ListMethods[call.request.method] = listing.endpoint
                /\ call.request.cursor = listing.next
                /\ CapabilityForMethod(call.request.method) \in Capabilities
    /\ InSilence(listing.endpoint) =>
         /\ listing.state = "running" => Follows(registry[listing.endpoint], listing.endpoint, listing.seen, listing.next)
         /\ listing.state = "done" => listing.seen = registry[listing.endpoint]
         /\ \A f \in Flying : IsAnswer(f) /\ f.answer.class = "result" /\ Lists
              => UpTo(registry[listing.endpoint], listing.endpoint, listing.seen \o f.answer.items, f.answer.next)

-----------------------------------------------------------------------------
(* Sequences.                                                              *)

\* A sequence over any set is one over its elements.
LEMMA SeqOfElements ==
  ASSUME NEW S, NEW s \in Seq(S)
  PROVE  IsSeq(s) /\ ToSet(s) \subseteq S
  BY DEF IsSeq, ToSet

\* What a sequence is, without the set it is over.
LEMMA SeqFacts ==
  ASSUME NEW s, IsSeq(s)
  PROVE  /\ Len(s) \in Nat /\ DOMAIN s = 1..Len(s)
         /\ s = << >> <=> Len(s) = 0
         /\ \A i \in 1..Len(s) : s[i] \in ToSet(s)
         /\ \A f \in ToSet(s) : \E i \in 1..Len(s) : s[i] = f
  BY DEF IsSeq, ToSet

\* The empty sequence.
LEMMA EmptyFacts ==
  IsSeq(<< >>) /\ ToSet(<< >>) = {} /\ NoneIn(<< >>) /\ OneIn(<< >>)
  <1>1. << >> \in Seq({})
    OBVIOUS
  <1>2. DOMAIN << >> = {}
    OBVIOUS
  <1>3. ToSet(<< >>) = {}
    BY <1>2 DEF ToSet
  <1> QED
    BY <1>1, <1>2, <1>3 DEF IsSeq, NoneIn, OneIn

\* One element more.
LEMMA AppendFacts ==
  ASSUME NEW s, IsSeq(s), NEW f
  PROVE  /\ IsSeq(Append(s, f)) /\ Append(s, f) # << >>
         /\ ToSet(Append(s, f)) = ToSet(s) \cup {f}
         /\ Len(Append(s, f)) = Len(s) + 1
         /\ \A i \in 1..Len(s) : Append(s, f)[i] = s[i]
         /\ Append(s, f)[Len(s) + 1] = f
  <1> DEFINE S == ToSet(s) \cup {f}
  <1>1. s \in Seq(S)
    <2>1. ToSet(s) \subseteq S
      OBVIOUS
    <2> QED
      BY <2>1, SeqMonotonic DEF IsSeq
  <1>2. /\ Append(s, f) \in Seq(S) /\ Len(Append(s, f)) = Len(s) + 1
        /\ \A i \in 1..Len(s) : Append(s, f)[i] = s[i]
        /\ Append(s, f)[Len(s) + 1] = f
    BY <1>1
  <1>3. IsSeq(Append(s, f)) /\ ToSet(Append(s, f)) \subseteq S
    BY <1>2, SeqOfElements
  <1>4. S \subseteq ToSet(Append(s, f))
    <2>1. Len(s) \in Nat /\ \A i \in 1..Len(s) + 1 : Append(s, f)[i] \in ToSet(Append(s, f))
      BY <1>2, <1>3, SeqFacts
    <2>2. f \in ToSet(Append(s, f))
      BY <1>2, <2>1
    <2>3. ASSUME NEW x \in ToSet(s) PROVE x \in ToSet(Append(s, f))
      <3>1. PICK i \in 1..Len(s) : s[i] = x
        BY SeqFacts
      <3>2. i \in 1..Len(s) + 1 /\ Append(s, f)[i] = x
        BY <1>2, <2>1, <3>1
      <3> QED
        BY <2>1, <3>2
    <2> QED
      BY <2>2, <2>3
  <1> QED
    BY <1>2, <1>3, <1>4, SeqFacts

\* One element less.
LEMMA TailFacts ==
  ASSUME NEW s, IsSeq(s), s # << >>
  PROVE  /\ IsSeq(Tail(s)) /\ Len(Tail(s)) = Len(s) - 1
         /\ Head(s) = s[1] /\ 1 \in DOMAIN s
         /\ \A i \in 1..Len(Tail(s)) : i + 1 \in 1..Len(s) /\ Tail(s)[i] = s[i + 1]
         /\ ToSet(s) = {Head(s)} \cup ToSet(Tail(s))
  <1>1. /\ Tail(s) \in Seq(ToSet(s)) /\ Len(Tail(s)) = Len(s) - 1 /\ Len(s) \in Nat /\ Len(s) > 0
        /\ \A i \in 1..Len(Tail(s)) : Tail(s)[i] = s[i + 1]
        /\ Head(s) = s[1]
    BY DEF IsSeq
  <1>2. IsSeq(Tail(s)) /\ ToSet(Tail(s)) \subseteq ToSet(s)
    BY <1>1, SeqOfElements
  <1>3. \A i \in 1..Len(Tail(s)) : i + 1 \in 1..Len(s)
    BY <1>1
  <1>4. ToSet(s) \subseteq {Head(s)} \cup ToSet(Tail(s))
    <2> SUFFICES ASSUME NEW i \in 1..Len(s) PROVE s[i] \in {Head(s)} \cup ToSet(Tail(s))
      BY SeqFacts
    <2>1. CASE i = 1
      BY <1>1, <2>1
    <2>2. CASE i # 1
      <3>1. i - 1 \in 1..Len(Tail(s)) /\ Tail(s)[i - 1] = s[i - 1 + 1] /\ i - 1 + 1 = i
        BY <1>1, <2>2
      <3>2. Tail(s)[i - 1] \in ToSet(Tail(s))
        BY <1>2, <3>1, SeqFacts
      <3> QED
        BY <3>1, <3>2
    <2> QED
      BY <2>1, <2>2
  <1>5. 1 \in 1..Len(s)
    BY <1>1
  <1>6. Head(s) \in ToSet(s)
    BY <1>1, <1>5, SeqFacts
  <1> QED
    BY <1>1, <1>2, <1>3, <1>4, <1>5, <1>6, SeqFacts

\* What is sent are one or two messages at a time.
LEMMA ConcatFacts ==
  ASSUME NEW s, IsSeq(s)
  PROVE  /\ s \o << >> = s
         /\ \A f : s \o << f >> = Append(s, f)
         /\ \A f, g : s \o << f, g >> = Append(Append(s, f), g)
  OBVIOUS

\* Answers in a queue that grows or shrinks by one message.
LEMMA AnswersAppend ==
  ASSUME NEW s, IsSeq(s), NEW f
  PROVE  /\ NoneIn(Append(s, f)) <=> NoneIn(s) /\ ~IsAnswer(f)
         /\ NoneIn(s) => OneIn(s) /\ OneIn(Append(s, f))
         /\ OneIn(s) /\ ~IsAnswer(f) => OneIn(Append(s, f))
  <1> DEFINE a == Append(s, f)
  <1>1. /\ IsSeq(a) /\ ToSet(a) = ToSet(s) \cup {f} /\ Len(a) = Len(s) + 1 /\ Len(s) \in Nat
        /\ DOMAIN a = 1..Len(a) /\ DOMAIN s = 1..Len(s)
        /\ \A i \in 1..Len(s) : a[i] = s[i] /\ s[i] \in ToSet(s)
        /\ a[Len(s) + 1] = f
    BY AppendFacts, SeqFacts
  <1>2. NoneIn(a) <=> NoneIn(s) /\ ~IsAnswer(f)
    BY <1>1 DEF NoneIn
  <1>3. NoneIn(s) => OneIn(s)
    BY <1>1 DEF NoneIn, OneIn
  <1>4. \A i \in DOMAIN a : i \in 1..Len(s) \/ i = Len(s) + 1
    BY <1>1
  <1>5. NoneIn(s) => OneIn(a)
    BY <1>1, <1>4 DEF NoneIn, OneIn
  <1>6. OneIn(s) /\ ~IsAnswer(f) => OneIn(a)
    BY <1>1, <1>4 DEF OneIn
  <1> QED
    BY <1>2, <1>3, <1>5, <1>6

\* The same for the message that leaves first.
LEMMA AnswersTail ==
  ASSUME NEW s, IsSeq(s), s # << >>
  PROVE  /\ NoneIn(s) <=> NoneIn(Tail(s)) /\ ~IsAnswer(Head(s))
         /\ OneIn(s) => OneIn(Tail(s)) /\ (IsAnswer(Head(s)) => NoneIn(Tail(s)))
  <1> DEFINE a == Tail(s)
  <1>1. /\ IsSeq(a) /\ Len(a) = Len(s) - 1 /\ Head(s) = s[1] /\ 1 \in DOMAIN s
        /\ \A i \in 1..Len(a) : i + 1 \in 1..Len(s) /\ a[i] = s[i + 1]
        /\ ToSet(s) = {Head(s)} \cup ToSet(a)
        /\ DOMAIN a = 1..Len(a) /\ DOMAIN s = 1..Len(s)
        /\ \A f \in ToSet(a) : \E i \in 1..Len(a) : a[i] = f
    BY TailFacts, SeqFacts
  <1>2. NoneIn(s) <=> NoneIn(a) /\ ~IsAnswer(Head(s))
    BY <1>1 DEF NoneIn
  <1>3. OneIn(s) => OneIn(a)
    <2> SUFFICES ASSUME OneIn(s), NEW i \in 1..Len(a), NEW j \in 1..Len(a), IsAnswer(a[i]), IsAnswer(a[j])
                 PROVE  i = j
      BY <1>1 DEF OneIn
    <2>1. i + 1 = j + 1
      BY <1>1 DEF OneIn
    <2> QED
      BY <2>1
  <1>4. OneIn(s) /\ IsAnswer(Head(s)) => NoneIn(a)
    <2> SUFFICES ASSUME OneIn(s), IsAnswer(s[1]), NEW i \in 1..Len(a), IsAnswer(a[i]) PROVE FALSE
      BY <1>1 DEF NoneIn
    <2>1. i + 1 = 1
      BY <1>1 DEF OneIn
    <2> QED
      BY <2>1
  <1> QED
    BY <1>2, <1>3, <1>4

-----------------------------------------------------------------------------
(* Standard output: what is flying, and how many answers.                  *)

\* The queues are that of one thread and those of the others.
LEMMA QueuesOf ==
  ASSUME NEW t \in Writers
  PROVE  InQueues = ToSet(Unsent(t)) \cup UNION {ToSet(Unsent(u)) : u \in Writers \ {t}}
  BY DEF InQueues

\* What is unsent is a sequence.
LEMMA UnsentFacts ==
  ASSUME WireOK, NEW t \in Writers
  PROVE  IsSeq(Unsent(t)) /\ (out[t] = << >> => Unsent(t) = << >>)
  BY TailFacts DEF WireOK, Unsent

\* A text joins the line.
LEMMA TextWire ==
  ASSUME WireOK, NEW t \in Writers, WriteText(t)
  PROVE  WireOK' /\ Flying' = Flying /\ (Single => Single')
  <1>1. /\ out[t] # << >> /\ mid[t] = FALSE /\ partial' = Append(partial, Head(out[t]))
        /\ mid' = [mid EXCEPT ![t] = TRUE] /\ out' = out /\ stdout' = stdout /\ torn' = torn
    BY DEF WriteText, WireOK
  <1>2. IsSeq(partial) /\ IsSeq(out[t]) /\ DOMAIN mid = Writers
    BY DEF WireOK
  <1>3. \A u \in Writers : u # t => Unsent(u)' = Unsent(u)
    BY <1>1, <1>2 DEF Unsent
  <1>4. Unsent(t) = out[t] /\ Unsent(t)' = Tail(out[t])
    BY <1>1, <1>2 DEF Unsent
  <1>5. WireOK'
    <2>1. IsSeq(partial')
      BY <1>1, <1>2, AppendFacts
    <2>2. DOMAIN mid' = Writers /\ \A u \in Writers : mid'[u] \in BOOLEAN /\ (mid'[u] => out'[u] # << >>)
      BY <1>1 DEF WireOK
    <2> QED
      BY <1>1, <2>1, <2>2 DEF WireOK
  <1>6. Flying' = Flying
    <2> DEFINE Others == UNION {ToSet(Unsent(u)) : u \in Writers \ {t}}
    <2>1. Others' = Others
      BY <1>3
    <2>2. InQueues = ToSet(out[t]) \cup Others /\ InQueues' = ToSet(Tail(out[t])) \cup Others
      BY <1>4, <2>1, QueuesOf DEF InQueues
    <2>3. ToSet(partial') = ToSet(partial) \cup {Head(out[t])} /\ ToSet(out[t]) = {Head(out[t])} \cup ToSet(Tail(out[t]))
      BY <1>1, <1>2, AppendFacts, TailFacts
    <2>4. InLines' = InLines
      BY <1>1 DEF InLines
    <2> HIDE DEF Others
    <2> QED
      BY <2>2, <2>3, <2>4 DEF Flying
  <1>7. Single => Single'
    <2> SUFFICES ASSUME Single PROVE Single'
      OBVIOUS
    <2>1. /\ NoneIn(Unsent(t)) <=> NoneIn(Unsent(t)') /\ ~IsAnswer(Head(out[t]))
          /\ OneIn(Unsent(t)) => OneIn(Unsent(t)') /\ (IsAnswer(Head(out[t])) => NoneIn(Unsent(t)'))
      BY <1>1, <1>2, <1>4, AnswersTail
    <2>2. /\ NoneIn(partial') <=> NoneIn(partial) /\ ~IsAnswer(Head(out[t]))
          /\ NoneIn(partial) => OneIn(partial')
          /\ OneIn(partial) /\ ~IsAnswer(Head(out[t])) => OneIn(partial')
      BY <1>1, <1>2, AnswersAppend
    <2>3. NoneInLines' = NoneInLines
      BY <1>1 DEF NoneInLines
    <2>4. /\ \A i \in DOMAIN stdout' : OneIn(stdout'[i])
          /\ \A i, j \in DOMAIN stdout' : NoneIn(stdout'[i]) \/ NoneIn(stdout'[j]) \/ i = j
      BY <1>1 DEF Single
    <2>5. CASE t = "loop"
      <3>1. Unsent("app")' = Unsent("app") /\ Unsent("job")' = Unsent("job")
        BY <1>3, <2>5 DEF Writers
      <3> QED
        BY <2>1, <2>2, <2>3, <2>4, <2>5, <3>1 DEF Single
    <2>6. CASE t # "loop"
      <3>1. NoneIn(Unsent(t))
        BY <2>6 DEF Single, Writers
      <3>2. NoneIn(Unsent(t)') /\ ~IsAnswer(Head(out[t])) /\ Unsent("loop")' = Unsent("loop")
        BY <1>3, <2>1, <2>6, <3>1 DEF Writers
      <3>3. NoneIn(Unsent("app")') /\ NoneIn(Unsent("job")')
        BY <1>3, <3>2 DEF Single, Writers
      <3> QED
        BY <2>2, <2>3, <2>4, <3>2, <3>3 DEF Single
    <2> QED
      BY <2>5, <2>6
  <1> QED
    BY <1>5, <1>6, <1>7

\* The line ends, whoever wrote its texts.
LEMMA NewlineWire ==
  ASSUME WireOK, NEW t \in Writers, WriteNewline(t)
  PROVE  WireOK' /\ Flying' = Flying /\ (Single => Single')
  <1>1. /\ mid[t] = TRUE /\ out[t] # << >> /\ partial' = << >>
        /\ out' = [out EXCEPT ![t] = Tail(out[t])] /\ mid' = [mid EXCEPT ![t] = FALSE]
        /\ stdout' = IF partial = << >> THEN stdout ELSE Append(stdout, partial)
        /\ torn' = (torn \/ Len(partial) > 1)
    BY DEF WriteNewline, WireOK
  <1>2. IsSeq(partial) /\ IsSeq(stdout) /\ IsSeq(out[t]) /\ DOMAIN mid = Writers /\ DOMAIN out = Writers
    BY DEF WireOK
  <1>3. \A u \in Writers : Unsent(u)' = Unsent(u)
    BY <1>1, <1>2 DEF Unsent
  <1>4. IsSeq(partial') /\ NoneIn(partial') /\ OneIn(partial') /\ ToSet(partial') = {}
    BY <1>1, EmptyFacts
  <1>5. IsSeq(Tail(out[t]))
    BY <1>1, <1>2, TailFacts
  <1>6. CASE partial = << >>
    <2>1. stdout' = stdout
      BY <1>1, <1>6
    <2>2. WireOK'
      <3>1. \A i \in DOMAIN stdout' : IsSeq(stdout'[i]) /\ stdout'[i] # << >> /\ (Len(stdout'[i]) > 1 => torn')
        BY <1>1, <2>1 DEF WireOK
      <3>2. IsSeq(partial') /\ IsSeq(stdout') /\ DOMAIN out' = Writers /\ DOMAIN mid' = Writers
        BY <1>1, <1>2, <1>4, <2>1
      <3>3. \A u \in Writers : IsSeq(out'[u]) /\ mid'[u] \in BOOLEAN /\ (mid'[u] => out'[u] # << >>)
        BY <1>1, <1>5 DEF WireOK
      <3> QED
        BY <3>1, <3>2, <3>3 DEF WireOK
    <2>3. Flying' = Flying
      <3>1. InQueues' = InQueues /\ InLines' = InLines
        BY <1>3, <2>1 DEF InQueues, InLines
      <3>2. ToSet(partial) = {}
        BY <1>6, EmptyFacts
      <3> QED
        BY <1>4, <3>1, <3>2 DEF Flying
    <2>4. Single => Single'
      <3>1. NoneIn(partial)
        BY <1>6, EmptyFacts
      <3>2. NoneInLines' = NoneInLines
        BY <2>1 DEF NoneInLines
      <3> QED
        BY <1>3, <1>4, <2>1, <3>1, <3>2 DEF Single, Writers
    <2> QED
      BY <2>2, <2>3, <2>4
  <1>7. CASE partial # << >>
    <2>1. /\ stdout' = Append(stdout, partial) /\ IsSeq(stdout') /\ Len(stdout) \in Nat
          /\ DOMAIN stdout = 1..Len(stdout) /\ DOMAIN stdout' = 1..(Len(stdout) + 1)
          /\ \A i \in 1..Len(stdout) : stdout'[i] = stdout[i]
          /\ stdout'[Len(stdout) + 1] = partial
      <3>1. stdout' = Append(stdout, partial)
        BY <1>1, <1>7
      <3> QED
        BY <1>2, <3>1, AppendFacts, SeqFacts
    <2>2. WireOK'
      <3>1. \A i \in DOMAIN stdout' : IsSeq(stdout'[i]) /\ stdout'[i] # << >> /\ (Len(stdout'[i]) > 1 => torn')
        BY <1>1, <1>7, <2>1 DEF WireOK
      <3>2. IsSeq(partial') /\ IsSeq(stdout') /\ DOMAIN out' = Writers /\ DOMAIN mid' = Writers
        BY <1>1, <1>2, <1>4, <2>1
      <3>3. \A u \in Writers : IsSeq(out'[u]) /\ mid'[u] \in BOOLEAN /\ (mid'[u] => out'[u] # << >>)
        BY <1>1, <1>5 DEF WireOK
      <3> QED
        BY <3>1, <3>2, <3>3 DEF WireOK
    <2>3. Flying' = Flying
      <3>1. InQueues' = InQueues
        BY <1>3 DEF InQueues
      <3>2. \A f : f \in InLines' <=> f \in InLines \/ f \in ToSet(partial)
        <4>1. \A f : f \in InLines <=> \E i \in 1..Len(stdout) : f \in ToSet(stdout[i])
          BY <2>1 DEF InLines
        <4>2. \A f : f \in InLines' <=> \E i \in 1..(Len(stdout) + 1) : f \in ToSet(stdout'[i])
          BY <2>1 DEF InLines
        <4>3. \A i \in 1..(Len(stdout) + 1) : i \in 1..Len(stdout) \/ i = Len(stdout) + 1
          BY <2>1
        <4>4. Len(stdout) + 1 \in 1..(Len(stdout) + 1) /\ \A i \in 1..Len(stdout) : i \in 1..(Len(stdout) + 1)
          BY <2>1
        <4> QED
          BY <2>1, <4>1, <4>2, <4>3, <4>4
      <3> QED
        BY <1>4, <3>1, <3>2 DEF Flying
    <2>4. Single => Single'
      <3> SUFFICES ASSUME Single PROVE Single'
        OBVIOUS
      <3>1. \A i \in DOMAIN stdout' : i \in DOMAIN stdout \/ i = Len(stdout) + 1
        BY <2>1
      <3>2. NoneIn(partial) /\ NoneInLines => NoneInLines'
        BY <2>1, <3>1 DEF NoneInLines
      <3>3. \A i \in DOMAIN stdout' : OneIn(stdout'[i])
        BY <2>1, <3>1 DEF Single
      <3>4. \A i, j \in DOMAIN stdout' : NoneIn(stdout'[i]) \/ NoneIn(stdout'[j]) \/ i = j
        <4> SUFFICES ASSUME NEW i \in DOMAIN stdout', NEW j \in DOMAIN stdout'
                     PROVE  NoneIn(stdout'[i]) \/ NoneIn(stdout'[j]) \/ i = j
          OBVIOUS
        <4>1. CASE i \in DOMAIN stdout /\ j \in DOMAIN stdout
          BY <2>1, <4>1 DEF Single
        <4>2. CASE i \in DOMAIN stdout /\ j = Len(stdout) + 1
          <5>1. stdout'[i] = stdout[i] /\ stdout'[j] = partial
            BY <2>1, <4>2
          <5> QED
            BY <4>2, <5>1 DEF Single, NoneInLines
        <4>3. CASE i = Len(stdout) + 1 /\ j \in DOMAIN stdout
          <5>1. stdout'[j] = stdout[j] /\ stdout'[i] = partial
            BY <2>1, <4>3
          <5> QED
            BY <4>3, <5>1 DEF Single, NoneInLines
        <4> QED
          BY <3>1, <4>1, <4>2, <4>3
      <3> QED
        BY <1>3, <1>4, <3>2, <3>3, <3>4 DEF Single, Writers
    <2> QED
      BY <2>2, <2>3, <2>4
  <1> QED
    BY <1>6, <1>7

\* What is sent flies from then on.
LEMMA SendWire ==
  ASSUME WireOK, NEW t \in Writers, NEW f, Send(t, << f >>), UNCHANGED << mid, partial, stdout, torn >>
  PROVE  /\ WireOK' /\ Flying' = Flying \cup {f}
         /\ Single /\ (IsAnswer(f) => Quiet /\ t = "loop") => Single'
  <1>1. IsSeq(out[t]) /\ DOMAIN out = Writers /\ (mid[t] => out[t] # << >>)
    BY DEF WireOK
  <1>2. out' = [out EXCEPT ![t] = Append(out[t], f)]
    <2>1. out[t] \o << f >> = Append(out[t], f)
      BY <1>1, ConcatFacts
    <2> QED
      BY <2>1 DEF Send
  <1>3. \A u \in Writers : u # t => Unsent(u)' = Unsent(u)
    BY <1>1, <1>2 DEF Unsent
  <1>4. IsSeq(Unsent(t)) /\ Unsent(t)' = Append(Unsent(t), f)
    <2>1. IsSeq(Unsent(t))
      BY UnsentFacts
    <2>2. out'[t] = Append(out[t], f)
      BY <1>1, <1>2
    <2>3. CASE mid[t]
      <3>1. Tail(Append(out[t], f)) = Append(Tail(out[t]), f)
        BY <1>1, <2>3 DEF IsSeq
      <3> QED
        BY <2>1, <2>2, <2>3, <3>1 DEF Unsent
    <2>4. CASE ~mid[t]
      BY <2>1, <2>2, <2>4 DEF Unsent
    <2> QED
      BY <2>1, <2>3, <2>4
  <1>5. WireOK'
    <2>1. IsSeq(Append(out[t], f)) /\ Append(out[t], f) # << >>
      BY <1>1, AppendFacts
    <2>2. \A u \in Writers : IsSeq(out'[u]) /\ mid'[u] \in BOOLEAN /\ (mid'[u] => out'[u] # << >>)
      BY <1>2, <2>1 DEF WireOK
    <2>3. DOMAIN out' = Writers
      BY <1>1, <1>2
    <2> QED
      BY <2>2, <2>3 DEF WireOK
  <1>6. Flying' = Flying \cup {f}
    <2> DEFINE Others == UNION {ToSet(Unsent(u)) : u \in Writers \ {t}}
    <2>1. Others' = Others
      BY <1>3
    <2>2. InQueues = ToSet(Unsent(t)) \cup Others /\ InQueues' = ToSet(Append(Unsent(t), f)) \cup Others
      BY <1>4, <2>1, QueuesOf DEF InQueues
    <2>3. ToSet(Append(Unsent(t), f)) = ToSet(Unsent(t)) \cup {f}
      BY <1>4, AppendFacts
    <2>4. InLines' = InLines /\ ToSet(partial') = ToSet(partial)
      BY DEF InLines
    <2> HIDE DEF Others
    <2> QED
      BY <2>2, <2>3, <2>4 DEF Flying
  <1>7. Single /\ (IsAnswer(f) => Quiet /\ t = "loop") => Single'
    <2> SUFFICES ASSUME Single, IsAnswer(f) => Quiet /\ t = "loop" PROVE Single'
      OBVIOUS
    <2>1. /\ NoneIn(Append(Unsent(t), f)) <=> NoneIn(Unsent(t)) /\ ~IsAnswer(f)
          /\ NoneIn(Unsent(t)) => OneIn(Append(Unsent(t), f))
          /\ OneIn(Unsent(t)) /\ ~IsAnswer(f) => OneIn(Append(Unsent(t), f))
      BY <1>4, AnswersAppend
    <2>2. NoneInLines' = NoneInLines /\ partial' = partial
      BY DEF NoneInLines
    <2>3. Quiet => NoneIn(Unsent("loop")) /\ NoneIn(partial) /\ NoneInLines
      <3> SUFFICES ASSUME Quiet PROVE NoneIn(Unsent("loop")) /\ NoneIn(partial) /\ NoneInLines
        OBVIOUS
      <3>1. ToSet(Unsent("loop")) \subseteq Flying
        BY DEF Flying, InQueues, Writers
      <3>2. \A i \in DOMAIN stdout : ToSet(stdout[i]) \subseteq Flying
        BY DEF Flying, InLines
      <3>3. ToSet(partial) \subseteq Flying
        BY DEF Flying
      <3> QED
        BY <3>1, <3>2, <3>3 DEF Quiet, NoneIn, NoneInLines
    <2>4. /\ \A i \in DOMAIN stdout' : OneIn(stdout'[i])
          /\ \A i, j \in DOMAIN stdout' : NoneIn(stdout'[i]) \/ NoneIn(stdout'[j]) \/ i = j
      BY DEF Single
    <2>5. CASE t = "loop"
      <3>1. Unsent("app")' = Unsent("app") /\ Unsent("job")' = Unsent("job")
        BY <1>3, <2>5 DEF Writers
      <3> QED
        BY <1>4, <2>1, <2>2, <2>3, <2>4, <2>5, <3>1 DEF Single
    <2>6. CASE t # "loop"
      <3>1. NoneIn(Unsent(t))
        BY <2>6 DEF Single, Writers
      <3>2. NoneIn(Unsent(t)') /\ Unsent("loop")' = Unsent("loop")
        BY <1>3, <1>4, <2>1, <2>6, <3>1 DEF Writers
      <3>3. NoneIn(Unsent("app")') /\ NoneIn(Unsent("job")')
        BY <1>3, <3>2 DEF Single, Writers
      <3> QED
        BY <2>2, <2>4, <3>2, <3>3 DEF Single
    <2> QED
      BY <2>5, <2>6
  <1> QED
    BY <1>5, <1>6, <1>7

\* A status and the answer of the loop, whose queue was empty.
LEMMA SendTwoWire ==
  ASSUME WireOK, Single, Quiet, out["loop"] = << >>, NEW f, NEW g, ~IsAnswer(f), Send("loop", << f, g >>),
         UNCHANGED << mid, partial, stdout, torn >>
  PROVE  WireOK' /\ Flying' = Flying \cup {f, g} /\ Single'
  <1> DEFINE q == << f, g >>
  <1>1. IsSeq(q) /\ q # << >> /\ ToSet(q) = {f, g} /\ OneIn(q)
    <2>1. PICK e : e = << >>
      OBVIOUS
    <2>2. IsSeq(e) /\ ToSet(e) = {} /\ NoneIn(e)
      BY <2>1, EmptyFacts
    <2>3. IsSeq(Append(e, f)) /\ ToSet(Append(e, f)) = {f} /\ NoneIn(Append(e, f))
      BY <2>2, AppendFacts, AnswersAppend
    <2>4. PICK h : h = Append(e, f)
      OBVIOUS
    <2>5. IsSeq(h) /\ ToSet(h) = {f} /\ NoneIn(h)
      BY <2>3, <2>4
    <2>6. IsSeq(Append(h, g)) /\ ToSet(Append(h, g)) = {f, g} /\ Append(h, g) # << >>
      BY <2>5, AppendFacts
    <2>7. OneIn(Append(h, g))
      BY <2>5, AnswersAppend
    <2>8. q = Append(h, g)
      BY <2>1, <2>4
    <2> QED
      BY <2>6, <2>7, <2>8
  <1>2. DOMAIN out = Writers /\ mid["loop"] = FALSE /\ "loop" \in Writers
    BY DEF WireOK, Writers
  <1>3. out' = [out EXCEPT !["loop"] = q]
    <2>1. << >> \o q = q
      OBVIOUS
    <2> QED
      BY <2>1 DEF Send
  <1>4. Unsent("loop") = << >> /\ Unsent("loop")' = q
    BY <1>2, <1>3 DEF Unsent
  <1>5. \A u \in Writers : u # "loop" => Unsent(u)' = Unsent(u)
    BY <1>2, <1>3 DEF Unsent
  <1> HIDE DEF q
  <1>6. WireOK'
    <2>1. \A u \in Writers : IsSeq(out'[u]) /\ mid'[u] \in BOOLEAN /\ (mid'[u] => out'[u] # << >>)
      BY <1>1, <1>2, <1>3 DEF WireOK
    <2>2. DOMAIN out' = Writers
      BY <1>2, <1>3
    <2> QED
      BY <2>1, <2>2 DEF WireOK
  <1>7. Flying' = Flying \cup {f, g}
    <2> DEFINE Others == UNION {ToSet(Unsent(u)) : u \in Writers \ {"loop"}}
    <2>1. Others' = Others
      BY <1>5
    <2>2. InQueues = ToSet(<< >>) \cup Others /\ InQueues' = ToSet(q) \cup Others
      BY <1>2, <1>4, <2>1, QueuesOf DEF InQueues
    <2>3. InLines' = InLines /\ ToSet(partial') = ToSet(partial)
      BY DEF InLines
    <2> HIDE DEF Others
    <2> QED
      BY <1>1, <2>2, <2>3, EmptyFacts DEF Flying
  <1>8. Single'
    <2>1. NoneIn(partial) /\ NoneInLines
      <3>1. \A i \in DOMAIN stdout : ToSet(stdout[i]) \subseteq Flying
        BY DEF Flying, InLines
      <3>2. ToSet(partial) \subseteq Flying
        BY DEF Flying
      <3> QED
        BY <3>1, <3>2 DEF Quiet, NoneIn, NoneInLines
    <2>2. NoneInLines' = NoneInLines /\ partial' = partial
      BY DEF NoneInLines
    <2>3. /\ \A i \in DOMAIN stdout' : OneIn(stdout'[i])
          /\ \A i, j \in DOMAIN stdout' : NoneIn(stdout'[i]) \/ NoneIn(stdout'[j]) \/ i = j
      BY DEF Single
    <2> QED
      BY <1>1, <1>4, <1>5, <2>1, <2>2, <2>3 DEF Single, Writers
  <1> QED
    BY <1>6, <1>7, <1>8

\* The client takes the first line, and with it the one answer it may hold.
LEMMA ReadWire ==
  ASSUME WireOK, Single, stdout # << >>, stdout' = Tail(stdout), UNCHANGED << out, mid, partial, torn >>
  PROVE  /\ WireOK' /\ Single' /\ Flying = Flying' \cup ToSet(Head(stdout))
         /\ IsSeq(Head(stdout)) /\ Head(stdout) # << >> /\ (Len(Head(stdout)) > 1 => torn)
         /\ (\E f \in ToSet(Head(stdout)) : IsAnswer(f)) => Quiet'
  <1>1. /\ IsSeq(stdout') /\ Head(stdout) = stdout[1] /\ 1 \in DOMAIN stdout
        /\ \A i \in DOMAIN stdout' : i + 1 \in DOMAIN stdout /\ i + 1 # 1 /\ stdout'[i] = stdout[i + 1]
        /\ \A i \in DOMAIN stdout : i = 1 \/ (i - 1 \in DOMAIN stdout' /\ stdout'[i - 1] = stdout[i])
        /\ \A i, j \in DOMAIN stdout' : i + 1 = j + 1 => i = j
    <2>1. IsSeq(stdout)
      BY DEF WireOK
    <2>2. /\ IsSeq(Tail(stdout)) /\ Len(Tail(stdout)) = Len(stdout) - 1 /\ Head(stdout) = stdout[1] /\ 1 \in DOMAIN stdout
          /\ \A i \in 1..Len(Tail(stdout)) : i + 1 \in 1..Len(stdout) /\ Tail(stdout)[i] = stdout[i + 1]
          /\ DOMAIN stdout = 1..Len(stdout) /\ DOMAIN Tail(stdout) = 1..Len(Tail(stdout)) /\ Len(stdout) \in Nat
      BY <2>1, TailFacts, SeqFacts
    <2>3. \A i \in DOMAIN stdout' : i + 1 \in DOMAIN stdout /\ i + 1 # 1 /\ stdout'[i] = stdout[i + 1]
      BY <2>2
    <2>4. ASSUME NEW i \in DOMAIN stdout, i # 1 PROVE i - 1 \in DOMAIN stdout' /\ stdout'[i - 1] = stdout[i]
      <3>1. i - 1 \in 1..Len(Tail(stdout)) /\ (i - 1) + 1 = i
        BY <2>2, <2>4
      <3>2. Tail(stdout)[i - 1] = stdout[(i - 1) + 1]
        BY <2>2, <3>1
      <3> QED
        BY <2>2, <3>1, <3>2
    <2>5. \A i, j \in DOMAIN stdout' : i + 1 = j + 1 => i = j
      BY <2>2
    <2> QED
      BY <2>2, <2>3, <2>4, <2>5
  <1>2. WireOK'
    BY <1>1 DEF WireOK
  <1>3. Flying = Flying' \cup ToSet(Head(stdout))
    <2>1. \A f : f \in InLines <=> \E i \in DOMAIN stdout : f \in ToSet(stdout[i])
      BY DEF InLines
    <2>2. \A f : f \in InLines' <=> \E i \in DOMAIN stdout' : f \in ToSet(stdout'[i])
      BY DEF InLines
    <2>3. \A f : f \in InLines <=> f \in InLines' \/ f \in ToSet(Head(stdout))
      BY <1>1, <2>1, <2>2
    <2>4. InQueues' = InQueues /\ partial' = partial
      BY DEF InQueues, Unsent
    <2> QED
      BY <2>3, <2>4 DEF Flying
  <1>4. Unsent("loop")' = Unsent("loop") /\ Unsent("app")' = Unsent("app") /\ Unsent("job")' = Unsent("job")
    BY DEF Unsent
  <1>5. NoneInLines => NoneInLines'
    BY <1>1 DEF NoneInLines
  <1>6. Single'
    <2>1. \A i \in DOMAIN stdout' : OneIn(stdout'[i])
      BY <1>1 DEF Single
    <2>2. \A i, j \in DOMAIN stdout' : NoneIn(stdout'[i]) \/ NoneIn(stdout'[j]) \/ i = j
      BY <1>1 DEF Single
    <2> QED
      BY <1>4, <1>5, <2>1, <2>2 DEF Single
  <1>7. IsSeq(Head(stdout)) /\ Head(stdout) # << >> /\ (Len(Head(stdout)) > 1 => torn)
    BY <1>1 DEF WireOK
  <1>8. ASSUME NEW f \in ToSet(Head(stdout)), IsAnswer(f) PROVE Quiet'
    <2>1. ~NoneIn(stdout[1])
      BY <1>1, <1>8 DEF NoneIn
    <2>2. ~NoneInLines /\ NoneInLines'
      BY <1>1, <2>1 DEF NoneInLines, Single
    <2>3. NoneIn(Unsent("loop")) /\ NoneIn(partial) /\ NoneIn(Unsent("app")) /\ NoneIn(Unsent("job"))
      BY <2>2 DEF Single
    <2>4. \A e \in InQueues' : ~IsAnswer(e)
      BY <1>4, <2>3 DEF InQueues, Writers, NoneIn
    <2>5. \A e \in InLines' : ~IsAnswer(e)
      BY <2>2 DEF InLines, NoneInLines, NoneIn
    <2>6. \A e \in ToSet(partial') : ~IsAnswer(e)
      BY <2>3 DEF NoneIn
    <2> QED
      BY <2>4, <2>5, <2>6 DEF Flying, Quiet
  <1> QED
    BY <1>2, <1>3, <1>6, <1>7, <1>8

\* Standard output as it was.
LEMMA SameWire ==
  ASSUME UNCHANGED << out, mid, partial, stdout, torn >>
  PROVE  (WireOK => WireOK') /\ (Single => Single') /\ Flying' = Flying
  <1>1. \A u \in Writers : Unsent(u)' = Unsent(u)
    BY DEF Unsent
  <1>2. InQueues' = InQueues /\ InLines' = InLines /\ NoneInLines' = NoneInLines
    BY <1>1 DEF InQueues, InLines, NoneInLines
  <1> QED
    BY <1>1, <1>2 DEF WireOK, Single, Flying, Writers

-----------------------------------------------------------------------------
(* The client's request.                                                   *)

\* The lines behind the first one.
LEMMA LinesBehind ==
  ASSUME IsSeq(stdin), stdin # << >>, stdin' = Tail(stdin)
  PROVE  /\ IsSeq(stdin') /\ Head(stdin) = stdin[1] /\ 1 \in DOMAIN stdin
         /\ \A i \in DOMAIN stdin' : i + 1 \in DOMAIN stdin /\ i + 1 # 1 /\ stdin'[i] = stdin[i + 1]
         /\ \A i, j \in DOMAIN stdin' : i + 1 = j + 1 => i = j
  <1>1. /\ IsSeq(Tail(stdin)) /\ Head(stdin) = stdin[1] /\ 1 \in DOMAIN stdin
        /\ \A i \in 1..Len(Tail(stdin)) : i + 1 \in 1..Len(stdin) /\ Tail(stdin)[i] = stdin[i + 1]
        /\ DOMAIN stdin = 1..Len(stdin) /\ DOMAIN Tail(stdin) = 1..Len(Tail(stdin)) /\ Len(stdin) \in Nat
    BY TailFacts, SeqFacts
  <1>2. \A i \in DOMAIN stdin' : i + 1 \in DOMAIN stdin /\ i + 1 # 1 /\ stdin'[i] = stdin[i + 1]
    BY <1>1
  <1>3. \A i, j \in DOMAIN stdin' : i + 1 = j + 1 => i = j
    BY <1>1
  <1> QED
    BY <1>1, <1>2, <1>3

\* The lines before a new one.
LEMMA LineAfter ==
  ASSUME IsSeq(stdin), NEW l, stdin' = Append(stdin, l)
  PROVE  /\ IsSeq(stdin')
         /\ \A i \in DOMAIN stdin' : (i \in DOMAIN stdin /\ stdin'[i] = stdin[i]) \/ (i = Len(stdin) + 1 /\ stdin'[i] = l)
  <1>1. /\ IsSeq(stdin') /\ Len(stdin') = Len(stdin) + 1 /\ Len(stdin) \in Nat
        /\ DOMAIN stdin' = 1..Len(stdin') /\ DOMAIN stdin = 1..Len(stdin)
        /\ \A i \in 1..Len(stdin) : stdin'[i] = stdin[i]
        /\ stdin'[Len(stdin) + 1] = l
    BY AppendFacts, SeqFacts
  <1> QED
    BY <1>1

\* The loop reads the request in flight.
LEMMA RequestRead ==
  ASSUME RequestInv, NEW S, ReadsRequest(S)
  PROVE  /\ loop = "getline" /\ call # NoCall /\ call.id = 1 /\ call.request.method \in S /\ Quiet
         /\ AsksTask(call.request) => task = "none"
         /\ serving' = call /\ IsSeq(stdin')
         /\ \A i \in DOMAIN stdin' : stdin'[i].kind # "request" /\ stdin'[i].kind # "initialized"
         /\ UNCHANGED << stopRequested, edited, mid, partial, stdout, torn, call, listing, heard, held >>
  <1>1. /\ loop = "getline" /\ stdin # << >> /\ Head(stdin).kind = "request" /\ Head(stdin).request.method \in S
        /\ stdin' = Tail(stdin) /\ serving' = [id |-> Head(stdin).id, request |-> Head(stdin).request]
        /\ UNCHANGED << stopRequested, edited, mid, partial, stdout, torn, call, listing, heard, held >>
    BY DEF ReadsRequest, Reads, clientVars
  <1>2. /\ IsSeq(stdin') /\ Head(stdin) = stdin[1] /\ 1 \in DOMAIN stdin
        /\ \A i \in DOMAIN stdin' : i + 1 \in DOMAIN stdin /\ i + 1 # 1 /\ stdin'[i] = stdin[i + 1]
    BY <1>1, LinesBehind DEF RequestInv
  <1>3. /\ call # NoCall /\ Head(stdin).id = 1 /\ Head(stdin).request = call.request /\ Quiet
        /\ AsksTask(call.request) => task = "none"
    BY <1>1, <1>2 DEF RequestInv
  <1>4. \A i \in DOMAIN stdin' : stdin'[i].kind # "request" /\ stdin'[i].kind # "initialized"
    BY <1>1, <1>2 DEF RequestInv
  <1>5. call = [id |-> 1, request |-> call.request]
    BY <1>3 DEF RequestInv
  <1> QED
    BY <1>1, <1>2, <1>3, <1>4, <1>5

-----------------------------------------------------------------------------
(* The threads.                                                            *)

\* The steps, with the four list methods and the three kinds of announcement taken together.
LEMMA NextCases ==
  ASSUME [Next]_vars
  PROVE  \/ LoopChecks
         \/ LoopReadsJunk
         \/ LoopReadsEnd
         \/ LoopReadsInitialized
         \/ LoopReadsResponse
         \/ LoopRefuses
         \/ \E m \in DOMAIN ListMethods : HandleList(m)
         \/ HandlePlain
         \/ HandleSetLevel
         \/ HandleSubscribe
         \/ HandleUnsubscribe
         \/ HandleToolsCall
         \/ HandleTasksCancel
         \/ HandleTasksResult
         \/ ToolReturns
         \/ TaskResultReady
         \/ TaskReturns
         \/ RunnerStops
         \/ AppEdits
         \/ AppUpdates
         \/ AppLogs
         \/ \E t \in {"loop", "job"} : ToolAsks(t)
         \/ \E t \in {"loop", "job"} : AskTimesOut(t)
         \/ \E t \in {"loop", "job"} : ToolEdits(t)
         \/ \E t \in Writers : WriteText(t)
         \/ \E t \in Writers : WriteNewline(t)
         \/ \E t \in Writers : \E S \in SUBSET Endpoints : NotifyListChanged(t, S)
         \/ ClientReads
         \/ \E m \in DOMAIN ListMethods : AsksPage(m)
         \/ ClientLists
         \/ ClientCalls
         \/ ClientWritesJunk
         \/ UNCHANGED vars
  <1>1. /\ "tools/list" \in DOMAIN ListMethods /\ "resources/list" \in DOMAIN ListMethods
        /\ "resources/templates/list" \in DOMAIN ListMethods /\ "prompts/list" \in DOMAIN ListMethods
    BY DEF ListMethods
  <1>2. {"tools"} \in SUBSET Endpoints /\ {"resources", "resource_templates"} \in SUBSET Endpoints /\ {"prompts"} \in SUBSET Endpoints
    BY DEF Endpoints
  <1> QED
    BY <1>1, <1>2
       DEF Next, LoopNext, ToolNext, WriterNext, HandleToolsList, HandleResourcesList, HandleResourceTemplatesList,
           HandlePromptsList, ListTools, ListResources, ListResourceTemplates, ListPrompts,
           NotifyToolsListChanged, NotifyResourcesListChanged, NotifyPromptsListChanged

\* An edit is of one endpoint.
LEMMA EditOf ==
  ASSUME NEW t \in Writers, Edit(t)
  PROVE  \E e \in Endpoints : edited' = [edited EXCEPT ![t] = e]
  BY DEF Edit, RegisterTool, UnregisterTool, RegisterResource, UnregisterResource, RegisterResourceTemplate,
         UnregisterResourceTemplate, RegisterPrompt, UnregisterPrompt, Registers, Unregisters, Erases, Endpoints

\* Every step keeps the threads in order.
LEMMA NextThread ==
  ASSUME ThreadInv, WireOK, RequestInv, [Next]_vars
  PROVE  ThreadInv'
  <1> USE DEF ThreadInv, WireOK, Writers, loopVars, serverVars, toolVars, wireVars, clientVars
  <1>1. ASSUME LoopChecks PROVE ThreadInv'
    BY <1>1 DEF LoopChecks, Free
  <1>2. ASSUME LoopReadsJunk PROVE ThreadInv'
    BY <1>2 DEF LoopReadsJunk, Reads
  <1>3. ASSUME LoopReadsEnd PROVE ThreadInv'
    BY <1>3 DEF LoopReadsEnd, Reads
  <1>4. ASSUME LoopReadsInitialized PROVE ThreadInv'
    BY <1>4 DEF LoopReadsInitialized, Reads
  <1>5. ASSUME LoopReadsResponse PROVE ThreadInv'
    BY <1>5 DEF LoopReadsResponse, Reads
  <1>6. ASSUME LoopRefuses PROVE ThreadInv'
    BY <1>6 DEF LoopRefuses, ReadsRequest, Reads, Answers
  <1>7. ASSUME NEW m \in DOMAIN ListMethods, HandleList(m) PROVE ThreadInv'
    BY <1>7 DEF HandleList, ReadsRequest, Reads, Answers
  <1>8. ASSUME HandlePlain PROVE ThreadInv'
    BY <1>8 DEF HandlePlain, ReadsRequest, Reads, Answers
  <1>9. ASSUME HandleSetLevel PROVE ThreadInv'
    BY <1>9 DEF HandleSetLevel, ReadsRequest, Reads, Answers
  <1>10. ASSUME HandleSubscribe PROVE ThreadInv'
    BY <1>10 DEF HandleSubscribe, ReadsRequest, Reads, Answers
  <1>11. ASSUME HandleUnsubscribe PROVE ThreadInv'
    BY <1>11 DEF HandleUnsubscribe, ReadsRequest, Reads, Answers
  <1>12. ASSUME HandleToolsCall PROVE ThreadInv'
    <2>1. /\ loop = "getline" /\ (AsksTask(call.request) => task = "none") /\ serving' = call
          /\ edited' = edited /\ mid' = mid
      BY <1>12, RequestRead DEF HandleToolsCall
    <2>2. edited["loop"] = "none" /\ run["loop"].stage # "running" /\ call.request.method = "tools/call"
      BY <1>12, <2>1, RequestRead DEF HandleToolsCall
    <2>3. \/ loop' = "checking" /\ UNCHANGED << run, task >>
          \/ call.request.task /\ loop' = "checking" /\ task' = "working" /\ run' = [run EXCEPT !["job"] = Running(call.request)]
          \/ loop' = "tool" /\ run' = [run EXCEPT !["loop"] = Running(call.request)] /\ task' = task
      BY <1>12, <2>1 DEF HandleToolsCall, Answers, RunsAsTask
    <2>4. Running(call.request) = [tool |-> Running(call.request).tool, stage |-> Running(call.request).stage,
                                   arguments |-> Running(call.request).arguments]
      BY DEF Running
    <2>5. call.request.task => edited["job"] = "none"
      BY <2>1, <2>2 DEF AsksTask
    <2>6. edited \in [Writers -> Endpoints \cup {"none"}] /\ DOMAIN run = {"loop", "job"}
      OBVIOUS
    <2> QED
      BY <2>1, <2>2, <2>3, <2>4, <2>5, <2>6
  <1>13. ASSUME HandleTasksCancel PROVE ThreadInv'
    BY <1>13 DEF HandleTasksCancel, ReadsRequest, Reads
  <1>14. ASSUME HandleTasksResult PROVE ThreadInv'
    BY <1>14 DEF HandleTasksResult, ReadsRequest, Reads, Answers
  <1>15. ASSUME ToolReturns PROVE ThreadInv'
    BY <1>15 DEF ToolReturns, ToolDone, Answers, Idle
  <1>16. ASSUME TaskResultReady PROVE ThreadInv'
    BY <1>16 DEF TaskResultReady, Answers
  <1>17. ASSUME TaskReturns PROVE ThreadInv'
    BY <1>17 DEF TaskReturns, ToolDone, Idle, Send
  <1>18. ASSUME RunnerStops PROVE ThreadInv'
    BY <1>18 DEF RunnerStops
  <1>19. ASSUME AppEdits PROVE ThreadInv'
    <2>1. PICK e \in Endpoints : edited' = [edited EXCEPT !["app"] = e]
      BY <1>19, EditOf DEF AppEdits
    <2> QED
      BY <1>19, <2>1 DEF AppEdits, AppStep
  <1>20. ASSUME AppUpdates PROVE ThreadInv'
    BY <1>20 DEF AppUpdates, AppStep, Send
  <1>21. ASSUME AppLogs PROVE ThreadInv'
    BY <1>21 DEF AppLogs, AppStep, Send
  <1>22. ASSUME NEW t \in {"loop", "job"}, ToolAsks(t) PROVE ThreadInv'
    BY <1>22 DEF ToolAsks, ToolStep, Handler, Becomes, Send
  <1>23. ASSUME NEW t \in {"loop", "job"}, AskTimesOut(t) PROVE ThreadInv'
    BY <1>23 DEF AskTimesOut, ToolStep, Becomes
  <1>24. ASSUME NEW t \in {"loop", "job"}, ToolEdits(t) PROVE ThreadInv'
    <2>1. PICK e \in Endpoints : edited' = [edited EXCEPT ![t] = e]
      BY <1>24, EditOf DEF ToolEdits
    <2> QED
      BY <1>24, <2>1 DEF ToolEdits, Handler, Becomes
  <1>25. ASSUME NEW t \in Writers, WriteText(t) PROVE ThreadInv'
    BY <1>25 DEF WriteText
  <1>26. ASSUME NEW t \in Writers, WriteNewline(t) PROVE ThreadInv'
    BY <1>26 DEF WriteNewline
  <1>27. ASSUME NEW t \in Writers, NEW S \in SUBSET Endpoints, NotifyListChanged(t, S) PROVE ThreadInv'
    BY <1>27 DEF NotifyListChanged, Send, Endpoints
  <1>28. ASSUME ClientReads PROVE ThreadInv'
    BY <1>28 DEF ClientReads
  <1>29. ASSUME NEW m \in DOMAIN ListMethods, AsksPage(m) PROVE ThreadInv'
    BY <1>29 DEF AsksPage, Requests, ClientStep
  <1>30. ASSUME ClientLists PROVE ThreadInv'
    BY <1>30 DEF ClientLists, ClientStep
  <1>31. ASSUME ClientCalls PROVE ThreadInv'
    BY <1>31 DEF ClientCalls, Requests, ClientStep
  <1>32. ASSUME ClientWritesJunk PROVE ThreadInv'
    BY <1>32 DEF ClientWritesJunk, ClientStep
  <1>33. ASSUME UNCHANGED vars PROVE ThreadInv'
    BY <1>33 DEF vars
  <1> QED
    BY <1>1, <1>2, <1>3, <1>4, <1>5, <1>6, <1>7, <1>8, <1>9, <1>10, <1>11, <1>12, <1>13,
       <1>14, <1>15, <1>16, <1>17, <1>18, <1>19, <1>20, <1>21, <1>22, <1>23, <1>24, <1>25, <1>26,
       <1>27, <1>28, <1>29, <1>30, <1>31, <1>32, <1>33, NextCases
\* A line that is no request.
LEMMA OtherRead ==
  ASSUME RequestInv, NEW kind, kind # "request", Reads(kind)
  PROVE  /\ loop = "getline" /\ IsSeq(stdin') /\ UNCHANGED << call, listing, stopRequested, edited, mid, partial, stdout, torn, heard, held >>
         /\ \A i \in DOMAIN stdin' : stdin'[i].kind # "initialized"
         /\ \A i \in DOMAIN stdin' : stdin'[i].kind = "request" =>
              /\ call # NoCall /\ stdin'[i].id = 1 /\ stdin'[i].request = call.request /\ Quiet
              /\ AsksTask(call.request) => task = "none"
         /\ \A i, j \in DOMAIN stdin' : stdin'[i].kind = "request" /\ stdin'[j].kind = "request" => i = j
  <1>1. /\ loop = "getline" /\ stdin # << >> /\ stdin' = Tail(stdin)
        /\ UNCHANGED << call, listing, stopRequested, edited, mid, partial, stdout, torn, heard, held >>
    BY DEF Reads, clientVars
  <1>2. /\ IsSeq(stdin')
        /\ \A i \in DOMAIN stdin' : i + 1 \in DOMAIN stdin /\ i + 1 # 1 /\ stdin'[i] = stdin[i + 1]
        /\ \A i, j \in DOMAIN stdin' : i + 1 = j + 1 => i = j
    BY <1>1, LinesBehind DEF RequestInv
  <1>3. \A i \in DOMAIN stdin' : stdin'[i].kind # "initialized"
    BY <1>2 DEF RequestInv
  <1>4. \A i \in DOMAIN stdin' : stdin'[i].kind = "request" =>
              /\ call # NoCall /\ stdin'[i].id = 1 /\ stdin'[i].request = call.request /\ Quiet
              /\ AsksTask(call.request) => task = "none"
    BY <1>2 DEF RequestInv
  <1>5. \A i, j \in DOMAIN stdin' : stdin'[i].kind = "request" /\ stdin'[j].kind = "request" => i = j
    BY <1>2 DEF RequestInv
  <1> QED
    BY <1>1, <1>2, <1>3, <1>4, <1>5

\* Messages that are no answers leave the air as quiet as it was.
LEMMA StaysQuiet ==
  ASSUME NEW f, ~IsAnswer(f), Flying' \subseteq Flying \cup {f}
  PROVE  Quiet => Quiet'
  BY DEF Quiet

\* The same when nothing is sent.
LEMMA StaysAsQuiet ==
  ASSUME Flying' \subseteq Flying
  PROVE  Quiet => Quiet'
  BY DEF Quiet

\* The loop answers a request.
LEMMA AnswerWire ==
  ASSUME WireOK, Single, Quiet, NEW a, Send("loop", << Frame("answer", 1, "none", a) >>),
         UNCHANGED << mid, partial, stdout, torn >>
  PROVE  WireOK' /\ Single' /\ Flying' = Flying \cup {Frame("answer", 1, "none", a)}
  BY SendWire DEF Writers

\* A thread sends something else.
LEMMA NoteWire ==
  ASSUME WireOK, Single, NEW t \in Writers, NEW f, ~IsAnswer(f), Send(t, << f >>), UNCHANGED << mid,
         partial, stdout, torn >>
  PROVE  WireOK' /\ Single' /\ Flying' = Flying \cup {f} /\ (Quiet => Quiet')
  <1>1. WireOK' /\ Single' /\ Flying' = Flying \cup {f}
    BY SendWire
  <1> QED
    BY <1>1, StaysQuiet

\* Steps that neither read nor write the client's request.
LEMMA RequestKept ==
  ASSUME RequestInv, UNCHANGED << stdin, call >>, Quiet => Quiet',
         loop' \in {"tool", "awaiting"} => loop' = loop /\ serving' = serving,
         task = "none" => task' = "none", Fresh => Fresh'
  PROVE  RequestInv'
  <1>1. /\ call' = NoCall \/ call' = [id |-> 1, request |-> call'.request]
        /\ call' = NoCall => Quiet'
        /\ loop' \in {"tool", "awaiting"} => serving' = call' /\ call' # NoCall /\ Quiet'
        /\ IsSeq(stdin')
    BY DEF RequestInv
  <1>2. \A i \in DOMAIN stdin' : stdin'[i].kind = "request" =>
         /\ call' # NoCall /\ stdin'[i].id = 1 /\ stdin'[i].request = call'.request
         /\ Quiet' /\ loop' \notin {"tool", "awaiting"}
         /\ AsksTask(call'.request) => task' = "none"
    BY DEF RequestInv
  <1>3. /\ \A i, j \in DOMAIN stdin' : stdin'[i].kind = "request" /\ stdin'[j].kind = "request" => i = j
        /\ \A i \in DOMAIN stdin' : stdin'[i].kind = "initialized" => i = 1 /\ Fresh'
    BY DEF RequestInv
  <1> QED
    BY <1>1, <1>2, <1>3 DEF RequestInv

\* A request that the loop has read and answers, or goes on with.
LEMMA RequestServed ==
  ASSUME call # NoCall, call = [id |-> 1, request |-> call.request], call' = call, IsSeq(stdin'),
         \A i \in DOMAIN stdin' : stdin'[i].kind # "request" /\ stdin'[i].kind # "initialized",
         loop' \in {"tool", "awaiting"} => serving' = call /\ Quiet'
  PROVE  RequestInv'
  BY DEF RequestInv

\* A line that is no request has been read.
LEMMA RequestPassed ==
  ASSUME RequestInv, call' = call, Quiet => Quiet', loop' \notin {"tool", "awaiting"}, task' = task,
         IsSeq(stdin'),
         \A i \in DOMAIN stdin' : stdin'[i].kind # "initialized",
         \A i \in DOMAIN stdin' : stdin'[i].kind = "request" =>
              /\ call # NoCall /\ stdin'[i].id = 1 /\ stdin'[i].request = call.request /\ Quiet
              /\ AsksTask(call.request) => task = "none",
         \A i, j \in DOMAIN stdin' : stdin'[i].kind = "request" /\ stdin'[j].kind = "request" => i = j
  PROVE  RequestInv'
  <1>1. /\ call' = NoCall \/ call' = [id |-> 1, request |-> call'.request]
        /\ call' = NoCall => Quiet'
        /\ AsksTask(call'.request) <=> AsksTask(call.request)
    BY DEF RequestInv
  <1> QED
    BY <1>1 DEF RequestInv

-----------------------------------------------------------------------------
(* What the steps put on the wire.                                         *)

\* The steps that answer nothing and take nothing off standard output.
Silent ==
    \/ LoopChecks
    \/ LoopReadsJunk
    \/ LoopReadsEnd
    \/ LoopReadsInitialized
    \/ LoopReadsResponse
    \/ TaskReturns
    \/ RunnerStops
    \/ AppEdits
    \/ AppUpdates
    \/ AppLogs
    \/ \E t \in {"loop", "job"} : ToolAsks(t)
    \/ \E t \in {"loop", "job"} : AskTimesOut(t)
    \/ \E t \in {"loop", "job"} : ToolEdits(t)
    \/ \E t \in Writers : WriteText(t)
    \/ \E t \in Writers : WriteNewline(t)
    \/ \E t \in Writers : \E S \in SUBSET Endpoints : NotifyListChanged(t, S)
    \/ \E m \in DOMAIN ListMethods : AsksPage(m)
    \/ ClientLists
    \/ ClientCalls
    \/ ClientWritesJunk
    \/ UNCHANGED vars

\* A step that leaves the wire alone carries on what is on it.
LEMMA SameCarries ==
  ASSUME WireOK, Single, UNCHANGED << out, mid, partial, stdout, torn >>
  PROVE  WireOK' /\ Single' /\ Carries
  BY SameWire DEF Carries

\* So does one that sends a message that is no answer.
LEMMA NoteCarries ==
  ASSUME WireOK, Single, NEW t \in Writers, NEW f, ~IsAnswer(f), Send(t, << f >>), UNCHANGED << mid,
         partial, stdout, torn >>
  PROVE  WireOK' /\ Single' /\ Carries
  BY NoteWire DEF Carries

\* Nothing is sent.
LEMMA NothingSent ==
  ASSUME WireOK, Single, NEW t \in Writers, Send(t, << >>), UNCHANGED << mid, partial, stdout, torn >>
  PROVE  WireOK' /\ Single' /\ Flying' = Flying
  <1>1. DOMAIN out' = Writers /\ \A u \in Writers : out'[u] = out[u]
    <2>1. DOMAIN out = Writers /\ out[t] \o << >> = out[t]
      BY ConcatFacts DEF WireOK
    <2> QED
      BY <2>1 DEF Send
  <1>2. \A u \in Writers : Unsent(u)' = Unsent(u)
    BY <1>1 DEF Unsent
  <1>3. InQueues' = InQueues /\ InLines' = InLines /\ (NoneInLines <=> NoneInLines')
    BY <1>2 DEF InQueues, InLines, NoneInLines
  <1> QED
    BY <1>1, <1>2, <1>3 DEF WireOK, Single, Flying, Writers

\* The other messages are no answers.
LEMMA Notes ==
  /\ ~IsAnswer(ParseErrorFrame)
  /\ \A k, a : k # "answer" => ~IsAnswer(Note(k, a))
  BY DEF IsAnswer, ParseErrorFrame, Note, Frame

\* The silent steps carry on what is on the wire.
LEMMA SilentWire ==
  ASSUME WireOK, Single, Silent
  PROVE  WireOK' /\ Single' /\ Carries
  <1>1. ASSUME LoopChecks PROVE WireOK' /\ Single' /\ Carries
    <2>1. UNCHANGED << out, mid, partial, stdout, torn >>
      BY <1>1 DEF LoopChecks, wireVars
    <2> QED
      BY <2>1, SameCarries
  <1>2. ASSUME LoopReadsJunk PROVE WireOK' /\ Single' /\ Carries
    <2>1. UNCHANGED << mid, partial, stdout, torn >>
      BY <1>2 DEF LoopReadsJunk, Reads
    <2>2. UNCHANGED out \/ Send("loop", << ParseErrorFrame >>)
      BY <1>2 DEF LoopReadsJunk, Reads
    <2> QED
      BY <2>1, <2>2, SameCarries, NoteCarries, Notes DEF Writers
  <1>3. ASSUME LoopReadsEnd PROVE WireOK' /\ Single' /\ Carries
    <2>1. UNCHANGED << mid, partial, stdout, torn >>
      BY <1>3 DEF LoopReadsEnd, Reads
    <2>2. UNCHANGED out \/ Send("loop", << ParseErrorFrame >>)
      BY <1>3 DEF LoopReadsEnd, Reads
    <2> QED
      BY <2>1, <2>2, SameCarries, NoteCarries, Notes DEF Writers
  <1>4. ASSUME LoopReadsInitialized PROVE WireOK' /\ Single' /\ Carries
    <2>1. UNCHANGED << out, mid, partial, stdout, torn >>
      BY <1>4 DEF LoopReadsInitialized, Reads, wireVars
    <2> QED
      BY <2>1, SameCarries
  <1>5. ASSUME LoopReadsResponse PROVE WireOK' /\ Single' /\ Carries
    <2>1. UNCHANGED << out, mid, partial, stdout, torn >>
      BY <1>5 DEF LoopReadsResponse, Reads, wireVars
    <2> QED
      BY <2>1, SameCarries
  <1>6. ASSUME TaskReturns PROVE WireOK' /\ Single' /\ Carries
    <2>1. UNCHANGED << mid, partial, stdout, torn >>
      BY <1>6 DEF TaskReturns
    <2>2. CASE UNCHANGED out
      BY <2>1, <2>2, SameCarries
    <2>3. CASE Send("job", StatusFrames)
      <3>1. CASE operating /\ EmitTaskStatusNotifications
        <4>1. Send("job", << Note("taskStatus", "none") >>)
          BY <2>3, <3>1 DEF StatusFrames
        <4> QED
          BY <2>1, <4>1, NoteCarries, Notes DEF Writers
      <3>2. CASE ~(operating /\ EmitTaskStatusNotifications)
        <4>1. Send("job", << >>)
          BY <2>3, <3>2 DEF StatusFrames
        <4> QED
          BY <2>1, <4>1, NothingSent DEF Carries, Writers
      <3> QED
        BY <3>1, <3>2
    <2> QED
      BY <1>6, <2>2, <2>3 DEF TaskReturns
  <1>7. ASSUME RunnerStops PROVE WireOK' /\ Single' /\ Carries
    <2>1. UNCHANGED << out, mid, partial, stdout, torn >>
      BY <1>7 DEF RunnerStops, wireVars
    <2> QED
      BY <2>1, SameCarries
  <1>8. ASSUME AppEdits PROVE WireOK' /\ Single' /\ Carries
    <2>1. UNCHANGED << out, mid, partial, stdout, torn >>
      BY <1>8 DEF AppEdits, AppStep, wireVars
    <2> QED
      BY <2>1, SameCarries
  <1>9. ASSUME AppUpdates PROVE WireOK' /\ Single' /\ Carries
    <2>1. UNCHANGED << mid, partial, stdout, torn >>
      BY <1>9 DEF AppUpdates, AppStep
    <2>2. UNCHANGED out \/ \E uri : Send("app", << Note("updated", uri) >>)
      BY <1>9 DEF AppUpdates, AppStep
    <2> QED
      BY <2>1, <2>2, SameCarries, NoteCarries, Notes DEF Writers
  <1>10. ASSUME AppLogs PROVE WireOK' /\ Single' /\ Carries
    <2>1. UNCHANGED << mid, partial, stdout, torn >>
      BY <1>10 DEF AppLogs, AppStep
    <2>2. UNCHANGED out \/ \E level : Send("app", << Note("log", level) >>)
      BY <1>10 DEF AppLogs, AppStep
    <2> QED
      BY <2>1, <2>2, SameCarries, NoteCarries, Notes DEF Writers
  <1>11. ASSUME NEW t \in {"loop", "job"}, ToolAsks(t) PROVE WireOK' /\ Single' /\ Carries
    <2>1. UNCHANGED << mid, partial, stdout, torn >>
      BY <1>11 DEF ToolAsks, ToolStep, Handler, Becomes
    <2>2. UNCHANGED out \/ Send(t, << Note("ask", t) >>)
      BY <1>11 DEF ToolAsks, ToolStep, Handler, Becomes
    <2> QED
      BY <2>1, <2>2, SameCarries, NoteCarries, Notes DEF Writers
  <1>12. ASSUME NEW t \in {"loop", "job"}, AskTimesOut(t) PROVE WireOK' /\ Single' /\ Carries
    <2>1. UNCHANGED << out, mid, partial, stdout, torn >>
      BY <1>12 DEF AskTimesOut, ToolStep, Becomes, wireVars
    <2> QED
      BY <2>1, SameCarries
  <1>13. ASSUME NEW t \in {"loop", "job"}, ToolEdits(t) PROVE WireOK' /\ Single' /\ Carries
    <2>1. UNCHANGED << out, mid, partial, stdout, torn >>
      BY <1>13 DEF ToolEdits, Handler, Becomes, wireVars
    <2> QED
      BY <2>1, SameCarries
  <1>14. ASSUME NEW t \in Writers, WriteText(t) PROVE WireOK' /\ Single' /\ Carries
    BY <1>14, TextWire DEF Carries
  <1>15. ASSUME NEW t \in Writers, WriteNewline(t) PROVE WireOK' /\ Single' /\ Carries
    BY <1>15, NewlineWire DEF Carries
  <1>16. ASSUME NEW t \in Writers, NEW S \in SUBSET Endpoints, NotifyListChanged(t, S)
         PROVE  WireOK' /\ Single' /\ Carries
    <2>1. UNCHANGED << mid, partial, stdout, torn >>
      BY <1>16 DEF NotifyListChanged
    <2>2. UNCHANGED out \/ \E a : Send(t, << Note("listChanged", a) >>)
      BY <1>16 DEF NotifyListChanged
    <2> QED
      BY <2>1, <2>2, SameCarries, NoteCarries, Notes DEF Writers
  <1>17. ASSUME NEW m \in DOMAIN ListMethods, AsksPage(m) PROVE WireOK' /\ Single' /\ Carries
    <2>1. UNCHANGED << out, mid, partial, stdout, torn >>
      BY <1>17 DEF AsksPage, Requests, ClientStep, wireVars
    <2> QED
      BY <2>1, SameCarries
  <1>18. ASSUME ClientLists PROVE WireOK' /\ Single' /\ Carries
    <2>1. UNCHANGED << out, mid, partial, stdout, torn >>
      BY <1>18 DEF ClientLists, ClientStep, wireVars
    <2> QED
      BY <2>1, SameCarries
  <1>19. ASSUME ClientCalls PROVE WireOK' /\ Single' /\ Carries
    <2>1. UNCHANGED << out, mid, partial, stdout, torn >>
      BY <1>19 DEF ClientCalls, Requests, ClientStep, wireVars
    <2> QED
      BY <2>1, SameCarries
  <1>20. ASSUME ClientWritesJunk PROVE WireOK' /\ Single' /\ Carries
    <2>1. UNCHANGED << out, mid, partial, stdout, torn >>
      BY <1>20 DEF ClientWritesJunk, ClientStep, wireVars
    <2> QED
      BY <2>1, SameCarries
  <1>21. ASSUME UNCHANGED vars PROVE WireOK' /\ Single' /\ Carries
    <2>1. UNCHANGED << out, mid, partial, stdout, torn >>
      BY <1>21 DEF vars, wireVars
    <2> QED
      BY <2>1, SameCarries
  <1> QED
    BY <1>1, <1>2, <1>3, <1>4, <1>5, <1>6, <1>7, <1>8, <1>9, <1>10, <1>11, <1>12, <1>13,
       <1>14, <1>15, <1>16, <1>17, <1>18, <1>19, <1>20, <1>21 DEF Silent
\* The steps of the loop that answer a request, or begin to.
Answering ==
    \/ LoopRefuses
    \/ \E m \in DOMAIN ListMethods : HandleList(m)
    \/ HandlePlain
    \/ HandleSetLevel
    \/ HandleSubscribe
    \/ HandleUnsubscribe
    \/ HandleToolsCall
    \/ HandleTasksCancel
    \/ HandleTasksResult
    \/ ToolReturns
    \/ TaskResultReady

\* Short sequences, joined.
LEMMA JoinedFacts ==
  ASSUME NEW f, NEW g
  PROVE  << f >> \o << g >> = << f, g >> /\ << >> \o << g >> = << g >>
  <1>1. IsSeq(<< f >>) /\ IsSeq(<< >>)
    <2>1. << f >> \in Seq({f}) /\ << >> \in Seq({f})
      OBVIOUS
    <2> QED
      BY <2>1, SeqOfElements
  <1>2. << f >> \o << g >> = Append(<< f >>, g) /\ << >> \o << g >> = Append(<< >>, g)
    BY <1>1, ConcatFacts
  <1>3. Append(<< f >>, g) = << f, g >>
    <2>1. << f >> \in Seq({f, g}) /\ << f, g >> \in Seq({f, g}) /\ Append(<< f >>, g) \in Seq({f, g})
      OBVIOUS
    <2>2. Len(<< f, g >>) = 2 /\ << f, g >>[1] = f /\ << f, g >>[2] = g
      OBVIOUS
    <2>3. Len(Append(<< f >>, g)) = 2 /\ Append(<< f >>, g)[1] = f /\ Append(<< f >>, g)[2] = g
      BY <2>1
    <2>4. \A i \in 1..Len(Append(<< f >>, g)) : Append(<< f >>, g)[i] = << f, g >>[i]
      <3>1. \A i \in 1..2 : i = 1 \/ i = 2
        OBVIOUS
      <3> QED
        BY <2>2, <2>3, <3>1
    <2>5. PICK s, t : s = Append(<< f >>, g) /\ t = << f, g >>
      OBVIOUS
    <2>6. s \in Seq({f, g}) /\ t \in Seq({f, g}) /\ Len(s) = Len(t) /\ \A i \in 1..Len(s) : s[i] = t[i]
      BY <2>1, <2>2, <2>3, <2>4, <2>5
    <2>7. s = t
      BY <2>6, SeqEqual
    <2> QED
      BY <2>5, <2>7
  <1>4. Append(<< >>, g) = << g >>
    OBVIOUS
  <1> QED
    BY <1>2, <1>3, <1>4

\* A promise about no answer at all is kept.
LEMMA NoAnswerIsFair ==
  ASSUME Quiet, Carries
  PROVE  \A f \in Flying' : IsAnswer(f) => Fair(f)
  BY DEF Quiet, Carries

\* Among messages that are no answers, the one that is sent has to keep its promise.
LEMMA OneAnswerIsFair ==
  ASSUME WireOK, Single, Quiet, NEW a, Fair(Frame("answer", 1, "none", a)),
         Send("loop", << Frame("answer", 1, "none", a) >>), UNCHANGED << mid, partial, stdout, torn >>
  PROVE  WireOK' /\ Single' /\ Flying \subseteq Flying' /\ \A f \in Flying' : IsAnswer(f) => Fair(f)
  <1>1. WireOK' /\ Single' /\ Flying' = Flying \cup {Frame("answer", 1, "none", a)}
    BY AnswerWire
  <1> QED
    BY <1>1 DEF Quiet

\* An error promises nothing, and neither does the answer to another method.
LEMMA OtherAnswers ==
  /\ \A c : c # "result" => Fair(Frame("answer", 1, "none", Answer(c)))
  /\ \A a : call.request.method \notin DOMAIN ListMethods \cup {"resources/subscribe"} => Fair(Frame("answer", 1, "none", a))
  BY DEF Fair, Frame, Answer, Calling

\* What is answered is answered once, and keeps its promise.
LEMMA AnsweringWire ==
  ASSUME WireOK, Single, ThreadInv, RequestInv, ServingInv, Answering
  PROVE  WireOK' /\ Single' /\ Flying \subseteq Flying' /\ \A f \in Flying' : IsAnswer(f) => Fair(f)
  <1> DEFINE Goal == WireOK' /\ Single' /\ Flying \subseteq Flying' /\ \A f \in Flying' : IsAnswer(f) => Fair(f)
  <1>1. ASSUME LoopRefuses PROVE Goal
    <2>1. /\ call.id = 1 /\ Quiet /\ serving' = call /\ UNCHANGED << mid, partial, stdout, torn >>
          /\ TRUE
      BY <1>1, RequestRead DEF LoopRefuses
    <2>2. PICK a : Send("loop", << Frame("answer", 1, "none", a) >>) /\ \E c : c # "result" /\ a = Answer(c)
      BY <1>1, <2>1 DEF LoopRefuses, Answers, Failed
    <2>3. Fair(Frame("answer", 1, "none", a))
      BY <2>1, <2>2, OtherAnswers
    <2> QED
      BY <2>1, <2>2, <2>3, OneAnswerIsFair
  <1>2. ASSUME NEW m \in DOMAIN ListMethods, HandleList(m) PROVE Goal
    <2>1. /\ call.id = 1 /\ Quiet /\ serving' = call /\ UNCHANGED << mid, partial, stdout, torn >>
          /\ call.request.method = m
      BY <1>2, RequestRead DEF HandleList
    <2>2. PICK a : a = ListAnswer(ListMethods[m], registry[ListMethods[m]], call.request.cursor)
      OBVIOUS
    <2>3. Send("loop", << Frame("answer", ListAnswerId(1, a), "none", a) >>)
      BY <1>2, <2>1, <2>2 DEF HandleList, Answers
    <2>4. CASE a.class = "invalidParams"
      <3>1. ~IsAnswer(Frame("answer", 0, "none", a))
        BY DEF IsAnswer, Frame
      <3>2. Send("loop", << Frame("answer", 0, "none", a) >>)
        BY <2>3, <2>4 DEF ListAnswerId
      <3>3. WireOK' /\ Single' /\ Carries
        BY <2>1, <3>1, <3>2, NoteCarries DEF Writers
      <3> QED
        BY <2>1, <3>3, NoAnswerIsFair DEF Carries
    <2>5. CASE a.class # "invalidParams"
      <3>1. Send("loop", << Frame("answer", 1, "none", a) >>)
        BY <2>3, <2>5 DEF ListAnswerId
      <3>2. Fair(Frame("answer", 1, "none", a))
        BY <2>1, <2>2 DEF Fair, Frame, Calling, ListMethods
      <3> QED
        BY <2>1, <3>1, <3>2, OneAnswerIsFair
    <2> QED
      BY <2>4, <2>5
  <1>3. ASSUME HandlePlain PROVE Goal
    <2>1. /\ call.id = 1 /\ Quiet /\ serving' = call /\ UNCHANGED << mid, partial, stdout, torn >>
          /\ call.request.method \notin DOMAIN ListMethods \cup {"resources/subscribe"}
      BY <1>3, RequestRead DEF HandlePlain, ListMethods
    <2>2. PICK a : Send("loop", << Frame("answer", 1, "none", a) >>) /\ TRUE
      BY <1>3, <2>1 DEF HandlePlain, Answers
    <2>3. Fair(Frame("answer", 1, "none", a))
      BY <2>1, <2>2, OtherAnswers
    <2> QED
      BY <2>1, <2>2, <2>3, OneAnswerIsFair
  <1>4. ASSUME HandleSetLevel PROVE Goal
    <2>1. /\ call.id = 1 /\ Quiet /\ serving' = call /\ UNCHANGED << mid, partial, stdout, torn >>
          /\ call.request.method \notin DOMAIN ListMethods \cup {"resources/subscribe"}
      BY <1>4, RequestRead DEF HandleSetLevel, ListMethods
    <2>2. PICK a : Send("loop", << Frame("answer", 1, "none", a) >>) /\ TRUE
      BY <1>4, <2>1 DEF HandleSetLevel, Answers
    <2>3. Fair(Frame("answer", 1, "none", a))
      BY <2>1, <2>2, OtherAnswers
    <2> QED
      BY <2>1, <2>2, <2>3, OneAnswerIsFair
  <1>5. ASSUME HandleSubscribe PROVE Goal
    <2>1. /\ call.id = 1 /\ Quiet /\ serving' = call /\ UNCHANGED << mid, partial, stdout, torn >>
          /\ call.request.method = "resources/subscribe"
      BY <1>5, RequestRead DEF HandleSubscribe
    <2>2. \/ Send("loop", << Frame("answer", 1, "none", Result) >>) /\ call.request.name \in subscriptions'
          \/ Send("loop", << Frame("answer", 1, "none", Failed("resourceNotFound")) >>)
      BY <1>5, <2>1 DEF HandleSubscribe, Answers
    <2>3. Fair(Frame("answer", 1, "none", Failed("resourceNotFound")))
      BY OtherAnswers DEF Failed
    <2>4. call.request.name \in subscriptions' => Fair(Frame("answer", 1, "none", Result))
      BY <2>1 DEF Fair, Calling, ListMethods
    <2> QED
      BY <2>1, <2>2, <2>3, <2>4, OneAnswerIsFair
  <1>6. ASSUME HandleUnsubscribe PROVE Goal
    <2>1. /\ call.id = 1 /\ Quiet /\ serving' = call /\ UNCHANGED << mid, partial, stdout, torn >>
          /\ call.request.method \notin DOMAIN ListMethods \cup {"resources/subscribe"}
      BY <1>6, RequestRead DEF HandleUnsubscribe, ListMethods
    <2>2. PICK a : Send("loop", << Frame("answer", 1, "none", a) >>) /\ TRUE
      BY <1>6, <2>1 DEF HandleUnsubscribe, Answers
    <2>3. Fair(Frame("answer", 1, "none", a))
      BY <2>1, <2>2, OtherAnswers
    <2> QED
      BY <2>1, <2>2, <2>3, OneAnswerIsFair
  <1>7. ASSUME HandleToolsCall PROVE Goal
    <2>1. /\ call.id = 1 /\ Quiet /\ serving' = call /\ UNCHANGED << mid, partial, stdout, torn >>
          /\ call.request.method \notin DOMAIN ListMethods \cup {"resources/subscribe"}
      BY <1>7, RequestRead DEF HandleToolsCall, ListMethods
    <2>2. UNCHANGED out \/ \E a : Send("loop", << Frame("answer", 1, "none", a) >>)
      BY <1>7, <2>1 DEF HandleToolsCall, Answers
    <2>3. UNCHANGED out => Goal
      BY <2>1, SameCarries, NoAnswerIsFair DEF Carries
    <2>4. ASSUME NEW a, Send("loop", << Frame("answer", 1, "none", a) >>) PROVE Goal
      BY <2>1, <2>4, OtherAnswers, OneAnswerIsFair
    <2> QED
      BY <2>2, <2>3, <2>4
  <1>8. ASSUME HandleTasksCancel PROVE Goal
    <2>1. /\ call.id = 1 /\ Quiet /\ serving' = call /\ UNCHANGED << mid, partial, stdout, torn >>
          /\ call.request.method \notin DOMAIN ListMethods \cup {"resources/subscribe"} /\ loop = "getline"
      BY <1>8, RequestRead DEF HandleTasksCancel, ListMethods
    <2>2. PICK a : \/ Send("loop", << Note("taskStatus", "none") >> \o << Frame("answer", 1, "none", a) >>)
                   \/ Send("loop", << >> \o << Frame("answer", 1, "none", a) >>)
      BY <1>8, <2>1 DEF HandleTasksCancel, StatusFrames
    <2>3. Fair(Frame("answer", 1, "none", a))
      BY <2>1, OtherAnswers
    <2>4. CASE Send("loop", << Note("taskStatus", "none") >> \o << Frame("answer", 1, "none", a) >>)
      <3>1. Send("loop", << Note("taskStatus", "none"), Frame("answer", 1, "none", a) >>)
        BY <2>4, JoinedFacts
      <3>2. /\ WireOK' /\ Single'
            /\ Flying' = Flying \cup {Note("taskStatus", "none"), Frame("answer", 1, "none", a)}
        BY <2>1, <3>1, Notes, SendTwoWire DEF ThreadInv
      <3> QED
        BY <2>1, <2>3, <3>2, Notes DEF Quiet
    <2>5. CASE Send("loop", << >> \o << Frame("answer", 1, "none", a) >>)
      <3>1. Send("loop", << Frame("answer", 1, "none", a) >>)
        BY <2>5, JoinedFacts
      <3> QED
        BY <2>1, <2>3, <3>1, OneAnswerIsFair
    <2> QED
      BY <2>2, <2>4, <2>5
  <1>9. ASSUME HandleTasksResult PROVE Goal
    <2>1. /\ call.id = 1 /\ Quiet /\ serving' = call /\ UNCHANGED << mid, partial, stdout, torn >>
          /\ call.request.method \notin DOMAIN ListMethods \cup {"resources/subscribe"}
      BY <1>9, RequestRead DEF HandleTasksResult, ListMethods
    <2>2. UNCHANGED out \/ \E a : Send("loop", << Frame("answer", 1, "none", a) >>)
      BY <1>9, <2>1 DEF HandleTasksResult, Answers
    <2>3. UNCHANGED out => Goal
      BY <2>1, SameCarries, NoAnswerIsFair DEF Carries
    <2>4. ASSUME NEW a, Send("loop", << Frame("answer", 1, "none", a) >>) PROVE Goal
      BY <2>1, <2>4, OtherAnswers, OneAnswerIsFair
    <2> QED
      BY <2>2, <2>3, <2>4
  <1>10. ASSUME ToolReturns PROVE Goal
    <2>1. /\ Quiet /\ serving = call /\ UNCHANGED << mid, partial, stdout, torn >>
          /\ call.request.method \notin DOMAIN ListMethods \cup {"resources/subscribe"}
      BY <1>10 DEF ToolReturns, RequestInv, ServingInv, ListMethods
    <2>2. call.id = 1
      BY <1>10 DEF ToolReturns, RequestInv
    <2>3. PICK a : Send("loop", << Frame("answer", 1, "none", a) >>)
      BY <1>10, <2>1, <2>2 DEF ToolReturns, Answers
    <2> QED
      BY <2>1, <2>3, OtherAnswers, OneAnswerIsFair
  <1>11. ASSUME TaskResultReady PROVE Goal
    <2>1. /\ Quiet /\ serving = call /\ UNCHANGED << mid, partial, stdout, torn >>
          /\ call.request.method \notin DOMAIN ListMethods \cup {"resources/subscribe"}
      BY <1>11 DEF TaskResultReady, RequestInv, ServingInv, ListMethods
    <2>2. call.id = 1
      BY <1>11 DEF TaskResultReady, RequestInv
    <2>3. PICK a : Send("loop", << Frame("answer", 1, "none", a) >>)
      BY <1>11, <2>1, <2>2 DEF TaskResultReady, Answers
    <2> QED
      BY <2>1, <2>3, OtherAnswers, OneAnswerIsFair
  <1> QED
    BY <1>1, <1>2, <1>3, <1>4, <1>5, <1>6, <1>7, <1>8, <1>9, <1>10, <1>11 DEF Answering

\* Every step is silent, answers or takes a line off standard output.
LEMMA StepKinds ==
  ASSUME [Next]_vars
  PROVE  Silent \/ Answering \/ ClientReads
  BY NextCases DEF Silent, Answering

\* The wire stays whole.
LEMMA NextWire ==
  ASSUME ThreadInv, WireOK, Single, RequestInv, ServingInv, [Next]_vars
  PROVE  WireOK' /\ Single'
  <1>1. ASSUME Silent PROVE WireOK' /\ Single'
    BY <1>1, SilentWire
  <1>2. ASSUME Answering PROVE WireOK' /\ Single'
    BY <1>2, AnsweringWire
  <1>3. ASSUME ClientReads PROVE WireOK' /\ Single'
    BY <1>3, ReadWire DEF ClientReads
  <1> QED
    BY <1>1, <1>2, <1>3, StepKinds

-----------------------------------------------------------------------------
(* The request in flight.                                                  *)

\* Silent steps send no answer.
LEMMA SilentStaysQuiet ==
  ASSUME WireOK, Single, Silent
  PROVE  Quiet => Quiet'
  BY SilentWire DEF Carries, Quiet

\* What the client does with a line: an answer ends its call, anything else leaves it.
LEMMA LineRead ==
  ASSUME WireOK, Single, RequestInv, ClientReads
  PROVE  \/ /\ UNCHANGED << call, listing, held >> /\ Flying' \subseteq Flying
            /\ \/ UNCHANGED stdin
               \/ \E l : stdin' = Append(stdin, l) /\ l.kind = "response"
         \/ \E f \in Flying : /\ IsAnswer(f) /\ Quiet' /\ ~Quiet /\ call # NoCall /\ call' = NoCall /\ stdin' = stdin
                              /\ ReceivesAnswer(f)
  <1>1. /\ WireOK' /\ Flying = Flying' \cup ToSet(Head(stdout))
        /\ IsSeq(Head(stdout)) /\ Head(stdout) # << >>
        /\ (\E f \in ToSet(Head(stdout)) : IsAnswer(f)) => Quiet'
    BY ReadWire DEF ClientReads
  <1>2. CASE Len(Head(stdout)) # 1
    BY <1>1, <1>2 DEF ClientReads, clientVars
  <1>3. CASE Len(Head(stdout)) = 1
    <2>1. PICK f : f = Head(stdout)[1]
      OBVIOUS
    <2>2. f \in ToSet(Head(stdout)) /\ Receives(f)
      BY <1>1, <1>3, <2>1, SeqFacts DEF ClientReads
    <2>3. CASE IsAnswer(f)
      <3>1. f \in Flying /\ Quiet' /\ ~Quiet
        BY <1>1, <2>2, <2>3 DEF Quiet
      <3>2. call # NoCall /\ call.id = 1
        BY <3>1 DEF RequestInv
      <3>3. ReceivesAnswer(f) /\ call' = NoCall /\ stdin' = stdin
        BY <2>2, <2>3, <3>2 DEF IsAnswer, Receives, ReceivesAnswer
      <3> QED
        BY <2>3, <3>1, <3>2, <3>3
    <2>4. CASE ~IsAnswer(f)
      <3>1. CASE f.kind = "answer"
        <4>1. call = NoCall \/ call.id = 1
          BY DEF RequestInv
        <4> QED
          BY <1>1, <2>2, <2>4, <3>1, <4>1 DEF IsAnswer, Receives, ReceivesAnswer, NoCall
      <3>2. CASE f.kind = "listChanged"
        BY <1>1, <2>2, <3>2 DEF Receives
      <3>3. CASE f.kind = "ask" /\ Open
        BY <1>1, <2>2, <3>3 DEF Receives, clientVars, Line
      <3>4. CASE f.kind \notin {"answer", "listChanged"} /\ ~(f.kind = "ask" /\ Open)
        BY <1>1, <2>2, <3>4 DEF Receives, clientVars
      <3> QED
        BY <3>1, <3>2, <3>3, <3>4
    <2> QED
      BY <2>3, <2>4
  <1> QED
    BY <1>2, <1>3

\* The client asks for something.
LEMMA RequestAsked ==
  ASSUME RequestInv, NEW r, Requests(r), Flying' = Flying, UNCHANGED << loop, operating, listing, task >>,
         AsksTask(r) => task = "none"
  PROVE  RequestInv'
  <1>1. PICK l : l = Line("request", 1, r)
    OBVIOUS
  <1>2. call = NoCall /\ call' = [id |-> 1, request |-> r] /\ stdin' = Append(stdin, l)
    BY <1>1 DEF Requests
  <1>3. /\ IsSeq(stdin')
        /\ \A i \in DOMAIN stdin' : (i \in DOMAIN stdin /\ stdin'[i] = stdin[i]) \/ (i = Len(stdin) + 1 /\ stdin'[i] = l)
    BY <1>2, LineAfter DEF RequestInv
  <1>4. l.kind = "request" /\ l.id = 1 /\ l.request = r
    BY <1>1 DEF Line
  <1>5. call' # NoCall /\ call'.id = 1 /\ call'.request = r /\ (AsksTask(call'.request) <=> AsksTask(r))
    BY <1>2 DEF NoCall
  <1>6. Quiet /\ Quiet' /\ loop \notin {"tool", "awaiting"} /\ \A i \in DOMAIN stdin : stdin[i].kind # "request"
    BY <1>2 DEF RequestInv, Quiet
  <1>7. \A i \in DOMAIN stdin' : stdin'[i].kind = "initialized" => i = 1 /\ Fresh
    BY <1>3, <1>4 DEF RequestInv
  <1>8. Fresh => Fresh'
    BY <1>6 DEF Fresh
  <1>9. /\ \A i \in DOMAIN stdin' : stdin'[i].kind = "request" => i = Len(stdin) + 1 /\ stdin'[i] = l
    BY <1>3, <1>6
  <1> QED
    BY <1>2, <1>3, <1>4, <1>5, <1>6, <1>7, <1>8, <1>9 DEF RequestInv

\* Another line is written.
LEMMA OtherWritten ==
  ASSUME RequestInv, NEW l, l.kind \notin {"request", "initialized"}, stdin' = Append(stdin, l), Quiet
         => Quiet',
         UNCHANGED << call, loop, serving, operating, listing, task >>
  PROVE  RequestInv'
  <1>1. /\ IsSeq(stdin')
        /\ \A i \in DOMAIN stdin' : (i \in DOMAIN stdin /\ stdin'[i] = stdin[i]) \/ stdin'[i] = l
        /\ \A i \in DOMAIN stdin' : stdin'[i].kind \in {"request", "initialized"} => i \in DOMAIN stdin /\ stdin'[i] = stdin[i]
    BY LineAfter DEF RequestInv
  <1>2. Fresh => Fresh'
    BY DEF Fresh
  <1>3. /\ call' = NoCall \/ call' = [id |-> 1, request |-> call'.request]
        /\ call' = NoCall => Quiet'
        /\ loop' \in {"tool", "awaiting"} => serving' = call' /\ call' # NoCall /\ Quiet'
    BY DEF RequestInv
  <1>4. \A i \in DOMAIN stdin' : stdin'[i].kind = "request" =>
         /\ call' # NoCall /\ stdin'[i].id = 1 /\ stdin'[i].request = call'.request
         /\ Quiet' /\ loop' \notin {"tool", "awaiting"}
         /\ AsksTask(call'.request) => task' = "none"
    BY <1>1 DEF RequestInv
  <1>5. /\ \A i, j \in DOMAIN stdin' : stdin'[i].kind = "request" /\ stdin'[j].kind = "request" => i = j
        /\ \A i \in DOMAIN stdin' : stdin'[i].kind = "initialized" => i = 1 /\ Fresh'
    BY <1>1, <1>2 DEF RequestInv
  <1> QED
    BY <1>1, <1>3, <1>4, <1>5 DEF RequestInv

\* Every step keeps the request in its place.
LEMMA NextRequest ==
  ASSUME ThreadInv, WireOK, Single, RequestInv, ServingInv, ListingInv, [Next]_vars
  PROVE  RequestInv'
  <1>1. ASSUME LoopChecks PROVE RequestInv'
    <2>1. Quiet => Quiet'
      BY <1>1, SilentStaysQuiet DEF Silent, Writers
    <2>2. /\ UNCHANGED << stdin, call, listing >> /\ (task = "none" => task' = "none")
          /\ loop' \in {"tool", "awaiting"} => loop' = loop /\ serving' = serving
          /\ loop' # loop => loop' \in {"getline", "ended"}
          /\ ~operating => ~operating'
      BY <1>1 DEF LoopChecks, loopVars, serverVars, toolVars, wireVars, clientVars
    <2>3. Fresh => Fresh'
      BY <2>1, <2>2 DEF Fresh
    <2> QED
      BY <2>1, <2>2, <2>3, RequestKept
  <1>2. ASSUME LoopReadsJunk PROVE RequestInv'
    <2>1. (Quiet => Quiet')
      BY <1>2, SilentStaysQuiet DEF Silent
    <2>2. PICK kind : kind # "request" /\ Reads(kind)
      BY <1>2 DEF LoopReadsJunk
    <2>3. loop' \notin {"tool", "awaiting"} /\ task' = task
      BY <1>2 DEF LoopReadsJunk, toolVars
    <2> QED
      BY <2>1, <2>2, <2>3, OtherRead, RequestPassed
  <1>3. ASSUME LoopReadsEnd PROVE RequestInv'
    <2>1. (Quiet => Quiet')
      BY <1>3, SilentStaysQuiet DEF Silent
    <2>2. PICK kind : kind # "request" /\ Reads(kind)
      BY <1>3 DEF LoopReadsEnd
    <2>3. loop' \notin {"tool", "awaiting"} /\ task' = task
      BY <1>3 DEF LoopReadsEnd, toolVars
    <2> QED
      BY <2>1, <2>2, <2>3, OtherRead, RequestPassed
  <1>4. ASSUME LoopReadsInitialized PROVE RequestInv'
    <2>1. (Quiet => Quiet')
      BY <1>4, SilentStaysQuiet DEF Silent
    <2>2. PICK kind : kind # "request" /\ Reads(kind)
      BY <1>4 DEF LoopReadsInitialized
    <2>3. loop' \notin {"tool", "awaiting"} /\ task' = task
      BY <1>4 DEF LoopReadsInitialized, toolVars
    <2> QED
      BY <2>1, <2>2, <2>3, OtherRead, RequestPassed
  <1>5. ASSUME LoopReadsResponse PROVE RequestInv'
    <2>1. (Quiet => Quiet')
      BY <1>5, SilentStaysQuiet DEF Silent
    <2>2. PICK kind : kind # "request" /\ Reads(kind)
      BY <1>5 DEF LoopReadsResponse
    <2>3. loop' \notin {"tool", "awaiting"} /\ task' = task
      BY <1>5 DEF LoopReadsResponse, toolVars
    <2> QED
      BY <2>1, <2>2, <2>3, OtherRead, RequestPassed
  <1>6. ASSUME LoopRefuses PROVE RequestInv'
    <2>1. /\ call # NoCall /\ call' = call /\ IsSeq(stdin') /\ call = [id |-> 1, request |-> call.request] /\ serving' = call
          /\ Quiet /\ \A i \in DOMAIN stdin' : stdin'[i].kind # "request" /\ stdin'[i].kind # "initialized"
      BY <1>6, RequestRead DEF LoopRefuses, RequestInv
    <2>2. loop' \in {"tool", "awaiting"} => Quiet'
      BY <1>6 DEF LoopRefuses, Answers
    <2> QED
      BY <2>1, <2>2, RequestServed
  <1>7. ASSUME NEW m \in DOMAIN ListMethods, HandleList(m) PROVE RequestInv'
    <2>1. /\ call # NoCall /\ call' = call /\ IsSeq(stdin') /\ call = [id |-> 1, request |-> call.request] /\ serving' = call
          /\ Quiet /\ \A i \in DOMAIN stdin' : stdin'[i].kind # "request" /\ stdin'[i].kind # "initialized"
      BY <1>7, RequestRead DEF HandleList, RequestInv
    <2>2. loop' \in {"tool", "awaiting"} => Quiet'
      BY <1>7 DEF HandleList, Answers
    <2> QED
      BY <2>1, <2>2, RequestServed
  <1>8. ASSUME HandlePlain PROVE RequestInv'
    <2>1. /\ call # NoCall /\ call' = call /\ IsSeq(stdin') /\ call = [id |-> 1, request |-> call.request] /\ serving' = call
          /\ Quiet /\ \A i \in DOMAIN stdin' : stdin'[i].kind # "request" /\ stdin'[i].kind # "initialized"
      BY <1>8, RequestRead DEF HandlePlain, RequestInv
    <2>2. loop' \in {"tool", "awaiting"} => Quiet'
      BY <1>8 DEF HandlePlain, Answers
    <2> QED
      BY <2>1, <2>2, RequestServed
  <1>9. ASSUME HandleSetLevel PROVE RequestInv'
    <2>1. /\ call # NoCall /\ call' = call /\ IsSeq(stdin') /\ call = [id |-> 1, request |-> call.request] /\ serving' = call
          /\ Quiet /\ \A i \in DOMAIN stdin' : stdin'[i].kind # "request" /\ stdin'[i].kind # "initialized"
      BY <1>9, RequestRead DEF HandleSetLevel, RequestInv
    <2>2. loop' \in {"tool", "awaiting"} => Quiet'
      BY <1>9 DEF HandleSetLevel, Answers
    <2> QED
      BY <2>1, <2>2, RequestServed
  <1>10. ASSUME HandleSubscribe PROVE RequestInv'
    <2>1. /\ call # NoCall /\ call' = call /\ IsSeq(stdin') /\ call = [id |-> 1, request |-> call.request] /\ serving' = call
          /\ Quiet /\ \A i \in DOMAIN stdin' : stdin'[i].kind # "request" /\ stdin'[i].kind # "initialized"
      BY <1>10, RequestRead DEF HandleSubscribe, RequestInv
    <2>2. loop' \in {"tool", "awaiting"} => Quiet'
      BY <1>10 DEF HandleSubscribe, Answers
    <2> QED
      BY <2>1, <2>2, RequestServed
  <1>11. ASSUME HandleUnsubscribe PROVE RequestInv'
    <2>1. /\ call # NoCall /\ call' = call /\ IsSeq(stdin') /\ call = [id |-> 1, request |-> call.request] /\ serving' = call
          /\ Quiet /\ \A i \in DOMAIN stdin' : stdin'[i].kind # "request" /\ stdin'[i].kind # "initialized"
      BY <1>11, RequestRead DEF HandleUnsubscribe, RequestInv
    <2>2. loop' \in {"tool", "awaiting"} => Quiet'
      BY <1>11 DEF HandleUnsubscribe, Answers
    <2> QED
      BY <2>1, <2>2, RequestServed
  <1>12. ASSUME HandleToolsCall PROVE RequestInv'
    <2>1. /\ call # NoCall /\ call' = call /\ IsSeq(stdin') /\ call = [id |-> 1, request |-> call.request] /\ serving' = call
          /\ Quiet /\ \A i \in DOMAIN stdin' : stdin'[i].kind # "request" /\ stdin'[i].kind # "initialized"
      BY <1>12, RequestRead DEF HandleToolsCall, RequestInv
    <2>2. loop' \in {"tool", "awaiting"} => UNCHANGED << out, mid, partial, stdout, torn >>
      BY <1>12 DEF HandleToolsCall, Answers, ReadsRequest, Reads
    <2>3. loop' \in {"tool", "awaiting"} => Quiet'
      BY <2>1, <2>2, SameWire, StaysAsQuiet
    <2> QED
      BY <2>1, <2>3, RequestServed
  <1>13. ASSUME HandleTasksCancel PROVE RequestInv'
    <2>1. /\ call # NoCall /\ call' = call /\ IsSeq(stdin') /\ call = [id |-> 1, request |-> call.request] /\ serving' = call
          /\ Quiet /\ \A i \in DOMAIN stdin' : stdin'[i].kind # "request" /\ stdin'[i].kind # "initialized"
      BY <1>13, RequestRead DEF HandleTasksCancel, RequestInv
    <2>2. loop' \in {"tool", "awaiting"} => Quiet'
      BY <1>13 DEF HandleTasksCancel, Answers
    <2> QED
      BY <2>1, <2>2, RequestServed
  <1>14. ASSUME HandleTasksResult PROVE RequestInv'
    <2>1. /\ call # NoCall /\ call' = call /\ IsSeq(stdin') /\ call = [id |-> 1, request |-> call.request] /\ serving' = call
          /\ Quiet /\ \A i \in DOMAIN stdin' : stdin'[i].kind # "request" /\ stdin'[i].kind # "initialized"
      BY <1>14, RequestRead DEF HandleTasksResult, RequestInv
    <2>2. loop' \in {"tool", "awaiting"} => UNCHANGED << out, mid, partial, stdout, torn >>
      BY <1>14 DEF HandleTasksResult, Answers, ReadsRequest, Reads
    <2>3. loop' \in {"tool", "awaiting"} => Quiet'
      BY <2>1, <2>2, SameWire, StaysAsQuiet
    <2> QED
      BY <2>1, <2>3, RequestServed
  <1>15. ASSUME ToolReturns PROVE RequestInv'
    <2>1. loop \in {"tool", "awaiting"} /\ loop' = "checking" /\ UNCHANGED << stdin, call >>
      BY <1>15 DEF ToolReturns, Answers, clientVars
    <2>2. /\ call # NoCall /\ call = [id |-> 1, request |-> call.request] /\ IsSeq(stdin)
          /\ \A i \in DOMAIN stdin : stdin[i].kind # "request" /\ stdin[i].kind # "initialized"
      BY <2>1 DEF RequestInv, Fresh
    <2> QED
      BY <2>1, <2>2, RequestServed
  <1>16. ASSUME TaskResultReady PROVE RequestInv'
    <2>1. loop \in {"tool", "awaiting"} /\ loop' = "checking" /\ UNCHANGED << stdin, call >>
      BY <1>16 DEF TaskResultReady, Answers, clientVars
    <2>2. /\ call # NoCall /\ call = [id |-> 1, request |-> call.request] /\ IsSeq(stdin)
          /\ \A i \in DOMAIN stdin : stdin[i].kind # "request" /\ stdin[i].kind # "initialized"
      BY <2>1 DEF RequestInv, Fresh
    <2> QED
      BY <2>1, <2>2, RequestServed
  <1>17. ASSUME TaskReturns PROVE RequestInv'
    <2>1. Quiet => Quiet'
      BY <1>17, SilentStaysQuiet DEF Silent, Writers
    <2>2. /\ UNCHANGED << stdin, call, listing >> /\ (task = "none" => task' = "none")
          /\ loop' \in {"tool", "awaiting"} => loop' = loop /\ serving' = serving
          /\ loop' # loop => loop' \in {"getline", "ended"}
          /\ ~operating => ~operating'
      BY <1>17 DEF TaskReturns, ToolDone, Idle, loopVars, serverVars, toolVars, wireVars, clientVars
    <2>3. Fresh => Fresh'
      BY <2>1, <2>2 DEF Fresh
    <2> QED
      BY <2>1, <2>2, <2>3, RequestKept
  <1>18. ASSUME RunnerStops PROVE RequestInv'
    <2>1. Quiet => Quiet'
      BY <1>18, SilentStaysQuiet DEF Silent, Writers
    <2>2. /\ UNCHANGED << stdin, call, listing >> /\ (task = "none" => task' = "none")
          /\ loop' \in {"tool", "awaiting"} => loop' = loop /\ serving' = serving
          /\ loop' # loop => loop' \in {"getline", "ended"}
          /\ ~operating => ~operating'
      BY <1>18 DEF RunnerStops, loopVars, serverVars, toolVars, wireVars, clientVars
    <2>3. Fresh => Fresh'
      BY <2>1, <2>2 DEF Fresh
    <2> QED
      BY <2>1, <2>2, <2>3, RequestKept
  <1>19. ASSUME AppEdits PROVE RequestInv'
    <2>1. Quiet => Quiet'
      BY <1>19, SilentStaysQuiet DEF Silent, Writers
    <2>2. /\ UNCHANGED << stdin, call, listing >> /\ (task = "none" => task' = "none")
          /\ loop' \in {"tool", "awaiting"} => loop' = loop /\ serving' = serving
          /\ loop' # loop => loop' \in {"getline", "ended"}
          /\ ~operating => ~operating'
      BY <1>19 DEF AppEdits, AppStep, loopVars, serverVars, toolVars, wireVars, clientVars
    <2>3. Fresh => Fresh'
      BY <2>1, <2>2 DEF Fresh
    <2> QED
      BY <2>1, <2>2, <2>3, RequestKept
  <1>20. ASSUME AppUpdates PROVE RequestInv'
    <2>1. Quiet => Quiet'
      BY <1>20, SilentStaysQuiet DEF Silent, Writers
    <2>2. /\ UNCHANGED << stdin, call, listing >> /\ (task = "none" => task' = "none")
          /\ loop' \in {"tool", "awaiting"} => loop' = loop /\ serving' = serving
          /\ loop' # loop => loop' \in {"getline", "ended"}
          /\ ~operating => ~operating'
      BY <1>20 DEF AppUpdates, AppStep, loopVars, serverVars, toolVars, wireVars, clientVars
    <2>3. Fresh => Fresh'
      BY <2>1, <2>2 DEF Fresh
    <2> QED
      BY <2>1, <2>2, <2>3, RequestKept
  <1>21. ASSUME AppLogs PROVE RequestInv'
    <2>1. Quiet => Quiet'
      BY <1>21, SilentStaysQuiet DEF Silent, Writers
    <2>2. /\ UNCHANGED << stdin, call, listing >> /\ (task = "none" => task' = "none")
          /\ loop' \in {"tool", "awaiting"} => loop' = loop /\ serving' = serving
          /\ loop' # loop => loop' \in {"getline", "ended"}
          /\ ~operating => ~operating'
      BY <1>21 DEF AppLogs, AppStep, loopVars, serverVars, toolVars, wireVars, clientVars
    <2>3. Fresh => Fresh'
      BY <2>1, <2>2 DEF Fresh
    <2> QED
      BY <2>1, <2>2, <2>3, RequestKept
  <1>22. ASSUME NEW t \in {"loop", "job"}, ToolAsks(t) PROVE RequestInv'
    <2>1. Quiet => Quiet'
      BY <1>22, SilentStaysQuiet DEF Silent, Writers
    <2>2. /\ UNCHANGED << stdin, call, listing >> /\ (task = "none" => task' = "none")
          /\ loop' \in {"tool", "awaiting"} => loop' = loop /\ serving' = serving
          /\ loop' # loop => loop' \in {"getline", "ended"}
          /\ ~operating => ~operating'
      BY <1>22 DEF ToolAsks, ToolStep, Handler, Becomes, loopVars, serverVars, toolVars, wireVars, clientVars
    <2>3. Fresh => Fresh'
      BY <2>1, <2>2 DEF Fresh
    <2> QED
      BY <2>1, <2>2, <2>3, RequestKept
  <1>23. ASSUME NEW t \in {"loop", "job"}, AskTimesOut(t) PROVE RequestInv'
    <2>1. Quiet => Quiet'
      BY <1>23, SilentStaysQuiet DEF Silent, Writers
    <2>2. /\ UNCHANGED << stdin, call, listing >> /\ (task = "none" => task' = "none")
          /\ loop' \in {"tool", "awaiting"} => loop' = loop /\ serving' = serving
          /\ loop' # loop => loop' \in {"getline", "ended"}
          /\ ~operating => ~operating'
      BY <1>23 DEF AskTimesOut, ToolStep, Becomes, loopVars, serverVars, toolVars, wireVars, clientVars
    <2>3. Fresh => Fresh'
      BY <2>1, <2>2 DEF Fresh
    <2> QED
      BY <2>1, <2>2, <2>3, RequestKept
  <1>24. ASSUME NEW t \in {"loop", "job"}, ToolEdits(t) PROVE RequestInv'
    <2>1. Quiet => Quiet'
      BY <1>24, SilentStaysQuiet DEF Silent, Writers
    <2>2. /\ UNCHANGED << stdin, call, listing >> /\ (task = "none" => task' = "none")
          /\ loop' \in {"tool", "awaiting"} => loop' = loop /\ serving' = serving
          /\ loop' # loop => loop' \in {"getline", "ended"}
          /\ ~operating => ~operating'
      BY <1>24 DEF ToolEdits, Handler, Becomes, loopVars, serverVars, toolVars, wireVars, clientVars
    <2>3. Fresh => Fresh'
      BY <2>1, <2>2 DEF Fresh
    <2> QED
      BY <2>1, <2>2, <2>3, RequestKept
  <1>25. ASSUME NEW t \in Writers, WriteText(t) PROVE RequestInv'
    <2>1. Quiet => Quiet'
      BY <1>25, SilentStaysQuiet DEF Silent, Writers
    <2>2. /\ UNCHANGED << stdin, call, listing >> /\ (task = "none" => task' = "none")
          /\ loop' \in {"tool", "awaiting"} => loop' = loop /\ serving' = serving
          /\ loop' # loop => loop' \in {"getline", "ended"}
          /\ ~operating => ~operating'
      BY <1>25 DEF WriteText, loopVars, serverVars, toolVars, wireVars, clientVars
    <2>3. Fresh => Fresh'
      BY <2>1, <2>2 DEF Fresh
    <2> QED
      BY <2>1, <2>2, <2>3, RequestKept
  <1>26. ASSUME NEW t \in Writers, WriteNewline(t) PROVE RequestInv'
    <2>1. Quiet => Quiet'
      BY <1>26, SilentStaysQuiet DEF Silent, Writers
    <2>2. /\ UNCHANGED << stdin, call, listing >> /\ (task = "none" => task' = "none")
          /\ loop' \in {"tool", "awaiting"} => loop' = loop /\ serving' = serving
          /\ loop' # loop => loop' \in {"getline", "ended"}
          /\ ~operating => ~operating'
      BY <1>26 DEF WriteNewline, loopVars, serverVars, toolVars, wireVars, clientVars
    <2>3. Fresh => Fresh'
      BY <2>1, <2>2 DEF Fresh
    <2> QED
      BY <2>1, <2>2, <2>3, RequestKept
  <1>27. ASSUME NEW t \in Writers, NEW S \in SUBSET Endpoints, NotifyListChanged(t, S) PROVE RequestInv'
    <2>1. Quiet => Quiet'
      BY <1>27, SilentStaysQuiet DEF Silent, Writers
    <2>2. /\ UNCHANGED << stdin, call, listing >> /\ (task = "none" => task' = "none")
          /\ loop' \in {"tool", "awaiting"} => loop' = loop /\ serving' = serving
          /\ loop' # loop => loop' \in {"getline", "ended"}
          /\ ~operating => ~operating'
      BY <1>27 DEF NotifyListChanged, loopVars, serverVars, toolVars, wireVars, clientVars
    <2>3. Fresh => Fresh'
      BY <2>1, <2>2 DEF Fresh
    <2> QED
      BY <2>1, <2>2, <2>3, RequestKept
  <1>28. ASSUME ClientReads PROVE RequestInv'
    <2>1. UNCHANGED << loop, serving, operating, task >>
      BY <1>28 DEF ClientReads, loopVars, serverVars, toolVars
    <2>2. CASE UNCHANGED << call, listing, stdin >> /\ Flying' \subseteq Flying
      BY <2>1, <2>2, StaysAsQuiet, RequestKept DEF Fresh
    <2>3. ASSUME UNCHANGED << call, listing >>, Flying' \subseteq Flying, NEW l, stdin' = Append(stdin, l), l.kind = "response"
          PROVE  RequestInv'
      BY <2>1, <2>3, StaysAsQuiet, OtherWritten
    <2>4. CASE Quiet' /\ ~Quiet /\ call' = NoCall /\ stdin' = stdin
      BY <2>1, <2>4 DEF RequestInv, Fresh
    <2> QED
      BY <1>28, <2>2, <2>3, <2>4, LineRead
  <1>29. ASSUME NEW m \in DOMAIN ListMethods, AsksPage(m) PROVE RequestInv'
    <2>1. UNCHANGED << out, mid, partial, stdout, torn, loop, serving, operating, task >>
      BY <1>29 DEF AsksPage, ClientStep, loopVars, serverVars, toolVars, wireVars
    <2>2. Flying' = Flying /\ (Quiet => Quiet')
      BY <2>1, SameWire, StaysAsQuiet
    <2>3. CASE listing' = listing /\ Requests([method |-> m, cursor |-> listing.next])
      <3>1. ~AsksTask([method |-> m, cursor |-> listing.next])
        BY DEF AsksTask, ListMethods
      <3> QED
        BY <2>1, <2>2, <2>3, <3>1, RequestAsked
    <2>4. CASE listing' = [listing EXCEPT !.state = "failed"] /\ UNCHANGED << call, stdin >>
      <3>1. Fresh => Fresh'
        BY <2>1, <2>2, <2>4 DEF Fresh, ListingInv
      <3> QED
        BY <2>1, <2>2, <2>4, <3>1, RequestKept
    <2> QED
      BY <1>29, <2>3, <2>4 DEF AsksPage
  <1>30. ASSUME ClientLists PROVE RequestInv'
    <2>1. UNCHANGED << out, mid, partial, stdout, torn, loop, serving, operating, task, stdin, call >>
      BY <1>30 DEF ClientLists, ClientStep, loopVars, serverVars, toolVars, wireVars
    <2>2. Quiet => Quiet'
      BY <2>1, SameWire, StaysAsQuiet
    <2>3. Fresh => Fresh'
      BY <1>30, <2>1, <2>2 DEF Fresh, ClientLists
    <2> QED
      BY <2>1, <2>2, <2>3, RequestKept
  <1>31. ASSUME ClientCalls PROVE RequestInv'
    <2>1. UNCHANGED << out, mid, partial, stdout, torn, loop, serving, operating, task, listing >>
      BY <1>31 DEF ClientCalls, ClientStep, loopVars, serverVars, toolVars, wireVars
    <2>2. Flying' = Flying
      BY <2>1, SameWire
    <2>3. PICK r : Requests(r) /\ (AsksTask(r) => task = "none")
      BY <1>31 DEF ClientCalls, AsksTask
    <2> QED
      BY <2>1, <2>2, <2>3, RequestAsked
  <1>32. ASSUME ClientWritesJunk PROVE RequestInv'
    <2>1. UNCHANGED << out, mid, partial, stdout, torn, loop, serving, operating, task, listing, call >>
      BY <1>32 DEF ClientWritesJunk, ClientStep, loopVars, serverVars, toolVars, wireVars, clientVars
    <2>2. Quiet => Quiet'
      BY <2>1, SameWire, StaysAsQuiet
    <2>3. PICK l : stdin' = Append(stdin, l) /\ l.kind \notin {"request", "initialized"}
      BY <1>32 DEF ClientWritesJunk, Line
    <2> QED
      BY <2>1, <2>2, <2>3, OtherWritten
  <1>33. ASSUME UNCHANGED vars PROVE RequestInv'
    <2>1. UNCHANGED << out, mid, partial, stdout, torn, loop, serving, operating, task, listing, call, stdin >>
      BY <1>33 DEF vars, loopVars, serverVars, toolVars, wireVars, clientVars
    <2>2. Quiet => Quiet'
      BY <2>1, SameWire, StaysAsQuiet
    <2> QED
      BY <2>1, <2>2, RequestKept DEF Fresh
  <1> QED
    BY <1>1, <1>2, <1>3, <1>4, <1>5, <1>6, <1>7, <1>8, <1>9, <1>10, <1>11, <1>12, <1>13,
       <1>14, <1>15, <1>16, <1>17, <1>18, <1>19, <1>20, <1>21, <1>22, <1>23, <1>24, <1>25, <1>26,
       <1>27, <1>28, <1>29, <1>30, <1>31, <1>32, <1>33, NextCases

\* Only a tool or a task holds the loop.
LEMMA NextServing ==
  ASSUME ThreadInv, WireOK, Single, RequestInv, ServingInv, [Next]_vars
  PROVE  ServingInv'
  <1> USE DEF ServingInv, loopVars, clientVars
  <1>1. ASSUME LoopChecks PROVE ServingInv'
    BY <1>1 DEF LoopChecks
  <1>2. ASSUME LoopReadsJunk PROVE ServingInv'
    BY <1>2 DEF LoopReadsJunk
  <1>3. ASSUME LoopReadsEnd PROVE ServingInv'
    BY <1>3 DEF LoopReadsEnd
  <1>4. ASSUME LoopReadsInitialized PROVE ServingInv'
    BY <1>4 DEF LoopReadsInitialized
  <1>5. ASSUME LoopReadsResponse PROVE ServingInv'
    BY <1>5 DEF LoopReadsResponse
  <1>6. ASSUME LoopRefuses PROVE ServingInv'
    BY <1>6 DEF LoopRefuses, Answers
  <1>7. ASSUME NEW m \in DOMAIN ListMethods, HandleList(m) PROVE ServingInv'
    BY <1>7 DEF HandleList, Answers
  <1>8. ASSUME HandlePlain PROVE ServingInv'
    BY <1>8 DEF HandlePlain, Answers
  <1>9. ASSUME HandleSetLevel PROVE ServingInv'
    BY <1>9 DEF HandleSetLevel, Answers
  <1>10. ASSUME HandleSubscribe PROVE ServingInv'
    BY <1>10 DEF HandleSubscribe, Answers
  <1>11. ASSUME HandleUnsubscribe PROVE ServingInv'
    BY <1>11 DEF HandleUnsubscribe, Answers
  <1>12. ASSUME HandleToolsCall PROVE ServingInv'
    BY <1>12, RequestRead DEF HandleToolsCall
  <1>13. ASSUME HandleTasksCancel PROVE ServingInv'
    BY <1>13 DEF HandleTasksCancel
  <1>14. ASSUME HandleTasksResult PROVE ServingInv'
    BY <1>14, RequestRead DEF HandleTasksResult
  <1>15. ASSUME ToolReturns PROVE ServingInv'
    BY <1>15 DEF ToolReturns, ToolDone, Answers, Idle
  <1>16. ASSUME TaskResultReady PROVE ServingInv'
    BY <1>16 DEF TaskResultReady, Answers
  <1>17. ASSUME TaskReturns PROVE ServingInv'
    BY <1>17 DEF TaskReturns, ToolDone, Idle
  <1>18. ASSUME RunnerStops PROVE ServingInv'
    BY <1>18 DEF RunnerStops
  <1>19. ASSUME AppEdits PROVE ServingInv'
    BY <1>19 DEF AppEdits, AppStep
  <1>20. ASSUME AppUpdates PROVE ServingInv'
    BY <1>20 DEF AppUpdates, AppStep
  <1>21. ASSUME AppLogs PROVE ServingInv'
    BY <1>21 DEF AppLogs, AppStep
  <1>22. ASSUME NEW t \in {"loop", "job"}, ToolAsks(t) PROVE ServingInv'
    BY <1>22 DEF ToolAsks, ToolStep, Handler, Becomes
  <1>23. ASSUME NEW t \in {"loop", "job"}, AskTimesOut(t) PROVE ServingInv'
    BY <1>23 DEF AskTimesOut, ToolStep, Becomes
  <1>24. ASSUME NEW t \in {"loop", "job"}, ToolEdits(t) PROVE ServingInv'
    BY <1>24 DEF ToolEdits, Handler, Becomes
  <1>25. ASSUME NEW t \in Writers, WriteText(t) PROVE ServingInv'
    BY <1>25 DEF WriteText
  <1>26. ASSUME NEW t \in Writers, WriteNewline(t) PROVE ServingInv'
    BY <1>26 DEF WriteNewline
  <1>27. ASSUME NEW t \in Writers, NEW S \in SUBSET Endpoints, NotifyListChanged(t, S) PROVE ServingInv'
    BY <1>27 DEF NotifyListChanged
  <1>28. ASSUME ClientReads PROVE ServingInv'
    <2>1. loop' = loop
      BY <1>28 DEF ClientReads
    <2>2. loop \in {"tool", "awaiting"} => Quiet
      BY DEF RequestInv
    <2> QED
      BY <1>28, <2>1, <2>2, LineRead
  <1>29. ASSUME NEW m \in DOMAIN ListMethods, AsksPage(m) PROVE ServingInv'
    <2>1. loop' = loop /\ (call' = call \/ call = NoCall)
      BY <1>29 DEF AsksPage, Requests, ClientStep
    <2> QED
      BY <2>1 DEF RequestInv
  <1>30. ASSUME ClientLists PROVE ServingInv'
    BY <1>30 DEF ClientLists, ClientStep
  <1>31. ASSUME ClientCalls PROVE ServingInv'
    <2>1. loop' = loop /\ (call' = call \/ call = NoCall)
      BY <1>31 DEF ClientCalls, Requests, ClientStep
    <2> QED
      BY <2>1 DEF RequestInv
  <1>32. ASSUME ClientWritesJunk PROVE ServingInv'
    BY <1>32 DEF ClientWritesJunk, ClientStep
  <1>33. ASSUME UNCHANGED vars PROVE ServingInv'
    BY <1>33 DEF vars
  <1> QED
    BY <1>1, <1>2, <1>3, <1>4, <1>5, <1>6, <1>7, <1>8, <1>9, <1>10, <1>11, <1>12, <1>13,
       <1>14, <1>15, <1>16, <1>17, <1>18, <1>19, <1>20, <1>21, <1>22, <1>23, <1>24, <1>25, <1>26,
       <1>27, <1>28, <1>29, <1>30, <1>31, <1>32, <1>33, NextCases
-----------------------------------------------------------------------------
(* The registries and the subscriptions.                                   *)

\* One entry less.
LEMMA RemoveFacts ==
  ASSUME NEW s, IsSeq(s), NEW i \in DOMAIN s
  PROVE  /\ IsSeq(RemoveAt(s, i))
         /\ \A v : Contains(s, v) /\ v # s[i] => Contains(RemoveAt(s, i), v)
  <1>1. Len(s) \in Nat /\ i \in 1..Len(s) /\ s \in Seq(ToSet(s)) /\ \A j \in 1..Len(s) : s[j] \in ToSet(s)
    BY SeqFacts DEF IsSeq
  <1>2. PICK a : a = SubSeq(s, 1, i - 1)
    OBVIOUS
  <1>3. PICK b : b = SubSeq(s, i + 1, Len(s))
    OBVIOUS
  <1>4. /\ a \in Seq(ToSet(s)) /\ Len(a) = i - 1
        /\ \A j \in 1..(i - 1) : a[j] = s[j]
    <2>1. 1 \in Int /\ i - 1 \in Int /\ \A j \in 1..(i - 1) : s[j] \in ToSet(s)
      BY <1>1
    <2>2. /\ a \in Seq(ToSet(s)) /\ Len(a) = IF 1 <= i - 1 THEN i - 1 - 1 + 1 ELSE 0
          /\ \A j \in 1..(i - 1 - 1 + 1) : a[j] = s[1 + j - 1]
      BY ONLY <1>2, <2>1, SubSeqProperties
    <2> QED
      BY <1>1, <2>2
  <1>5. /\ b \in Seq(ToSet(s)) /\ Len(b) = Len(s) - i
        /\ \A j \in 1..(Len(s) - i) : b[j] = s[i + j]
    <2>1. i + 1 \in Int /\ Len(s) \in Int /\ \A j \in (i + 1)..Len(s) : s[j] \in ToSet(s)
      BY <1>1
    <2>2. /\ b \in Seq(ToSet(s)) /\ Len(b) = IF i + 1 <= Len(s) THEN Len(s) - (i + 1) + 1 ELSE 0
          /\ \A j \in 1..(Len(s) - (i + 1) + 1) : b[j] = s[i + 1 + j - 1]
      BY ONLY <1>3, <2>1, SubSeqProperties
    <2> QED
      BY <1>1, <2>2
  <1>6. PICK r : r = RemoveAt(s, i)
    OBVIOUS
  <1>7. r = a \o b
    BY <1>2, <1>3, <1>6 DEF RemoveAt
  <1>8. /\ r \in Seq(ToSet(s)) /\ Len(r) = Len(a) + Len(b)
        /\ \A j \in 1..(Len(a) + Len(b)) : r[j] = IF j <= Len(a) THEN a[j] ELSE b[j - Len(a)]
    BY <1>4, <1>5, <1>7, ConcatProperties
  <1>9. ASSUME NEW v, Contains(s, v), v # s[i] PROVE Contains(r, v)
    <2>1. PICK j \in 1..Len(s) : s[j] = v /\ j # i
      BY <1>9 DEF Contains
    <2>2. CASE j < i
      <3>1. j \in 1..(i - 1) /\ j <= Len(a) /\ j \in 1..(Len(a) + Len(b))
        BY <1>1, <1>4, <1>5, <2>1, <2>2
      <3>2. j \in 1..Len(r) /\ r[j] = a[j]
        BY <1>8, <3>1
      <3>3. a[j] = v
        BY <1>4, <2>1, <3>1
      <3> QED
        BY <3>2, <3>3 DEF Contains
    <2>3. CASE j > i
      <3>1. PICK k : k = j - 1
        OBVIOUS
      <3>2. k \in 1..Len(r) /\ ~(k <= Len(a)) /\ k - Len(a) = j - i /\ j - i \in 1..(Len(s) - i) /\ i + (j - i) = j
        <4>1. /\ Len(a) = i - 1 /\ Len(b) = Len(s) - i /\ Len(r) = Len(a) + Len(b)
              /\ Len(s) \in Nat /\ i \in 1..Len(s) /\ j \in 1..Len(s)
          BY <1>1, <1>4, <1>5, <1>8
        <4>2. PICK n : n = Len(s)
          OBVIOUS
        <4>3. n \in Nat /\ i \in Nat /\ j \in Nat /\ 1 <= i /\ i < j /\ j <= n /\ k = j - 1
          BY <2>3, <3>1, <4>1, <4>2
        <4>4. Len(a) = i - 1 /\ Len(r) = n - 1
          <5>1. Len(a) = i - 1 /\ Len(b) = n - i /\ Len(r) = Len(a) + Len(b)
            BY <4>1, <4>2
          <5>2. Len(r) = (i - 1) + (n - i)
            BY <5>1
          <5>3. (i - 1) + (n - i) = n - 1
            BY ONLY <4>3
          <5> QED
            BY <5>1, <5>2, <5>3
        <4>5. k \in 1..(n - 1) /\ ~(k <= i - 1) /\ k - (i - 1) = j - i /\ j - i \in 1..(n - i) /\ i + (j - i) = j
          BY ONLY <4>3
        <4> QED
          BY <4>2, <4>4, <4>5
      <3>3. k \in 1..(Len(a) + Len(b)) /\ r[k] = b[j - i]
        BY <1>8, <3>2
      <3>4. b[j - i] = s[j]
        BY <1>5, <3>2
      <3> QED
        BY <2>1, <3>2, <3>3, <3>4 DEF Contains
    <2> QED
      BY <1>1, <2>1, <2>2, <2>3
  <1>10. IsSeq(r)
    BY <1>8, SeqOfElements
  <1> QED
    BY <1>6, <1>9, <1>10

\* One entry more.
LEMMA AddFacts ==
  ASSUME NEW s, IsSeq(s), NEW f
  PROVE  IsSeq(Append(s, f)) /\ \A v : Contains(s, v) \/ v = f => Contains(Append(s, f), v)
  <1>1. PICK r : r = Append(s, f)
    OBVIOUS
  <1>2. /\ IsSeq(r) /\ Len(r) = Len(s) + 1 /\ Len(s) \in Nat
        /\ \A i \in 1..Len(s) : r[i] = s[i]
        /\ r[Len(s) + 1] = f
    BY <1>1, AppendFacts, SeqFacts
  <1>3. \A i \in 1..Len(s) : i \in 1..Len(r)
    BY <1>2
  <1>4. Len(s) + 1 \in 1..Len(r)
    BY <1>2
  <1> QED
    BY <1>1, <1>2, <1>3, <1>4 DEF Contains

\* What an edit leaves, of the registry and of the subscriptions.
Leaves(e) ==
    /\ RegistryOK'
    /\ \A d \in Endpoints : d # e => registry'[d] = registry[d]
    /\ subscriptions' \subseteq subscriptions /\ subscriptions \cup dropped \subseteq subscriptions' \cup dropped'
    /\ \A uri \in subscriptions' : Contains(registry["resources"], uri) => Contains(registry'["resources"], uri)

\* A registration.
LEMMA RegistersLeaves ==
  ASSUME RegistryOK, NEW t \in Writers, NEW e \in Endpoints, NEW item, Registers(t, e, item)
  PROVE  edited' = [edited EXCEPT ![t] = e] /\ Leaves(e)
  <1>1. DOMAIN registry = Endpoints /\ registry' = [registry EXCEPT ![e] = Append(registry[e], item)]
        /\ UNCHANGED << subscriptions, dropped >>
    BY DEF RegistryOK, Registers
  <1>2. IsSeq(Append(registry[e], item)) /\ \A v : Contains(registry[e], v) => Contains(Append(registry[e], item), v)
    BY AddFacts DEF RegistryOK
  <1>3. DOMAIN registry' = Endpoints /\ registry'[e] = Append(registry[e], item)
        /\ \A d \in Endpoints : d # e => registry'[d] = registry[d]
    BY <1>1
  <1>4. RegistryOK'
    BY <1>2, <1>3 DEF RegistryOK
  <1>5. \A v : Contains(registry["resources"], v) => Contains(registry'["resources"], v)
    BY <1>2, <1>3 DEF Endpoints
  <1> QED
    BY <1>1, <1>3, <1>4, <1>5 DEF Leaves, Registers

\* An erasure.
LEMMA ErasesLeaves ==
  ASSUME RegistryOK, NEW t \in Writers, NEW e \in Endpoints, NEW item, Erases(t, e, item),
         \/ e # "resources" /\ UNCHANGED << subscriptions, dropped >>
         \/ subscriptions' = subscriptions \ {item} /\ dropped' = dropped \cup {item}
  PROVE  edited' = [edited EXCEPT ![t] = e] /\ Leaves(e)
  <1>1. PICK i \in DOMAIN registry[e] : registry[e][i] = item /\ registry' = [registry EXCEPT ![e] = RemoveAt(registry[e], i)]
    BY DEF Erases
  <1>2. /\ IsSeq(RemoveAt(registry[e], i))
        /\ \A v : Contains(registry[e], v) /\ v # item => Contains(RemoveAt(registry[e], i), v)
    BY <1>1, RemoveFacts DEF RegistryOK
  <1>3. DOMAIN registry' = Endpoints /\ registry'[e] = RemoveAt(registry[e], i)
        /\ \A d \in Endpoints : d # e => registry'[d] = registry[d]
    BY <1>1 DEF RegistryOK
  <1>4. RegistryOK'
    BY <1>2, <1>3 DEF RegistryOK
  <1>5. \A uri \in subscriptions' : Contains(registry["resources"], uri) => Contains(registry'["resources"], uri)
    BY <1>2, <1>3 DEF Endpoints
  <1> QED
    BY <1>3, <1>4, <1>5 DEF Leaves, Erases

\* An edit, whichever it is.
LEMMA EditLeaves ==
  ASSUME RegistryOK, NEW t \in Writers, Edit(t)
  PROVE  \E e \in Endpoints : edited' = [edited EXCEPT ![t] = e] /\ Leaves(e)
  <1> DEFINE Goal == \E e \in Endpoints : edited' = [edited EXCEPT ![t] = e] /\ Leaves(e)
  <1>1. ASSUME NEW e \in Endpoints, NEW item, Registers(t, e, item) PROVE Goal
    BY <1>1, RegistersLeaves
  <1>2. ASSUME NEW e \in Endpoints, e # "resources", NEW item, Unregisters(t, e, item) PROVE Goal
    BY <1>2, ErasesLeaves DEF Unregisters
  <1>3. ASSUME NEW item, UnregisterResource(t, item) PROVE Goal
    <2>1. "resources" \in Endpoints
      BY DEF Endpoints
    <2> QED
      BY <1>3, <2>1, ErasesLeaves DEF UnregisterResource
  <1>4. \/ \E e \in Endpoints : \E item : Registers(t, e, item) \/ (e # "resources" /\ Unregisters(t, e, item))
        \/ \E item : UnregisterResource(t, item)
    BY DEF Edit, RegisterTool, UnregisterTool, RegisterResource, RegisterResourceTemplate,
           UnregisterResourceTemplate, RegisterPrompt, UnregisterPrompt, Endpoints
  <1> QED
    BY <1>1, <1>2, <1>3, <1>4

\* Only edits touch the registries.
LEMMA RegistryKept ==
  ASSUME [Next]_vars, ~AppEdits, \A t \in {"loop", "job"} : ~ToolEdits(t)
  PROVE  registry' = registry
  <1> USE DEF serverVars, clientVars
  <1>1. ASSUME LoopChecks PROVE registry' = registry
    BY <1>1 DEF LoopChecks
  <1>2. ASSUME LoopReadsJunk PROVE registry' = registry
    BY <1>2 DEF LoopReadsJunk, Reads
  <1>3. ASSUME LoopReadsEnd PROVE registry' = registry
    BY <1>3 DEF LoopReadsEnd, Reads
  <1>4. ASSUME LoopReadsInitialized PROVE registry' = registry
    BY <1>4 DEF LoopReadsInitialized, Reads
  <1>5. ASSUME LoopReadsResponse PROVE registry' = registry
    BY <1>5 DEF LoopReadsResponse, Reads
  <1>6. ASSUME LoopRefuses PROVE registry' = registry
    BY <1>6 DEF LoopRefuses, ReadsRequest, Reads, Answers
  <1>7. ASSUME NEW m \in DOMAIN ListMethods, HandleList(m) PROVE registry' = registry
    BY <1>7 DEF HandleList, ReadsRequest, Reads, Answers
  <1>8. ASSUME HandlePlain PROVE registry' = registry
    BY <1>8 DEF HandlePlain, ReadsRequest, Reads, Answers
  <1>9. ASSUME HandleSetLevel PROVE registry' = registry
    BY <1>9 DEF HandleSetLevel, ReadsRequest, Reads, Answers
  <1>10. ASSUME HandleSubscribe PROVE registry' = registry
    BY <1>10 DEF HandleSubscribe, ReadsRequest, Reads, Answers
  <1>11. ASSUME HandleUnsubscribe PROVE registry' = registry
    BY <1>11 DEF HandleUnsubscribe, ReadsRequest, Reads, Answers
  <1>12. ASSUME HandleToolsCall PROVE registry' = registry
    BY <1>12 DEF HandleToolsCall, ReadsRequest, Reads, Answers, Running
  <1>13. ASSUME HandleTasksCancel PROVE registry' = registry
    BY <1>13 DEF HandleTasksCancel, ReadsRequest, Reads
  <1>14. ASSUME HandleTasksResult PROVE registry' = registry
    BY <1>14 DEF HandleTasksResult, ReadsRequest, Reads, Answers
  <1>15. ASSUME ToolReturns PROVE registry' = registry
    BY <1>15 DEF ToolReturns, ToolDone, Answers, Idle
  <1>16. ASSUME TaskResultReady PROVE registry' = registry
    BY <1>16 DEF TaskResultReady, Answers
  <1>17. ASSUME TaskReturns PROVE registry' = registry
    BY <1>17 DEF TaskReturns, ToolDone, Idle
  <1>18. ASSUME RunnerStops PROVE registry' = registry
    BY <1>18 DEF RunnerStops
  <1>19. ASSUME AppEdits PROVE registry' = registry
    BY <1>19
  <1>20. ASSUME AppUpdates PROVE registry' = registry
    BY <1>20 DEF AppUpdates, AppStep
  <1>21. ASSUME AppLogs PROVE registry' = registry
    BY <1>21 DEF AppLogs, AppStep
  <1>22. ASSUME NEW t \in {"loop", "job"}, ToolAsks(t) PROVE registry' = registry
    BY <1>22 DEF ToolAsks, ToolStep, Handler, Becomes
  <1>23. ASSUME NEW t \in {"loop", "job"}, AskTimesOut(t) PROVE registry' = registry
    BY <1>23 DEF AskTimesOut, ToolStep, Becomes
  <1>24. ASSUME NEW t \in {"loop", "job"}, ToolEdits(t) PROVE registry' = registry
    BY <1>24
  <1>25. ASSUME NEW t \in Writers, WriteText(t) PROVE registry' = registry
    BY <1>25 DEF WriteText
  <1>26. ASSUME NEW t \in Writers, WriteNewline(t) PROVE registry' = registry
    BY <1>26 DEF WriteNewline
  <1>27. ASSUME NEW t \in Writers, NEW S \in SUBSET Endpoints, NotifyListChanged(t, S)
         PROVE  registry' = registry
    BY <1>27 DEF NotifyListChanged
  <1>28. ASSUME ClientReads PROVE registry' = registry
    BY <1>28 DEF ClientReads
  <1>29. ASSUME NEW m \in DOMAIN ListMethods, AsksPage(m) PROVE registry' = registry
    BY <1>29 DEF AsksPage, Requests, ClientStep
  <1>30. ASSUME ClientLists PROVE registry' = registry
    BY <1>30 DEF ClientLists, ClientStep
  <1>31. ASSUME ClientCalls PROVE registry' = registry
    BY <1>31 DEF ClientCalls, Requests, ClientStep
  <1>32. ASSUME ClientWritesJunk PROVE registry' = registry
    BY <1>32 DEF ClientWritesJunk, ClientStep
  <1>33. ASSUME UNCHANGED vars PROVE registry' = registry
    BY <1>33 DEF vars
  <1> QED
    BY <1>1, <1>2, <1>3, <1>4, <1>5, <1>6, <1>7, <1>8, <1>9, <1>10, <1>11, <1>12, <1>13,
       <1>14, <1>15, <1>16, <1>17, <1>18, <1>19, <1>20, <1>21, <1>22, <1>23, <1>24, <1>25, <1>26,
       <1>27, <1>28, <1>29, <1>30, <1>31, <1>32, <1>33, NextCases

\* An edit of the application or of a tool.
LEMMA EditSteps ==
  ASSUME ThreadInv, AppEdits \/ \E t \in {"loop", "job"} : ToolEdits(t)
  PROVE  /\ \E t \in Writers : Edit(t) /\ edited[t] = "none"
         /\ UNCHANGED << operating, stdin, wireVars, clientVars >>
  <1>1. ASSUME AppEdits
        PROVE  Edit("app") /\ edited["app"] = "none" /\ UNCHANGED << operating, stdin, wireVars, clientVars >>
    BY <1>1 DEF AppEdits, AppStep
  <1>2. ASSUME NEW t \in {"loop", "job"}, ToolEdits(t)
        PROVE  Edit(t) /\ run[t].stage = "running" /\ UNCHANGED << operating, stdin, wireVars, clientVars >>
    BY <1>2 DEF ToolEdits, Handler
  <1> QED
    BY <1>1, <1>2 DEF ThreadInv, Writers

\* The registries stay sequences.
LEMMA NextRegistry ==
  ASSUME RegistryOK, [Next]_vars
  PROVE  RegistryOK'
  <1>1. ASSUME AppEdits PROVE RegistryOK'
    BY <1>1, EditLeaves DEF AppEdits, Leaves, Writers
  <1>2. ASSUME NEW t \in {"loop", "job"}, ToolEdits(t) PROVE RegistryOK'
    BY <1>2, EditLeaves DEF ToolEdits, Leaves, Writers
  <1>3. ASSUME registry' = registry PROVE RegistryOK'
    BY <1>3 DEF RegistryOK
  <1> QED
    BY <1>1, <1>2, <1>3, RegistryKept

\* A step that leaves the subscriptions and the call alone, and sends no answer.
LEMMA SubscriptionKept ==
  ASSUME SubscriptionInv, UNCHANGED << registry, subscriptions, held, call, dropped >>, Carries
  PROVE  SubscriptionInv'
  <1>1. \A m : Calling(m)' <=> Calling(m)
    BY DEF Calling
  <1> QED
    BY <1>1 DEF SubscriptionInv, Carries

\* A step that answers, and leaves the rest alone.
LEMMA SubscriptionAnswered ==
  ASSUME SubscriptionInv, UNCHANGED << registry, held, call >>, \A f \in Flying' : IsAnswer(f) => Fair(f),
         \A uri \in subscriptions' : Contains(registry["resources"], uri),
         held \subseteq subscriptions' \cup dropped'
  PROVE  SubscriptionInv'
  <1>1. \A m : Calling(m)' <=> Calling(m)
    BY DEF Calling
  <1>2. \A f : f.answer = Result => f.answer.class = "result"
    BY DEF Result, Answer
  <1> QED
    BY <1>1, <1>2 DEF SubscriptionInv, Fair

\* The subscriptions of the two ends agree after every step.
LEMMA NextSubscription ==
  ASSUME ThreadInv, WireOK, Single, RequestInv, ServingInv, RegistryOK, SubscriptionInv, [Next]_vars
  PROVE  SubscriptionInv'
  <1>1. ASSUME LoopChecks PROVE SubscriptionInv'
    <2>1. UNCHANGED << registry, subscriptions, held, call, dropped >>
      BY <1>1 DEF LoopChecks, loopVars, serverVars, toolVars, clientVars
    <2>2. Carries
      BY <1>1, SilentWire DEF Silent
    <2> QED
      BY <2>1, <2>2, SubscriptionKept
  <1>2. ASSUME LoopReadsJunk PROVE SubscriptionInv'
    <2>1. UNCHANGED << registry, subscriptions, held, call, dropped >>
      BY <1>2 DEF LoopReadsJunk, Reads, loopVars, serverVars, toolVars, clientVars
    <2>2. Carries
      BY <1>2, SilentWire DEF Silent
    <2> QED
      BY <2>1, <2>2, SubscriptionKept
  <1>3. ASSUME LoopReadsEnd PROVE SubscriptionInv'
    <2>1. UNCHANGED << registry, subscriptions, held, call, dropped >>
      BY <1>3 DEF LoopReadsEnd, Reads, loopVars, serverVars, toolVars, clientVars
    <2>2. Carries
      BY <1>3, SilentWire DEF Silent
    <2> QED
      BY <2>1, <2>2, SubscriptionKept
  <1>4. ASSUME LoopReadsInitialized PROVE SubscriptionInv'
    <2>1. UNCHANGED << registry, subscriptions, held, call, dropped >>
      BY <1>4 DEF LoopReadsInitialized, Reads, loopVars, serverVars, toolVars, clientVars
    <2>2. Carries
      BY <1>4, SilentWire DEF Silent
    <2> QED
      BY <2>1, <2>2, SubscriptionKept
  <1>5. ASSUME LoopReadsResponse PROVE SubscriptionInv'
    <2>1. UNCHANGED << registry, subscriptions, held, call, dropped >>
      BY <1>5 DEF LoopReadsResponse, Reads, loopVars, serverVars, toolVars, clientVars
    <2>2. Carries
      BY <1>5, SilentWire DEF Silent
    <2> QED
      BY <2>1, <2>2, SubscriptionKept
  <1>6. ASSUME LoopRefuses PROVE SubscriptionInv'
    <2>1. UNCHANGED << registry, subscriptions, held, call, dropped >>
      BY <1>6 DEF LoopRefuses, ReadsRequest, Reads, Answers, loopVars, serverVars, toolVars, clientVars
    <2>2. \A f \in Flying' : IsAnswer(f) => Fair(f)
      BY <1>6, AnsweringWire DEF Answering
    <2> QED
      BY <2>1, <2>2, SubscriptionAnswered DEF SubscriptionInv
  <1>7. ASSUME NEW m \in DOMAIN ListMethods, HandleList(m) PROVE SubscriptionInv'
    <2>1. UNCHANGED << registry, subscriptions, held, call, dropped >>
      BY <1>7 DEF HandleList, ReadsRequest, Reads, Answers, loopVars, serverVars, toolVars, clientVars
    <2>2. \A f \in Flying' : IsAnswer(f) => Fair(f)
      BY <1>7, AnsweringWire DEF Answering
    <2> QED
      BY <2>1, <2>2, SubscriptionAnswered DEF SubscriptionInv
  <1>8. ASSUME HandlePlain PROVE SubscriptionInv'
    <2>1. UNCHANGED << registry, subscriptions, held, call, dropped >>
      BY <1>8 DEF HandlePlain, ReadsRequest, Reads, Answers, loopVars, serverVars, toolVars, clientVars
    <2>2. \A f \in Flying' : IsAnswer(f) => Fair(f)
      BY <1>8, AnsweringWire DEF Answering
    <2> QED
      BY <2>1, <2>2, SubscriptionAnswered DEF SubscriptionInv
  <1>9. ASSUME HandleSetLevel PROVE SubscriptionInv'
    <2>1. UNCHANGED << registry, subscriptions, held, call, dropped >>
      BY <1>9 DEF HandleSetLevel, ReadsRequest, Reads, Answers, loopVars, serverVars, toolVars, clientVars
    <2>2. \A f \in Flying' : IsAnswer(f) => Fair(f)
      BY <1>9, AnsweringWire DEF Answering
    <2> QED
      BY <2>1, <2>2, SubscriptionAnswered DEF SubscriptionInv
  <1>10. ASSUME HandleSubscribe PROVE SubscriptionInv'
    <2>1. UNCHANGED << registry, held, call >> /\ serving' = call
      BY <1>10, RequestRead DEF HandleSubscribe
    <2>2. \A f \in Flying' : IsAnswer(f) => Fair(f)
      BY <1>10, AnsweringWire DEF Answering
    <2>3. \/ UNCHANGED << subscriptions, dropped >>
          \/ /\ subscriptions' = subscriptions \cup {call.request.name} /\ dropped' = dropped \ {call.request.name}
             /\ Contains(registry["resources"], call.request.name)
      BY <1>10, <2>1 DEF HandleSubscribe
    <2>4. /\ \A uri \in subscriptions' : Contains(registry["resources"], uri)
          /\ held \subseteq subscriptions' \cup dropped'
      BY <2>3 DEF SubscriptionInv
    <2> QED
      BY <2>1, <2>2, <2>4, SubscriptionAnswered
  <1>11. ASSUME HandleUnsubscribe PROVE SubscriptionInv'
    <2>1. UNCHANGED << registry, held, call >> /\ serving' = call /\ Calling("resources/unsubscribe")
      BY <1>11, RequestRead DEF HandleUnsubscribe, Calling
    <2>2. \A f \in Flying' : IsAnswer(f) => Fair(f)
      BY <1>11, AnsweringWire DEF Answering
    <2>3. subscriptions' = subscriptions \ {call.request.name} /\ dropped' = dropped
      BY <1>11, <2>1 DEF HandleUnsubscribe
    <2>4. /\ \A uri \in subscriptions' : Contains(registry["resources"], uri)
          /\ held \subseteq subscriptions' \cup dropped'
      BY <2>1, <2>3 DEF SubscriptionInv
    <2> QED
      BY <2>1, <2>2, <2>4, SubscriptionAnswered
  <1>12. ASSUME HandleToolsCall PROVE SubscriptionInv'
    <2>1. UNCHANGED << registry, subscriptions, held, call, dropped >>
      BY <1>12 DEF HandleToolsCall, ReadsRequest, Reads, Answers, Running, loopVars, serverVars,
         toolVars, clientVars
    <2>2. \A f \in Flying' : IsAnswer(f) => Fair(f)
      BY <1>12, AnsweringWire DEF Answering
    <2> QED
      BY <2>1, <2>2, SubscriptionAnswered DEF SubscriptionInv
  <1>13. ASSUME HandleTasksCancel PROVE SubscriptionInv'
    <2>1. UNCHANGED << registry, subscriptions, held, call, dropped >>
      BY <1>13 DEF HandleTasksCancel, ReadsRequest, Reads, loopVars, serverVars, toolVars, clientVars
    <2>2. \A f \in Flying' : IsAnswer(f) => Fair(f)
      BY <1>13, AnsweringWire DEF Answering
    <2> QED
      BY <2>1, <2>2, SubscriptionAnswered DEF SubscriptionInv
  <1>14. ASSUME HandleTasksResult PROVE SubscriptionInv'
    <2>1. UNCHANGED << registry, subscriptions, held, call, dropped >>
      BY <1>14 DEF HandleTasksResult, ReadsRequest, Reads, Answers, loopVars, serverVars, toolVars, clientVars
    <2>2. \A f \in Flying' : IsAnswer(f) => Fair(f)
      BY <1>14, AnsweringWire DEF Answering
    <2> QED
      BY <2>1, <2>2, SubscriptionAnswered DEF SubscriptionInv
  <1>15. ASSUME ToolReturns PROVE SubscriptionInv'
    <2>1. UNCHANGED << registry, subscriptions, held, call, dropped >>
      BY <1>15 DEF ToolReturns, ToolDone, Answers, Idle, loopVars, serverVars, toolVars, clientVars
    <2>2. \A f \in Flying' : IsAnswer(f) => Fair(f)
      BY <1>15, AnsweringWire DEF Answering
    <2> QED
      BY <2>1, <2>2, SubscriptionAnswered DEF SubscriptionInv
  <1>16. ASSUME TaskResultReady PROVE SubscriptionInv'
    <2>1. UNCHANGED << registry, subscriptions, held, call, dropped >>
      BY <1>16 DEF TaskResultReady, Answers, loopVars, serverVars, toolVars, clientVars
    <2>2. \A f \in Flying' : IsAnswer(f) => Fair(f)
      BY <1>16, AnsweringWire DEF Answering
    <2> QED
      BY <2>1, <2>2, SubscriptionAnswered DEF SubscriptionInv
  <1>17. ASSUME TaskReturns PROVE SubscriptionInv'
    <2>1. UNCHANGED << registry, subscriptions, held, call, dropped >>
      BY <1>17 DEF TaskReturns, ToolDone, Idle, loopVars, serverVars, toolVars, clientVars
    <2>2. Carries
      BY <1>17, SilentWire DEF Silent
    <2> QED
      BY <2>1, <2>2, SubscriptionKept
  <1>18. ASSUME RunnerStops PROVE SubscriptionInv'
    <2>1. UNCHANGED << registry, subscriptions, held, call, dropped >>
      BY <1>18 DEF RunnerStops, loopVars, serverVars, toolVars, clientVars
    <2>2. Carries
      BY <1>18, SilentWire DEF Silent
    <2> QED
      BY <2>1, <2>2, SubscriptionKept
  <1>19. ASSUME AppEdits PROVE SubscriptionInv'
    <2>1. PICK u \in Writers : Edit(u) /\ UNCHANGED << operating, stdin, wireVars, clientVars >>
      BY <1>19, EditSteps
    <2>2. PICK e \in Endpoints : Leaves(e)
      BY <2>1, EditLeaves
    <2>3. Carries /\ UNCHANGED << call, held >>
      BY <2>1, SameCarries DEF wireVars, clientVars
    <2>4. \A m : Calling(m)' <=> Calling(m)
      BY <2>3 DEF Calling
    <2> QED
      BY <2>2, <2>3, <2>4 DEF SubscriptionInv, Leaves, Carries
  <1>20. ASSUME AppUpdates PROVE SubscriptionInv'
    <2>1. UNCHANGED << registry, subscriptions, held, call, dropped >>
      BY <1>20 DEF AppUpdates, AppStep, loopVars, serverVars, toolVars, clientVars
    <2>2. Carries
      BY <1>20, SilentWire DEF Silent
    <2> QED
      BY <2>1, <2>2, SubscriptionKept
  <1>21. ASSUME AppLogs PROVE SubscriptionInv'
    <2>1. UNCHANGED << registry, subscriptions, held, call, dropped >>
      BY <1>21 DEF AppLogs, AppStep, loopVars, serverVars, toolVars, clientVars
    <2>2. Carries
      BY <1>21, SilentWire DEF Silent
    <2> QED
      BY <2>1, <2>2, SubscriptionKept
  <1>22. ASSUME NEW t \in {"loop", "job"}, ToolAsks(t) PROVE SubscriptionInv'
    <2>1. UNCHANGED << registry, subscriptions, held, call, dropped >>
      BY <1>22 DEF ToolAsks, ToolStep, Handler, Becomes, loopVars, serverVars, toolVars, clientVars
    <2>2. Carries
      BY <1>22, SilentWire DEF Silent
    <2> QED
      BY <2>1, <2>2, SubscriptionKept
  <1>23. ASSUME NEW t \in {"loop", "job"}, AskTimesOut(t) PROVE SubscriptionInv'
    <2>1. UNCHANGED << registry, subscriptions, held, call, dropped >>
      BY <1>23 DEF AskTimesOut, ToolStep, Becomes, loopVars, serverVars, toolVars, clientVars
    <2>2. Carries
      BY <1>23, SilentWire DEF Silent
    <2> QED
      BY <2>1, <2>2, SubscriptionKept
  <1>24. ASSUME NEW t \in {"loop", "job"}, ToolEdits(t) PROVE SubscriptionInv'
    <2>1. PICK u \in Writers : Edit(u) /\ UNCHANGED << operating, stdin, wireVars, clientVars >>
      BY <1>24, EditSteps
    <2>2. PICK e \in Endpoints : Leaves(e)
      BY <2>1, EditLeaves
    <2>3. Carries /\ UNCHANGED << call, held >>
      BY <2>1, SameCarries DEF wireVars, clientVars
    <2>4. \A m : Calling(m)' <=> Calling(m)
      BY <2>3 DEF Calling
    <2> QED
      BY <2>2, <2>3, <2>4 DEF SubscriptionInv, Leaves, Carries
  <1>25. ASSUME NEW t \in Writers, WriteText(t) PROVE SubscriptionInv'
    <2>1. UNCHANGED << registry, subscriptions, held, call, dropped >>
      BY <1>25 DEF WriteText, loopVars, serverVars, toolVars, clientVars
    <2>2. Carries
      BY <1>25, SilentWire DEF Silent
    <2> QED
      BY <2>1, <2>2, SubscriptionKept
  <1>26. ASSUME NEW t \in Writers, WriteNewline(t) PROVE SubscriptionInv'
    <2>1. UNCHANGED << registry, subscriptions, held, call, dropped >>
      BY <1>26 DEF WriteNewline, loopVars, serverVars, toolVars, clientVars
    <2>2. Carries
      BY <1>26, SilentWire DEF Silent
    <2> QED
      BY <2>1, <2>2, SubscriptionKept
  <1>27. ASSUME NEW t \in Writers, NEW S \in SUBSET Endpoints, NotifyListChanged(t, S) PROVE SubscriptionInv'
    <2>1. UNCHANGED << registry, subscriptions, held, call, dropped >>
      BY <1>27 DEF NotifyListChanged, loopVars, serverVars, toolVars, clientVars
    <2>2. Carries
      BY <1>27, SilentWire DEF Silent
    <2> QED
      BY <2>1, <2>2, SubscriptionKept
  <1>28. ASSUME ClientReads PROVE SubscriptionInv'
    <2>1. UNCHANGED << registry, subscriptions, dropped >>
      BY <1>28 DEF ClientReads, serverVars
    <2>2. CASE UNCHANGED << call, held >> /\ Flying' \subseteq Flying
      <3>1. \A m : Calling(m)' <=> Calling(m)
        BY <2>2 DEF Calling
      <3> QED
        BY <2>1, <2>2, <3>1 DEF SubscriptionInv
    <2>3. ASSUME NEW f \in Flying, IsAnswer(f), call # NoCall, call' = NoCall, ReceivesAnswer(f)
          PROVE  SubscriptionInv'
      <3>1. held' = held \/ (held' = held \cup {call.request.name} /\ f.answer = Result /\ Calling("resources/subscribe"))
        BY <2>3 DEF ReceivesAnswer, Calling
      <3>2. \A m : ~Calling(m)'
        BY <2>3 DEF Calling
      <3> QED
        BY <2>1, <2>3, <3>1, <3>2 DEF SubscriptionInv
    <2> QED
      BY <1>28, <2>2, <2>3, LineRead
  <1>29. ASSUME NEW m \in DOMAIN ListMethods, AsksPage(m) PROVE SubscriptionInv'
    <2>1. UNCHANGED << registry, subscriptions, dropped >> /\ Carries
      BY <1>29, SilentWire DEF Silent, AsksPage, Requests, ClientStep, serverVars
    <2>2. call' = NoCall \/ call = NoCall \/ UNCHANGED << call, held >>
      BY <1>29 DEF AsksPage, Requests, ClientStep
    <2>3. CASE UNCHANGED << call, held >>
      BY <2>1, <2>3, SubscriptionKept
    <2>4. CASE ~UNCHANGED << call, held >>
      <3>1. Quiet'
        BY <2>1, <2>2, <2>4, <1>29 DEF RequestInv, Carries, Quiet, AsksPage, Requests, ClientStep
      <3>2. held' \subseteq held /\ (Calling("resources/unsubscribe")' => call'.request.name \notin held')
        BY <1>29, <2>4 DEF AsksPage, Requests, ClientStep, Calling, ListMethods
      <3> QED
        BY <2>1, <3>1, <3>2 DEF SubscriptionInv, Quiet
    <2> QED
      BY <2>3, <2>4
  <1>30. ASSUME ClientLists PROVE SubscriptionInv'
    <2>1. UNCHANGED << registry, subscriptions, held, call, dropped >>
      BY <1>30 DEF ClientLists, ClientStep, loopVars, serverVars, toolVars, clientVars
    <2>2. Carries
      BY <1>30, SilentWire DEF Silent
    <2> QED
      BY <2>1, <2>2, SubscriptionKept
  <1>31. ASSUME ClientCalls PROVE SubscriptionInv'
    <2>1. UNCHANGED << registry, subscriptions, dropped >> /\ Carries
      BY <1>31, SilentWire DEF Silent, ClientCalls, Requests, ClientStep, serverVars
    <2>2. call' = NoCall \/ call = NoCall \/ UNCHANGED << call, held >>
      BY <1>31 DEF ClientCalls, Requests, ClientStep
    <2>3. CASE UNCHANGED << call, held >>
      BY <2>1, <2>3, SubscriptionKept
    <2>4. CASE ~UNCHANGED << call, held >>
      <3>1. Quiet'
        BY <2>1, <2>2, <2>4, <1>31 DEF RequestInv, Carries, Quiet, ClientCalls, Requests, ClientStep
      <3>2. held' \subseteq held /\ (Calling("resources/unsubscribe")' => call'.request.name \notin held')
        BY <1>31, <2>4 DEF ClientCalls, Requests, ClientStep, Calling, ListMethods
      <3> QED
        BY <2>1, <3>1, <3>2 DEF SubscriptionInv, Quiet
    <2> QED
      BY <2>3, <2>4
  <1>32. ASSUME ClientWritesJunk PROVE SubscriptionInv'
    <2>1. UNCHANGED << registry, subscriptions, held, call, dropped >>
      BY <1>32 DEF ClientWritesJunk, ClientStep, loopVars, serverVars, toolVars, clientVars
    <2>2. Carries
      BY <1>32, SilentWire DEF Silent
    <2> QED
      BY <2>1, <2>2, SubscriptionKept
  <1>33. ASSUME UNCHANGED vars PROVE SubscriptionInv'
    <2>1. UNCHANGED << registry, subscriptions, held, call, dropped >>
      BY <1>33 DEF vars, loopVars, serverVars, toolVars, clientVars
    <2>2. Carries
      BY <1>33, SilentWire DEF Silent
    <2> QED
      BY <2>1, <2>2, SubscriptionKept
  <1> QED
    BY <1>1, <1>2, <1>3, <1>4, <1>5, <1>6, <1>7, <1>8, <1>9, <1>10, <1>11, <1>12, <1>13,
       <1>14, <1>15, <1>16, <1>17, <1>18, <1>19, <1>20, <1>21, <1>22, <1>23, <1>24, <1>25, <1>26,
       <1>27, <1>28, <1>29, <1>30, <1>31, <1>32, <1>33, NextCases
-----------------------------------------------------------------------------
(* The listing and what is announced.                                      *)

\* A step after which e is up to date in silence leaves the list of e alone.
Announces == \A e \in Endpoints : InSilence(e)' => InSilence(e) /\ registry'[e] = registry[e]

\* A step that loses no message and edits nothing.
LEMMA SilenceKept ==
  ASSUME registry' = registry, operating' => operating, torn => torn', heard \subseteq heard', edited' = edited,
         Flying \subseteq Flying'
  PROVE  Announces
  BY DEF Announces, InSilence, WillAnnounce

\* An edit will be announced.
LEMMA EditAnnounced ==
  ASSUME ThreadInv, RegistryOK, NEW t \in Writers, edited[t] = "none", Edit(t),
         UNCHANGED << operating, torn, heard >>, Flying' = Flying
  PROVE  Announces
  <1>1. PICK d \in Endpoints : edited' = [edited EXCEPT ![t] = d] /\ Leaves(d)
    BY EditLeaves
  <1>2. DOMAIN edited = Writers /\ d # "none"
    BY DEF ThreadInv, Endpoints
  <1>3. edited'[t] = d /\ \A u \in Writers : u # t => edited'[u] = edited[u]
    BY <1>1, <1>2
  <1>4. ASSUME NEW e \in Endpoints, InSilence(e)' PROVE InSilence(e) /\ registry'[e] = registry[e]
    <2>1. e # d
      BY <1>2, <1>3, <1>4 DEF InSilence, WillAnnounce
    <2>2. WillAnnounce(e) => WillAnnounce(e)'
      BY <1>3 DEF WillAnnounce
    <2> QED
      BY <1>1, <1>4, <2>1, <2>2 DEF InSilence, Leaves
  <1> QED
    BY <1>4 DEF Announces

\* The announcement is on its way when the edit is forgotten.
LEMMA ChangeAnnounced ==
  ASSUME ThreadInv, WireOK, Single, NEW t \in Writers, NEW S \in SUBSET Endpoints, NotifyListChanged(t, S)
  PROVE  Announces
  <1>1. /\ UNCHANGED << registry, operating, torn, heard, mid, partial, stdout >>
        /\ edited' = [edited EXCEPT ![t] = "none"]
    BY DEF NotifyListChanged, serverVars, clientVars
  <1>2. \A u \in Writers : u # t => edited'[u] = edited[u]
    BY <1>1 DEF ThreadInv
  <1>3. ASSUME NEW e \in Endpoints, InSilence(e)' PROVE InSilence(e)
    <2>1. operating /\ ~torn /\ ListChangedOf(e) \notin heard /\ ListChangedCapability(e) \in Capabilities /\ ~WillAnnounce(e)'
      BY <1>1, <1>3 DEF InSilence
    <2>2. Flying \subseteq Flying'
      BY SilentWire DEF Silent, Carries
    <2>3. ASSUME ListChangedOf(edited[t]) = ListChangedOf(e) PROVE FALSE
      <3>1. edited[t] \in Endpoints
        BY DEF NotifyListChanged
      <3>2. ListChangedCapability(edited[t]) = ListChangedCapability(e)
        BY <2>3, <3>1 DEF ListChangedOf, ListChangedCapability, Endpoints
      <3>3. PICK f : f = Note("listChanged", ListChangedOf(edited[t]))
        OBVIOUS
      <3>4. Send(t, << f >>)
        BY <2>1, <3>2, <3>3 DEF NotifyListChanged
      <3>5. f \in Flying'
        BY <1>1, <3>4, SendWire
      <3>6. f.kind = "listChanged" /\ f.about = ListChangedOf(e)
        BY <2>3, <3>3 DEF Note, Frame
      <3> QED
        BY <2>1, <3>5, <3>6 DEF WillAnnounce
    <2>4. ~WillAnnounce(e)
      BY <1>2, <2>1, <2>2, <2>3 DEF WillAnnounce
    <2> QED
      BY <2>1, <2>4 DEF InSilence
  <1> QED
    BY <1>1, <1>3 DEF Announces

\* The client hears what it reads, if the line is whole.
LEMMA ChangeHeard ==
  ASSUME WireOK, Single, ClientReads
  PROVE  Announces
  <1>1. /\ Flying = Flying' \cup ToSet(Head(stdout)) /\ IsSeq(Head(stdout)) /\ Head(stdout) # << >>
        /\ (Len(Head(stdout)) > 1 => torn)
    BY ReadWire DEF ClientReads
  <1>2. UNCHANGED << registry, operating, torn, edited >> /\ heard \subseteq heard'
    BY DEF ClientReads, serverVars, clientVars, Receives, ReceivesAnswer
  <1>3. ASSUME NEW e \in Endpoints, InSilence(e)', NEW f \in ToSet(Head(stdout)), f.kind = "listChanged", f.about = ListChangedOf(e)
        PROVE  FALSE
    <2>1. ~torn /\ ListChangedOf(e) \notin heard'
      BY <1>2, <1>3 DEF InSilence
    <2>2. PICK n : n = Len(Head(stdout))
      OBVIOUS
    <2>3. n \in Nat /\ n # 0 /\ ~(n > 1) /\ \E i \in 1..n : Head(stdout)[i] = f
      BY <1>1, <1>3, <2>1, <2>2, SeqFacts
    <2>4. n = 1 /\ Head(stdout)[1] = f
      BY <2>3
    <2>5. Receives(f)
      BY <2>2, <2>4 DEF ClientReads
    <2>6. heard' = heard \cup {f.about}
      BY <1>3, <2>5 DEF Receives
    <2> QED
      BY <1>3, <2>1, <2>6
  <1> QED
    BY <1>1, <1>2, <1>3 DEF Announces, InSilence, WillAnnounce

\* Every step announces, but for the beginning of a listing and of the operating phase.
LEMMA StepAnnounces ==
  ASSUME ThreadInv, WireOK, Single, RequestInv, ServingInv, RegistryOK, [Next]_vars, ~ClientLists,
         ~LoopReadsInitialized
  PROVE  Announces
  <1>1. ASSUME LoopChecks PROVE Announces
    <2>1. registry' = registry /\ (operating' => operating) /\ (torn => torn') /\ heard \subseteq heard' /\ edited' = edited
      BY <1>1 DEF LoopChecks, loopVars, serverVars, toolVars, wireVars, clientVars
    <2>2. Flying \subseteq Flying'
      BY <1>1, SilentWire DEF Silent, Carries
    <2> QED
      BY <2>1, <2>2, SilenceKept
  <1>2. ASSUME LoopReadsJunk PROVE Announces
    <2>1. registry' = registry /\ (operating' => operating) /\ (torn => torn') /\ heard \subseteq heard' /\ edited' = edited
      BY <1>2 DEF LoopReadsJunk, Reads, loopVars, serverVars, toolVars, wireVars, clientVars
    <2>2. Flying \subseteq Flying'
      BY <1>2, SilentWire DEF Silent, Carries
    <2> QED
      BY <2>1, <2>2, SilenceKept
  <1>3. ASSUME LoopReadsEnd PROVE Announces
    <2>1. registry' = registry /\ (operating' => operating) /\ (torn => torn') /\ heard \subseteq heard' /\ edited' = edited
      BY <1>3 DEF LoopReadsEnd, Reads, loopVars, serverVars, toolVars, wireVars, clientVars
    <2>2. Flying \subseteq Flying'
      BY <1>3, SilentWire DEF Silent, Carries
    <2> QED
      BY <2>1, <2>2, SilenceKept
  <1>4. ASSUME LoopReadsInitialized PROVE Announces
    BY <1>4
  <1>5. ASSUME LoopReadsResponse PROVE Announces
    <2>1. registry' = registry /\ (operating' => operating) /\ (torn => torn') /\ heard \subseteq heard' /\ edited' = edited
      BY <1>5 DEF LoopReadsResponse, Reads, loopVars, serverVars, toolVars, wireVars, clientVars
    <2>2. Flying \subseteq Flying'
      BY <1>5, SilentWire DEF Silent, Carries
    <2> QED
      BY <2>1, <2>2, SilenceKept
  <1>6. ASSUME LoopRefuses PROVE Announces
    <2>1. registry' = registry /\ (operating' => operating) /\ (torn => torn') /\ heard \subseteq heard' /\ edited' = edited
      BY <1>6 DEF LoopRefuses, ReadsRequest, Reads, Answers, loopVars, serverVars, toolVars, wireVars,
         clientVars
    <2>2. Flying \subseteq Flying'
      BY <1>6, AnsweringWire DEF Answering
    <2> QED
      BY <2>1, <2>2, SilenceKept
  <1>7. ASSUME NEW m \in DOMAIN ListMethods, HandleList(m) PROVE Announces
    <2>1. registry' = registry /\ (operating' => operating) /\ (torn => torn') /\ heard \subseteq heard' /\ edited' = edited
      BY <1>7 DEF HandleList, ReadsRequest, Reads, Answers, loopVars, serverVars, toolVars, wireVars, clientVars
    <2>2. Flying \subseteq Flying'
      BY <1>7, AnsweringWire DEF Answering
    <2> QED
      BY <2>1, <2>2, SilenceKept
  <1>8. ASSUME HandlePlain PROVE Announces
    <2>1. registry' = registry /\ (operating' => operating) /\ (torn => torn') /\ heard \subseteq heard' /\ edited' = edited
      BY <1>8 DEF HandlePlain, ReadsRequest, Reads, Answers, loopVars, serverVars, toolVars, wireVars,
         clientVars
    <2>2. Flying \subseteq Flying'
      BY <1>8, AnsweringWire DEF Answering
    <2> QED
      BY <2>1, <2>2, SilenceKept
  <1>9. ASSUME HandleSetLevel PROVE Announces
    <2>1. registry' = registry /\ (operating' => operating) /\ (torn => torn') /\ heard \subseteq heard' /\ edited' = edited
      BY <1>9 DEF HandleSetLevel, ReadsRequest, Reads, Answers, loopVars, serverVars, toolVars,
         wireVars, clientVars
    <2>2. Flying \subseteq Flying'
      BY <1>9, AnsweringWire DEF Answering
    <2> QED
      BY <2>1, <2>2, SilenceKept
  <1>10. ASSUME HandleSubscribe PROVE Announces
    <2>1. registry' = registry /\ (operating' => operating) /\ (torn => torn') /\ heard \subseteq heard' /\ edited' = edited
      BY <1>10 DEF HandleSubscribe, ReadsRequest, Reads, Answers, loopVars, serverVars, toolVars,
         wireVars, clientVars
    <2>2. Flying \subseteq Flying'
      BY <1>10, AnsweringWire DEF Answering
    <2> QED
      BY <2>1, <2>2, SilenceKept
  <1>11. ASSUME HandleUnsubscribe PROVE Announces
    <2>1. registry' = registry /\ (operating' => operating) /\ (torn => torn') /\ heard \subseteq heard' /\ edited' = edited
      BY <1>11 DEF HandleUnsubscribe, ReadsRequest, Reads, Answers, loopVars, serverVars, toolVars,
         wireVars, clientVars
    <2>2. Flying \subseteq Flying'
      BY <1>11, AnsweringWire DEF Answering
    <2> QED
      BY <2>1, <2>2, SilenceKept
  <1>12. ASSUME HandleToolsCall PROVE Announces
    <2>1. registry' = registry /\ (operating' => operating) /\ (torn => torn') /\ heard \subseteq heard' /\ edited' = edited
      BY <1>12 DEF HandleToolsCall, ReadsRequest, Reads, Answers, Running, loopVars, serverVars,
         toolVars, wireVars, clientVars
    <2>2. Flying \subseteq Flying'
      BY <1>12, AnsweringWire DEF Answering
    <2> QED
      BY <2>1, <2>2, SilenceKept
  <1>13. ASSUME HandleTasksCancel PROVE Announces
    <2>1. registry' = registry /\ (operating' => operating) /\ (torn => torn') /\ heard \subseteq heard' /\ edited' = edited
      BY <1>13 DEF HandleTasksCancel, ReadsRequest, Reads, loopVars, serverVars, toolVars, wireVars, clientVars
    <2>2. Flying \subseteq Flying'
      BY <1>13, AnsweringWire DEF Answering
    <2> QED
      BY <2>1, <2>2, SilenceKept
  <1>14. ASSUME HandleTasksResult PROVE Announces
    <2>1. registry' = registry /\ (operating' => operating) /\ (torn => torn') /\ heard \subseteq heard' /\ edited' = edited
      BY <1>14 DEF HandleTasksResult, ReadsRequest, Reads, Answers, loopVars, serverVars, toolVars,
         wireVars, clientVars
    <2>2. Flying \subseteq Flying'
      BY <1>14, AnsweringWire DEF Answering
    <2> QED
      BY <2>1, <2>2, SilenceKept
  <1>15. ASSUME ToolReturns PROVE Announces
    <2>1. registry' = registry /\ (operating' => operating) /\ (torn => torn') /\ heard \subseteq heard' /\ edited' = edited
      BY <1>15 DEF ToolReturns, ToolDone, Answers, Idle, loopVars, serverVars, toolVars, wireVars, clientVars
    <2>2. Flying \subseteq Flying'
      BY <1>15, AnsweringWire DEF Answering
    <2> QED
      BY <2>1, <2>2, SilenceKept
  <1>16. ASSUME TaskResultReady PROVE Announces
    <2>1. registry' = registry /\ (operating' => operating) /\ (torn => torn') /\ heard \subseteq heard' /\ edited' = edited
      BY <1>16 DEF TaskResultReady, Answers, loopVars, serverVars, toolVars, wireVars, clientVars
    <2>2. Flying \subseteq Flying'
      BY <1>16, AnsweringWire DEF Answering
    <2> QED
      BY <2>1, <2>2, SilenceKept
  <1>17. ASSUME TaskReturns PROVE Announces
    <2>1. registry' = registry /\ (operating' => operating) /\ (torn => torn') /\ heard \subseteq heard' /\ edited' = edited
      BY <1>17 DEF TaskReturns, ToolDone, Idle, loopVars, serverVars, toolVars, wireVars, clientVars
    <2>2. Flying \subseteq Flying'
      BY <1>17, SilentWire DEF Silent, Carries
    <2> QED
      BY <2>1, <2>2, SilenceKept
  <1>18. ASSUME RunnerStops PROVE Announces
    <2>1. registry' = registry /\ (operating' => operating) /\ (torn => torn') /\ heard \subseteq heard' /\ edited' = edited
      BY <1>18 DEF RunnerStops, loopVars, serverVars, toolVars, wireVars, clientVars
    <2>2. Flying \subseteq Flying'
      BY <1>18, SilentWire DEF Silent, Carries
    <2> QED
      BY <2>1, <2>2, SilenceKept
  <1>19. ASSUME AppEdits PROVE Announces
    <2>1. PICK u \in Writers : Edit(u) /\ edited[u] = "none"
      BY <1>19, EditSteps
    <2>2. UNCHANGED << operating, out, mid, partial, stdout, torn, heard >>
      BY <1>19, EditSteps DEF wireVars, clientVars
    <2>3. Flying' = Flying
      BY <2>2, SameWire
    <2> QED
      BY <2>1, <2>2, <2>3, EditAnnounced
  <1>20. ASSUME AppUpdates PROVE Announces
    <2>1. registry' = registry /\ (operating' => operating) /\ (torn => torn') /\ heard \subseteq heard' /\ edited' = edited
      BY <1>20 DEF AppUpdates, AppStep, loopVars, serverVars, toolVars, wireVars, clientVars
    <2>2. Flying \subseteq Flying'
      BY <1>20, SilentWire DEF Silent, Carries
    <2> QED
      BY <2>1, <2>2, SilenceKept
  <1>21. ASSUME AppLogs PROVE Announces
    <2>1. registry' = registry /\ (operating' => operating) /\ (torn => torn') /\ heard \subseteq heard' /\ edited' = edited
      BY <1>21 DEF AppLogs, AppStep, loopVars, serverVars, toolVars, wireVars, clientVars
    <2>2. Flying \subseteq Flying'
      BY <1>21, SilentWire DEF Silent, Carries
    <2> QED
      BY <2>1, <2>2, SilenceKept
  <1>22. ASSUME NEW t \in {"loop", "job"}, ToolAsks(t) PROVE Announces
    <2>1. registry' = registry /\ (operating' => operating) /\ (torn => torn') /\ heard \subseteq heard' /\ edited' = edited
      BY <1>22 DEF ToolAsks, ToolStep, Handler, Becomes, loopVars, serverVars, toolVars, wireVars, clientVars
    <2>2. Flying \subseteq Flying'
      BY <1>22, SilentWire DEF Silent, Carries
    <2> QED
      BY <2>1, <2>2, SilenceKept
  <1>23. ASSUME NEW t \in {"loop", "job"}, AskTimesOut(t) PROVE Announces
    <2>1. registry' = registry /\ (operating' => operating) /\ (torn => torn') /\ heard \subseteq heard' /\ edited' = edited
      BY <1>23 DEF AskTimesOut, ToolStep, Becomes, loopVars, serverVars, toolVars, wireVars, clientVars
    <2>2. Flying \subseteq Flying'
      BY <1>23, SilentWire DEF Silent, Carries
    <2> QED
      BY <2>1, <2>2, SilenceKept
  <1>24. ASSUME NEW t \in {"loop", "job"}, ToolEdits(t) PROVE Announces
    <2>1. PICK u \in Writers : Edit(u) /\ edited[u] = "none"
      BY <1>24, EditSteps
    <2>2. UNCHANGED << operating, out, mid, partial, stdout, torn, heard >>
      BY <1>24, EditSteps DEF wireVars, clientVars
    <2>3. Flying' = Flying
      BY <2>2, SameWire
    <2> QED
      BY <2>1, <2>2, <2>3, EditAnnounced
  <1>25. ASSUME NEW t \in Writers, WriteText(t) PROVE Announces
    <2>1. registry' = registry /\ (operating' => operating) /\ (torn => torn') /\ heard \subseteq heard' /\ edited' = edited
      BY <1>25 DEF WriteText, loopVars, serverVars, toolVars, wireVars, clientVars
    <2>2. Flying \subseteq Flying'
      BY <1>25, SilentWire DEF Silent, Carries
    <2> QED
      BY <2>1, <2>2, SilenceKept
  <1>26. ASSUME NEW t \in Writers, WriteNewline(t) PROVE Announces
    <2>1. registry' = registry /\ (operating' => operating) /\ (torn => torn') /\ heard \subseteq heard' /\ edited' = edited
      BY <1>26 DEF WriteNewline, loopVars, serverVars, toolVars, wireVars, clientVars
    <2>2. Flying \subseteq Flying'
      BY <1>26, SilentWire DEF Silent, Carries
    <2> QED
      BY <2>1, <2>2, SilenceKept
  <1>27. ASSUME NEW t \in Writers, NEW S \in SUBSET Endpoints, NotifyListChanged(t, S) PROVE Announces
    BY <1>27, ChangeAnnounced
  <1>28. ASSUME ClientReads PROVE Announces
    BY <1>28, ChangeHeard
  <1>29. ASSUME NEW m \in DOMAIN ListMethods, AsksPage(m) PROVE Announces
    <2>1. registry' = registry /\ (operating' => operating) /\ (torn => torn') /\ heard \subseteq heard' /\ edited' = edited
      BY <1>29 DEF AsksPage, Requests, ClientStep, loopVars, serverVars, toolVars, wireVars, clientVars
    <2>2. Flying \subseteq Flying'
      BY <1>29, SilentWire DEF Silent, Carries
    <2> QED
      BY <2>1, <2>2, SilenceKept
  <1>30. ASSUME ClientLists PROVE Announces
    BY <1>30
  <1>31. ASSUME ClientCalls PROVE Announces
    <2>1. registry' = registry /\ (operating' => operating) /\ (torn => torn') /\ heard \subseteq heard' /\ edited' = edited
      BY <1>31 DEF ClientCalls, Requests, ClientStep, loopVars, serverVars, toolVars, wireVars, clientVars
    <2>2. Flying \subseteq Flying'
      BY <1>31, SilentWire DEF Silent, Carries
    <2> QED
      BY <2>1, <2>2, SilenceKept
  <1>32. ASSUME ClientWritesJunk PROVE Announces
    <2>1. registry' = registry /\ (operating' => operating) /\ (torn => torn') /\ heard \subseteq heard' /\ edited' = edited
      BY <1>32 DEF ClientWritesJunk, ClientStep, loopVars, serverVars, toolVars, wireVars, clientVars
    <2>2. Flying \subseteq Flying'
      BY <1>32, SilentWire DEF Silent, Carries
    <2> QED
      BY <2>1, <2>2, SilenceKept
  <1>33. ASSUME UNCHANGED vars PROVE Announces
    <2>1. registry' = registry /\ (operating' => operating) /\ (torn => torn') /\ heard \subseteq heard' /\ edited' = edited
      BY <1>33 DEF vars, loopVars, serverVars, toolVars, wireVars, clientVars
    <2>2. Flying \subseteq Flying'
      BY <1>33, SilentWire DEF Silent, Carries
    <2> QED
      BY <2>1, <2>2, SilenceKept
  <1> QED
    BY <1>1, <1>2, <1>3, <1>4, <1>5, <1>6, <1>7, <1>8, <1>9, <1>10, <1>11, <1>12, <1>13,
       <1>14, <1>15, <1>16, <1>17, <1>18, <1>19, <1>20, <1>21, <1>22, <1>23, <1>24, <1>25, <1>26,
       <1>27, <1>28, <1>29, <1>30, <1>31, <1>32, <1>33, NextCases

\* A page begins where the one before ended: put together they are the list up to the next.
LEMMA PageFollows ==
  ASSUME NEW items, IsSeq(items), NEW e \in Endpoints, NEW s, NEW cursor, Follows(items, e, s, cursor),
         ListAnswer(e, items, cursor).class = "result"
  PROVE  UpTo(items, e, s \o ListAnswer(e, items, cursor).items, ListAnswer(e, items, cursor).next)
  <1>1. PICK total : total = Len(items)
    OBVIOUS
  <1>2. total \in Nat /\ items \in Seq(ToSet(items)) /\ PageSize \in Nat
    BY <1>1, SeqFacts, StdioServerAssumption DEF IsSeq
  <1>3. \A n : MakePaginationCursor(e, n) # NoCursor
    BY DEF MakePaginationCursor, NoCursor, Endpoints
  <1>4. PICK n \in 0..total : /\ s = SubSeq(items, 1, n)
                              /\ IF cursor = NoCursor THEN n = 0 ELSE cursor = MakePaginationCursor(e, n)
    <2>1. CASE cursor = NoCursor /\ s = << >>
      <3>1. SubSeq(items, 1, 0) = << >>
        BY SubSeqEmpty
      <3> QED
        BY <1>2, <2>1, <3>1
    <2>2. CASE cursor # NoCursor /\ UpTo(items, e, s, cursor)
      BY <1>1, <2>2 DEF UpTo
    <2> QED
      BY <2>1, <2>2 DEF Follows
  <1>5. PICK last : last = IF n + PageSize < total THEN n + PageSize ELSE total
    OBVIOUS
  <1>6. last \in n..total /\ n \in Nat
    BY <1>2, <1>4, <1>5
  <1>7. ApplyPagination(e, cursor, total) =
          << [first |-> n, last |-> last, next |-> IF last < total THEN MakePaginationCursor(e, last) ELSE NoCursor] >>
    <2>1. CASE cursor = NoCursor
      BY <1>4, <1>5, <2>1 DEF ApplyPagination
    <2>2. CASE cursor # NoCursor
      <3>1. cursor = MakePaginationCursor(e, n) /\ cursor.index = n /\ cursor.endpoint = e /\ ~(n > total)
        BY <1>2, <1>4, <2>2 DEF MakePaginationCursor
      <3> QED
        BY <1>5, <2>2, <3>1 DEF ApplyPagination, ParsesAsCursor
    <2> QED
      BY <2>1, <2>2
  <1>8. PICK a : a = ListAnswer(e, items, cursor)
    OBVIOUS
  <1>9. /\ a.items = SubSeq(items, n + 1, last)
        /\ a.next = IF last < total THEN MakePaginationCursor(e, last) ELSE NoCursor
    <2>1. PICK w : w = [first |-> n, last |-> last, next |-> IF last < total THEN MakePaginationCursor(e, last) ELSE NoCursor]
      OBVIOUS
    <2>2. ApplyPagination(e, cursor, Len(items)) = << w >> /\ << w >> # << >> /\ << w >>[1] = w
      BY <1>1, <1>7, <2>1
    <2>3. a = [class |-> "result", next |-> w.next, items |-> SubSeq(items, w.first + 1, w.last)]
      BY <1>8, <2>2 DEF ListAnswer
    <2> QED
      BY <2>1, <2>3
  <1>10. s \o a.items = SubSeq(items, 1, last)
    <2>1. /\ 1 \in 1..Len(items)+1 /\ n \in 1-1 .. Len(items) /\ last \in n..Len(items)
      BY <1>1, <1>2, <1>4, <1>6
    <2>2. SubSeq(items, 1, n) \o SubSeq(items, n + 1, last) = SubSeq(items, 1, last)
      BY ONLY <1>2, <2>1, ConcatAdjacentSubSeq
    <2> QED
      BY <1>4, <1>9, <2>2
  <1>11. CASE last < total
    <2>1. a.next = MakePaginationCursor(e, last) /\ last \in 0..Len(items)
      BY <1>1, <1>2, <1>4, <1>6, <1>9, <1>11
    <2> QED
      BY <1>3, <1>8, <1>10, <2>1 DEF UpTo
  <1>12. CASE ~(last < total)
    <2>1. last = total /\ a.next = NoCursor
      BY <1>2, <1>4, <1>6, <1>9, <1>12
    <2>2. s \o a.items = items
      BY <1>1, <1>2, <1>10, <2>1, SubSeqFull
    <2> QED
      BY <1>8, <2>1, <2>2 DEF UpTo
  <1> QED
    BY <1>11, <1>12

\* A step that leaves the listing and the call alone.
LEMMA ListingKept ==
  ASSUME ListingInv, RegistryOK, UNCHANGED << listing, call >>, Announces, \A f \in Flying' :
         IsAnswer(f) => f \in Flying \/ Fair(f)
  PROVE  ListingInv'
  <1>1. (Lists' <=> Lists) /\ \A m : Calling(m)' <=> Calling(m)
    BY DEF Lists, Calling
  <1>2. ASSUME InSilence(listing.endpoint)', listing.state = "running"
        PROVE  /\ Follows(registry'[listing.endpoint], listing.endpoint, listing.seen, listing.next)
               /\ \A f \in Flying' : IsAnswer(f) /\ f.answer.class = "result" /\ Lists
                    => UpTo(registry'[listing.endpoint], listing.endpoint, listing.seen \o f.answer.items, f.answer.next)
    <2>1. PICK e \in Endpoints : e = listing.endpoint
      BY <1>2 DEF ListingInv
    <2>2. InSilence(e) /\ registry'[e] = registry[e] /\ IsSeq(registry[e])
      BY <1>2, <2>1 DEF Announces, RegistryOK
    <2>3. Follows(registry[e], e, listing.seen, listing.next)
      BY <1>2, <2>1, <2>2 DEF ListingInv
    <2>4. ASSUME NEW f \in Flying', IsAnswer(f), f.answer.class = "result", Lists
          PROVE  UpTo(registry[e], e, listing.seen \o f.answer.items, f.answer.next)
      <3>1. CASE f \in Flying
        BY <2>1, <2>2, <2>4, <3>1 DEF ListingInv
      <3>2. CASE Fair(f)
        <4>1. PICK m \in DOMAIN ListMethods : Calling(m) /\ m = call.request.method
          BY <2>4 DEF Lists, Calling
        <4>2. ListMethods[m] = e /\ call.request.cursor = listing.next
          BY <2>1, <2>4, <4>1 DEF ListingInv
        <4>3. f.answer = ListAnswer(e, registry[e], listing.next)
          BY <2>4, <3>2, <4>1, <4>2 DEF Fair
        <4> QED
          BY <2>2, <2>3, <2>4, <4>3, PageFollows
      <3> QED
        BY <2>4, <3>1, <3>2
    <2> QED
      BY <2>1, <2>2, <2>3, <2>4
  <1>3. InSilence(listing.endpoint)' /\ listing.state = "done" => listing.seen = registry'[listing.endpoint]
    <2>1. listing.state = "done" => listing.endpoint \in Endpoints
      BY DEF ListingInv
    <2>2. listing.endpoint \in Endpoints /\ InSilence(listing.endpoint)' =>
            InSilence(listing.endpoint) /\ registry'[listing.endpoint] = registry[listing.endpoint]
      BY DEF Announces
    <2> QED
      BY <2>1, <2>2 DEF ListingInv
  <1>4. /\ listing' = [endpoint |-> listing'.endpoint, state |-> listing'.state, seen |-> listing'.seen, next |-> listing'.next]
        /\ listing'.state \in {"running", "done"} => listing'.endpoint \in Endpoints
        /\ Lists' => /\ listing'.state = "running" /\ ListMethods[call'.request.method] = listing'.endpoint
                     /\ call'.request.cursor = listing'.next
                     /\ CapabilityForMethod(call'.request.method) \in Capabilities
    BY <1>1 DEF ListingInv
  <1>5. Lists => listing.state = "running"
    BY DEF ListingInv
  <1> QED
    BY <1>1, <1>2, <1>3, <1>4, <1>5 DEF ListingInv

\* A step after which the client waits for nothing, or for no list.
LEMMA ListingIdle ==
  ASSUME ListingInv, listing' = listing, ~Lists', Announces
  PROVE  ListingInv'
  <1>1. ASSUME InSilence(listing.endpoint)', listing.state \in {"running", "done"}
        PROVE  /\ listing.state = "running" => Follows(registry'[listing.endpoint], listing.endpoint, listing.seen, listing.next)
               /\ listing.state = "done" => listing.seen = registry'[listing.endpoint]
    <2>1. PICK e \in Endpoints : e = listing.endpoint
      BY <1>1 DEF ListingInv
    <2>2. InSilence(e) /\ registry'[e] = registry[e]
      BY <1>1, <2>1 DEF Announces
    <2> QED
      BY <2>1, <2>2 DEF ListingInv
  <1>2. /\ listing' = [endpoint |-> listing'.endpoint, state |-> listing'.state, seen |-> listing'.seen, next |-> listing'.next]
        /\ listing'.state \in {"running", "done"} => listing'.endpoint \in Endpoints
    BY DEF ListingInv
  <1> QED
    BY <1>1, <1>2 DEF ListingInv

\* A page reaches the client.
LEMMA PageReceived ==
  ASSUME ListingInv, RegistryOK, Announces, Quiet', NEW f \in Flying, IsAnswer(f), call # NoCall, call'
         = NoCall,
         call.id = 1, ReceivesAnswer(f)
  PROVE  ListingInv'
  <1>1. ~Lists'
    BY DEF Lists
  <1>2. CASE ~Lists
    <2>1. listing' = listing
      BY <1>2 DEF ReceivesAnswer, Lists
    <2> QED
      BY <1>1, <2>1, ListingIdle
  <1>3. CASE Lists /\ f.answer.class # "result"
    <2>1. listing' = [listing EXCEPT !.state = "failed"]
      BY <1>3 DEF ReceivesAnswer, Lists, IsAnswer
    <2>2. listing = [endpoint |-> listing.endpoint, state |-> listing.state, seen |-> listing.seen, next |-> listing.next]
      BY DEF ListingInv
    <2>3. listing' = [endpoint |-> listing.endpoint, state |-> "failed", seen |-> listing.seen, next |-> listing.next]
      BY <2>1, <2>2
    <2> QED
      BY <1>1, <2>3 DEF ListingInv
  <1>4. CASE Lists /\ f.answer.class = "result"
    <2>1. PICK a : a = f.answer
      OBVIOUS
    <2>2. listing' = [listing EXCEPT !.seen = listing.seen \o a.items, !.next = a.next,
                                     !.state = IF a.next = NoCursor THEN "done" ELSE "running"]
      BY <1>4, <2>1 DEF ReceivesAnswer, Lists, IsAnswer
    <2>3. listing = [endpoint |-> listing.endpoint, state |-> listing.state, seen |-> listing.seen, next |-> listing.next]
      BY DEF ListingInv
    <2>4. listing' = [endpoint |-> listing.endpoint, state |-> IF a.next = NoCursor THEN "done" ELSE "running",
                      seen |-> listing.seen \o a.items, next |-> a.next]
      BY <2>2, <2>3
    <2>5. PICK e \in Endpoints : e = listing.endpoint
      BY <1>4 DEF ListingInv
    <2>6. InSilence(e)' => UpTo(registry'[e], e, listing.seen \o a.items, a.next)
      BY <1>4, <2>1, <2>5 DEF ListingInv, Announces
    <2>7. PICK s : s = listing.seen \o a.items
      OBVIOUS
    <2>8. listing'.endpoint = e /\ listing'.seen = s /\ listing'.next = a.next
          /\ listing'.state = IF a.next = NoCursor THEN "done" ELSE "running"
      BY <2>4, <2>5, <2>7
    <2>9. InSilence(e)' => /\ listing'.state = "running" => Follows(registry'[e], e, s, a.next)
                           /\ listing'.state = "done" => s = registry'[e]
      BY <2>6, <2>7, <2>8 DEF Follows, UpTo
    <2>10. listing' = [endpoint |-> listing'.endpoint, state |-> listing'.state, seen |-> listing'.seen, next |-> listing'.next]
      BY <2>4
    <2> QED
      BY <1>1, <2>5, <2>8, <2>9, <2>10 DEF ListingInv, Quiet
  <1> QED
    BY <1>2, <1>3, <1>4

\* A listing begins.
LEMMA ListingBegins ==
  ASSUME ClientLists
  PROVE  ListingInv'
  <1>1. PICK e \in Endpoints : listing' = [endpoint |-> e, state |-> "running", seen |-> << >>, next |-> NoCursor]
    BY DEF ClientLists
  <1>2. ~Lists'
    BY DEF ClientLists, Lists
  <1> QED
    BY <1>1, <1>2 DEF ListingInv, Follows

\* The session begins to operate: there is nothing to be out of date yet.
LEMMA ListingAtStart ==
  ASSUME WireOK, Single, RequestInv, ListingInv, LoopReadsInitialized
  PROVE  ListingInv'
  <1>1. Fresh /\ UNCHANGED << listing, call >>
    <2>1. Head(stdin) = stdin[1] /\ 1 \in DOMAIN stdin /\ Head(stdin).kind = "initialized"
      BY LinesBehind DEF RequestInv, LoopReadsInitialized, Reads
    <2> QED
      BY <2>1 DEF RequestInv, LoopReadsInitialized, Reads, clientVars
  <1>2. Quiet'
    BY <1>1, SilentStaysQuiet DEF Silent, Fresh
  <1>3. Lists' <=> Lists
    BY <1>1 DEF Lists
  <1>4. Follows(registry'[listing.endpoint], listing.endpoint, listing.seen, listing.next)
    BY <1>1 DEF Fresh, Follows
  <1> QED
    BY <1>1, <1>2, <1>3, <1>4 DEF ListingInv, Fresh, Quiet

\* A page is asked for.
LEMMA PageAsked ==
  ASSUME ThreadInv, WireOK, Single, RequestInv, RegistryOK, ListingInv, Announces, NEW m \in DOMAIN
         ListMethods, AsksPage(m)
  PROVE  ListingInv'
  <1>1. listing.state = "running" /\ listing.endpoint = ListMethods[m] /\ Carries /\ ListMethods[m] \in Endpoints
    BY SilentWire DEF AsksPage, Silent, ListMethods, Endpoints
  <1>2. CASE CapabilityForMethod(m) \in Capabilities
    <2>1. /\ call = NoCall /\ listing' = listing
          /\ call' = [id |-> 1, request |-> [method |-> m, cursor |-> listing.next]]
      BY <1>2 DEF AsksPage, Requests
    <2>2. Quiet'
      BY <1>1, <2>1 DEF RequestInv, Quiet, Carries
    <2>3. call'.request.method = m /\ call'.request.cursor = listing.next
      BY <2>1
    <2>4. InSilence(ListMethods[m])' => Follows(registry'[ListMethods[m]], ListMethods[m], listing.seen, listing.next)
      BY <1>1 DEF ListingInv, Announces
    <2>5. listing = [endpoint |-> listing.endpoint, state |-> listing.state, seen |-> listing.seen, next |-> listing.next]
      BY DEF ListingInv
    <2> QED
      BY <1>1, <1>2, <2>1, <2>2, <2>3, <2>4, <2>5 DEF ListingInv, Quiet
  <1>3. CASE CapabilityForMethod(m) \notin Capabilities
    <2>1. listing' = [listing EXCEPT !.state = "failed"] /\ call' = call
      BY <1>3 DEF AsksPage
    <2>2. listing = [endpoint |-> listing.endpoint, state |-> listing.state, seen |-> listing.seen, next |-> listing.next]
      BY DEF ListingInv
    <2>3. listing' = [endpoint |-> listing.endpoint, state |-> "failed", seen |-> listing.seen, next |-> listing.next]
      BY <2>1, <2>2
    <2>4. ~Lists
      <3>1. ASSUME NEW n \in DOMAIN ListMethods, ListMethods[n] = ListMethods[m] PROVE n = m
        BY <3>1 DEF ListMethods
      <3> QED
        BY <1>1, <1>3, <3>1 DEF Lists, ListingInv
    <2>5. ~Lists'
      BY <2>1, <2>4 DEF Lists
    <2> QED
      BY <2>3, <2>5 DEF ListingInv
  <1> QED
    BY <1>2, <1>3

\* The steps that announce what they change.
LEMMA AnnouncedListing ==
  ASSUME ThreadInv, WireOK, Single, RequestInv, ServingInv, RegistryOK, ListingInv, [Next]_vars,
         ~ClientLists, ~LoopReadsInitialized
  PROVE  ListingInv'
  <1>0. Announces
    BY StepAnnounces
  <1>1. ASSUME LoopChecks PROVE ListingInv'
    <2>1. UNCHANGED << listing, call >> /\ Announces
      BY <1>1, <1>0 DEF LoopChecks, clientVars
    <2>2. \A f \in Flying' : IsAnswer(f) => f \in Flying \/ Fair(f)
      BY <1>1, SilentWire DEF Silent, Carries
    <2> QED
      BY <2>1, <2>2, ListingKept
  <1>2. ASSUME LoopReadsJunk PROVE ListingInv'
    <2>1. UNCHANGED << listing, call >> /\ Announces
      BY <1>2, <1>0 DEF LoopReadsJunk, Reads, clientVars
    <2>2. \A f \in Flying' : IsAnswer(f) => f \in Flying \/ Fair(f)
      BY <1>2, SilentWire DEF Silent, Carries
    <2> QED
      BY <2>1, <2>2, ListingKept
  <1>3. ASSUME LoopReadsEnd PROVE ListingInv'
    <2>1. UNCHANGED << listing, call >> /\ Announces
      BY <1>3, <1>0 DEF LoopReadsEnd, Reads, clientVars
    <2>2. \A f \in Flying' : IsAnswer(f) => f \in Flying \/ Fair(f)
      BY <1>3, SilentWire DEF Silent, Carries
    <2> QED
      BY <2>1, <2>2, ListingKept
  <1>4. ASSUME LoopReadsInitialized PROVE ListingInv'
    BY <1>4
  <1>5. ASSUME LoopReadsResponse PROVE ListingInv'
    <2>1. UNCHANGED << listing, call >> /\ Announces
      BY <1>5, <1>0 DEF LoopReadsResponse, Reads, clientVars
    <2>2. \A f \in Flying' : IsAnswer(f) => f \in Flying \/ Fair(f)
      BY <1>5, SilentWire DEF Silent, Carries
    <2> QED
      BY <2>1, <2>2, ListingKept
  <1>6. ASSUME LoopRefuses PROVE ListingInv'
    <2>1. UNCHANGED << listing, call >> /\ Announces
      BY <1>6, <1>0 DEF LoopRefuses, ReadsRequest, Reads, Answers, clientVars
    <2>2. \A f \in Flying' : IsAnswer(f) => f \in Flying \/ Fair(f)
      BY <1>6, AnsweringWire DEF Answering
    <2> QED
      BY <2>1, <2>2, ListingKept
  <1>7. ASSUME NEW m \in DOMAIN ListMethods, HandleList(m) PROVE ListingInv'
    <2>1. UNCHANGED << listing, call >> /\ Announces
      BY <1>7, <1>0 DEF HandleList, ReadsRequest, Reads, Answers, clientVars
    <2>2. \A f \in Flying' : IsAnswer(f) => f \in Flying \/ Fair(f)
      BY <1>7, AnsweringWire DEF Answering
    <2> QED
      BY <2>1, <2>2, ListingKept
  <1>8. ASSUME HandlePlain PROVE ListingInv'
    <2>1. UNCHANGED << listing, call >> /\ Announces
      BY <1>8, <1>0 DEF HandlePlain, ReadsRequest, Reads, Answers, clientVars
    <2>2. \A f \in Flying' : IsAnswer(f) => f \in Flying \/ Fair(f)
      BY <1>8, AnsweringWire DEF Answering
    <2> QED
      BY <2>1, <2>2, ListingKept
  <1>9. ASSUME HandleSetLevel PROVE ListingInv'
    <2>1. UNCHANGED << listing, call >> /\ Announces
      BY <1>9, <1>0 DEF HandleSetLevel, ReadsRequest, Reads, Answers, clientVars
    <2>2. \A f \in Flying' : IsAnswer(f) => f \in Flying \/ Fair(f)
      BY <1>9, AnsweringWire DEF Answering
    <2> QED
      BY <2>1, <2>2, ListingKept
  <1>10. ASSUME HandleSubscribe PROVE ListingInv'
    <2>1. UNCHANGED << listing, call >> /\ Announces
      BY <1>10, <1>0 DEF HandleSubscribe, ReadsRequest, Reads, Answers, clientVars
    <2>2. \A f \in Flying' : IsAnswer(f) => f \in Flying \/ Fair(f)
      BY <1>10, AnsweringWire DEF Answering
    <2> QED
      BY <2>1, <2>2, ListingKept
  <1>11. ASSUME HandleUnsubscribe PROVE ListingInv'
    <2>1. UNCHANGED << listing, call >> /\ Announces
      BY <1>11, <1>0 DEF HandleUnsubscribe, ReadsRequest, Reads, Answers, clientVars
    <2>2. \A f \in Flying' : IsAnswer(f) => f \in Flying \/ Fair(f)
      BY <1>11, AnsweringWire DEF Answering
    <2> QED
      BY <2>1, <2>2, ListingKept
  <1>12. ASSUME HandleToolsCall PROVE ListingInv'
    <2>1. UNCHANGED << listing, call >> /\ Announces
      BY <1>12, <1>0 DEF HandleToolsCall, ReadsRequest, Reads, Answers, Running, clientVars
    <2>2. \A f \in Flying' : IsAnswer(f) => f \in Flying \/ Fair(f)
      BY <1>12, AnsweringWire DEF Answering
    <2> QED
      BY <2>1, <2>2, ListingKept
  <1>13. ASSUME HandleTasksCancel PROVE ListingInv'
    <2>1. UNCHANGED << listing, call >> /\ Announces
      BY <1>13, <1>0 DEF HandleTasksCancel, ReadsRequest, Reads, clientVars
    <2>2. \A f \in Flying' : IsAnswer(f) => f \in Flying \/ Fair(f)
      BY <1>13, AnsweringWire DEF Answering
    <2> QED
      BY <2>1, <2>2, ListingKept
  <1>14. ASSUME HandleTasksResult PROVE ListingInv'
    <2>1. UNCHANGED << listing, call >> /\ Announces
      BY <1>14, <1>0 DEF HandleTasksResult, ReadsRequest, Reads, Answers, clientVars
    <2>2. \A f \in Flying' : IsAnswer(f) => f \in Flying \/ Fair(f)
      BY <1>14, AnsweringWire DEF Answering
    <2> QED
      BY <2>1, <2>2, ListingKept
  <1>15. ASSUME ToolReturns PROVE ListingInv'
    <2>1. UNCHANGED << listing, call >> /\ Announces
      BY <1>15, <1>0 DEF ToolReturns, ToolDone, Answers, Idle, clientVars
    <2>2. \A f \in Flying' : IsAnswer(f) => f \in Flying \/ Fair(f)
      BY <1>15, AnsweringWire DEF Answering
    <2> QED
      BY <2>1, <2>2, ListingKept
  <1>16. ASSUME TaskResultReady PROVE ListingInv'
    <2>1. UNCHANGED << listing, call >> /\ Announces
      BY <1>16, <1>0 DEF TaskResultReady, Answers, clientVars
    <2>2. \A f \in Flying' : IsAnswer(f) => f \in Flying \/ Fair(f)
      BY <1>16, AnsweringWire DEF Answering
    <2> QED
      BY <2>1, <2>2, ListingKept
  <1>17. ASSUME TaskReturns PROVE ListingInv'
    <2>1. UNCHANGED << listing, call >> /\ Announces
      BY <1>17, <1>0 DEF TaskReturns, ToolDone, Idle, clientVars
    <2>2. \A f \in Flying' : IsAnswer(f) => f \in Flying \/ Fair(f)
      BY <1>17, SilentWire DEF Silent, Carries
    <2> QED
      BY <2>1, <2>2, ListingKept
  <1>18. ASSUME RunnerStops PROVE ListingInv'
    <2>1. UNCHANGED << listing, call >> /\ Announces
      BY <1>18, <1>0 DEF RunnerStops, clientVars
    <2>2. \A f \in Flying' : IsAnswer(f) => f \in Flying \/ Fair(f)
      BY <1>18, SilentWire DEF Silent, Carries
    <2> QED
      BY <2>1, <2>2, ListingKept
  <1>19. ASSUME AppEdits PROVE ListingInv'
    <2>1. UNCHANGED << listing, call >> /\ Announces
      BY <1>19, <1>0 DEF AppEdits, AppStep, clientVars
    <2>2. \A f \in Flying' : IsAnswer(f) => f \in Flying \/ Fair(f)
      BY <1>19, SilentWire DEF Silent, Carries
    <2> QED
      BY <2>1, <2>2, ListingKept
  <1>20. ASSUME AppUpdates PROVE ListingInv'
    <2>1. UNCHANGED << listing, call >> /\ Announces
      BY <1>20, <1>0 DEF AppUpdates, AppStep, clientVars
    <2>2. \A f \in Flying' : IsAnswer(f) => f \in Flying \/ Fair(f)
      BY <1>20, SilentWire DEF Silent, Carries
    <2> QED
      BY <2>1, <2>2, ListingKept
  <1>21. ASSUME AppLogs PROVE ListingInv'
    <2>1. UNCHANGED << listing, call >> /\ Announces
      BY <1>21, <1>0 DEF AppLogs, AppStep, clientVars
    <2>2. \A f \in Flying' : IsAnswer(f) => f \in Flying \/ Fair(f)
      BY <1>21, SilentWire DEF Silent, Carries
    <2> QED
      BY <2>1, <2>2, ListingKept
  <1>22. ASSUME NEW t \in {"loop", "job"}, ToolAsks(t) PROVE ListingInv'
    <2>1. UNCHANGED << listing, call >> /\ Announces
      BY <1>22, <1>0 DEF ToolAsks, ToolStep, Handler, Becomes, clientVars
    <2>2. \A f \in Flying' : IsAnswer(f) => f \in Flying \/ Fair(f)
      BY <1>22, SilentWire DEF Silent, Carries
    <2> QED
      BY <2>1, <2>2, ListingKept
  <1>23. ASSUME NEW t \in {"loop", "job"}, AskTimesOut(t) PROVE ListingInv'
    <2>1. UNCHANGED << listing, call >> /\ Announces
      BY <1>23, <1>0 DEF AskTimesOut, ToolStep, Becomes, clientVars
    <2>2. \A f \in Flying' : IsAnswer(f) => f \in Flying \/ Fair(f)
      BY <1>23, SilentWire DEF Silent, Carries
    <2> QED
      BY <2>1, <2>2, ListingKept
  <1>24. ASSUME NEW t \in {"loop", "job"}, ToolEdits(t) PROVE ListingInv'
    <2>1. UNCHANGED << listing, call >> /\ Announces
      BY <1>24, <1>0 DEF ToolEdits, Handler, Becomes, clientVars
    <2>2. \A f \in Flying' : IsAnswer(f) => f \in Flying \/ Fair(f)
      BY <1>24, SilentWire DEF Silent, Carries
    <2> QED
      BY <2>1, <2>2, ListingKept
  <1>25. ASSUME NEW t \in Writers, WriteText(t) PROVE ListingInv'
    <2>1. UNCHANGED << listing, call >> /\ Announces
      BY <1>25, <1>0 DEF WriteText, clientVars
    <2>2. \A f \in Flying' : IsAnswer(f) => f \in Flying \/ Fair(f)
      BY <1>25, SilentWire DEF Silent, Carries
    <2> QED
      BY <2>1, <2>2, ListingKept
  <1>26. ASSUME NEW t \in Writers, WriteNewline(t) PROVE ListingInv'
    <2>1. UNCHANGED << listing, call >> /\ Announces
      BY <1>26, <1>0 DEF WriteNewline, clientVars
    <2>2. \A f \in Flying' : IsAnswer(f) => f \in Flying \/ Fair(f)
      BY <1>26, SilentWire DEF Silent, Carries
    <2> QED
      BY <2>1, <2>2, ListingKept
  <1>27. ASSUME NEW t \in Writers, NEW S \in SUBSET Endpoints, NotifyListChanged(t, S) PROVE ListingInv'
    <2>1. UNCHANGED << listing, call >> /\ Announces
      BY <1>27, <1>0 DEF NotifyListChanged, clientVars
    <2>2. \A f \in Flying' : IsAnswer(f) => f \in Flying \/ Fair(f)
      BY <1>27, SilentWire DEF Silent, Carries
    <2> QED
      BY <2>1, <2>2, ListingKept
  <1>28. ASSUME ClientReads PROVE ListingInv'
    <2>1. CASE UNCHANGED << call, listing >> /\ Flying' \subseteq Flying
      BY <1>28, <2>1, ChangeHeard, ListingKept
    <2>2. ASSUME NEW f \in Flying, IsAnswer(f), Quiet', call # NoCall, call' = NoCall, ReceivesAnswer(f)
          PROVE  ListingInv'
      BY <1>28, <2>2, ChangeHeard, PageReceived DEF RequestInv
    <2> QED
      BY <1>28, <2>1, <2>2, LineRead
  <1>29. ASSUME NEW m \in DOMAIN ListMethods, AsksPage(m) PROVE ListingInv'
    BY <1>29, <1>0, PageAsked
  <1>30. ASSUME ClientLists PROVE ListingInv'
    BY <1>30
  <1>31. ASSUME ClientCalls PROVE ListingInv'
    <2>1. ~Lists' /\ listing' = listing
      BY <1>31, StdioServerAssumption DEF ClientCalls, Requests, Lists
    <2> QED
      BY <1>31, <2>1, <1>0, ListingIdle
  <1>32. ASSUME ClientWritesJunk PROVE ListingInv'
    <2>1. UNCHANGED << listing, call >> /\ Announces
      BY <1>32, <1>0 DEF ClientWritesJunk, ClientStep, clientVars
    <2>2. \A f \in Flying' : IsAnswer(f) => f \in Flying \/ Fair(f)
      BY <1>32, SilentWire DEF Silent, Carries
    <2> QED
      BY <2>1, <2>2, ListingKept
  <1>33. ASSUME UNCHANGED vars PROVE ListingInv'
    <2>1. UNCHANGED << listing, call >> /\ Announces
      BY <1>33, <1>0 DEF vars, clientVars
    <2>2. \A f \in Flying' : IsAnswer(f) => f \in Flying \/ Fair(f)
      BY <1>33, SilentWire DEF Silent, Carries
    <2> QED
      BY <2>1, <2>2, ListingKept
  <1> QED
    BY <1>1, <1>2, <1>3, <1>4, <1>5, <1>6, <1>7, <1>8, <1>9, <1>10, <1>11, <1>12, <1>13,
       <1>14, <1>15, <1>16, <1>17, <1>18, <1>19, <1>20, <1>21, <1>22, <1>23, <1>24, <1>25, <1>26,
       <1>27, <1>28, <1>29, <1>30, <1>31, <1>32, <1>33, NextCases

\* The listing is what the registry was, page by page, while nothing changed in silence.
LEMMA NextListing ==
  ASSUME ThreadInv, WireOK, Single, RequestInv, ServingInv, RegistryOK, ListingInv, [Next]_vars
  PROVE  ListingInv'
  BY AnnouncedListing, ListingBegins, ListingAtStart
-----------------------------------------------------------------------------
(* The results.                                                            *)

StdioServerInv ==
    /\ ThreadInv /\ WireOK /\ Single /\ RequestInv /\ ServingInv
    /\ RegistryOK /\ SubscriptionInv /\ ListingInv

\* Nothing is on its way at the start.
LEMMA InitWire ==
  ASSUME Init
  PROVE  WireOK /\ Single /\ Flying = {}
  <1>1. /\ out = [t \in Writers |-> << >>] /\ mid = [t \in Writers |-> FALSE]
        /\ partial = << >> /\ stdout = << >> /\ DOMAIN stdout = {}
    BY DEF Init
  <1>2. \A t \in Writers : Unsent(t) = << >>
    BY <1>1 DEF Unsent
  <1>3. InQueues = {} /\ InLines = {}
    BY <1>1, <1>2, EmptyFacts DEF InQueues, InLines
  <1>4. Flying = {}
    BY <1>1, <1>3, EmptyFacts DEF Flying
  <1>5. WireOK
    BY <1>1, EmptyFacts DEF WireOK
  <1>6. Single
    BY <1>1, <1>2, EmptyFacts DEF Single, NoneInLines, Writers
  <1> QED
    BY <1>4, <1>5, <1>6

\* The start satisfies the invariant.
LEMMA InitInv ==
  ASSUME Init
  PROVE  StdioServerInv
  <1>1. WireOK /\ Single /\ Flying = {}
    BY InitWire
  <1>2. Quiet
    BY <1>1 DEF Quiet
  <1>3. ThreadInv
    BY DEF Init, ThreadInv, Idle, Writers
  <1>4. /\ call = NoCall /\ listing = NoListing /\ held = {} /\ subscriptions = {}
        /\ loop = "checking" /\ ~operating
    BY DEF Init
  <1>5. RequestInv
    <2>1. PICK l : l = Line("initialized", 0, NoCall.request)
      OBVIOUS
    <2>2. stdin = << l >> /\ l.kind = "initialized"
      BY <2>1 DEF Init, Line
    <2>3. IsSeq(stdin) /\ DOMAIN stdin = {1} /\ stdin[1] = l
      <3>1. << l >> \in Seq({l}) /\ DOMAIN << l >> = {1} /\ << l >>[1] = l
        OBVIOUS
      <3> QED
        BY <2>2, <3>1, SeqOfElements
    <2>4. Fresh
      BY <1>2, <1>4 DEF Fresh, NoListing
    <2> QED
      BY <1>2, <1>4, <2>2, <2>3, <2>4 DEF RequestInv
  <1>6. ServingInv
    BY <1>4 DEF ServingInv
  <1>7. RegistryOK
    BY StdioServerAssumption DEF Init, RegistryOK, IsSeq
  <1>8. SubscriptionInv
    BY <1>1, <1>4 DEF SubscriptionInv, Calling
  <1>9. ListingInv
    BY <1>1, <1>4 DEF ListingInv, NoListing, Lists
  <1> QED
    BY <1>1, <1>3, <1>5, <1>6, <1>7, <1>8, <1>9 DEF StdioServerInv

\* Every behaviour satisfies the invariant.
LEMMA StdioServerInvHolds == Spec => []StdioServerInv
  <1>1. Init => StdioServerInv
    BY InitInv
  <1>2. StdioServerInv /\ [Next]_vars => StdioServerInv'
    BY NextThread, NextWire, NextRequest, NextServing, NextRegistry, NextSubscription, NextListing DEF
       StdioServerInv
  <1> QED
    BY <1>1, <1>2, PTL DEF Spec

\* Whoever is told of a subscription has it until the resource goes, and nothing that is not
\* registered is subscribed to: an unsubscription gives up the client's claim before the server
\* acts on it, and the answer to a subscription is the only one on its way
\* (handleResourcesSubscribeRequest and unregisterResource, server.cpp).
THEOREM SubscriptionsAlwaysAgree == Spec => []SubscriptionsAgree
  <1>1. StdioServerInv => SubscriptionsAgree
    BY DEF StdioServerInv, SubscriptionInv, SubscriptionsAgree
  <1> QED
    BY <1>1, StdioServerInvHolds, PTL

\* What is on its way is in a queue, on the unfinished line or on a line.
LEMMA FlyingIsComing ==
  ASSUME WireOK, NEW e, WillAnnounce(e)
  PROVE  ChangeIsComing(e)
  <1>1. CASE \E t \in Writers : edited[t] # "none" /\ ListChangedOf(edited[t]) = ListChangedOf(e)
    BY <1>1 DEF ChangeIsComing
  <1>2. ASSUME NEW f \in Flying, f.kind = "listChanged", f.about = ListChangedOf(e)
        PROVE  ChangeIsComing(e)
    <2>1. ASSUME NEW s, IsSeq(s), f \in ToSet(s) PROVE IsChangeOf(e, s)
      BY <1>2, <2>1, SeqFacts DEF IsChangeOf
    <2>2. ASSUME NEW t \in Writers, f \in ToSet(Unsent(t)) PROVE f \in ToSet(out[t])
      <3>1. IsSeq(out[t]) /\ (mid[t] => out[t] # << >>)
        BY DEF WireOK
      <3>2. CASE mid[t]
        BY <2>2, <3>1, <3>2, TailFacts DEF Unsent
      <3>3. CASE ~mid[t]
        BY <2>2, <3>3 DEF Unsent
      <3> QED
        BY <3>2, <3>3
    <2>3. CASE \E t \in Writers : f \in ToSet(Unsent(t))
      BY <2>1, <2>2, <2>3 DEF ChangeIsComing, WireOK
    <2>4. CASE f \in ToSet(partial)
      BY <2>1, <2>4 DEF ChangeIsComing, WireOK
    <2>5. CASE \E i \in DOMAIN stdout : f \in ToSet(stdout[i])
      BY <2>1, <2>5 DEF ChangeIsComing, WireOK
    <2> QED
      BY <2>3, <2>4, <2>5 DEF Flying, InQueues, InLines
  <1> QED
    BY <1>1, <1>2 DEF WillAnnounce

\* A finished listing that differs from the registry has been or will be announced out of
\* date: the pages of a listing are consecutive pieces of the one registry, unless an edit
\* comes between them, and an edit is remembered by its thread, then queued, then written and
\* then heard (handleToolsListRequest and its siblings, notifyToolsListChanged and its
\* siblings, server.cpp).
THEOREM StaleListingsAreAnnounced == Spec => []StaleListingIsAnnounced
  <1>1. StdioServerInv => StaleListingIsAnnounced
    BY FlyingIsComing DEF StdioServerInv, ListingInv, InSilence, StaleListingIsAnnounced, Stale
  <1> QED
    BY <1>1, StdioServerInvHolds, PTL

=============================================================================
