------------------------------ MODULE HttpServer ------------------------------
(***************************************************************************)
(* mcp::transport::http::StreamableHttpServer: sessions, SSE streams with  *)
(* their bounded replay buffers, the queues of messages that found no      *)
(* stream, the legacy HTTP+SSE buffers, and requests of several clients.   *)
(*                                                                         *)
(* One mutex guards everything.  A request that reaches an application     *)
(* handler is two steps, because the mutex is released around the handler; *)
(* every other request, and every call of the application, is one step.    *)
(*                                                                         *)
(* A message is the number under which it entered the server (`sent`       *)
(* remembers what it was); 0 is the priming event of a stream.             *)
(***************************************************************************)
EXTENDS HttpRequests, Sequences, FiniteSets, SequencesExt

CONSTANTS
  Workers,       \* threads that serve HTTP requests
  Requests,      \* requests the clients may send
  OptionSets,    \* configurations of the server
  HandlerResults,\* what a request handler may return
  CursorSpan,    \* 2^64 in the code: cursors are taken modulo this
  AgingStreams,  \* streams that may live longer than maxSseStreamDuration
  AppVersions, AppStates,   \* what the application sets sessions to
  MaxMessages, MaxWork   \* bound the messages; the streams and the requests in handlers

Sizes == {"fits", "oversize"}   \* against maxMessageSizeBytes

\* StreamableRequestResult and what its response means for the session.
HandlerResult ==
  [ useSse : BOOLEAN, terminateSseAfterResponse : BOOLEAN,
    pre : Seq(Sizes),
    response : {"none", "success", "badVersion", "unsupportedVersion", "error"},
    size : Sizes ]

ASSUME HttpServerAssumption ==
  /\ Requests \subseteq Request /\ OptionSets \subseteq Options
  /\ HandlerResults \subseteq HandlerResult
  /\ CursorSpan \in Nat \ {0}
  /\ MaxMessages \in Nat /\ MaxWork \in Nat

VARIABLES
  options, \* configuration, fixed
  sessions,
  streams, \* in the order of their creation
  pendingMessagesBySession, legacyEventsBySession,
  worker,  \* requests inside a handler
  sent,    \* every message the server took, in order
  logged,  \* what was ever put on each stream, trimmed or not
  erased,  \* messages of queues that DELETE erased
  forgotten, \* every message of a session, wherever it was, when DELETE ended the session
  answer   \* the response written by the last step

tables == << sessions, streams, pendingMessagesBySession, legacyEventsBySession >>
history == << sent, logged, erased, forgotten >>
vars == << options, tables, worker, history, answer >>

Stream ==
  [ session : Keys, kind : {"get", "post"}, nextCursor : Nat, terminated : BOOLEAN,
    aged : BOOLEAN, events : Seq([cursor : Nat, message : 0..MaxMessages]) ]
Buffer == [ nextCursor : Nat, events : Seq([cursor : Nat, message : 1..MaxMessages]) ]
Idle == [ at |-> "idle" ]
NoReply == [ status |-> 0, session |-> NoSession, stream |-> 0, resumed |-> FALSE, after |-> 0,
            events |-> << >>, header |-> NoSession ]
EmptyBuffer == [ nextCursor |-> 1, events |-> << >> ]

Init ==
  /\ options \in OptionSets
  /\ sessions = [s \in Sessions |-> [state |-> "unknown", version |-> "none"]]
  /\ streams = << >>
  /\ pendingMessagesBySession = [k \in Keys |-> << >>]
  /\ legacyEventsBySession = [k \in Keys |-> EmptyBuffer]
  /\ worker = [w \in Workers |-> Idle]
  /\ sent = << >> /\ logged = << >> /\ erased = {} /\ forgotten = {}
  /\ answer = NoReply

-----------------------------------------------------------------------------
(* Buffers.                                                                *)

\* applySseBufferLimit, applyLegacyBufferLimit: the newest events stay
Trimmed(events) ==
  IF Len(events) <= options.maxSseBufferedMessages THEN events
  ELSE SubSeq(events, Len(events) - options.maxSseBufferedMessages + 1, Len(events))

\* appendMessageEvent, appendPrimingEvent, appendLegacyMessage, one message after the other, on a
\* stream or a buffer: what trimming after each of them leaves is what trimming at the end leaves
WithEvents(buffer, messages) ==
  LET added == [n \in DOMAIN messages |->
                  [cursor |-> buffer.nextCursor + n - 1, message |-> messages[n]]]
  IN  [buffer EXCEPT !.nextCursor = @ + Len(messages), !.events = Trimmed(@ \o added)]

\* The elements of a sequence at some positions, in order: a loop with a test.
Kept(sequence, positions) ==
  LET upTo[n \in 0..Len(sequence)] ==
        IF n = 0 THEN << >>
        ELSE IF n \in positions THEN Append(upTo[n - 1], sequence[n]) ELSE upTo[n - 1]
  IN  upTo[Len(sequence)]

Fits(n) == sent[n].size = "fits"

\* Mutant of Fitting: the first message that is too large ends the loop.
FittingPrefix(messages) ==
  Kept(messages, { n \in DOMAIN messages : \A k \in 1..n : Fits(messages[k]) })

\* emitPendingMessages: what is too large is passed over
Fitting(messages) == Kept(messages, { n \in DOMAIN messages : Fits(messages[n]) })

ReplayFromCursor(buffer, cursor) ==
  Kept(buffer.events, { n \in DOMAIN buffer.events : buffer.events[n].cursor > cursor })

\* handleGet: eventCursor->cursor + 1 wraps
OutsideWindow(buffer, cursor) ==
  buffer.events # << >> /\ (cursor + 1) % CursorSpan < buffer.events[1].cursor

\* Mutant of OutsideLegacyWindow: a cursor two before the window is taken.
OutsideLegacyWindowLate(buffer, cursor) ==
  buffer.events # << >> /\ cursor + 2 < buffer.events[1].cursor

\* handleLegacyGet: the same test written without a sum
OutsideLegacyWindow(buffer, cursor) ==
  /\ buffer.events # << >>
  /\ cursor < buffer.events[1].cursor /\ cursor # buffer.events[1].cursor - 1

NewStream(key, kind) ==   \* createStream
  WithEvents([ session |-> key, kind |-> kind, nextCursor |-> 1, terminated |-> FALSE,
               aged |-> FALSE, events |-> << >> ], << 0 >>)

Numbers(events) == [n \in DOMAIN events |-> events[n].message]

\* appendLegacyMessagesFromResponse passes over the priming event.
MessagesOf(events) == Kept(Numbers(events), { n \in DOMAIN events : events[n].message # 0 })

-----------------------------------------------------------------------------
(* Requests that are answered under the mutex.                             *)

Reply(key, status) == [NoReply EXCEPT !.session = key, !.status = status]
ReplyEvents(key, stream, resumed, after, events) ==
  [NoReply EXCEPT !.session = key, !.status = Ok, !.stream = stream, !.resumed = resumed,
                 !.after = after, !.events = events]

ServeMetadata(r) ==
  /\ answer' = Reply(NoSession, MetadataStatus(options, r))
  /\ UNCHANGED << options, tables, worker, history >>

Refuse(status) ==
  /\ answer' = Reply(NoSession, status)
  /\ UNCHANGED << options, tables, worker, history >>

Work == Len(streams) + Cardinality({ w \in Workers : worker[w] # Idle })

\* handleGet without Last-Event-ID; emitPendingMessages drops what is too large
OpenStream(r) ==
  LET key == r.session
      queued == pendingMessagesBySession[key]
      stream == WithEvents(NewStream(key, "get"), Fitting(queued))
  IN
  /\ r.method = "GET" /\ ~Legacy(options, r) /\ r.lastEventId.kind = "none"
  /\ Work < MaxWork
  /\ streams' = Append(streams, stream)
  /\ logged' = Append(logged, << 0 >> \o Fitting(queued))
  /\ pendingMessagesBySession' = [pendingMessagesBySession EXCEPT ![key] = << >>]
  /\ answer' = ReplyEvents(key, Len(streams) + 1, FALSE, 0, stream.events)
  /\ UNCHANGED << options, sessions, legacyEventsBySession, worker, sent, erased, forgotten >>

Resumable(r, n) ==
  n \in DOMAIN streams /\ ~streams[n].aged /\ streams[n].session = r.session

\* Mutant of ResumeStream: whose stream it is is not looked at.
ResumeAnyStream(r) ==
  LET n == r.lastEventId.stream IN
  /\ r.method = "GET" /\ ~Legacy(options, r) /\ r.lastEventId.kind = "event"
  /\ n \in DOMAIN streams
  /\ answer' = ReplyEvents(r.session, n, TRUE, r.lastEventId.cursor,
                           ReplayFromCursor(streams[n], r.lastEventId.cursor))
  /\ UNCHANGED << options, tables, worker, history >>

\* handleGet with the id of an event of a stream
ResumeStream(r) ==
  LET n == r.lastEventId.stream
      cursor == r.lastEventId.cursor
  IN
  /\ r.method = "GET" /\ ~Legacy(options, r) /\ r.lastEventId.kind = "event"
  /\ Resumable(r, n)
  /\ answer' = IF OutsideWindow(streams[n], cursor) THEN Reply(r.session, 409)
               ELSE ReplyEvents(r.session, n, TRUE, cursor, ReplayFromCursor(streams[n], cursor))
  /\ UNCHANGED << options, tables, worker, history >>

\* the id is malformed, or of a stream that is unknown, too old or of another session
RefuseResume(r) ==
  LET n == r.lastEventId.stream IN
  /\ r.method = "GET" /\ ~Legacy(options, r) /\ r.lastEventId.kind # "none"
  /\ \/ /\ r.lastEventId.kind = "malformed"
        /\ answer' = Reply(r.session, 400) /\ UNCHANGED streams
     \/ /\ r.lastEventId.kind = "event" /\ ~Resumable(r, n)
        /\ answer' = Reply(r.session, 404)
        /\ streams' = IF n \in DOMAIN streams /\ streams[n].aged
                      THEN [streams EXCEPT ![n].terminated = TRUE] ELSE streams
  /\ UNCHANGED << options, sessions, pendingMessagesBySession, legacyEventsBySession, worker, history >>

\* handleLegacyGet: the buffer of the session, from a cursor or from its start
ReadLegacy(r) ==
  LET buffer == legacyEventsBySession[r.session]
      resumed == r.lastEventId.kind = "event"
      cursor == IF resumed THEN r.lastEventId.cursor ELSE 0
  IN
  /\ r.method = "GET" /\ Legacy(options, r)
  /\ answer' = IF r.lastEventId.kind = "malformed" THEN Reply(r.session, 400)
               ELSE IF resumed /\ OutsideLegacyWindow(buffer, cursor) THEN Reply(r.session, 409)
               ELSE ReplyEvents(r.session, 0, resumed, cursor, ReplayFromCursor(buffer, cursor))
  /\ UNCHANGED << options, tables, worker, history >>

DeleteSession(r) ==
  /\ r.method = "DELETE"
  /\ sessions' = [sessions EXCEPT ![r.session].state = "terminated"]
  /\ streams' = [n \in DOMAIN streams |->
                   [streams[n] EXCEPT !.terminated = @ \/ streams[n].session = r.session]]
  /\ pendingMessagesBySession' = [pendingMessagesBySession EXCEPT ![r.session] = << >>]
  /\ legacyEventsBySession' = [legacyEventsBySession EXCEPT ![r.session] = EmptyBuffer]
  /\ erased' = erased \cup ToSet(pendingMessagesBySession[r.session])
  /\ forgotten' = forgotten \cup { n \in DOMAIN sent : sent[n].session = r.session }
  /\ answer' = Reply(r.session, 204)
  /\ UNCHANGED << options, worker, sent, logged >>

-----------------------------------------------------------------------------
(* POST: validated, then the handler without the mutex, then the answer.   *)

Generates(r) == r.body = "initialize" /\ options.requireSessionId

\* handlePost up to lock.unlock(); the generated id is new
EnterHandler(w, r) ==
  /\ worker[w] = Idle
  /\ r.method = "POST"
  /\ Work < MaxWork
  /\ \E id \in Keys :
       /\ IF Generates(r)
          THEN /\ id # NoSession /\ sessions[id].state = "unknown"
               /\ \A v \in Workers : worker[v] # Idle => worker[v].generated # id
          ELSE id = NoSession
       /\ worker' = [worker EXCEPT ![w] =
                        [ at |-> "handler", generated |-> id,
                          request |-> [ path |-> r.path, session |-> r.session, body |-> r.body ] ]]
  /\ answer' = NoReply
  /\ UNCHANGED << options, tables, history >>

InHandler(w, bodies) == worker[w] # Idle /\ worker[w].request.body \in bodies

\* The exception leaves handleRequest.
HandlerThrows(w) ==
  /\ worker[w] # Idle
  /\ worker' = [worker EXCEPT ![w] = Idle]
  /\ answer' = NoReply
  /\ UNCHANGED << options, tables, history >>

\* A notification or a response of the client: accepted, or refused by policy.
HandlerJudges(w, accepted) ==
  /\ InHandler(w, {"notification", "response"})
  /\ worker' = [worker EXCEPT ![w] = Idle]
  /\ answer' = Reply(worker[w].request.session, IF accepted THEN 202 ELSE 400)
  /\ UNCHANGED << options, tables, history >>

\* The session that the result of an initialize request creates, if it does.
Establishes(w, result) ==
  worker[w].generated # NoSession /\ result.response \in {"success", "unsupportedVersion"}

Establish(w, result) ==     \* upsertSession(*generatedSessionId, kActive, negotiated)
  sessions' = IF ~Establishes(w, result) THEN sessions
              ELSE [sessions EXCEPT ![worker[w].generated] =
                      [ state |-> "active",
                        version |-> IF result.response = "success" THEN "supported"
                                    ELSE "unsupported" ]]


HeaderOf(w, result) == IF Establishes(w, result) THEN worker[w].generated ELSE NoSession

\* How many of some messages precede the first that is too large.
BeforeOversize(sizes) ==
  CHOOSE n \in 0..Len(sizes) :
    /\ \A k \in 1..n : sizes[k] = "fits"
    /\ n < Len(sizes) => sizes[n + 1] = "oversize"

Handed(key, from, size) == [ session |-> key, from |-> from, size |-> size ]

\* legacySessionIdForRequest: the header again, not the validated id
ReplyToPost(w, reply, legacy, messages) ==
  LET r == worker[w].request
      key == r.session
      last == BeforeOversize([n \in DOMAIN messages |-> sent'[messages[n]].size])
  IN
  IF ~legacy \/ reply.status # Ok
  THEN answer' = reply /\ UNCHANGED legacyEventsBySession
  ELSE /\ legacyEventsBySession' = [legacyEventsBySession EXCEPT ![key] = WithEvents(@, SubSeq(messages, 1, last))]
       /\ answer' = IF last = Len(messages)
                    THEN [Reply(key, 202) EXCEPT !.header = reply.header]
                    ELSE Reply(key, 400)

\* handlePost without SSE: the body is the response, whatever its size; only the legacy
\* endpoint keeps it
HandlerAnswers(w, result) ==
  LET r == worker[w].request
      answered == result.response # "none"
      kept == IF answered /\ Legacy(options, r) THEN << Len(sent) + 1 >> ELSE << >>
  IN
  /\ InHandler(w, {"initialize", "request"})
  /\ ~result.useSse /\ result.pre = << >>
  /\ Legacy(options, r) => Len(sent) < MaxMessages
  /\ Establish(w, result)
  /\ sent' = IF kept # << >> THEN Append(sent, Handed(r.session, "post", result.size)) ELSE sent
  /\ ReplyToPost(w, [Reply(r.session, IF answered THEN Ok ELSE 500) EXCEPT
                       !.header = HeaderOf(w, result)],
                 Legacy(options, r), kept)
  /\ worker' = [worker EXCEPT ![w] = Idle]
  /\ UNCHANGED << options, streams, pendingMessagesBySession, logged, erased, forgotten >>

\* createStream(validation.sessionId): not the generated id
StreamOwner(w) == worker[w].request.session

\* handlePost with SSE: what the handler wrote, up to the first message that is too large
HandlerStreams(w, result) ==
  LET r == worker[w].request
      answered == result.response # "none"
      sizes == result.pre \o (IF answered THEN << result.size >> ELSE << >>)
      new == [n \in DOMAIN sizes |-> Handed(StreamOwner(w), "post", sizes[n])]
      last == BeforeOversize(sizes)
      oversize == last < Len(sizes)
      numbers == [n \in 1..last |-> Len(sent) + n]
      stream == [WithEvents(NewStream(StreamOwner(w), "post"), numbers) EXCEPT
                   !.terminated = oversize \/ (answered /\ result.terminateSseAfterResponse)]
  IN
  /\ InHandler(w, {"initialize", "request"})
  /\ result.useSse \/ result.pre # << >>
  /\ Len(sent) + Len(sizes) <= MaxMessages
  /\ sent' = sent \o new
  /\ streams' = Append(streams, stream)
  /\ logged' = Append(logged, << 0 >> \o numbers)
  /\ IF oversize
     THEN /\ answer' = Reply(r.session, 400)
          /\ UNCHANGED << sessions, legacyEventsBySession >>
     ELSE /\ Establish(w, result)
          /\ ReplyToPost(w, [ReplyEvents(StreamOwner(w), Len(streams) + 1, FALSE, 0, stream.events)
                               EXCEPT !.header = HeaderOf(w, result)],
                         Legacy(options, r), MessagesOf(stream.events))
  /\ worker' = [worker EXCEPT ![w] = Idle]
  /\ UNCHANGED << options, pendingMessagesBySession, erased, forgotten >>

-----------------------------------------------------------------------------
(* Calls of the application.                                               *)

Candidates(key) ==
  { n \in DOMAIN streams : ~streams[n].terminated /\ ~streams[n].aged /\ streams[n].session = key }
OfKind(set, kind) == { n \in set : streams[n].kind = kind }
Oldest(set) == CHOOSE n \in set : \A k \in set : n <= k

\* Mutant of ChooseTargetStream: a stream that was terminated is taken.
ChooseTerminated(key, response) ==
  LET open == { n \in DOMAIN streams : streams[n].session = key }
      posts == OfKind(open, "post")
  IN  IF posts = {} THEN 0 ELSE Oldest(posts)

\* the oldest POST stream for a response, else the oldest GET stream or failing that POST stream
ChooseTargetStream(key, response) ==
  LET open == Candidates(key)
      first == OfKind(open, IF response THEN "post" ELSE "get")
      second == IF response THEN {} ELSE OfKind(open, "post")
  IN  IF first # {} THEN Oldest(first) ELSE IF second # {} THEN Oldest(second) ELSE 0

\* The streams the search walks over: those that grew too old are terminated.
Walked(key, response) ==
  LET first == OfKind(Candidates(key), IF response THEN "post" ELSE "get")
  IN  IF first = {} THEN DOMAIN streams ELSE { n \in DOMAIN streams : n <= Oldest(first) }

\* What enqueueServerMessage returns.
Accepts(key, response, size) ==
  IF ChooseTargetStream(key, response) # 0 THEN size = "fits"
  ELSE Len(pendingMessagesBySession[key]) < options.maxSseBufferedMessages

EnqueueServerMessage(key, response, size) ==
  LET target == ChooseTargetStream(key, response)
      number == Len(sent) + 1
      accepted == Accepts(key, response, size)
      walked == [n \in DOMAIN streams |->
                   [streams[n] EXCEPT !.terminated = @ \/ (n \in Walked(key, response) /\ streams[n].aged)]]
  IN
  /\ Len(sent) < MaxMessages
  /\ sent' = IF accepted THEN Append(sent, Handed(key, "queue", size)) ELSE sent
  /\ IF target # 0 /\ accepted
     THEN /\ streams' = [walked EXCEPT ![target] =
                           [WithEvents(@, << number >>) EXCEPT !.terminated = response]]
          /\ logged' = [logged EXCEPT ![target] = Append(@, number)]
          /\ UNCHANGED pendingMessagesBySession
     ELSE /\ streams' = walked
          /\ pendingMessagesBySession' =
               IF accepted THEN [pendingMessagesBySession EXCEPT ![key] = Append(@, number)]
               ELSE pendingMessagesBySession
          /\ UNCHANGED logged
  /\ answer' = NoReply
  /\ UNCHANGED << options, sessions, legacyEventsBySession, worker, erased, forgotten >>

\* maxSseStreamDuration passes for a stream: isStreamExpired holds from now on
StreamAges(n) ==
  /\ n \in AgingStreams /\ ~streams[n].aged
  /\ streams' = [streams EXCEPT ![n].aged = TRUE]
  /\ answer' = NoReply
  /\ UNCHANGED << options, sessions, pendingMessagesBySession, legacyEventsBySession, worker, history >>

UpsertSession(s, version) ==
  /\ sessions[s].state = "unknown"
  /\ \A w \in Workers : worker[w] # Idle => worker[w].generated # s
  /\ sessions' = [sessions EXCEPT ![s] = [ state |-> "active", version |-> version ]]
  /\ answer' = NoReply
  /\ UNCHANGED << options, streams, pendingMessagesBySession, legacyEventsBySession, worker, history >>

SetSessionState(s, state) ==
  /\ sessions[s].state \notin {"unknown", state}
  /\ sessions' = [sessions EXCEPT ![s].state = state]
  /\ answer' = NoReply
  /\ UNCHANGED << options, streams, pendingMessagesBySession, legacyEventsBySession, worker, history >>

-----------------------------------------------------------------------------
\* What follows when every check of the request passed.
Handle(r) ==
  \/ OpenStream(r) \/ ResumeStream(r) \/ RefuseResume(r) \/ ReadLegacy(r) \/ DeleteSession(r)
  \/ \E w \in Workers : EnterHandler(w, r)

\* handleRequest: some thread takes a request, and the first refusal is the answer.
Serve ==
  /\ \E w \in Workers : worker[w] = Idle
  /\ \E r \in Requests :
       IF IsMetadata(options, r) THEN ServeMetadata(r)
       ELSE LET status == Status(options, sessions, r)
            IN  IF status # Ok THEN Refuse(status) ELSE Handle(r)

LeaveHandler(w) ==
  \/ HandlerThrows(w)
  \/ \E accepted \in BOOLEAN : HandlerJudges(w, accepted)
  \/ \E result \in HandlerResults : HandlerAnswers(w, result) \/ HandlerStreams(w, result)

Apply ==
  \/ \E key \in Keys, response \in BOOLEAN, size \in Sizes :
       EnqueueServerMessage(key, response, size)
  \/ \E n \in DOMAIN streams : StreamAges(n)
  \/ \E s \in Sessions :
       \/ \E version \in AppVersions : UpsertSession(s, version)
       \/ \E state \in AppStates : SetSessionState(s, state)

\* handleRequest returns: the mutex is free and the caller has the response.  Every
\* other step starts when the last response is gone, which commutes with all of them.
ReturnResponse ==
  /\ answer # NoReply
  /\ answer' = NoReply
  /\ UNCHANGED << options, tables, worker, history >>

Next ==
  \/ answer = NoReply /\ (Serve \/ Apply \/ \E w \in Workers : LeaveHandler(w))
  \/ ReturnResponse

Spec == Init /\ [][Next]_vars

-----------------------------------------------------------------------------
(* Properties.                                                             *)

Shown == ToSet(Numbers(answer.events)) \ {0}
OnStreams(n) == { i \in DOMAIN logged : n \in ToSet(logged[i]) }
Queued(n) == { k \in Keys : n \in ToSet(pendingMessagesBySession[k]) }

\* A message that enqueueServerMessage accepted is in exactly one place, the queue of
\* its session or one stream of it, in the order of the calls there; it is lost only
\* to DELETE, or when it is too large for the stream that empties the queue.
AcceptedOnce ==
  /\ \A n \in DOMAIN sent :
       /\ Cardinality(OnStreams(n)) + Cardinality(Queued(n)) <= 1
       /\ \A i \in OnStreams(n) : streams[i].session = sent[n].session
       /\ Queued(n) \subseteq {sent[n].session}
       /\ sent[n].from = "queue" /\ n \notin erased /\ sent[n].size = "fits" =>
            OnStreams(n) # {} \/ Queued(n) # {}
       /\ n \in erased => OnStreams(n) = {}
  /\ \A i \in DOMAIN logged : \A a, b \in DOMAIN logged[i] : a < b => logged[i][a] < logged[i][b]

\* An answer shows only messages of the session its request was validated for.
AnswersStayInSession ==
  \A n \in Shown : sent[n].session = answer.session

\* A legacy client that resumes is shown every later message of its session, once,
\* in order and without a gap, or it is told that it cannot be.
LegacyReplayHasNoGap ==
  answer.stream = 0 /\ answer.events # << >> =>
    /\ \A n \in 1..(Len(answer.events) - 1) :
         answer.events[n + 1].cursor = answer.events[n].cursor + 1
    /\ answer.resumed => answer.events[1].cursor = answer.after + 1
    /\ Last(answer.events).cursor + 1 = legacyEventsBySession[answer.session].nextCursor

Buffered(n) ==
  { k \in Keys : n \in ToSet(Numbers(legacyEventsBySession[k].events)) }

\* What a session had been sent before DELETE ended it, queued, on a stream or in its legacy
\* buffer, is never queued or buffered again, its streams take nothing more, and no answer
\* shows it unless the application made the session active again.  A POST that is in its
\* handler during DELETE is not bound by this: what it brings is new.
DeletedStaysDeleted ==
  \A n \in forgotten :
    /\ Queued(n) = {} /\ Buffered(n) = {}
    /\ \A i \in OnStreams(n) : streams[i].terminated
    /\ n \in Shown => sessions[sent[n].session].state = "active"

StreamLogs ==
  [n \in DOMAIN streams |->
     [ owner |-> streams[n].session, closed |-> streams[n].terminated, messages |-> logged[n] ]]
StreamAnswer ==
  [ log |-> answer.stream, reader |-> answer.session, after |-> answer.after,
    messages |-> Numbers(answer.events) ]
Log == INSTANCE EventLog WITH Owners <- Keys, Messages <- 0..MaxMessages,
                              logs <- StreamLogs, answer <- StreamAnswer

\* The trimmed buffers implement logs that are never trimmed: a resumed client gets
\* exactly what follows its cursor or a refusal, a terminated stream never changes.
ImplementsEventLog == Log!Spec
=============================================================================
