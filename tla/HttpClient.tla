------------------------------- MODULE HttpClient -------------------------------
(***************************************************************************)
(* The Streamable HTTP client: StreamableHttpClient and the client-side    *)
(* Transport around it.                                                    *)
(*                                                                         *)
(* Threads call send(); one listen loop polls the GET stream of the        *)
(* session; one controlling thread starts and stops.  An HTTP exchange is  *)
(* one step, for requestExecutorMutex serialises them.  What happens while *)
(* the client's mutex is held is one step with its exchange; what it does  *)
(* after giving the mutex back (resuming a POST stream, polling) is not.   *)
(* The server is reduced to the life of its sessions and the messages it   *)
(* numbers on each session's GET stream.                                   *)
(***************************************************************************)
EXTENDS Naturals, Sequences, FiniteSets

CONSTANTS
  Senders,     \* threads that call send()
  Sessions,    \* session ids the server may generate
  None,
  MaxAttempts, \* limits.maxRetryAttempts
  MaxSends,    \* calls of send() (bounds the model)
  MaxMessages, \* messages the server emits in each session (bounds the model)
  MaxStarts    \* calls of start() (bounds the model)

ASSUME HttpClientAssumption ==
  /\ None \notin Senders \cup Sessions
  /\ MaxAttempts \in Nat /\ MaxSends \in Nat /\ MaxMessages \in Nat /\ MaxStarts \in Nat

VARIABLES
  options,       \* legacyFallbackEnabled and enableGetListen, fixed
  header,        \* the session id in headerState
  listen,        \* listenState: the session and the last event of the GET stream
  legacy,        \* legacyState: where the client is in the legacy event stream
  mutex,         \* the sender that keeps the client's mutex across steps
  transportRunning, listenStarted, listenEnabled, loopRunning,
  attached,      \* inboundLoop_ is set
  loop,          \* the thread of the listen loop
  ctl, starts,   \* the controlling thread
  send, sends,   \* what each sender does
  life,          \* the server's sessions
  emitted,       \* messages of each session so far
  flushed,       \* those that were written to some stream
  legacyLog,     \* events of the legacy server: answers, by the id of the request
  handed,        \* history: messages the listen loop handed to the handler
  failed         \* history: sessions where the handler, or an unreadable stream, failed

client == << header, listen, legacy, mutex >>
transport == << transportRunning, listenStarted, listenEnabled, loopRunning, attached >>
control == << ctl, starts >>
sending == << send, sends >>
server == << life, emitted, flushed, legacyLog >>
history == << handed, failed >>
clientVars == << options, client, transport, loop, control, sending, server, history >>

Quiet == [ pc |-> "none", session |-> None, cursor |-> 0, got |-> << >>, open |-> FALSE ]
Calm == [ pc |-> "idle", id |-> 0, kind |-> None, session |-> None, attempt |-> 0,
          resumable |-> FALSE, startLoop |-> FALSE ]

ClientInit ==
  /\ options \in [legacy : BOOLEAN, getListen : BOOLEAN]
  /\ header = None /\ listen = None /\ legacy = None /\ mutex = None
  /\ transportRunning = FALSE /\ listenStarted = FALSE /\ listenEnabled = options.getListen
  /\ loopRunning = FALSE /\ attached = FALSE
  /\ loop = Quiet
  /\ ctl = "idle" /\ starts = 0
  /\ send = [t \in Senders |-> Calm] /\ sends = 0
  /\ life = [s \in Sessions |-> "none"]
  /\ emitted = [s \in Sessions |-> 0] /\ flushed = [s \in Sessions |-> 0]
  /\ legacyLog = << >>
  /\ handed = [s \in Sessions |-> << >>] /\ failed = {}

-----------------------------------------------------------------------------
(* What the server answers.                                                *)

Alive(s) == s \in Sessions /\ life[s] = "alive"

\* a second "initialized" is like any other notification or response
Kinds == {"initialize", "initialized", "request"}
IsRequest(kind) == kind \in {"initialize", "request"}

\* "refused" stands for any other status, and for an answer the client cannot read
PostStatus(kind) ==
  {"refused"} \cup
  (IF header # None THEN (IF Alive(header) THEN {"ok"} ELSE {"404"})
   ELSE IF kind = "initialize" THEN {"ok", "400", "404", "405"} ELSE {"400"})

\* A GET that resumes names an event of its session; in another session it is unknown.
GetStatus(session) ==
  IF header = None THEN {"refused"}
  ELSE IF ~Alive(header) \/ (session # None /\ session # header) THEN {"404"}
  ELSE {"200", "405", "refused"}

Numbers(from, to) == [i \in 1..(to - from) |-> from + i]

-----------------------------------------------------------------------------
(* send().                                                                 *)

\* Transport::send under the transport's mutex
Send(t, kind) ==
  /\ send[t].pc = "idle" /\ transportRunning /\ sends < MaxSends
  /\ LET starter == listenEnabled /\ ~listenStarted /\ kind = "initialized"
     IN /\ send' = [send EXCEPT ![t] = [Calm EXCEPT !.pc = "post", !.id = sends + 1, !.kind = kind,
                                                      !.startLoop = starter]]
        /\ listenStarted' = (listenStarted \/ starter)
  /\ sends' = sends + 1
  /\ UNCHANGED << options, client, transportRunning, listenEnabled, loopRunning, attached, loop, control,
                  server, history >>

Enter(t) == send[t].pc = "post" /\ mutex \in {None, t}

\* The exception goes to the caller; messages that were collected go with it.
Throw(t) == send' = [send EXCEPT ![t] = Calm] /\ UNCHANGED sends
Return(t) ==
  /\ send' = [send EXCEPT ![t] = [Calm EXCEPT !.pc = "deliver", !.startLoop = send[t].startLoop]]
  /\ UNCHANGED sends

FallsBack(kind, status) ==
  options.legacy /\ legacy = None /\ kind = "initialize" /\ status \in {"400", "404", "405"}

Forget == header' = None /\ listen' = None

\* The server terminated the session.
PostNotFound(t) ==
  /\ Enter(t) /\ legacy = None
  /\ "404" \in PostStatus(send[t].kind) /\ ~FallsBack(send[t].kind, "404")
  /\ Forget
  /\ Throw(t)
  /\ UNCHANGED << options, legacy, mutex, transport, loop, control, server, history >>

PostRefused(t) ==
  /\ Enter(t) /\ legacy = None
  /\ \E status \in PostStatus(send[t].kind) \ {"ok", "404"} : ~FallsBack(send[t].kind, status)
  /\ Throw(t)
  /\ UNCHANGED << options, client, transport, loop, control, server, history >>

\* captureSessionFromInitializeResponse; the header state is the server's from here on
Capture(kind) ==
  IF kind # "initialize" THEN UNCHANGED << header, life >>
  ELSE \/ \E s \in Sessions : header = None /\ life[s] = "none"
                              /\ header' = s /\ life' = [life EXCEPT ![s] = "alive"]
       \/ header # None /\ UNCHANGED << header, life >>

\* 202 for a notification; JSON, or a stream that holds the response, for a request
PostAnswered(t) ==
  /\ Enter(t) /\ legacy = None /\ "ok" \in PostStatus(send[t].kind)
  /\ Capture(send[t].kind)
  /\ Return(t)
  /\ UNCHANGED << options, listen, legacy, mutex, transport, loop, control,
                  emitted, flushed, legacyLog, history >>

\* An SSE answer without the response: resumed after the mutex was given back.  The stream
\* may have been terminated, or have no event id.
PostStreams(t) ==
  /\ Enter(t) /\ legacy = None /\ IsRequest(send[t].kind) /\ "ok" \in PostStatus(send[t].kind)
  /\ Capture(send[t].kind)
  /\ \E resumable \in BOOLEAN :
       send' = [send EXCEPT ![t].pc = "resume", ![t].session = header', ![t].resumable = resumable]
  /\ UNCHANGED << options, listen, legacy, mutex, transport, loop, control, sends,
                  emitted, flushed, legacyLog, history >>

MayResume(t) == send[t].pc = "resume" /\ send[t].attempt < MaxAttempts /\ send[t].resumable

\* The stream ended, has no event id, or maxRetryAttempts polls were not enough.
ResumeGivesUp(t) ==
  /\ send[t].pc = "resume" /\ ~MayResume(t)
  /\ Throw(t)
  /\ UNCHANGED << options, client, transport, loop, control, server, history >>

\* resumeSseStreamUntilResponse: each poll carries the session id of this moment.  A 404
\* throws like any status that is not 200 and clears nothing.
Resume(t) ==
  /\ MayResume(t)
  /\ \E status \in GetStatus(send[t].session) :
       \/ status # "200" /\ Throw(t)
       \/ status = "200" /\ Return(t)
       \/ /\ status = "200"
          /\ \E resumable \in BOOLEAN :
               send' = [send EXCEPT ![t].attempt = @ + 1, ![t].resumable = resumable]
          /\ UNCHANGED sends
  /\ UNCHANGED << options, client, transport, loop, control, server, history >>

\* beginLegacyFallback: the event stream begins with an endpoint of the same origin
PostFallsBack(t) ==
  /\ Enter(t) /\ legacy = None
  /\ \E status \in PostStatus(send[t].kind) : FallsBack(send[t].kind, status)
  /\ \/ legacy' = 0 /\ mutex' = t /\ UNCHANGED sending
     \/ UNCHANGED << legacy, mutex >> /\ Throw(t)
  /\ UNCHANGED << options, header, listen, transport, loop, control, server, history >>

\* sendLegacy up to the POST.  A 202, or a stream without the response, makes a request wait
\* with the mutex held.
LegacyPost(t) ==
  /\ Enter(t) /\ legacy # None
  /\ \/ Throw(t) /\ mutex' = None
     \/ Return(t) /\ mutex' = None
     \/ /\ IsRequest(send[t].kind)
        /\ send' = [send EXCEPT ![t].pc = "legacy"]
        /\ mutex' = t
        /\ UNCHANGED sends
  /\ UNCHANGED << options, header, listen, legacy, transport, loop, control, server, history >>

\* waitForLegacyResponse: everything after Last-Event-ID, until the answer is in it.  The
\* answers to others are handed to the handler as messages.
LegacyPoll(t) ==
  /\ send[t].pc = "legacy"
  /\ \/ /\ send[t].attempt < MaxAttempts
        /\ legacy' = Len(legacyLog)
        /\ IF \E i \in (legacy + 1)..Len(legacyLog) : legacyLog[i] = send[t].id
           THEN Return(t) /\ mutex' = None
           ELSE send' = [send EXCEPT ![t].attempt = @ + 1] /\ UNCHANGED << sends, mutex >>
     \/ UNCHANGED legacy /\ Throw(t) /\ mutex' = None   \* no attempt is left, or another status
  /\ UNCHANGED << options, header, listen, transport, loop, control, server, history >>

\* Mutant of Deliver: a transport that was stopped meanwhile starts its loop.
DeliverStartsAnyway(t) ==
  /\ send[t].pc = "deliver"
  /\ send' = [send EXCEPT ![t] = Calm]
  /\ IF send[t].startLoop /\ ~attached /\ loop.pc = "none"
     THEN loopRunning' = TRUE /\ attached' = TRUE /\ loop' = [Quiet EXCEPT !.pc = "top"]
     ELSE UNCHANGED << loopRunning, attached, loop >>
  /\ UNCHANGED << options, client, transportRunning, listenStarted, listenEnabled, control, sends, server, history >>

\* Transport::send hands over what came, then startListenLoop
Deliver(t) ==
  /\ send[t].pc = "deliver"
  /\ send' = [send EXCEPT ![t] = Calm]
  /\ IF send[t].startLoop /\ transportRunning /\ ~attached
     THEN loopRunning' = TRUE /\ attached' = TRUE /\ loop' = [Quiet EXCEPT !.pc = "top"]
     ELSE UNCHANGED << loopRunning, attached, loop >>
  /\ UNCHANGED << options, client, transportRunning, listenStarted, listenEnabled, control, sends, server, history >>

-----------------------------------------------------------------------------
(* The listen loop.                                                        *)

LoopOnly == UNCHANGED << options, control, sending, emitted, life, legacyLog >>

EndLoop == loop' = [Quiet EXCEPT !.pc = "ended"]

\* hasActiveListenStream reads listenState without the mutex
LoopTop ==
  /\ loop.pc = "top"
  /\ IF ~loopRunning THEN EndLoop
     ELSE loop' = [Quiet EXCEPT !.pc = IF listen = None THEN "open" ELSE "poll"]
  /\ LoopOnly /\ UNCHANGED << client, transport, flushed, history >>

\* openListenStream throws: legacy mode, no session (400), an answer that is no event stream
OpenThrows ==
  /\ loop.pc = "open" /\ mutex = None
  /\ legacy # None \/ "refused" \in GetStatus(None)
  /\ EndLoop
  /\ LoopOnly /\ UNCHANGED << client, transport, flushed, history >>

OpenNotFound ==
  /\ loop.pc = "open" /\ mutex = None /\ legacy = None /\ "404" \in GetStatus(None)
  /\ Forget
  /\ EndLoop
  /\ LoopOnly /\ UNCHANGED << legacy, mutex, transport, flushed, history >>

OpenNotAllowed ==
  /\ loop.pc = "open" /\ mutex = None /\ legacy = None /\ "405" \in GetStatus(None)
  /\ listen' = None /\ listenEnabled' = FALSE
  /\ EndLoop
  /\ LoopOnly /\ UNCHANGED << header, legacy, mutex, transportRunning, listenStarted, loopRunning, attached,
                              flushed, history >>

\* The exchange; the server writes what waited to the new stream, or terminates it.  What
\* cannot be read (too large, or no message) is lost, for the cursor was not kept.
Open ==
  /\ loop.pc = "open" /\ mutex = None /\ legacy = None /\ "200" \in GetStatus(None)
  /\ flushed' = [flushed EXCEPT ![header] = emitted[header]]
  /\ \/ /\ \E open \in BOOLEAN :
             loop' = [ pc |-> "opened", session |-> header, cursor |-> emitted[header],
                       got |-> Numbers(flushed[header], emitted[header]), open |-> open ]
        /\ UNCHANGED failed
     \/ EndLoop /\ failed' = failed \cup {header}
  /\ LoopOnly /\ UNCHANGED << client, transport, handed >>

\* The mutex is taken again; whatever happened meanwhile, the stream is the listen stream.
OpenStore ==
  /\ loop.pc = "opened" /\ mutex = None
  /\ listen' = IF loop.open THEN [session |-> loop.session, cursor |-> loop.cursor] ELSE None
  /\ loop' = [loop EXCEPT !.pc = "handOpened"]
  /\ LoopOnly /\ UNCHANGED << header, legacy, mutex, transport, flushed, history >>

\* dispatchMessages: a handler that throws ends the loop, the rest of the messages is lost.
HandOver(next) ==
  /\ \/ /\ handed' = IF loop.session = None THEN handed
                     ELSE [handed EXCEPT ![loop.session] = @ \o loop.got]
        /\ IF loop.open THEN loop' = [Quiet EXCEPT !.pc = next] ELSE EndLoop
        /\ UNCHANGED failed
     \/ /\ loop.got # << >>
        /\ \E n \in 0..(Len(loop.got) - 1) :
             handed' = [handed EXCEPT ![loop.session] = @ \o SubSeq(loop.got, 1, n)]
        /\ failed' = failed \cup {loop.session}
        /\ EndLoop
  /\ LoopOnly /\ UNCHANGED << client, transport, flushed >>

HandOpened == loop.pc = "handOpened" /\ HandOver("poll")
HandPolled == loop.pc = "handPolled" /\ HandOver("top")

\* pollListenStream: the cursor is read, then the mutex is given back to wait.
PollBegin ==
  /\ loop.pc = "poll" /\ mutex = None
  /\ IF legacy # None \/ listen = None THEN EndLoop
     ELSE loop' = [Quiet EXCEPT !.pc = "polling", !.session = listen.session, !.cursor = listen.cursor]
  /\ LoopOnly /\ UNCHANGED << client, transport, flushed, history >>

\* The exchange; the session named is the one in the header state by now.
Poll ==
  /\ loop.pc = "polling"
  /\ \E status \in GetStatus(loop.session) :
       CASE status = "404" ->
              loop' = [loop EXCEPT !.pc = "notFound"] /\ UNCHANGED flushed
         [] status = "200" ->
              /\ \E open \in BOOLEAN :
                   loop' = [loop EXCEPT !.pc = "polled", !.got = Numbers(loop.cursor, emitted[header]),
                                        !.cursor = emitted[header], !.open = open]
              /\ flushed' = [flushed EXCEPT ![header] = emitted[header]]
         [] OTHER ->
              loop' = [loop EXCEPT !.pc = "unreadable"] /\ UNCHANGED flushed
  /\ LoopOnly /\ UNCHANGED << client, transport, history >>

PollNotFound ==
  /\ loop.pc = "notFound" /\ mutex = None
  /\ Forget
  /\ EndLoop
  /\ LoopOnly /\ UNCHANGED << legacy, mutex, transport, flushed, history >>

PollThrows ==
  /\ loop.pc = "unreadable" /\ mutex = None
  /\ EndLoop
  /\ LoopOnly /\ UNCHANGED << client, transport, flushed, history >>

\* Mutant of PollApply: the last event id stays what it was.
PollKeepsCursor ==
  /\ loop.pc = "polled" /\ mutex = None
  /\ listen' = IF loop.open THEN listen ELSE None
  /\ loop' = [loop EXCEPT !.pc = "handPolled"]
  /\ LoopOnly /\ UNCHANGED << header, legacy, mutex, transport, flushed, history >>

\* The reference to listenState was taken before the mutex was given back.  Where it was
\* reset meanwhile, the write goes to storage nobody reads.
PollApply ==
  /\ loop.pc = "polled" /\ mutex = None
  /\ listen' = IF loop.open /\ listen # None THEN [listen EXCEPT !.cursor = loop.cursor] ELSE None
  /\ loop' = [loop EXCEPT !.pc = "handPolled"]
  /\ LoopOnly /\ UNCHANGED << header, legacy, mutex, transport, flushed, history >>

-----------------------------------------------------------------------------
(* start() and stop().                                                     *)

Start ==
  /\ ctl = "idle" /\ ~transportRunning /\ starts < MaxStarts
  /\ transportRunning' = TRUE /\ starts' = starts + 1
  /\ UNCHANGED << options, client, listenStarted, listenEnabled, loopRunning, attached, loop, ctl,
                  sending, server, history >>

\* Mutant of Stop: the flag the loop looks at stays set.
StopUnsignalled ==
  /\ ctl = "idle" /\ transportRunning
  /\ transportRunning' = FALSE /\ listenStarted' = FALSE /\ attached' = FALSE
  /\ ctl' = IF attached THEN "join" ELSE "close"
  /\ UNCHANGED << options, client, listenEnabled, loopRunning, loop, starts, sending, server, history >>

Stop ==
  /\ ctl = "idle" /\ transportRunning
  /\ transportRunning' = FALSE /\ loopRunning' = FALSE /\ listenStarted' = FALSE /\ attached' = FALSE
  /\ ctl' = IF attached THEN "join" ELSE "close"
  /\ UNCHANGED << options, client, listenEnabled, loop, starts, sending, server, history >>

Join ==
  /\ ctl = "join" /\ loop.pc = "ended"
  /\ loop' = Quiet
  /\ ctl' = "close"
  /\ UNCHANGED << options, client, transport, starts, sending, server, history >>

\* Only a transport that listens terminates its session.  Without a session id there is
\* nothing to delete; a refusal (405, an exception) keeps what the client knows.
Close ==
  /\ ctl = "close"
  /\ \/ listen = None /\ UNCHANGED << header, listen, life >>
     \/ /\ listen # None /\ mutex = None
        /\ \/ UNCHANGED << header, listen, life >>
           \/ /\ legacy = None /\ Alive(header)
              /\ life' = [life EXCEPT ![header] = "ended"]
              /\ Forget
  /\ ctl' = "idle"
  /\ UNCHANGED << options, legacy, mutex, transport, loop, starts, sending,
                  emitted, flushed, legacyLog, history >>

-----------------------------------------------------------------------------
(* The server.                                                             *)

SessionEnds(s) ==
  /\ life[s] = "alive"
  /\ life' = [life EXCEPT ![s] = "ended"]
  /\ UNCHANGED << options, client, transport, loop, control, sending, emitted, flushed, legacyLog, history >>

Emit(s) ==
  /\ life[s] = "alive" /\ emitted[s] < MaxMessages
  /\ emitted' = [emitted EXCEPT ![s] = @ + 1]
  /\ UNCHANGED << options, client, transport, loop, control, sending, life, flushed, legacyLog, history >>

\* The legacy server answers in its own time, possibly when nobody waits any more.
LegacyAnswer(t) ==
  /\ send[t].pc = "legacy" /\ \A i \in DOMAIN legacyLog : legacyLog[i] # send[t].id
  /\ legacyLog' = Append(legacyLog, send[t].id)
  /\ UNCHANGED << options, client, transport, loop, control, sending, life, emitted, flushed, history >>

-----------------------------------------------------------------------------
Sending(t) ==
  \/ PostNotFound(t) \/ PostRefused(t) \/ PostAnswered(t) \/ PostStreams(t)
  \/ ResumeGivesUp(t) \/ Resume(t)
  \/ PostFallsBack(t) \/ LegacyPost(t) \/ LegacyPoll(t)
  \/ Deliver(t)

Listening ==
  \/ LoopTop \/ OpenThrows \/ OpenNotFound \/ OpenNotAllowed \/ Open \/ OpenStore \/ HandOpened
  \/ PollBegin \/ Poll \/ PollNotFound \/ PollThrows \/ PollApply \/ HandPolled

Stopping == Join \/ Close

ClientNext ==
  \/ \E t \in Senders, kind \in Kinds : Send(t, kind)
  \/ \E t \in Senders : Sending(t) \/ LegacyAnswer(t)
  \/ Listening \/ Start \/ Stop \/ Stopping
  \/ \E s \in Sessions : SessionEnds(s) \/ Emit(s)

ClientSpec == ClientInit /\ [][ClientNext]_clientVars

\* Exchanges end (the executor has timeouts) and threads make progress.
ClientFairSpec ==
  ClientSpec /\ WF_clientVars(Listening) /\ WF_clientVars(Stopping) /\ \A t \in Senders : WF_clientVars(Sending(t))

-----------------------------------------------------------------------------
(* Properties.                                                             *)

Increasing(seq) == \A i, j \in DOMAIN seq : i < j => seq[i] < seq[j]

\* The listen loop hands each message of a session's stream over once and in order, across
\* polls, reopened streams, restarts and sessions; it skips one only where the handler threw
\* or a first answer could not be read.
HandedInOrder ==
  \A s \in Sessions :
    /\ Increasing(handed[s])
    /\ s \notin failed => \A i \in DOMAIN handed[s] : handed[s][i] = i

\* Once stop() has returned no loop runs, and the transport may be started afresh.
StoppedMeansQuiet ==
  ctl = "idle" /\ ~transportRunning => loop.pc = "none" /\ ~loopRunning /\ ~attached /\ ~listenStarted

\* stop() comes to its end though a poll or a send is in progress.
StopEnds == ctl # "idle" ~> ctl = "idle"

=============================================================================
