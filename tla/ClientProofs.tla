----------------------------- MODULE ClientProofs -----------------------------
(***************************************************************************)
(* The two transports of a client.  For any number of senders, sessions    *)
(* and messages, the listen loop of the HTTP client hands over each        *)
(* message of a session once and in order, and an HTTP transport that was  *)
(* stopped is quiet.  For any requests and calls, the stdio client drops   *)
(* no completion of an accepted elicitation, and nothing of the            *)
(* application runs on its threads once stop() has returned.               *)
(***************************************************************************)
EXTENDS StdioClient, HttpClient, TLAPS

-----------------------------------------------------------------------------
(***************************************************************************)
(* The Streamable HTTP client (HttpClient).                                *)
(***************************************************************************)

InHand == {"opened", "handOpened", "polled", "handPolled"}
LoopPcs == {"none", "ended", "top", "open", "poll", "polling", "notFound", "unreadable"} \cup InHand
LoopType ==
  [ pc : LoopPcs, session : Sessions \cup {None}, cursor : Nat, got : Seq(Nat), open : BOOLEAN ]

TransportTypeOK ==
  /\ header \in Sessions \cup {None}
  /\ listen \in [ session : Sessions, cursor : Nat ] \cup {None}
  /\ loop \in LoopType
  /\ emitted \in [Sessions -> Nat] /\ flushed \in [Sessions -> Nat]
  /\ handed \in [Sessions -> Seq(Nat)] /\ failed \subseteq Sessions

\* There is a loop exactly while the transport holds one or stop() waits for it, and a
\* transport that does not run starts none.
ThreadInv ==
  /\ transportRunning => ctl = "idle"
  /\ ~transportRunning => ~attached /\ ~loopRunning /\ ~listenStarted
  /\ loopRunning => attached
  /\ loop.pc # "none" => attached \/ ctl = "join"

\* Where the client's knowledge of a stream and the server's stand: the cursor is that of
\* the last message written to the stream, except between the exchange of a poll and the
\* write of its cursor.
CursorInv ==
  /\ \A s \in Sessions : flushed[s] <= emitted[s]
  /\ listen # None => /\ loop.pc \in {"polling", "polled"} => loop.session = listen.session
                      /\ loop.pc \notin {"polled", "opened"} => listen.cursor = flushed[listen.session]
  /\ loop.pc \in {"open", "opened"} => listen = None
  /\ loop.pc \in InHand \cup {"polling"} =>
       loop.session \in Sessions /\ loop.cursor = flushed[loop.session]

Held(s) == loop.pc \in InHand /\ loop.session = s
Taken(s) == IF Held(s) THEN flushed[s] - Len(loop.got) ELSE flushed[s]

\* What was handed over ends where the messages in the loop's hands begin.
HandedInv ==
  /\ loop.pc \in InHand =>
       /\ Len(loop.got) <= loop.cursor
       /\ \A i \in 1..Len(loop.got) : loop.got[i] = (loop.cursor - Len(loop.got)) + i
  /\ \A s \in Sessions :
       /\ Increasing(handed[s])
       /\ \A i \in 1..Len(handed[s]) : handed[s][i] <= Taken(s)
       /\ s \notin failed => /\ Len(handed[s]) = Taken(s)
                             /\ \A i \in 1..Len(handed[s]) : handed[s][i] = i

-----------------------------------------------------------------------------
(* Types.                                                                  *)

\* The constructors establish the types.
LEMMA InitTransportType == ClientInit => TransportTypeOK
  BY DEF ClientInit, TransportTypeOK, Quiet, LoopPcs, LoopType

\* A thread with nothing in its hands is of its type.
LEMMA QuietType ==
  ASSUME NEW pc \in LoopPcs
  PROVE  /\ [Quiet EXCEPT !.pc = pc] \in LoopType
         /\ [ pc |-> pc, session |-> None, cursor |-> 0, got |-> << >>, open |-> FALSE ] \in LoopType
  <1>1. << >> \in Seq(Nat)
    OBVIOUS
  <1> QED
    BY <1>1 DEF Quiet, LoopType

\* A GET that is answered is one of the live session of the header state.
LEMMA GetAnswered ==
  ASSUME NEW s, "200" \in GetStatus(s)
  PROVE  header \in Sessions /\ (s # None => s = header)
  BY DEF GetStatus, Alive

\* The numbers of the messages between two positions.
LEMMA NumbersSeq ==
  ASSUME NEW from \in Nat, NEW to \in Nat, from <= to
  PROVE  /\ Numbers(from, to) \in Seq(Nat)
         /\ Len(Numbers(from, to)) = to - from
         /\ \A i \in 1..(to - from) : Numbers(from, to)[i] = from + i
  BY DEF Numbers

\* What the senders, the server and the controlling thread do leaves the loop alone, except
\* for Deliver and Join; a session that is gone is forgotten.
Aside ==
  /\ UNCHANGED << loop, emitted, flushed, handed, failed >>
  /\ listen' \in {listen, None}

\* A sender that does not start the loop does no more than that.
LEMMA SendersAside ==
  ASSUME NEW t \in Senders, Sending(t), ~Deliver(t)
  PROVE  Aside
  <1> USE DEF Aside, server, history
  <1>1. CASE PostNotFound(t)
    BY <1>1 DEF PostNotFound, Forget
  <1>2. CASE PostRefused(t)
    BY <1>2 DEF PostRefused, client
  <1>3. CASE PostAnswered(t)
    BY <1>3 DEF PostAnswered
  <1>4. CASE PostStreams(t)
    BY <1>4 DEF PostStreams
  <1>5. CASE ResumeGivesUp(t)
    BY <1>5 DEF ResumeGivesUp, client
  <1>6. CASE Resume(t)
    BY <1>6 DEF Resume, client
  <1>7. CASE PostFallsBack(t)
    BY <1>7 DEF PostFallsBack
  <1>8. CASE LegacyPost(t)
    BY <1>8 DEF LegacyPost
  <1>9. CASE LegacyPoll(t)
    BY <1>9 DEF LegacyPoll
  <1> QED
    BY <1>1, <1>2, <1>3, <1>4, <1>5, <1>6, <1>7, <1>8, <1>9 DEF Sending

\* The thread of the loop moves on, or comes and goes, with nothing in its hands.
Moves ==
  /\ loop.pc \notin InHand
  /\ loop' \in [ pc : {"none", "ended", "top", "open", "poll"},
                  session : {None}, cursor : {0}, got : {<< >>}, open : {FALSE} ]
  /\ loop'.pc = "open" => listen' = None
  /\ listen' \in {listen, None}
  /\ UNCHANGED << emitted, flushed, handed, failed >>

\* The loop takes the cursor of the listen stream to poll with it.
Begins ==
  /\ loop.pc = "poll" /\ listen # None
  /\ loop' = [ pc |-> "polling", session |-> listen.session, cursor |-> listen.cursor,
               got |-> << >>, open |-> FALSE ]
  /\ UNCHANGED << listen, emitted, flushed, handed, failed >>

\* What the steps that hand nothing over come down to.
LEMMA LoopMoves ==
  ASSUME TransportTypeOK, ThreadInv,
         LoopTop \/ OpenThrows \/ OpenNotFound \/ OpenNotAllowed \/ PollNotFound \/ PollThrows
           \/ Join \/ \E t \in Senders : Deliver(t)
  PROVE  Moves \/ Aside
  <1> USE DEF Moves, Aside, InHand, LoopPcs, EndLoop, Quiet, LoopOnly, Forget, server, history, client
  <1>1. CASE LoopTop
    BY <1>1 DEF LoopTop
  <1>2. CASE OpenThrows
    <2>1. loop.pc = "open" /\ loop' = [ pc |-> "ended", session |-> None, cursor |-> 0, got |-> << >>, open |-> FALSE ]
      BY <1>2 DEF OpenThrows
    <2>2. UNCHANGED << listen, emitted, flushed, handed, failed >>
      BY <1>2 DEF OpenThrows
    <2> QED
      BY <2>1, <2>2
  <1>3. CASE OpenNotFound
    BY <1>3 DEF OpenNotFound
  <1>4. CASE OpenNotAllowed
    BY <1>4 DEF OpenNotAllowed
  <1>5. CASE PollNotFound
    BY <1>5 DEF PollNotFound
  <1>6. CASE PollThrows
    <2>1. loop.pc = "unreadable" /\ loop' = [ pc |-> "ended", session |-> None, cursor |-> 0, got |-> << >>, open |-> FALSE ]
      BY <1>6 DEF PollThrows
    <2>2. UNCHANGED << listen, emitted, flushed, handed, failed >>
      BY <1>6 DEF PollThrows
    <2> QED
      BY <2>1, <2>2
  <1>7. CASE Join
    <2>1. loop.pc = "ended" /\ loop' = [ pc |-> "none", session |-> None, cursor |-> 0, got |-> << >>, open |-> FALSE ]
      BY <1>7 DEF Join
    <2>2. UNCHANGED << listen, emitted, flushed, handed, failed >>
      BY <1>7 DEF Join
    <2> QED
      BY <2>1, <2>2
  <1>8. ASSUME NEW t \in Senders, Deliver(t) PROVE Moves \/ Aside
    <2>1. CASE UNCHANGED loop
      BY <1>8, <2>1 DEF Deliver
    <2>2. CASE transportRunning /\ ~attached /\ loop' = [Quiet EXCEPT !.pc = "top"]
      <3>1. loop.pc = "none"
        BY <2>2 DEF ThreadInv
      <3>2. loop' = [ pc |-> "top", session |-> None, cursor |-> 0, got |-> << >>, open |-> FALSE ]
        BY <2>2
      <3>3. UNCHANGED << listen, emitted, flushed, handed, failed >>
        BY <1>8 DEF Deliver
      <3> QED
        BY <3>1, <3>2, <3>3
    <2> QED
      BY <1>8, <2>1, <2>2 DEF Deliver
  <1> QED
    BY <1>1, <1>2, <1>3, <1>4, <1>5, <1>6, <1>7, <1>8

\* A poll begins with the cursor of the listen stream, or the loop ends.
LEMMA PollBegins ==
  ASSUME PollBegin
  PROVE  Moves \/ Begins
  BY DEF PollBegin, Moves, Begins, InHand, LoopPcs, EndLoop, Quiet, LoopOnly, server, history, client

\* The three outcomes of the exchange of a poll.
PollEmpty ==
  /\ loop.pc = "polling"
  /\ \E pc \in {"notFound", "unreadable"} : loop' = [loop EXCEPT !.pc = pc]
  /\ UNCHANGED << listen, emitted, flushed, handed, failed >>
PollAnswered ==
  /\ loop.pc = "polling" /\ header \in Sessions /\ (loop.session # None => loop.session = header)
  /\ \E open \in BOOLEAN :
       loop' = [loop EXCEPT !.pc = "polled", !.got = Numbers(loop.cursor, emitted[header]),
                            !.cursor = emitted[header], !.open = open]
  /\ flushed' = [flushed EXCEPT ![header] = emitted[header]]
  /\ UNCHANGED << listen, emitted, handed, failed >>

\* A poll is answered in the session it was begun for, or brings nothing.
LEMMA PollOutcomes ==
  ASSUME Poll
  PROVE  PollEmpty \/ PollAnswered
  <1>1. /\ loop.pc = "polling"
        /\ UNCHANGED << listen, emitted, handed, failed >>
    BY DEF Poll, LoopOnly, client, history
  <1>2. PICK status \in GetStatus(loop.session) :
          CASE status = "404" ->
                 loop' = [loop EXCEPT !.pc = "notFound"] /\ UNCHANGED flushed
            [] status = "200" ->
                 /\ \E open \in BOOLEAN :
                      loop' = [loop EXCEPT !.pc = "polled", !.got = Numbers(loop.cursor, emitted[header]),
                                           !.cursor = emitted[header], !.open = open]
                 /\ flushed' = [flushed EXCEPT ![header] = emitted[header]]
            [] OTHER ->
                 loop' = [loop EXCEPT !.pc = "unreadable"] /\ UNCHANGED flushed
    BY DEF Poll
  <1>3. CASE status = "200"
    <2>1. header \in Sessions /\ (loop.session # None => loop.session = header)
      BY <1>3, GetAnswered
    <2> QED
      BY <1>1, <1>2, <1>3, <2>1 DEF PollAnswered
  <1>4. CASE status # "200"
    BY <1>1, <1>2, <1>4 DEF PollEmpty
  <1> QED
    BY <1>3, <1>4

\* The exchange that opens a stream has header in Sessions.
LEMMA OpenAnswered == Open => header \in Sessions
  BY GetAnswered DEF Open

\* Every step is of one of these kinds.
LEMMA StepKinds ==
  ASSUME TransportTypeOK, ThreadInv, ClientNext
  PROVE  \/ Aside \/ (\E s \in Sessions : Emit(s)) \/ Moves
         \/ Open \/ OpenStore \/ HandOpened \/ HandPolled
         \/ Begins \/ PollEmpty \/ PollAnswered \/ PollApply
  <1>1. ASSUME NEW t \in Senders, NEW kind \in Kinds, Send(t, kind) PROVE Aside
    BY <1>1 DEF Send, Aside, client, server, history
  <1>2. ASSUME NEW t \in Senders, LegacyAnswer(t) PROVE Aside
    BY <1>2 DEF LegacyAnswer, Aside, client, history
  <1>3. CASE Start
    BY <1>3 DEF Start, Aside, client, server, history
  <1>4. CASE Stop
    BY <1>4 DEF Stop, Aside, client, server, history
  <1>5. CASE Close
    BY <1>5 DEF Close, Forget, Aside, history
  <1>6. ASSUME NEW s \in Sessions, SessionEnds(s) PROVE Aside
    BY <1>6 DEF SessionEnds, Aside, client, history
  <1>7. ASSUME NEW t \in Senders, Sending(t) PROVE Aside \/ Moves
    BY <1>7, SendersAside, LoopMoves
  <1> QED
    BY <1>1, <1>2, <1>3, <1>4, <1>5, <1>6, <1>7, LoopMoves, PollBegins, PollOutcomes
    DEF ClientNext, Listening, Stopping

\* Every step keeps the types.
LEMMA NextTransportType ==
  ASSUME TransportTypeOK, ThreadInv, CursorInv, ClientNext
  PROVE  TransportTypeOK'
  <1>1. header' \in Sessions \cup {None}
    <2> USE DEF TransportTypeOK, client, server, history, LoopOnly, Forget
    <2>1. ASSUME NEW t \in Senders, Sending(t) PROVE header' \in Sessions \cup {None}
      BY <2>1 DEF Sending, PostNotFound, PostRefused, PostAnswered, PostStreams, Capture, ResumeGivesUp, Resume,
                  PostFallsBack, LegacyPost, LegacyPoll, Deliver
    <2>2. CASE Listening
      BY <2>2 DEF Listening, LoopTop, OpenThrows, OpenNotFound, OpenNotAllowed, Open, OpenStore, HandOpened,
                  HandPolled, HandOver, PollBegin, Poll, PollNotFound, PollThrows, PollApply
    <2>3. ASSUME NEW t \in Senders, NEW kind \in Kinds, Send(t, kind) \/ LegacyAnswer(t)
          PROVE  header' \in Sessions \cup {None}
      BY <2>3 DEF Send, LegacyAnswer
    <2>4. CASE Start \/ Stop \/ Stopping
      BY <2>4 DEF Start, Stop, Stopping, Join, Close
    <2>5. ASSUME NEW s \in Sessions, SessionEnds(s) \/ Emit(s) PROVE header' \in Sessions \cup {None}
      BY <2>5 DEF SessionEnds, Emit
    <2>6. Kinds # {}
      BY DEF Kinds
    <2> QED
      BY <2>1, <2>2, <2>3, <2>4, <2>5, <2>6 DEF ClientNext
  <1>2. /\ listen' \in [ session : Sessions, cursor : Nat ] \cup {None}
        /\ loop' \in LoopType
        /\ emitted' \in [Sessions -> Nat] /\ flushed' \in [Sessions -> Nat]
        /\ handed' \in [Sessions -> Seq(Nat)] /\ failed' \subseteq Sessions
    <2> DEFINE Goal ==
          /\ listen' \in [ session : Sessions, cursor : Nat ] \cup {None}
          /\ loop' \in LoopType
          /\ emitted' \in [Sessions -> Nat] /\ flushed' \in [Sessions -> Nat]
          /\ handed' \in [Sessions -> Seq(Nat)] /\ failed' \subseteq Sessions
    <2> USE DEF TransportTypeOK, LoopPcs, InHand, LoopType
    <2>1. CASE Aside
      BY <2>1 DEF Aside
    <2>2. ASSUME NEW s \in Sessions, Emit(s) PROVE Goal
      BY <2>2 DEF Emit, client, history
    <2>3. CASE Moves
      <3>1. /\ loop'.pc \in LoopPcs
            /\ loop' = [ pc |-> loop'.pc, session |-> None, cursor |-> 0, got |-> << >>, open |-> FALSE ]
        BY <2>3 DEF Moves
      <3>2. PICK pc \in LoopPcs :
              loop' = [ pc |-> pc, session |-> None, cursor |-> 0, got |-> << >>, open |-> FALSE ]
        BY <3>1
      <3>3. loop' \in LoopType
        BY <3>2, QuietType
      <3> QED
        BY <2>3, <3>3 DEF Moves
    <2>4. CASE Open
      <3>1. header \in Sessions
        BY <2>4, OpenAnswered
      <3>2. emitted[header] \in Nat /\ Numbers(flushed[header], emitted[header]) \in Seq(Nat)
        BY <3>1, NumbersSeq DEF CursorInv
      <3>3. loop' \in LoopType
        <4>1. CASE loop' = [Quiet EXCEPT !.pc = "ended"]
          BY <4>1, QuietType
        <4>2. CASE \E open \in BOOLEAN :
                     loop' = [ pc |-> "opened", session |-> header, cursor |-> emitted[header],
                               got |-> Numbers(flushed[header], emitted[header]), open |-> open ]
          BY <4>2, <3>1, <3>2
        <4> QED
          BY <2>4, <4>1, <4>2 DEF Open, EndLoop
      <3>4. UNCHANGED << listen, emitted, handed >> /\ failed' \subseteq Sessions
        BY <2>4, <3>1 DEF Open, LoopOnly, client
      <3>5. flushed' \in [Sessions -> Nat]
        BY <2>4, <3>1, <3>2 DEF Open
      <3> QED
        BY <3>3, <3>4, <3>5
    <2>5. CASE OpenStore
      <3>1. loop.session \in Sessions
        BY <2>5 DEF OpenStore, CursorInv
      <3> QED
        BY <2>5, <3>1 DEF OpenStore, LoopOnly, history
    <2>6. CASE HandOpened \/ HandPolled
      <3>1. PICK next \in {"poll", "top"} : HandOver(next)
        BY <2>6 DEF HandOpened, HandPolled
      <3>2. loop.session \in Sessions /\ loop.session # None
        BY <2>6, HttpClientAssumption DEF HandOpened, HandPolled, CursorInv
      <3>3. UNCHANGED << listen, emitted, flushed >>
        BY <3>1 DEF HandOver, LoopOnly, client
      <3>4. handed[loop.session] \in Seq(Nat) /\ loop.got \in Seq(Nat)
        BY <3>2
      <3>5. \A n \in 0..(Len(loop.got) - 1) : SubSeq(loop.got, 1, n) \in Seq(Nat)
        BY <3>4
      <3>6. handed' \in [Sessions -> Seq(Nat)]
        <4>1. PICK more \in Seq(Nat) : handed' = [handed EXCEPT ![loop.session] = @ \o more]
          BY <3>1, <3>2, <3>4, <3>5 DEF HandOver
        <4>2. handed[loop.session] \o more \in Seq(Nat)
          BY <3>4
        <4> QED
          BY <4>1, <4>2
      <3>7. failed' \subseteq Sessions
        BY <3>1, <3>2 DEF HandOver
      <3>8. loop' \in LoopType
        <4>1. PICK pc \in LoopPcs : loop' = [Quiet EXCEPT !.pc = pc]
          <5>1. loop'.pc \in LoopPcs /\ loop' = [Quiet EXCEPT !.pc = loop'.pc]
            BY <3>1 DEF HandOver, EndLoop, Quiet
          <5> QED
            BY <5>1
        <4> QED
          BY ONLY <4>1, QuietType
      <3> QED
        BY <3>3, <3>6, <3>7, <3>8
    <2>7. CASE Begins
      BY <2>7 DEF Begins
    <2>8. CASE PollEmpty
      BY <2>8 DEF PollEmpty
    <2>9. CASE PollAnswered
      <3>1. emitted[header] \in Nat /\ Numbers(loop.cursor, emitted[header]) \in Seq(Nat)
        BY <2>9, NumbersSeq, HttpClientAssumption DEF PollAnswered, CursorInv
      <3> QED
        BY <2>9, <3>1 DEF PollAnswered
    <2>10. CASE PollApply
      BY <2>10 DEF PollApply, LoopOnly, history
    <2> QED
      BY <2>1, <2>2, <2>3, <2>4, <2>5, <2>6, <2>7, <2>8, <2>9, <2>10, StepKinds
  <1> QED
    BY <1>1, <1>2 DEF TransportTypeOK

-----------------------------------------------------------------------------
(* The loop's thread and the transport's flags.                            *)

\* Nothing runs at first.
LEMMA InitThread == ClientInit => ThreadInv
  BY DEF ClientInit, ThreadInv, Quiet

\* Every step keeps the thread and the flags in step.
LEMMA NextThread ==
  ASSUME TransportTypeOK, ThreadInv, ClientNext
  PROVE  ThreadInv'
  <1> USE DEF ThreadInv, transport, control, LoopOnly, EndLoop, Quiet
  <1>1. ASSUME NEW t \in Senders, NEW kind \in Kinds, Send(t, kind) PROVE ThreadInv'
    BY <1>1 DEF Send
  <1>2. ASSUME NEW t \in Senders, Sending(t), ~Deliver(t) PROVE ThreadInv'
    <2>1. UNCHANGED << transport, control, loop >>
      BY <1>2 DEF Sending, PostNotFound, PostRefused, PostAnswered, PostStreams, ResumeGivesUp, Resume,
                  PostFallsBack, LegacyPost, LegacyPoll
    <2> QED
      BY <2>1
  <1>3. ASSUME NEW t \in Senders, Deliver(t) PROVE ThreadInv'
    BY <1>3 DEF Deliver
  <1>4. ASSUME NEW t \in Senders, LegacyAnswer(t) PROVE ThreadInv'
    BY <1>4 DEF LegacyAnswer
  <1>5. CASE Listening
    <2>1. loop.pc # "none"
      BY <1>5 DEF Listening, LoopTop, OpenThrows, OpenNotFound, OpenNotAllowed, Open, OpenStore, HandOpened,
                  HandPolled, PollBegin, Poll, PollNotFound, PollThrows, PollApply
    <2>2. UNCHANGED << transportRunning, listenStarted, loopRunning, attached, control >>
      BY <1>5 DEF Listening, LoopTop, OpenThrows, OpenNotFound, OpenNotAllowed, Open, OpenStore, HandOpened,
                  HandPolled, HandOver, PollBegin, Poll, PollNotFound, PollThrows, PollApply
    <2> QED
      BY <2>1, <2>2
  <1>6. CASE Start
    BY <1>6 DEF Start
  <1>7. CASE Stop
    BY <1>7 DEF Stop
  <1>8. CASE Join
    BY <1>8 DEF Join
  <1>9. CASE Close
    BY <1>9 DEF Close
  <1>10. ASSUME NEW s \in Sessions, SessionEnds(s) \/ Emit(s) PROVE ThreadInv'
    BY <1>10 DEF SessionEnds, Emit
  <1> QED
    BY <1>1, <1>2, <1>3, <1>4, <1>5, <1>6, <1>7, <1>8, <1>9, <1>10 DEF ClientNext, Stopping

-----------------------------------------------------------------------------
(* The cursor.                                                             *)

\* No stream is known at first.
LEMMA InitCursor == ClientInit => CursorInv
  BY DEF ClientInit, CursorInv, Quiet, InHand

\* Every step keeps the cursor at the last message that was written to the stream.
LEMMA NextCursor ==
  ASSUME TransportTypeOK, ThreadInv, CursorInv, ClientNext
  PROVE  CursorInv'
  <1> USE DEF TransportTypeOK, CursorInv, InHand, LoopType
  <1>0. None \notin Sessions
    BY HttpClientAssumption
  <1>1. CASE Aside
    BY <1>1 DEF Aside
  <1>2. ASSUME NEW s \in Sessions, Emit(s) PROVE CursorInv'
    <2>1. UNCHANGED << loop, listen, flushed >>
      BY <1>2 DEF Emit, client
    <2>2. \A r \in Sessions : flushed'[r] <= emitted'[r]
      BY <1>2, <2>1 DEF Emit
    <2> QED
      BY <2>1, <2>2
  <1>3. CASE Moves
    BY <1>3 DEF Moves
  <1>4. CASE Open
    <2>1. /\ header \in Sessions /\ loop.pc = "open" /\ listen = None
          /\ UNCHANGED << listen, emitted >>
          /\ flushed' = [flushed EXCEPT ![header] = emitted[header]]
      BY <1>4, OpenAnswered DEF Open, LoopOnly, client
    <2>2. \A s \in Sessions : flushed'[s] <= emitted'[s]
      BY <2>1
    <2>3. CASE loop' = [Quiet EXCEPT !.pc = "ended"]
      BY <2>1, <2>2, <2>3 DEF Quiet
    <2>4. CASE \E open \in BOOLEAN :
                 loop' = [ pc |-> "opened", session |-> header, cursor |-> emitted[header],
                           got |-> Numbers(flushed[header], emitted[header]), open |-> open ]
      BY <2>1, <2>2, <2>4
    <2> QED
      BY <1>4, <2>3, <2>4 DEF Open, EndLoop
  <1>5. CASE OpenStore
    <2>1. /\ loop.pc = "opened" /\ loop' = [loop EXCEPT !.pc = "handOpened"]
          /\ listen' = IF loop.open THEN [session |-> loop.session, cursor |-> loop.cursor] ELSE None
          /\ UNCHANGED << emitted, flushed >>
      BY <1>5 DEF OpenStore, LoopOnly
    <2> QED
      BY <2>1, <1>0
  <1>6. CASE HandOpened \/ HandPolled
    <2>1. /\ loop.pc \in {"handOpened", "handPolled"}
          /\ UNCHANGED << listen, emitted, flushed >>
          /\ loop'.pc \in {"poll", "top", "ended"}
      BY <1>6 DEF HandOpened, HandPolled, HandOver, LoopOnly, EndLoop, Quiet, client
    <2> QED
      BY <2>1
  <1>7. CASE Begins
    BY <1>7 DEF Begins
  <1>8. CASE PollEmpty
    BY <1>8 DEF PollEmpty
  <1>9. CASE PollAnswered
    <2>1. PICK open \in BOOLEAN :
            loop' = [loop EXCEPT !.pc = "polled", !.got = Numbers(loop.cursor, emitted[header]),
                                 !.cursor = emitted[header], !.open = open]
      BY <1>9 DEF PollAnswered
    <2>2. /\ header \in Sessions /\ loop.pc = "polling" /\ loop.session = header
          /\ flushed' = [flushed EXCEPT ![header] = emitted[header]]
          /\ UNCHANGED << listen, emitted >>
      BY <1>9, <1>0 DEF PollAnswered
    <2>3. loop'.pc = "polled" /\ loop'.session = header /\ loop'.cursor = emitted[header]
      BY <2>1, <2>2
    <2>4. \A s \in Sessions : flushed'[s] <= emitted'[s]
      BY <2>2
    <2>5. flushed'[header] = emitted[header]
      BY <2>2
    <2> QED
      BY <2>2, <2>3, <2>4, <2>5
  <1>10. CASE PollApply
    <2>1. /\ loop.pc = "polled" /\ loop' = [loop EXCEPT !.pc = "handPolled"]
          /\ listen' = IF loop.open /\ listen # None THEN [listen EXCEPT !.cursor = loop.cursor] ELSE None
          /\ UNCHANGED << emitted, flushed >>
      BY <1>10 DEF PollApply, LoopOnly
    <2>2. listen' # None =>
            listen'.session = loop.session /\ listen'.cursor = flushed[loop.session]
      BY <2>1
    <2> QED
      BY <2>1, <2>2
  <1> QED
    BY <1>1, <1>2, <1>3, <1>4, <1>5, <1>6, <1>7, <1>8, <1>9, <1>10, StepKinds

-----------------------------------------------------------------------------
(* What was handed over.                                                   *)

\* An increasing sequence up to a number, continued by the numbers that follow it.
LEMMA Continued ==
  ASSUME NEW h \in Seq(Nat), NEW g \in Seq(Nat), NEW a \in Nat,
         Increasing(h), \A i \in 1..Len(h) : h[i] <= a,
         \A i \in 1..Len(g) : g[i] = a + i
  PROVE  /\ h \o g \in Seq(Nat) /\ Len(h \o g) = Len(h) + Len(g)
         /\ Increasing(h \o g)
         /\ \A i \in 1..Len(h \o g) : (h \o g)[i] <= a + Len(g)
         /\ Len(h) = a /\ (\A i \in 1..Len(h) : h[i] = i) =>
              \A i \in 1..Len(h \o g) : (h \o g)[i] = i
  <1>1. /\ h \o g \in Seq(Nat) /\ Len(h \o g) = Len(h) + Len(g)
        /\ \A i \in 1..Len(h) : (h \o g)[i] = h[i]
        /\ \A i \in (Len(h) + 1)..Len(h \o g) : (h \o g)[i] = g[i - Len(h)]
    OBVIOUS
  <1>2. Len(h) \in Nat /\ Len(g) \in Nat /\ (\A i \in 1..Len(h) : h[i] \in Nat)
        /\ DOMAIN (h \o g) = 1..Len(h \o g) /\ DOMAIN h = 1..Len(h)
    BY <1>1
  <1>3. \A i \in (Len(h) + 1)..Len(h \o g) : (h \o g)[i] = a + (i - Len(h))
    <2> TAKE i \in (Len(h) + 1)..Len(h \o g)
    <2>1. i - Len(h) \in 1..Len(g)
      BY <1>1, <1>2
    <2> QED
      BY <1>1, <2>1
  <1>4. \A i \in 1..Len(h \o g) : (h \o g)[i] <= a + Len(g)
    <2> TAKE i \in 1..Len(h \o g)
    <2>1. CASE i <= Len(h)
      <3>1. (h \o g)[i] = h[i] /\ h[i] <= a /\ h[i] \in Nat
        BY <1>1, <1>2, <2>1
      <3> QED
        BY <3>1, <1>2
    <2>2. CASE i > Len(h)
      <3>1. (h \o g)[i] = a + (i - Len(h))
        BY <1>1, <1>2, <1>3, <2>2
      <3> QED
        BY <3>1, <1>1, <1>2
    <2> QED
      BY <2>1, <2>2, <1>2
  <1>5. Increasing(h \o g)
    <2> SUFFICES ASSUME NEW i \in 1..Len(h \o g), NEW j \in 1..Len(h \o g), i < j
                 PROVE  (h \o g)[i] < (h \o g)[j]
      BY <1>2, Zenon DEF Increasing
    <2>1. CASE j <= Len(h)
      <3>1. i \in 1..Len(h) /\ j \in 1..Len(h)
        BY <1>2, <2>1
      <3>2. h[i] < h[j]
        BY <1>2, <3>1 DEF Increasing
      <3> QED
        BY <1>1, <3>1, <3>2
    <2>2. CASE j > Len(h)
      <3>1. (h \o g)[j] = a + (j - Len(h))
        BY <1>1, <1>2, <1>3, <2>2
      <3>2. CASE i <= Len(h)
        <4>1. (h \o g)[i] = h[i] /\ h[i] <= a /\ h[i] \in Nat
          BY <1>1, <1>2, <3>2
        <4> QED
          BY <3>1, <4>1, <1>2, <2>2
      <3>3. CASE i > Len(h)
        <4>1. (h \o g)[i] = a + (i - Len(h))
          BY <1>1, <1>2, <1>3, <3>3
        <4> QED
          BY <3>1, <4>1, <1>2
      <3> QED
        BY <3>2, <3>3, <1>2
    <2> QED
      BY <2>1, <2>2, <1>2
  <1>6. ASSUME Len(h) = a, \A i \in 1..Len(h) : h[i] = i
        PROVE  \A i \in 1..Len(h \o g) : (h \o g)[i] = i
    BY <1>1, <1>2, <1>3, <1>6
  <1> QED
    BY <1>1, <1>4, <1>5, <1>6

\* Nothing is handed over at first.
LEMMA InitHanded == ClientInit => HandedInv
  BY DEF ClientInit, HandedInv, Quiet, InHand, Taken, Held, Increasing

\* Steps that keep what is in the loop's hands.
LEMMA SameHands ==
  ASSUME TransportTypeOK, HandedInv, UNCHANGED << flushed, handed, failed >>,
         \/ loop.pc \notin InHand /\ loop'.pc \notin InHand
         \/ /\ loop.pc \in InHand /\ loop'.pc \in InHand
            /\ loop'.session = loop.session /\ loop'.cursor = loop.cursor /\ loop'.got = loop.got
  PROVE  HandedInv'
  <1>1. \A s \in Sessions : Taken(s)' = Taken(s)
    BY DEF Taken, Held
  <1> QED
    BY <1>1 DEF HandedInv

\* An exchange takes what the server had not yet written to a stream.
LEMMA TakesHands ==
  ASSUME TransportTypeOK, CursorInv, HandedInv, NEW s \in Sessions,
         loop.pc \notin InHand, loop'.pc \in InHand, loop'.session = s,
         loop'.cursor = emitted[s], loop'.got = Numbers(flushed[s], emitted[s]),
         flushed' = [flushed EXCEPT ![s] = emitted[s]],
         UNCHANGED << handed, failed >>
  PROVE  HandedInv'
  <1>1. flushed[s] \in Nat /\ emitted[s] \in Nat /\ flushed[s] <= emitted[s]
    BY DEF TransportTypeOK, CursorInv
  <1>2. /\ Len(loop'.got) = emitted[s] - flushed[s]
        /\ \A i \in 1..Len(loop'.got) : loop'.got[i] = flushed[s] + i
    <2>1. /\ Len(Numbers(flushed[s], emitted[s])) = emitted[s] - flushed[s]
          /\ \A i \in 1..(emitted[s] - flushed[s]) : Numbers(flushed[s], emitted[s])[i] = flushed[s] + i
      BY <1>1, NumbersSeq
    <2>2. loop'.got = Numbers(flushed[s], emitted[s])
      OBVIOUS
    <2> QED
      BY <2>1, <2>2
  <1>3. \A r \in Sessions : Taken(r)' = Taken(r)
    <2> TAKE r \in Sessions
    <2>1. Taken(r) = flushed[r] /\ flushed[r] \in Nat
      BY DEF Taken, Held, TransportTypeOK
    <2>2. CASE r = s
      <3>1. Taken(r)' = flushed'[s] - Len(loop'.got)
        BY <2>2 DEF Taken, Held
      <3>2. flushed'[s] = emitted[s]
        BY DEF TransportTypeOK
      <3> QED
        BY <3>1, <3>2, <2>1, <2>2, <1>1, <1>2
    <2>3. CASE r # s
      BY <2>1, <2>3 DEF Taken, Held, TransportTypeOK
    <2> QED
      BY <2>2, <2>3
  <1>4. Len(loop'.got) <= loop'.cursor
    BY <1>1, <1>2
  <1>5. \A i \in 1..Len(loop'.got) : loop'.got[i] = (loop'.cursor - Len(loop'.got)) + i
    BY <1>1, <1>2
  <1> QED
    BY <1>3, <1>4, <1>5 DEF HandedInv

\* The loop's hands are empty, and what it handed over is in order.
LEMMA EmptiesHands ==
  ASSUME TransportTypeOK, HandedInv, NEW s \in Sessions,
         loop.pc \in InHand, loop.session = s, loop'.pc \notin InHand,
         UNCHANGED flushed, failed \subseteq failed',
         Increasing(handed'[s]), \A i \in 1..Len(handed'[s]) : handed'[s][i] <= flushed[s],
         s \notin failed' => /\ Len(handed'[s]) = flushed[s]
                             /\ \A i \in 1..Len(handed'[s]) : handed'[s][i] = i,
         \A r \in Sessions : r # s => handed'[r] = handed[r]
  PROVE  HandedInv'
  <1> SUFFICES ASSUME NEW r \in Sessions
               PROVE  /\ Increasing(handed'[r])
                      /\ \A i \in 1..Len(handed'[r]) : handed'[r][i] <= Taken(r)'
                      /\ r \notin failed' => /\ Len(handed'[r]) = Taken(r)'
                                             /\ \A i \in 1..Len(handed'[r]) : handed'[r][i] = i
    BY DEF HandedInv
  <1>1. Taken(r)' = flushed[r]
    BY DEF Taken, Held
  <1>2. CASE r = s
    BY <1>1, <1>2
  <1>3. CASE r # s
    <2>1. Taken(r) = flushed[r]
      BY <1>3 DEF Taken, Held
    <2>2. handed'[r] = handed[r] /\ (r \notin failed' => r \notin failed)
      BY <1>3
    <2> QED
      BY <1>1, <2>1, <2>2 DEF HandedInv
  <1> QED
    BY <1>2, <1>3

\* The handler takes all of the messages, or those before the one it throws on.
LEMMA HandsOver ==
  ASSUME TransportTypeOK, CursorInv, HandedInv, NEW next \in {"poll", "top"}, HandOver(next),
         loop.pc \in {"handOpened", "handPolled"}
  PROVE  HandedInv'
  <1> DEFINE s == loop.session
  <1> DEFINE a == flushed[s] - Len(loop.got)
  <1>1. /\ s \in Sessions /\ s # None /\ loop.cursor = flushed[s] /\ flushed[s] \in Nat
        /\ handed \in [Sessions -> Seq(Nat)] /\ loop.got \in Seq(Nat)
    BY HttpClientAssumption DEF CursorInv, InHand, TransportTypeOK, LoopType
  <1>2. /\ Len(loop.got) \in Nat /\ a \in Nat
        /\ \A i \in 1..Len(loop.got) : loop.got[i] = a + i
        /\ Taken(s) = a
    <2>1. loop.pc \in InHand
      BY DEF InHand
    <2>2. Taken(s) = a
      BY <2>1 DEF Taken, Held
    <2>3. Len(loop.got) \in Nat /\ Len(loop.got) <= flushed[s]
      BY <1>1, <2>1 DEF HandedInv
    <2>4. \A i \in 1..Len(loop.got) : loop.got[i] = a + i
      BY <1>1, <2>1 DEF HandedInv
    <2> QED
      BY <1>1, <2>2, <2>3, <2>4
  <1>3. /\ handed[s] \in Seq(Nat) /\ Increasing(handed[s])
        /\ \A i \in 1..Len(handed[s]) : handed[s][i] <= a
        /\ s \notin failed => Len(handed[s]) = a /\ \A i \in 1..Len(handed[s]) : handed[s][i] = i
    BY <1>1, <1>2 DEF HandedInv
  <1>4. /\ UNCHANGED flushed
        /\ loop'.pc \notin InHand
    BY DEF HandOver, LoopOnly, EndLoop, Quiet, InHand
  <1>5. loop.pc \in InHand
    BY DEF InHand
  <1>6. CASE handed' = [handed EXCEPT ![s] = @ \o loop.got] /\ UNCHANGED failed
    <2>1. /\ Increasing(handed[s] \o loop.got)
          /\ Len(handed[s] \o loop.got) = Len(handed[s]) + Len(loop.got)
          /\ \A i \in 1..Len(handed[s] \o loop.got) : (handed[s] \o loop.got)[i] <= a + Len(loop.got)
          /\ Len(handed[s]) = a /\ (\A i \in 1..Len(handed[s]) : handed[s][i] = i) =>
               \A i \in 1..Len(handed[s] \o loop.got) : (handed[s] \o loop.got)[i] = i
      BY <1>1, <1>2, <1>3, Continued
    <2>2. handed'[s] = handed[s] \o loop.got /\ a + Len(loop.got) = flushed[s]
      <3>1. handed'[s] = handed[s] \o loop.got
        BY <1>1, <1>6
      <3> QED
        BY <3>1, <1>1, <1>2
    <2>3. /\ Increasing(handed'[s])
          /\ \A i \in 1..Len(handed'[s]) : handed'[s][i] <= flushed[s]
          /\ s \notin failed => /\ Len(handed'[s]) = flushed[s]
                                /\ \A i \in 1..Len(handed'[s]) : handed'[s][i] = i
      BY <2>1, <2>2, <1>3
    <2>4. \A r \in Sessions : r # s => handed'[r] = handed[r]
      BY <1>1, <1>6
    <2> QED
      <3>1. failed \subseteq failed' /\ (s \notin failed' => s \notin failed)
        BY <1>6
      <3> HIDE DEF s
      <3>2. loop.session = s /\ s \in Sessions
        BY <1>1 DEF s
      <3> QED
        BY <2>3, <2>4, <1>5, <1>4, <3>1, <3>2, EmptiesHands
  <1>7. ASSUME NEW n \in 0..(Len(loop.got) - 1),
               handed' = [handed EXCEPT ![s] = @ \o SubSeq(loop.got, 1, n)],
               failed' = failed \cup {s}
        PROVE  HandedInv'
    <2> DEFINE g == SubSeq(loop.got, 1, n)
    <2>1. g \in Seq(Nat) /\ Len(g) = n /\ (\A i \in 1..Len(g) : g[i] = a + i)
      <3>1. n \in Nat /\ n <= Len(loop.got) /\ 1..n \subseteq 1..Len(loop.got)
        BY <1>2
      <3>2. g \in Seq(Nat) /\ Len(g) = n /\ \A i \in 1..n : g[i] = loop.got[i]
        BY <1>1, <3>1
      <3> QED
        BY <1>2, <3>1, <3>2
    <2> HIDE DEF g
    <2>2. /\ Increasing(handed[s] \o g)
          /\ \A i \in 1..Len(handed[s] \o g) : (handed[s] \o g)[i] <= a + Len(g)
          /\ handed[s] \o g \in Seq(Nat)
      BY <1>2, <1>3, <2>1, Continued
    <2>3. handed'[s] = handed[s] \o g
      BY <1>1, <1>7 DEF g
    <2>4. a + Len(g) <= flushed[s] /\ a + Len(g) \in Nat
      BY <1>1, <1>2, <1>7, <2>1
    <2>5. \A i \in 1..Len(handed'[s]) : handed'[s][i] <= flushed[s]
      <3> TAKE i \in 1..Len(handed'[s])
      <3>1. handed'[s][i] \in Nat /\ handed'[s][i] <= a + Len(g)
        BY <2>2, <2>3
      <3>2. flushed[s] \in Nat
        BY <1>1
      <3>3. a + Len(g) \in Nat /\ a + Len(g) <= flushed[s]
        BY <2>4
      <3> HIDE <1>7 DEF a, s
      <3> QED
        BY ONLY <3>1, <3>2, <3>3
    <2>6. \A r \in Sessions : r # s => handed'[r] = handed[r]
      BY <1>1, <1>7
    <2> QED
      <3>1. failed \subseteq failed' /\ s \in failed'
        BY <1>7
      <3>2. Increasing(handed'[s])
        BY <2>2, <2>3
      <3> HIDE DEF s
      <3>3. loop.session = s /\ s \in Sessions
        BY <1>1 DEF s
      <3> QED
        BY <2>5, <2>6, <1>5, <1>4, <3>1, <3>2, <3>3, EmptiesHands
  <1>8. \/ handed' = [handed EXCEPT ![s] = @ \o loop.got] /\ UNCHANGED failed
        \/ \E n \in 0..(Len(loop.got) - 1) :
             /\ handed' = [handed EXCEPT ![s] = @ \o SubSeq(loop.got, 1, n)]
             /\ failed' = failed \cup {s}
    BY <1>1 DEF HandOver
  <1> QED
    BY <1>6, <1>7, <1>8

\* Every step keeps what was handed over in order.
LEMMA NextHanded ==
  ASSUME TransportTypeOK, ThreadInv, CursorInv, HandedInv, ClientNext
  PROVE  HandedInv'
  <1>1. CASE Aside
    BY <1>1, SameHands DEF Aside, InHand
  <1>2. ASSUME NEW s \in Sessions, Emit(s) PROVE HandedInv'
    <2>1. UNCHANGED << loop, flushed, handed, failed >>
      BY <1>2 DEF Emit, history
    <2> QED
      BY <2>1, SameHands
  <1>3. CASE Moves
    <2>1. loop'.pc \notin InHand
      BY <1>3 DEF Moves, InHand
    <2> QED
      BY <1>3, <2>1, SameHands DEF Moves
  <1>4. CASE Open
    <2>1. /\ header \in Sessions /\ loop.pc = "open" /\ UNCHANGED handed
          /\ flushed' = [flushed EXCEPT ![header] = emitted[header]]
      BY <1>4, OpenAnswered DEF Open, LoopOnly
    <2>2. CASE UNCHANGED failed /\ \E open \in BOOLEAN :
                 loop' = [ pc |-> "opened", session |-> header, cursor |-> emitted[header],
                           got |-> Numbers(flushed[header], emitted[header]), open |-> open ]
      <3>1. /\ loop'.pc \in InHand /\ loop.pc \notin InHand
            /\ loop'.session = header /\ loop'.cursor = emitted[header]
            /\ loop'.got = Numbers(flushed[header], emitted[header])
        BY <2>1, <2>2 DEF InHand
      <3> QED
        BY <2>1, <2>2, <3>1, TakesHands
    <2>3. CASE EndLoop /\ failed' = failed \cup {header}
      <3>1. loop'.pc \notin InHand /\ loop.pc \notin InHand
        BY <2>1, <2>3 DEF EndLoop, Quiet, InHand
      <3>2. \A s \in Sessions : Taken(s) = flushed[s] /\ Taken(s)' = flushed'[s]
        BY <3>1 DEF Taken, Held
      <3>3. \A s \in Sessions : /\ flushed[s] \in Nat /\ flushed'[s] \in Nat /\ flushed[s] <= flushed'[s]
                                /\ s # header => flushed'[s] = flushed[s]
        BY <2>1 DEF CursorInv, TransportTypeOK
      <3>4. \A s \in Sessions : \A i \in 1..Len(handed[s]) : handed[s][i] \in Nat
        BY DEF TransportTypeOK
      <3>5. \A s \in Sessions : \A i \in 1..Len(handed'[s]) : handed'[s][i] <= Taken(s)'
        <4> TAKE s \in Sessions
        <4> TAKE i \in 1..Len(handed'[s])
        <4>1. handed[s][i] <= flushed[s] /\ handed[s][i] \in Nat
          BY <2>1, <3>2, <3>4 DEF HandedInv
        <4> QED
          BY <2>1, <3>2, <3>3, <4>1
      <3>6. \A s \in Sessions : s \notin failed' => s \notin failed /\ Taken(s)' = Taken(s)
        BY <2>3, <3>2, <3>3
      <3> QED
        BY <2>1, <3>1, <3>5, <3>6 DEF HandedInv
    <2> QED
      BY <1>4, <2>2, <2>3 DEF Open
  <1>5. CASE OpenStore
    <2>1. /\ loop.pc = "opened" /\ loop' = [loop EXCEPT !.pc = "handOpened"]
          /\ UNCHANGED << flushed, handed, failed >>
      BY <1>5 DEF OpenStore, LoopOnly, history
    <2>2. /\ loop'.pc = "handOpened" /\ loop'.session = loop.session /\ loop'.cursor = loop.cursor
          /\ loop'.got = loop.got
      BY <2>1 DEF TransportTypeOK, LoopType
    <2> QED
      BY <2>1, <2>2, SameHands DEF InHand
  <1>6. CASE HandOpened \/ HandPolled
    BY <1>6, HandsOver DEF HandOpened, HandPolled
  <1>7. CASE Begins
    <2>1. loop.pc \notin InHand /\ loop'.pc \notin InHand
      BY <1>7 DEF Begins, InHand
    <2> QED
      BY <1>7, <2>1, SameHands DEF Begins
  <1>8. CASE PollEmpty
    <2>1. loop.pc \notin InHand /\ loop'.pc \notin InHand
      BY <1>8 DEF PollEmpty, InHand, TransportTypeOK, LoopType
    <2> QED
      BY <1>8, <2>1, SameHands DEF PollEmpty
  <1>9. CASE PollAnswered
    <2>1. /\ header \in Sessions /\ loop.pc = "polling" /\ loop.session = header
          /\ loop.cursor = flushed[header]
      BY <1>9, HttpClientAssumption DEF PollAnswered, CursorInv
    <2>2. /\ loop'.pc = "polled" /\ loop'.session = header /\ loop'.cursor = emitted[header]
          /\ loop'.got = Numbers(flushed[header], emitted[header])
      BY <1>9, <2>1 DEF PollAnswered, TransportTypeOK, LoopType
    <2> QED
      BY <1>9, <2>1, <2>2, TakesHands DEF PollAnswered, InHand
  <1>10. CASE PollApply
    <2>1. /\ loop.pc = "polled" /\ loop' = [loop EXCEPT !.pc = "handPolled"]
          /\ UNCHANGED << flushed, handed, failed >>
      BY <1>10 DEF PollApply, LoopOnly, history
    <2>2. /\ loop'.pc = "handPolled" /\ loop'.session = loop.session /\ loop'.cursor = loop.cursor
          /\ loop'.got = loop.got
      BY <2>1 DEF TransportTypeOK, LoopType
    <2> QED
      BY <2>1, <2>2, SameHands DEF InHand
  <1> QED
    BY <1>1, <1>2, <1>3, <1>4, <1>5, <1>6, <1>7, <1>8, <1>9, <1>10, StepKinds

-----------------------------------------------------------------------------
(* The theorems.                                                           *)

IInv == TransportTypeOK /\ ThreadInv /\ CursorInv /\ HandedInv

\* A step that changes nothing keeps the invariant.
LEMMA Stutter == IInv /\ UNCHANGED clientVars => IInv'
  BY DEF IInv, clientVars, client, transport, control, sending, server, history,
         TransportTypeOK, ThreadInv, CursorInv, HandedInv, Taken, Held

\* The invariant holds in every state of the client.
THEOREM Invariance == ClientSpec => []IInv
  <1>1. ClientInit => IInv
    BY InitTransportType, InitThread, InitCursor, InitHanded DEF IInv
  <1>2. IInv /\ [ClientNext]_clientVars => IInv'
    BY NextTransportType, NextThread, NextCursor, NextHanded, Stutter DEF IInv
  <1> QED
    BY <1>1, <1>2, PTL DEF ClientSpec

\* The listen loop hands each message of a session's stream over once and in order: polls,
\* reopened streams, DELETE, 404 and restarts included.
THEOREM MessagesInOrder == ClientSpec => []HandedInOrder
  <1>1. IInv => HandedInOrder
    <2> SUFFICES ASSUME IInv, NEW s \in Sessions
                 PROVE  /\ Increasing(handed[s])
                        /\ s \notin failed => \A i \in DOMAIN handed[s] : handed[s][i] = i
      BY DEF HandedInOrder
    <2>1. DOMAIN handed[s] = 1..Len(handed[s])
      BY DEF IInv, TransportTypeOK
    <2> QED
      BY <2>1 DEF IInv, HandedInv
  <1> QED
    BY <1>1, Invariance, PTL

\* A transport whose stop() has returned has no loop and may be started afresh.
THEOREM StoppedTransportIsQuiet == ClientSpec => []StoppedMeansQuiet
  <1>1. IInv => StoppedMeansQuiet
    BY DEF IInv, ThreadInv, StoppedMeansQuiet
  <1> QED
    BY <1>1, Invariance, PTL

-----------------------------------------------------------------------------
(***************************************************************************)
(* The stdio client (StdioClient).                                         *)
(***************************************************************************)

Lines == [kind : {"answer", "junk", "request", "complete"}, of : Calls \cup Ids \cup {Unset}, late : BOOLEAN]

Jobs == [kind : {"poll", "task"}, of : Calls \cup Ids \cup {Unset}]

\* What the arguments below need to know of the types.
StdioTypeOK ==
    /\ pipe \in Seq(Lines)
    /\ \A i \in 1..Len(pipe) : pipe[i].kind \in {"request", "complete"} => pipe[i].of \in Ids
    /\ reader = Reader(reader.at, reader.of, reader.answer)
    /\ completed \in [Ids -> Nat]
    /\ jobs \in Seq(Jobs) /\ posting \in Calls \cup {Unset}
    /\ DOMAIN task = Ids
    /\ DOMAIN worker = Workers /\ DOMAIN stop = {"app", "callback"}

IsUrl(id) == RequestOf(id).mode = "url"

\* The acceptance of a URL is remembered until its completion is handed over: from before
\* the reader answers and from before a worker completes the task, so for as long as the
\* server knows of it.  No completion overtakes the line that tells it.
Remembered(id) == id \in pending \/ completed[id] > 0

ToldInv ==
    /\ \A id \in told : IsUrl(id) => Remembered(id)
    /\ \A id \in Ids : task[id] = "accepted" /\ IsUrl(id) => Remembered(id)
    /\ \A w \in Workers, id \in Ids :
         worker[w].kind = "remembered" /\ worker[w].of = id /\ IsUrl(id) => Remembered(id)
    /\ \A i \in 1..Len(pipe) :
         pipe[i].late => pipe[i].kind = "complete" /\ pipe[i].of \in told /\ IsUrl(pipe[i].of)
    /\ reader.at \in {"answering", "writing"} /\ reader.answer = "accept" /\ IsUrl(reader.of) => reader.of \in pending
    /\ reader.at = "awaiting" => reader.answer = Unset
    /\ ignored = {}

\* How far the application's stop() has come, while no callback calls stop() too.
Alone(phases) == stop["callback"] = "none" /\ stop["app"] \notin phases

\* What each phase of stop() leaves behind: closed pools, no job, no worker, no callback.
StopInv ==
    /\ stop["callback"] = "none" /\ stop["app"] = "none" => asyncPool = "open"
    /\ Alone({"none"}) => asyncPool # "open"
    /\ Alone({"none", "asyncStop"}) => jobs = << >>
    /\ Alone({"none", "asyncStop", "asyncJoin"}) => \A w \in Workers : worker[w] = NoJob
    /\ Alone({"none", "asyncStop", "asyncJoin", "callbackStop"}) => callbacks = << >>
    /\ Alone({"none", "asyncStop", "asyncJoin", "callbackStop", "callbackJoin"}) => callback = Unset

-----------------------------------------------------------------------------
\* An id names one request.
LEMMA RequestOfId ==
  ASSUME NEW r \in Requests
  PROVE  r.id \in Ids /\ RequestOf(r.id) = r
  BY StdioClientAssumption DEF Ids, RequestOf

\* A request is found under its id.
LEMMA RequestOfMember ==
  ASSUME NEW id \in Ids
  PROVE  RequestOf(id) \in Requests /\ RequestOf(id).id = id
  BY StdioClientAssumption DEF Ids, RequestOf

\* What precedes the handler of a request accepts nothing.
LEMMA DispositionIsNoAcceptance ==
  ASSUME NEW r
  PROVE  Disposition(r) # "accept"
  <1>1. RootsAnswer(r.provided) # "accept"
    BY DEF RootsAnswer
  <1>2. SamplingDisposition(r) # "accept"
    BY DEF SamplingDisposition
  <1>3. ElicitationDisposition(r) # "accept"
    BY DEF ElicitationDisposition, ElicitationCheck
  <1>4. r.method \in {"tasks/get", "tasks/result", "tasks/list", "tasks/cancel"} => TasksDisposition(r) # "accept"
    BY DEF TasksDisposition
  <1> QED
    BY <1>1, <1>2, <1>3, <1>4 DEF Disposition

\* A line that is written joins the end of those before it.
LEMMA WrittenLine ==
  ASSUME StdioTypeOK, NEW l \in Lines, pipe' = Append(pipe, l)
  PROVE  /\ pipe' \in Seq(Lines)
         /\ \A i \in 1..Len(pipe') : (i \in 1..Len(pipe) /\ pipe'[i] = pipe[i]) \/ pipe'[i] = l
  BY DEF StdioTypeOK

\* A line that is read leaves the others as they are.
LEMMA ReadLine ==
  ASSUME StdioTypeOK, pipe # << >>, pipe' = Tail(pipe)
  PROVE  /\ pipe' \in Seq(Lines)
         /\ \A i \in 1..Len(pipe') : i + 1 \in 1..Len(pipe) /\ pipe'[i] = pipe[i + 1]
         /\ 1 \in 1..Len(pipe) /\ Head(pipe) = pipe[1]
  BY DEF StdioTypeOK

-----------------------------------------------------------------------------
\* At first nothing is written, asked or stopped.
LEMMA InitStdio == Init => StdioTypeOK /\ ToldInv /\ StopInv
  <1> SUFFICES ASSUME Init PROVE StdioTypeOK /\ ToldInv /\ StopInv
    OBVIOUS
  <1>1. pipe \in Seq(Lines) /\ Len(pipe) = 0
    BY DEF Init
  <1>2. StdioTypeOK
    BY <1>1 DEF Init, StdioTypeOK, Reader
  <1>3. ToldInv
    BY <1>1 DEF Init, ToldInv, Reader, Unset, NoJob, Job
  <1> QED
    BY <1>2, <1>3 DEF Init, StopInv, Alone

\* Every step keeps the types.
LEMMA NextStdioType == StdioTypeOK /\ [Next]_vars => StdioTypeOK'
  <1> SUFFICES ASSUME StdioTypeOK, [Next]_vars PROVE StdioTypeOK'
    OBVIOUS
  <1> USE DEF StdioTypeOK, Reader, habits, childVars, wireVars, handlerVars, asyncVars, callbackVars, appVars
  <1>1. ASSUME NEW c \in Calls, ServerAnswers(c) PROVE StdioTypeOK'
    <2>1. Line("answer", c, FALSE) \in Lines
      BY <1>1 DEF Line, Lines
    <2> QED
      BY <1>1, <2>1, WrittenLine DEF ServerAnswers, WritesLine, Line
  <1>2. ASSUME ServerWritesJunk PROVE StdioTypeOK'
    <2>1. Line("junk", Unset, FALSE) \in Lines
      BY <1>2 DEF Line, Lines
    <2> QED
      BY <1>2, <2>1, WrittenLine DEF ServerWritesJunk, WritesLine, Line
  <1>3. ASSUME NEW r \in Requests, ServerAsks(r) PROVE StdioTypeOK'
    <2>1. Line("request", r.id, FALSE) \in Lines
      BY <1>3, RequestOfId DEF Line, Lines
    <2> QED
      BY <1>3, <2>1, WrittenLine, RequestOfId DEF ServerAsks, WritesLine, Line
  <1>4. ASSUME NEW r \in Requests, ServerCompletes(r) PROVE StdioTypeOK'
    <2>1. Line("complete", r.id, r.id \in told) \in Lines
      BY <1>4, RequestOfId DEF Line, Lines
    <2> QED
      BY <1>4, <2>1, WrittenLine, RequestOfId DEF ServerCompletes, WritesLine, Line
  <1>5. ASSUME ChildExits PROVE StdioTypeOK'
    BY <1>5 DEF ChildExits
  <1>6. ASSUME ReaderChecks PROVE StdioTypeOK'
    BY <1>6 DEF ReaderChecks, ReaderStep
  <1>7. ASSUME ReaderSeesEnd PROVE StdioTypeOK'
    BY <1>7 DEF ReaderSeesEnd, ReaderStep
  <1>8. ASSUME ReaderDropsJunk PROVE StdioTypeOK'
    <2>1. pipe # << >> /\ pipe' = Tail(pipe)
      BY <1>8 DEF ReaderDropsJunk, Takes, BackToTop, ReaderStep
    <2> QED
      BY <1>8, <2>1, ReadLine DEF ReaderDropsJunk, Takes, BackToTop, ReaderStep
  <1>9. ASSUME ReaderTakesAnswer PROVE StdioTypeOK'
    <2>1. pipe # << >> /\ pipe' = Tail(pipe)
      BY <1>9 DEF ReaderTakesAnswer, Takes, BackToTop, ReaderStep
    <2> QED
      BY <1>9, <2>1, ReadLine DEF ReaderTakesAnswer, Takes, BackToTop, ReaderStep
  <1>10. ASSUME ReaderTakesCompletion PROVE StdioTypeOK'
    <2>1. pipe # << >> /\ pipe' = Tail(pipe)
      BY <1>10 DEF ReaderTakesCompletion, Takes, BackToTop, ReaderStep
    <2>2. UNCHANGED << worker, stop, jobs, posting, task >> /\ reader' = Reader("top", Unset, Unset)
      BY <1>10 DEF ReaderTakesCompletion, Takes, BackToTop, ReaderStep
    <2>3. completed' \in [Ids -> Nat]
      <3>1. completed' = completed \/ completed' = [completed EXCEPT ![Head(pipe).of] = @ + 1]
        BY <1>10 DEF ReaderTakesCompletion
      <3> QED
        BY <3>1
    <2>4. pipe' \in Seq(Lines) /\ \A i \in 1..Len(pipe') : pipe'[i].kind \in {"request", "complete"} => pipe'[i].of \in Ids
      BY <2>1, ReadLine
    <2>5. reader' = Reader(reader'.at, reader'.of, reader'.answer)
      BY <2>2
    <2> QED
      BY <2>2, <2>3, <2>4, <2>5
  <1>11. ASSUME ReaderTakesRequest PROVE StdioTypeOK'
    <2>1. pipe # << >> /\ pipe' = Tail(pipe)
      BY <1>11 DEF ReaderTakesRequest, Takes, ReaderStep, StartsTask, Posts
    <2> DEFINE r == RequestOf(Head(pipe).of)
    <2>2. Head(pipe).of \in Ids
      BY <1>11, ReadLine DEF ReaderTakesRequest, Takes
    <2>3. Job("task", r.id) \in Jobs
      BY <2>2, RequestOfMember DEF Job, Jobs
    <2>4. jobs' = jobs \/ jobs' = Append(jobs, Job("task", r.id))
      BY <1>11 DEF ReaderTakesRequest, StartsTask, Posts
    <2>5. jobs' \in Seq(Jobs)
      BY <2>3, <2>4
    <2>6. DOMAIN task' = Ids
      BY <1>11 DEF ReaderTakesRequest, StartsTask
    <2>7. UNCHANGED << worker, stop, posting, completed >>
      BY <1>11 DEF ReaderTakesRequest, Takes, ReaderStep
    <2>8. reader' = Reader(reader'.at, reader'.of, reader'.answer)
      BY <1>11 DEF ReaderTakesRequest
    <2>9. pipe' \in Seq(Lines) /\ \A i \in 1..Len(pipe') : pipe'[i].kind \in {"request", "complete"} => pipe'[i].of \in Ids
      BY <2>1, ReadLine
    <2> QED
      BY <2>5, <2>6, <2>7, <2>8, <2>9
  <1>12. ASSUME HandlerAsks PROVE StdioTypeOK'
    BY <1>12 DEF HandlerAsks, ReaderStep
  <1>13. ASSUME HandlerAskEnds PROVE StdioTypeOK'
    BY <1>13 DEF HandlerAskEnds, ReaderStep
  <1>14. ASSUME HandlerReturns PROVE StdioTypeOK'
    BY <1>14 DEF HandlerReturns, ReaderStep
  <1>15. ASSUME AwaitEnds PROVE StdioTypeOK'
    BY <1>15 DEF AwaitEnds, ReaderStep
  <1>16. ASSUME ReaderAnswers PROVE StdioTypeOK'
    BY <1>16 DEF ReaderAnswers, BackToTop, ReaderStep
  <1>17. ASSUME NEW w \in Workers, WorkerTakes(w) PROVE StdioTypeOK'
    BY <1>17 DEF WorkerTakes, WorkerStep, WorkerKeeps
  <1>18. ASSUME NEW w \in Workers, PollFindsAnswer(w) PROVE StdioTypeOK'
    BY <1>18 DEF PollFindsAnswer, WorkerStep, WorkerKeeps
  <1>19. ASSUME NEW w \in Workers, PollGivesUp(w) PROVE StdioTypeOK'
    BY <1>19 DEF PollGivesUp, WorkerStep, WorkerKeeps
  <1>20. ASSUME NEW w \in Workers, TaskHandlerReturns(w) PROVE StdioTypeOK'
    BY <1>20 DEF TaskHandlerReturns, WorkerStep, WorkerKeeps
  <1>21. ASSUME CallbackRuns PROVE StdioTypeOK'
    BY <1>21 DEF CallbackRuns, CallbackStep
  <1>22. ASSUME CallbackReturns PROVE StdioTypeOK'
    BY <1>22 DEF CallbackReturns, CallbackStep
  <1>23. ASSUME AppStarts PROVE StdioTypeOK'
    BY <1>23 DEF AppStarts
  <1>24. ASSUME NEW c \in Calls, AppCalls(c) PROVE StdioTypeOK'
    BY <1>24 DEF AppCalls, AppStep
  <1>25. ASSUME AppPosts PROVE StdioTypeOK'
    <2>1. Job("poll", posting) \in Jobs /\ Unset \in Calls \cup {Unset}
      BY DEF Job, Jobs
    <2> QED
      BY <1>25, <2>1 DEF AppPosts, AppStep, Posts
  <1>26. ASSUME NEW c \in Calls, CallTimesOut(c) PROVE StdioTypeOK'
    BY <1>26 DEF CallTimesOut, AppStep
  <1>27. ASSUME NEW t \in {"app", "callback"}, StopTakesPools(t) PROVE StdioTypeOK'
    BY <1>27 DEF StopTakesPools, StopStep, Goes
  <1>28. ASSUME NEW t \in {"app", "callback"}, StopStopsAsync(t) PROVE StdioTypeOK'
    BY <1>28 DEF StopStopsAsync, StopStep, Goes
  <1>29. ASSUME NEW t \in {"app", "callback"}, StopJoinsAsync(t) PROVE StdioTypeOK'
    BY <1>29 DEF StopJoinsAsync, StopStep, Goes
  <1>30. ASSUME NEW t \in {"app", "callback"}, StopStopsCallbacks(t) PROVE StdioTypeOK'
    BY <1>30 DEF StopStopsCallbacks, StopStep, Goes
  <1>31. ASSUME NEW t \in {"app", "callback"}, StopJoinsCallbacks(t) PROVE StdioTypeOK'
    BY <1>31 DEF StopJoinsCallbacks, StopStep, Goes
  <1>32. ASSUME NEW t \in {"app", "callback"}, StopStopsTransport(t) PROVE StdioTypeOK'
    BY <1>32 DEF StopStopsTransport, StopStep, Goes
  <1>33. ASSUME NEW t \in {"app", "callback"}, ChildGone(t) PROVE StdioTypeOK'
    BY <1>33 DEF ChildGone, StopStep, Goes
  <1>34. ASSUME NEW t \in {"app", "callback"}, StopTerminates(t) PROVE StdioTypeOK'
    BY <1>34 DEF StopTerminates, Signals, StopStep, Goes
  <1>35. ASSUME NEW t \in {"app", "callback"}, StopKills(t) PROVE StdioTypeOK'
    BY <1>35 DEF StopKills, Signals, StopStep, Goes
  <1>36. ASSUME NEW t \in {"app", "callback"}, StopJoinsReader(t) PROVE StdioTypeOK'
    BY <1>36 DEF StopJoinsReader, StopStep, Goes
  <1>37. ASSUME NEW t \in {"app", "callback"}, StopStopsSession(t) PROVE StdioTypeOK'
    BY <1>37 DEF StopStopsSession, StopStep, Goes
  <1>38. ASSUME NEW w \in Workers, TaskRemembers(w) PROVE StdioTypeOK'
    BY <1>38 DEF TaskRemembers, WorkerStep, WorkerKeeps
  <1>39. ASSUME NEW w \in Workers, TaskCompletes(w) PROVE StdioTypeOK'
    BY <1>39 DEF TaskCompletes, WorkerStep, WorkerKeeps
  <1>40. ASSUME NEW w \in Workers, TaskNotifies(w) PROVE StdioTypeOK'
    BY <1>40 DEF TaskNotifies, WorkerKeeps
  <1>41. ASSUME NEW w \in Workers, WorkerWrites(w) PROVE StdioTypeOK'
    BY <1>41 DEF WorkerWrites, WorkerKeeps
  <1>42. ASSUME ReaderWrites PROVE StdioTypeOK'
    BY <1>42 DEF ReaderWrites, BackToTop
  <1>43. ASSUME AppWrites PROVE StdioTypeOK'
    BY <1>43 DEF AppWrites, AppStep
  <1>44. ASSUME NEW t \in {"app", "callback"}, StopClosesInput(t) PROVE StdioTypeOK'
    BY <1>44 DEF StopClosesInput, StopStep, Goes
  <1>45. CASE UNCHANGED vars
    BY <1>45 DEF vars
  <1> QED
    BY <1>1, <1>2, <1>3, <1>4, <1>5, <1>6, <1>7, <1>8, <1>9, <1>10, <1>11, <1>12, <1>13,
       <1>14, <1>15, <1>16, <1>17, <1>18, <1>19, <1>20, <1>21, <1>22, <1>23, <1>24, <1>25,
       <1>26, <1>27, <1>28, <1>29, <1>30, <1>31, <1>32, <1>33, <1>34, <1>35, <1>36, <1>37,
       <1>38, <1>39, <1>40, <1>41, <1>42, <1>43, <1>44, <1>45
       DEF Next, ReaderNext, WorkerNext, CallbackNext, Stops

\* Every step keeps what the server was told in step with what is pending: the reader accepts
\* into the set, answers after it, and takes a completion only when no answer is on its way.
LEMMA NextTold == StdioTypeOK /\ ToldInv /\ [Next]_vars => ToldInv'
  <1> SUFFICES ASSUME StdioTypeOK, ToldInv, [Next]_vars PROVE ToldInv'
    OBVIOUS
  <1> USE DEF StdioTypeOK, ToldInv, Remembered, Reader, habits, childVars, wireVars, handlerVars, asyncVars, callbackVars, appVars
  <1>1. ASSUME NEW c \in Calls, ServerAnswers(c) PROVE ToldInv'
    <2>1. Line("answer", c, FALSE) \in Lines
      BY <1>1 DEF Line, Lines
    <2> QED
      BY <1>1, <2>1, WrittenLine DEF ServerAnswers, WritesLine, Line
  <1>2. ASSUME ServerWritesJunk PROVE ToldInv'
    <2>1. Line("junk", Unset, FALSE) \in Lines
      BY <1>2 DEF Line, Lines
    <2> QED
      BY <1>2, <2>1, WrittenLine DEF ServerWritesJunk, WritesLine, Line
  <1>3. ASSUME NEW r \in Requests, ServerAsks(r) PROVE ToldInv'
    <2>1. Line("request", r.id, FALSE) \in Lines
      BY <1>3, RequestOfId DEF Line, Lines
    <2> QED
      BY <1>3, <2>1, WrittenLine, RequestOfId DEF ServerAsks, WritesLine, Line
  <1>4. ASSUME NEW r \in Requests, ServerCompletes(r) PROVE ToldInv'
    <2>1. Line("complete", r.id, r.id \in told) \in Lines
      BY <1>4, RequestOfId DEF Line, Lines
    <2>2. IsUrl(r.id)
      BY <1>4, RequestOfId DEF ServerCompletes, IsUrl
    <2>3. UNCHANGED << told, completed, ignored, reader, pending, task, worker >> /\ pipe' = Append(pipe, Line("complete", r.id, r.id \in told))
      BY <1>4 DEF ServerCompletes, WritesLine
    <2>4. \A i \in 1..Len(pipe') : (i \in 1..Len(pipe) /\ pipe'[i] = pipe[i])
             \/ (pipe'[i].kind = "complete" /\ pipe'[i].of = r.id /\ pipe'[i].late = (r.id \in told))
      BY <2>1, <2>3, WrittenLine DEF Line
    <2>5. \A i \in 1..Len(pipe') :
            pipe'[i].late => pipe'[i].kind = "complete" /\ pipe'[i].of \in told' /\ IsUrl(pipe'[i].of)
      <3> TAKE i \in 1..Len(pipe')
      <3>1. CASE i \in 1..Len(pipe) /\ pipe'[i] = pipe[i]
        BY <2>3, <3>1
      <3>2. CASE pipe'[i].kind = "complete" /\ pipe'[i].of = r.id /\ pipe'[i].late = (r.id \in told)
        BY <2>2, <2>3, <3>2
      <3> QED
        BY <2>4, <3>1, <3>2
    <2> QED
      BY <2>3, <2>5
  <1>5. ASSUME ChildExits PROVE ToldInv'
    BY <1>5 DEF ChildExits
  <1>6. ASSUME ReaderChecks PROVE ToldInv'
    BY <1>6 DEF ReaderChecks, ReaderStep
  <1>7. ASSUME ReaderSeesEnd PROVE ToldInv'
    BY <1>7 DEF ReaderSeesEnd, ReaderStep
  <1>8. ASSUME ReaderDropsJunk PROVE ToldInv'
    <2>1. UNCHANGED << pending, told, completed, ignored, task, worker >> /\ pipe # << >> /\ pipe' = Tail(pipe) /\ reader' = Reader("top", Unset, Unset)
      BY <1>8 DEF ReaderDropsJunk, Takes, BackToTop, ReaderStep
    <2> QED
      BY <2>1, ReadLine
  <1>9. ASSUME ReaderTakesAnswer PROVE ToldInv'
    <2>1. UNCHANGED << pending, told, completed, ignored, task, worker >> /\ pipe # << >> /\ pipe' = Tail(pipe) /\ reader' = Reader("top", Unset, Unset)
      BY <1>9 DEF ReaderTakesAnswer, Takes, BackToTop, ReaderStep
    <2> QED
      BY <2>1, ReadLine
  <1>10. ASSUME ReaderTakesCompletion PROVE ToldInv'
    <2>1. UNCHANGED << told, task, worker >> /\ pipe # << >> /\ pipe' = Tail(pipe) /\ reader' = Reader("top", Unset, Unset)
      BY <1>10 DEF ReaderTakesCompletion, Takes, BackToTop
    <2> DEFINE id == Head(pipe).of
    <2>2. /\ id \in Ids /\ pending' = pending \ {id}
          /\ id \in pending => completed' = [completed EXCEPT ![id] = @ + 1] /\ UNCHANGED ignored
          /\ id \notin pending => UNCHANGED completed
          /\ id \notin pending => ignored' = IF Head(pipe).late /\ completed[id] = 0 THEN ignored \cup {id} ELSE ignored
      BY <1>10, ReadLine DEF ReaderTakesCompletion, Takes
    <2>3. Head(pipe).late => id \in told /\ IsUrl(id)
      BY <2>1, ReadLine
    <2>4. ignored' = {}
      BY <2>2, <2>3
    <2>5. \A e : Remembered(e) => Remembered(e)'
      <3> SUFFICES ASSUME NEW e, Remembered(e) PROVE Remembered(e)'
        OBVIOUS
      <3>1. CASE id \in pending
        <4>1. completed[id] \in Nat /\ completed' = [completed EXCEPT ![id] = completed[id] + 1]
          BY <2>2, <3>1
        <4>2. completed'[id] > 0 /\ (e # id => completed'[e] = completed[e])
          BY <2>2, <4>1
        <4> QED
          BY <2>2, <4>2
      <3>2. CASE id \notin pending
        BY <2>2, <3>2
      <3> QED
        BY <3>1, <3>2
    <2>6. \A i \in 1..Len(pipe') :
            pipe'[i].late => pipe'[i].kind = "complete" /\ pipe'[i].of \in told /\ IsUrl(pipe'[i].of)
      BY <2>1, ReadLine
    <2> QED
      BY <2>1, <2>4, <2>5, <2>6
  <1>11. ASSUME ReaderTakesRequest PROVE ToldInv'
    <2>1. UNCHANGED << pending, told, completed, ignored, worker >> /\ pipe # << >> /\ pipe' = Tail(pipe)
      BY <1>11 DEF ReaderTakesRequest, Takes
    <2>3. \A id \in Ids : task'[id] = "accepted" => task[id] = "accepted"
      BY <1>11 DEF ReaderTakesRequest, StartsTask
    <2>2. reader'.answer # "accept" /\ (reader'.at = "awaiting" => reader'.answer = Unset)
      BY <1>11, DispositionIsNoAcceptance DEF ReaderTakesRequest, StartsTask, Unset
    <2> QED
      BY <2>1, <2>2, <2>3, ReadLine
  <1>12. ASSUME HandlerAsks PROVE ToldInv'
    BY <1>12 DEF HandlerAsks, ReaderStep
  <1>13. ASSUME HandlerAskEnds PROVE ToldInv'
    BY <1>13 DEF HandlerAskEnds, ReaderStep
  <1>14. ASSUME HandlerReturns PROVE ToldInv'
    <2>1. UNCHANGED << pipe, told, completed, ignored, task, worker >> /\ pending \subseteq pending'
      BY <1>14 DEF HandlerReturns, Remembers
    <2>2. reader'.answer = "accept" /\ IsUrl(reader'.of) => reader'.of \in pending'
      BY <1>14 DEF HandlerReturns, Remembers, IsUrl
    <2>3. reader'.at = "answering"
      BY <1>14 DEF HandlerReturns
    <2> QED
      BY <2>1, <2>2, <2>3
  <1>15. ASSUME AwaitEnds PROVE ToldInv'
    <2>1. UNCHANGED << pipe, told, completed, ignored, pending, task, worker >>
      BY <1>15 DEF AwaitEnds
    <2>2. reader'.answer # "accept" /\ reader'.at = "answering"
      BY <1>15 DEF AwaitEnds, Unset
    <2> QED
      BY <2>1, <2>2
  <1>16. ASSUME ReaderAnswers PROVE ToldInv'
    <2>1. UNCHANGED << pipe, completed, ignored, pending, task, worker >>
      BY <1>16 DEF ReaderAnswers
    <2>2. told \subseteq told' /\ told' \subseteq told \cup Tells(reader.of, reader.answer)
      BY <1>16 DEF ReaderAnswers
    <2>3. \A id \in Tells(reader.of, reader.answer) : IsUrl(id) => Remembered(id)
      BY <1>16 DEF ReaderAnswers, Tells
    <2>4. reader' = Reader("top", Unset, Unset) \/ (reader.at = "answering" /\ reader' = [reader EXCEPT !.at = "writing"])
      BY <1>16 DEF ReaderAnswers, BackToTop
    <2>5. reader'.at = "top" \/ (reader'.at = "writing" /\ reader'.of = reader.of /\ reader'.answer = reader.answer)
      BY <2>4
    <2> QED
      BY <1>16, <2>1, <2>2, <2>3, <2>5 DEF ReaderAnswers
  <1>17. ASSUME NEW w \in Workers, WorkerTakes(w) PROVE ToldInv'
    <2>1. UNCHANGED << pipe, told, completed, ignored, reader, pending, task >>
      BY <1>17 DEF WorkerTakes, WorkerStep, WorkerKeeps
    <2>2. Head(jobs) \in Jobs
      BY <1>17 DEF WorkerTakes
    <2>3. \A v \in Workers : worker'[v].kind = "remembered" => worker'[v] = worker[v]
      BY <1>17, <2>2 DEF WorkerTakes, Jobs
    <2> QED
      BY <2>1, <2>3
  <1>18. ASSUME NEW w \in Workers, PollFindsAnswer(w) PROVE ToldInv'
    BY <1>18 DEF PollFindsAnswer, WorkerStep, WorkerKeeps, NoJob, Job
  <1>19. ASSUME NEW w \in Workers, PollGivesUp(w) PROVE ToldInv'
    BY <1>19 DEF PollGivesUp, WorkerStep, WorkerKeeps, NoJob, Job
  <1>20. ASSUME NEW w \in Workers, TaskHandlerReturns(w) PROVE ToldInv'
    <2>1. UNCHANGED << pipe, told, completed, ignored, reader, pending, task >>
      BY <1>20 DEF TaskHandlerReturns, WorkerStep, WorkerKeeps
    <2>2. \A v \in Workers : worker'[v].kind = "remembered" => worker'[v] = worker[v]
      BY <1>20 DEF TaskHandlerReturns, Job
    <2> QED
      BY <2>1, <2>2
  <1>21. ASSUME CallbackRuns PROVE ToldInv'
    BY <1>21 DEF CallbackRuns, CallbackStep
  <1>22. ASSUME CallbackReturns PROVE ToldInv'
    BY <1>22 DEF CallbackReturns, CallbackStep
  <1>23. ASSUME AppStarts PROVE ToldInv'
    BY <1>23 DEF AppStarts
  <1>24. ASSUME NEW c \in Calls, AppCalls(c) PROVE ToldInv'
    BY <1>24 DEF AppCalls, AppStep
  <1>25. ASSUME AppPosts PROVE ToldInv'
    BY <1>25 DEF AppPosts, AppStep, Posts
  <1>26. ASSUME NEW c \in Calls, CallTimesOut(c) PROVE ToldInv'
    BY <1>26 DEF CallTimesOut, AppStep
  <1>27. ASSUME NEW t \in {"app", "callback"}, StopTakesPools(t) PROVE ToldInv'
    BY <1>27 DEF StopTakesPools, StopStep, Goes
  <1>28. ASSUME NEW t \in {"app", "callback"}, StopStopsAsync(t) PROVE ToldInv'
    BY <1>28 DEF StopStopsAsync, StopStep, Goes
  <1>29. ASSUME NEW t \in {"app", "callback"}, StopJoinsAsync(t) PROVE ToldInv'
    BY <1>29 DEF StopJoinsAsync, StopStep, Goes
  <1>30. ASSUME NEW t \in {"app", "callback"}, StopStopsCallbacks(t) PROVE ToldInv'
    BY <1>30 DEF StopStopsCallbacks, StopStep, Goes
  <1>31. ASSUME NEW t \in {"app", "callback"}, StopJoinsCallbacks(t) PROVE ToldInv'
    BY <1>31 DEF StopJoinsCallbacks, StopStep, Goes
  <1>32. ASSUME NEW t \in {"app", "callback"}, StopStopsTransport(t) PROVE ToldInv'
    BY <1>32 DEF StopStopsTransport, StopStep, Goes
  <1>33. ASSUME NEW t \in {"app", "callback"}, ChildGone(t) PROVE ToldInv'
    BY <1>33 DEF ChildGone, StopStep, Goes
  <1>34. ASSUME NEW t \in {"app", "callback"}, StopTerminates(t) PROVE ToldInv'
    BY <1>34 DEF StopTerminates, Signals, StopStep, Goes
  <1>35. ASSUME NEW t \in {"app", "callback"}, StopKills(t) PROVE ToldInv'
    BY <1>35 DEF StopKills, Signals, StopStep, Goes
  <1>36. ASSUME NEW t \in {"app", "callback"}, StopJoinsReader(t) PROVE ToldInv'
    BY <1>36 DEF StopJoinsReader, StopStep, Goes
  <1>37. ASSUME NEW t \in {"app", "callback"}, StopStopsSession(t) PROVE ToldInv'
    BY <1>37 DEF StopStopsSession, StopStep, Goes
  <1>38. ASSUME NEW w \in Workers, TaskRemembers(w) PROVE ToldInv'
    <2>1. UNCHANGED << pipe, told, completed, ignored, reader, task >> /\ pending \subseteq pending'
      BY <1>38 DEF TaskRemembers, Remembers, WorkerStep, WorkerKeeps
    <2>2. \A v \in Workers : v # w => worker'[v] = worker[v]
      BY <1>38 DEF TaskRemembers
    <2>3. worker'[w].of = worker[w].of /\ (IsUrl(worker[w].of) => worker[w].of \in pending')
      BY <1>38 DEF TaskRemembers, Remembers, IsUrl, Job
    <2> QED
      BY <2>1, <2>2, <2>3
  <1>39. ASSUME NEW w \in Workers, TaskCompletes(w) PROVE ToldInv'
    <2>1. UNCHANGED << pipe, told, completed, ignored, reader, pending >>
      BY <1>39 DEF TaskCompletes, WorkerStep, WorkerKeeps
    <2>2. \A v \in Workers : worker'[v].kind = "remembered" => worker'[v] = worker[v]
      BY <1>39 DEF TaskCompletes, Job, NoJob
    <2>3. \A id \in Ids : task'[id] = "accepted" =>
            task[id] = "accepted" \/ (worker[w].kind = "remembered" /\ worker[w].of = id)
      BY <1>39 DEF TaskCompletes
    <2> QED
      BY <2>1, <2>2, <2>3
  <1>40. ASSUME NEW w \in Workers, TaskNotifies(w) PROVE ToldInv'
    <2>1. UNCHANGED << pipe, told, completed, ignored, reader, pending, task >>
      BY <1>40 DEF TaskNotifies, WorkerKeeps
    <2>2. \A v \in Workers : worker'[v].kind = "remembered" => worker'[v] = worker[v]
      BY <1>40 DEF TaskNotifies, Job, NoJob
    <2> QED
      BY <2>1, <2>2
  <1>41. ASSUME NEW w \in Workers, WorkerWrites(w) PROVE ToldInv'
    <2>1. UNCHANGED << pipe, told, completed, ignored, reader, pending, task >>
      BY <1>41 DEF WorkerWrites, WorkerKeeps
    <2>2. \A v \in Workers : worker'[v].kind = "remembered" => worker'[v] = worker[v]
      BY <1>41 DEF WorkerWrites, Job, NoJob
    <2> QED
      BY <2>1, <2>2
  <1>42. ASSUME ReaderWrites PROVE ToldInv'
    <2>1. UNCHANGED << pipe, completed, ignored, pending, task, worker >> /\ reader' = Reader("top", Unset, Unset)
      BY <1>42 DEF ReaderWrites, BackToTop
    <2>2. told \subseteq told' /\ told' \subseteq told \cup Tells(reader.of, reader.answer)
      BY <1>42 DEF ReaderWrites
    <2>3. \A id \in Tells(reader.of, reader.answer) : IsUrl(id) => Remembered(id)
      BY <1>42 DEF ReaderWrites, Tells
    <2> QED
      BY <2>1, <2>2, <2>3
  <1>43. ASSUME AppWrites PROVE ToldInv'
    BY <1>43 DEF AppWrites, AppStep
  <1>44. ASSUME NEW t \in {"app", "callback"}, StopClosesInput(t) PROVE ToldInv'
    BY <1>44 DEF StopClosesInput, StopStep, Goes
  <1>45. CASE UNCHANGED vars
    BY <1>45 DEF vars
  <1> QED
    BY <1>1, <1>2, <1>3, <1>4, <1>5, <1>6, <1>7, <1>8, <1>9, <1>10, <1>11, <1>12, <1>13,
       <1>14, <1>15, <1>16, <1>17, <1>18, <1>19, <1>20, <1>21, <1>22, <1>23, <1>24, <1>25,
       <1>26, <1>27, <1>28, <1>29, <1>30, <1>31, <1>32, <1>33, <1>34, <1>35, <1>36, <1>37,
       <1>38, <1>39, <1>40, <1>41, <1>42, <1>43, <1>44, <1>45
       DEF Next, ReaderNext, WorkerNext, CallbackNext, Stops

\* Every step keeps what the phases of stop() leave behind.
LEMMA NextStop == StdioTypeOK /\ StopInv /\ [Next]_vars => StopInv'
  <1> SUFFICES ASSUME StdioTypeOK, StopInv, [Next]_vars PROVE StopInv'
    OBVIOUS
  <1> USE DEF StdioTypeOK, StopInv, Alone, habits, childVars, wireVars, handlerVars, asyncVars, callbackVars, appVars
  <1>1. ASSUME NEW c \in Calls, ServerAnswers(c) PROVE StopInv'
    BY <1>1 DEF ServerAnswers, WritesLine
  <1>2. ASSUME ServerWritesJunk PROVE StopInv'
    BY <1>2 DEF ServerWritesJunk, WritesLine
  <1>3. ASSUME NEW r \in Requests, ServerAsks(r) PROVE StopInv'
    BY <1>3 DEF ServerAsks, WritesLine
  <1>4. ASSUME NEW r \in Requests, ServerCompletes(r) PROVE StopInv'
    BY <1>4 DEF ServerCompletes, WritesLine
  <1>5. ASSUME ChildExits PROVE StopInv'
    BY <1>5 DEF ChildExits
  <1>6. ASSUME ReaderChecks PROVE StopInv'
    BY <1>6 DEF ReaderChecks, ReaderStep
  <1>7. ASSUME ReaderSeesEnd PROVE StopInv'
    BY <1>7 DEF ReaderSeesEnd, ReaderStep
  <1>8. ASSUME ReaderDropsJunk PROVE StopInv'
    BY <1>8 DEF ReaderDropsJunk, Takes, BackToTop, ReaderStep
  <1>9. ASSUME ReaderTakesAnswer PROVE StopInv'
    BY <1>9 DEF ReaderTakesAnswer, Takes, BackToTop, ReaderStep
  <1>10. ASSUME ReaderTakesCompletion PROVE StopInv'
    BY <1>10 DEF ReaderTakesCompletion, Takes, BackToTop, ReaderStep
  <1>11. ASSUME ReaderTakesRequest PROVE StopInv'
    BY <1>11 DEF ReaderTakesRequest, Takes, ReaderStep, StartsTask, Posts
  <1>12. ASSUME HandlerAsks PROVE StopInv'
    BY <1>12 DEF HandlerAsks, ReaderStep
  <1>13. ASSUME HandlerAskEnds PROVE StopInv'
    BY <1>13 DEF HandlerAskEnds, ReaderStep
  <1>14. ASSUME HandlerReturns PROVE StopInv'
    BY <1>14 DEF HandlerReturns, ReaderStep
  <1>15. ASSUME AwaitEnds PROVE StopInv'
    BY <1>15 DEF AwaitEnds, ReaderStep
  <1>16. ASSUME ReaderAnswers PROVE StopInv'
    BY <1>16 DEF ReaderAnswers, BackToTop, ReaderStep
  <1>17. ASSUME NEW w \in Workers, WorkerTakes(w) PROVE StopInv'
    BY <1>17 DEF WorkerTakes, WorkerStep, WorkerKeeps
  <1>18. ASSUME NEW w \in Workers, PollFindsAnswer(w) PROVE StopInv'
    BY <1>18 DEF PollFindsAnswer, WorkerStep, WorkerKeeps
  <1>19. ASSUME NEW w \in Workers, PollGivesUp(w) PROVE StopInv'
    BY <1>19 DEF PollGivesUp, WorkerStep, WorkerKeeps
  <1>20. ASSUME NEW w \in Workers, TaskHandlerReturns(w) PROVE StopInv'
    BY <1>20 DEF TaskHandlerReturns, WorkerStep, WorkerKeeps, Job, NoJob
  <1>21. ASSUME CallbackRuns PROVE StopInv'
    BY <1>21 DEF CallbackRuns, CallbackStep
  <1>22. ASSUME CallbackReturns PROVE StopInv'
    BY <1>22 DEF CallbackReturns, CallbackStep
  <1>23. ASSUME AppStarts PROVE StopInv'
    BY <1>23 DEF AppStarts
  <1>24. ASSUME NEW c \in Calls, AppCalls(c) PROVE StopInv'
    BY <1>24 DEF AppCalls, AppStep
  <1>25. ASSUME AppPosts PROVE StopInv'
    BY <1>25 DEF AppPosts, AppStep, Posts
  <1>26. ASSUME NEW c \in Calls, CallTimesOut(c) PROVE StopInv'
    BY <1>26 DEF CallTimesOut, AppStep
  <1>27. ASSUME NEW t \in {"app", "callback"}, StopTakesPools(t) PROVE StopInv'
    BY <1>27 DEF StopTakesPools, StopStep, Goes
  <1>28. ASSUME NEW t \in {"app", "callback"}, StopStopsAsync(t) PROVE StopInv'
    BY <1>28 DEF StopStopsAsync, StopStep, Goes
  <1>29. ASSUME NEW t \in {"app", "callback"}, StopJoinsAsync(t) PROVE StopInv'
    BY <1>29 DEF StopJoinsAsync, StopStep, Goes
  <1>30. ASSUME NEW t \in {"app", "callback"}, StopStopsCallbacks(t) PROVE StopInv'
    BY <1>30 DEF StopStopsCallbacks, StopStep, Goes
  <1>31. ASSUME NEW t \in {"app", "callback"}, StopJoinsCallbacks(t) PROVE StopInv'
    BY <1>31 DEF StopJoinsCallbacks, StopStep, Goes
  <1>32. ASSUME NEW t \in {"app", "callback"}, StopStopsTransport(t) PROVE StopInv'
    BY <1>32 DEF StopStopsTransport, StopStep, Goes
  <1>33. ASSUME NEW t \in {"app", "callback"}, ChildGone(t) PROVE StopInv'
    BY <1>33 DEF ChildGone, StopStep, Goes
  <1>34. ASSUME NEW t \in {"app", "callback"}, StopTerminates(t) PROVE StopInv'
    BY <1>34 DEF StopTerminates, Signals, StopStep, Goes
  <1>35. ASSUME NEW t \in {"app", "callback"}, StopKills(t) PROVE StopInv'
    BY <1>35 DEF StopKills, Signals, StopStep, Goes
  <1>36. ASSUME NEW t \in {"app", "callback"}, StopJoinsReader(t) PROVE StopInv'
    BY <1>36 DEF StopJoinsReader, StopStep, Goes
  <1>37. ASSUME NEW t \in {"app", "callback"}, StopStopsSession(t) PROVE StopInv'
    BY <1>37 DEF StopStopsSession, StopStep, Goes
  <1>38. ASSUME NEW w \in Workers, TaskRemembers(w) PROVE StopInv'
    BY <1>38 DEF TaskRemembers, WorkerStep, WorkerKeeps, Job, NoJob
  <1>39. ASSUME NEW w \in Workers, TaskCompletes(w) PROVE StopInv'
    BY <1>39 DEF TaskCompletes, WorkerStep, WorkerKeeps, Job, NoJob
  <1>40. ASSUME NEW w \in Workers, TaskNotifies(w) PROVE StopInv'
    BY <1>40 DEF TaskNotifies, WorkerKeeps, Job, NoJob
  <1>41. ASSUME NEW w \in Workers, WorkerWrites(w) PROVE StopInv'
    BY <1>41 DEF WorkerWrites, WorkerKeeps
  <1>42. ASSUME ReaderWrites PROVE StopInv'
    BY <1>42 DEF ReaderWrites, BackToTop
  <1>43. ASSUME AppWrites PROVE StopInv'
    BY <1>43 DEF AppWrites, AppStep
  <1>44. ASSUME NEW t \in {"app", "callback"}, StopClosesInput(t) PROVE StopInv'
    BY <1>44 DEF StopClosesInput, StopStep, Goes
  <1>45. CASE UNCHANGED vars
    BY <1>45 DEF vars
  <1> QED
    BY <1>1, <1>2, <1>3, <1>4, <1>5, <1>6, <1>7, <1>8, <1>9, <1>10, <1>11, <1>12, <1>13,
       <1>14, <1>15, <1>16, <1>17, <1>18, <1>19, <1>20, <1>21, <1>22, <1>23, <1>24, <1>25,
       <1>26, <1>27, <1>28, <1>29, <1>30, <1>31, <1>32, <1>33, <1>34, <1>35, <1>36, <1>37,
       <1>38, <1>39, <1>40, <1>41, <1>42, <1>43, <1>44, <1>45
       DEF Next, ReaderNext, WorkerNext, CallbackNext, Stops

-----------------------------------------------------------------------------
\* The invariant the theorems follow from.
LEMMA StdioInvHolds == Spec => [](StdioTypeOK /\ ToldInv /\ StopInv)
  <1>1. StdioTypeOK /\ ToldInv /\ StopInv /\ [Next]_vars => (StdioTypeOK /\ ToldInv /\ StopInv)'
    BY NextStdioType, NextTold, NextStop
  <1> QED
    BY <1>1, InitStdio, PTL DEF Spec

\* No completion that follows the acceptance of its elicitation is dropped: the reader
\* inserts the id before its answer leaves (client.cpp:1769), and so does a worker before the
\* task is complete and tasks/result may tell of it (client.cpp:1607).
THEOREM CompletionsReachHandler == Spec => []CompletionReachesHandler
  <1>1. ToldInv => CompletionReachesHandler
    BY DEF ToldInv, CompletionReachesHandler
  <1> QED
    BY <1>1, StdioInvHolds, PTL

\* After the application's stop() nothing of the application runs on a thread of the client.
THEOREM NoCallbackRunsAfterStop == Spec => []NoCallbackAfterStop
  <1>1. StopInv => NoCallbackAfterStop
    BY DEF StopInv, Alone, NoCallbackAfterStop
  <1> QED
    BY <1>1, StdioInvHolds, PTL

=============================================================================
