----------------------------- MODULE MCHttpServer -----------------------------
(***************************************************************************)
(* A small instance of HttpServer for TLC.                                 *)
(***************************************************************************)
EXTENDS HttpServer

CONSTANTS s1, read, write

Good == [ status |-> "valid", audienceBound |-> TRUE, isolationKey |-> TRUE, granted |-> {read, write} ]
Verdicts ==
  { Good, [Good EXCEPT !.granted = {read}], [Good EXCEPT !.audienceBound = FALSE],
    [Good EXCEPT !.isolationKey = FALSE], [Good EXCEPT !.status = "throws"] }
NoEvent == [ kind |-> "none", stream |-> 0, cursor |-> 0 ]

Plain ==
  [ method |-> "POST", path |-> "endpoint", contentType |-> "json", body |-> "request",
    origin |-> "allowed", session |-> NoSession, version |-> "none", bearer |-> "present",
    verdict |-> Good, lastEventId |-> NoEvent ]

Posts ==
  { [Plain EXCEPT !.session = k] : k \in {NoSession, s1} }
  \cup { [Plain EXCEPT !.session = s1, !.path = "legacyPost"] }
  \cup { [Plain EXCEPT !.body = "initialize", !.path = p] : p \in {"endpoint", "legacyPost"} }
  \cup { [Plain EXCEPT !.body = "response"] }
Gets ==
  { [Plain EXCEPT !.method = "GET", !.session = k, !.path = p] :
      k \in {NoSession, s1}, p \in {"endpoint", "legacySse"} }
Resumes ==
  { [Plain EXCEPT !.method = "GET", !.session = k, !.path = p,
                  !.lastEventId = [kind |-> "event", stream |-> n, cursor |-> c]] :
      k \in {NoSession, s1}, p \in {"endpoint"}, n \in 1..2, c \in {0, 1} }
  \cup { [Plain EXCEPT !.method = "GET", !.lastEventId = [kind |-> "event", stream |-> 1, cursor |-> CursorSpan - 1]] }
  \cup
  { [Plain EXCEPT !.method = "GET", !.session = s1, !.path = "legacySse",
                  !.lastEventId = [kind |-> "event", stream |-> 0, cursor |-> c]] : c \in 0..2 }
Deletes == { [Plain EXCEPT !.method = "DELETE", !.session = k] : k \in {s1} }

\* One request for every refusal.
Refusals ==
  { [Plain EXCEPT !.method = "GET", !.path = p] : p \in {"rootMetadata", "pathMetadata", "other"} }
  \cup { [Plain EXCEPT !.path = p] : p \in {"legacySse", "rootMetadata"} }
  \cup { [Plain EXCEPT !.contentType = "other"], [Plain EXCEPT !.body = "malformed"],
         [Plain EXCEPT !.origin = "foreign"],
         [Plain EXCEPT !.session = BadSession], [Plain EXCEPT !.version = "unsupported"],
         [Plain EXCEPT !.bearer = "invalid"],
         [Plain EXCEPT !.method = "GET", !.lastEventId.kind = "malformed"] }
  \cup { [Plain EXCEPT !.verdict = v] : v \in Verdicts }

AllRequests == Posts \cup Gets \cup Resumes \cup Deletes \cup Refusals

Open ==
  [ validateOrigin |-> FALSE, allowRequestsWithoutOrigin |-> TRUE, requireSessionId |-> FALSE,
    allowGetSse |-> TRUE, allowDeleteSession |-> TRUE, legacy |-> FALSE, authorization |-> FALSE,
    maxSseBufferedMessages |-> 2,
    publishRoot |-> FALSE, publishPath |-> FALSE, requiredScopes |-> {} ]
Strict ==
  [ validateOrigin |-> TRUE, allowRequestsWithoutOrigin |-> FALSE, requireSessionId |-> TRUE,
    allowGetSse |-> TRUE, allowDeleteSession |-> TRUE, legacy |-> TRUE, authorization |-> TRUE,
    maxSseBufferedMessages |-> 1,
    publishRoot |-> FALSE, publishPath |-> TRUE, requiredScopes |-> {read, write} ]
BothOptions == { Open, Strict }

WorkersAlike == Permutations(Workers)

Result ==
  [ useSse |-> FALSE, terminateSseAfterResponse |-> TRUE, pre |-> << >>,
    response |-> "success", size |-> "fits" ]
Results ==
  { Result, [Result EXCEPT !.size = "oversize"], [Result EXCEPT !.response = "unsupportedVersion"],
    [Result EXCEPT !.response = "none"],
    [Result EXCEPT !.useSse = TRUE], [Result EXCEPT !.useSse = TRUE, !.response = "none"],
    [Result EXCEPT !.pre = << "fits" >>], [Result EXCEPT !.pre = << "oversize" >>] }
=============================================================================
