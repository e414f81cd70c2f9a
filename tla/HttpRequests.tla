----------------------------- MODULE HttpRequests -----------------------------
(***************************************************************************)
(* What the HTTP server transport reads of a request before it touches any *)
(* state: the route, the body, the checks of validateServerRequest and the *)
(* bearer token.  The first refusal in the order of the code is the answer *)
(* and Ok means that the handler of the method runs.                       *)
(*                                                                         *)
(* Header texts are abstracted to the outcomes the code tells apart.       *)
(***************************************************************************)
EXTENDS Naturals, Sequences

CONSTANTS
  Sessions,    \* session ids: visible ASCII
  NoSession,   \* no MCP-Session-Id header
  BadSession,  \* an MCP-Session-Id header that is not visible ASCII
  Scopes       \* OAuth scopes

Ok == 200
Keys == Sessions \cup {NoSession}

\* One entry of the transport's session table.
SessionEntry ==
  [ state : {"unknown", "active", "expired", "terminated"},
    version : {"none", "supported", "unsupported"} ]

\* What a token verifier may say of a bearer token.
Verdict ==
  [ status : {"valid", "invalidToken", "insufficientScope", "throws"},
    audienceBound : BOOLEAN, isolationKey : BOOLEAN, granted : SUBSET Scopes ]

Options ==
  [ validateOrigin : BOOLEAN, allowRequestsWithoutOrigin : BOOLEAN,
    requireSessionId : BOOLEAN, allowGetSse : BOOLEAN, allowDeleteSession : BOOLEAN,
    legacy : BOOLEAN, authorization : BOOLEAN,
    maxSseBufferedMessages : Nat \ {0},
    publishRoot : BOOLEAN, publishPath : BOOLEAN,
    requiredScopes : SUBSET Scopes ]

LastEventId == [ kind : {"none", "malformed", "event"}, stream : Nat, cursor : Nat ]

Request ==
  [ method : {"POST", "GET", "DELETE"},
    path : {"endpoint", "legacySse", "legacyPost", "rootMetadata", "pathMetadata", "other"},
    contentType : {"none", "json", "other"},
    body : {"initialize", "request", "notification", "response", "malformed", "oversize"},
    origin : {"none", "allowed", "foreign"},
    session : Keys \cup {BadSession},
    version : {"none", "malformed", "unsupported", "supported"},
    bearer : {"missing", "invalid", "present"}, verdict : Verdict,
    lastEventId : LastEventId ]

\* The first refusal of a sequence of checks.
First(statuses) ==
  LET refusals == { n \in DOMAIN statuses : statuses[n] # Ok }
  IN  IF refusals = {} THEN Ok
      ELSE statuses[CHOOSE n \in refusals : \A k \in refusals : n <= k]

Check(condition, status) == IF condition THEN Ok ELSE status

-----------------------------------------------------------------------------
\* handleProtectedResourceMetadataRequest: answered before the endpoint is looked at.
MetadataStatus(options, r) ==
  First(<< Check(\/ r.path = "rootMetadata" /\ options.publishRoot
                 \/ r.path = "pathMetadata" /\ options.publishPath, 404),
           Check(r.method = "GET", 405) >>)

IsMetadata(options, r) == options.authorization /\ r.path \in {"rootMetadata", "pathMetadata"}

Legacy(options, r) == options.legacy /\ r.path \in {"legacySse", "legacyPost"}

\* handleRequest: the legacy endpoints take one method each, the others share the endpoint.
RouteStatus(options, r) ==
  IF Legacy(options, r)
  THEN Check(r.method = (IF r.path = "legacySse" THEN "GET" ELSE "POST"), 405)
  ELSE First(<< Check(r.path = "endpoint", 404),
                Check(r.method = "GET" => options.allowGetSse, 405),
                Check(r.method = "DELETE" => options.allowDeleteSession, 405) >>)

BodyStatus(r) ==
  Check(r.method = "POST" => r.contentType = "json" /\ r.body \notin {"malformed", "oversize"}, 400)

OriginStatus(options, r) ==
  Check(options.validateOrigin =>
          \/ r.origin = "allowed"
          \/ r.origin = "none" /\ options.allowRequestsWithoutOrigin, 403)

\* Mutant of SessionStatus: a session that ended is still a session.
SessionStatusKnown(options, sessions, r) ==
  LET initialize == r.method = "POST" /\ r.body = "initialize"
      required == r.method = "DELETE" \/ options.requireSessionId
  IN  First(<< Check(r.session # BadSession, 400),
               Check(r.session = NoSession => ~required \/ initialize, 400),
               Check(r.session \in Sessions => sessions[r.session].state # "unknown", 404) >>)

\* The session header: well formed, present where required, and of an active session.
SessionStatus(options, sessions, r) ==
  LET initialize == r.method = "POST" /\ r.body = "initialize"
      required == r.method = "DELETE" \/ options.requireSessionId
  IN  First(<< Check(r.session # BadSession, 400),
               Check(r.session = NoSession => ~required \/ initialize, 400),
               Check(r.session \in Sessions => sessions[r.session].state = "active", 404) >>)

\* The header's version decides; without it the one the session negotiated must be supported.
VersionStatus(sessions, r) ==
  Check(/\ r.version \in {"none", "supported"}
        /\ r.version = "none" /\ r.session \in Sessions => sessions[r.session].version # "unsupported",
        400)

ValidateServerRequest(options, sessions, r) ==
  First(<< OriginStatus(options, r), SessionStatus(options, sessions, r),
           VersionStatus(sessions, r) >>)

AuthorizeRequest(options, r) ==
  LET v == r.verdict
  IN  IF ~options.authorization THEN Ok
      ELSE First(<< Check(r.bearer = "present", 401),
                    Check(/\ v.status \notin {"throws", "invalidToken"}
                          /\ v.audienceBound /\ v.isolationKey, 401),
                    Check(/\ v.status # "insufficientScope"
                          /\ options.requiredScopes \subseteq v.granted, 403) >>)

\* Everything handleRequest decides before a method's handler changes state.
Status(options, sessions, r) ==
  First(<< RouteStatus(options, r), BodyStatus(r),
           ValidateServerRequest(options, sessions, r), AuthorizeRequest(options, r) >>)
=============================================================================
