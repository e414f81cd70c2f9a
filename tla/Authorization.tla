---------------------------- MODULE Authorization ----------------------------
(***************************************************************************)
(* A client authorizing its requests to a protected MCP endpoint: discovery,*)
(* then threads that resolve a client registration                          *)
(* (auth/client_registration.cpp) and send a protected request with step-up *)
(* (executeProtectedResourceRequestWithStepUp, auth/oauth_client.cpp),      *)
(* sharing the credentials store and the token storage.  The authorizer     *)
(* callback of the Interactive thread runs the authorization code flow of   *)
(* examples/http_client_auth: loopback receiver, authorization URL, token   *)
(* exchange under the redirect policy.  That of another thread gets a token *)
(* its own way.                                                             *)
(***************************************************************************)
EXTENDS AuthorizationDiscovery, LoopbackReceiver

CONSTANTS
    Threads, Interactive,
    Scopes,
    Grants,                     \* scope sets a token may come with
    VerifierEntropyBytes,       \* what the host passes to generatePkceCodePair
    RegistrationConfigs,        \* [preRegistered, document, dynamic, redirectUris, method]
    RegistrationAnswers,        \* [status, clientId, redirectUris, method, secret]
    ForbiddenHeaders,           \* WWW-Authenticate headers a 403 may carry
    TokenPolicy,                \* OAuthHttpSecurityPolicy
    MaxStepUpAttempts           \* maxStepUpAttempts

VARIABLES
    pc,              \* where each thread is
    config,          \* the registration configuration of the host
    client,          \* the client identity each thread uses
    credentials,     \* the credentials store: the identity of the issuer, if any
    token,           \* each thread's currentToken: the scopes granted
    storage,         \* the token storage: the scopes of the token of the resource
    asked,           \* attemptedScopeSetsByResource: what a call has asked, in order
    target,          \* the scopes the authorizer is asked for
    overtaken,       \* history: the calls since whose last read or save another has saved
    tokenUrl,        \* where the token request is at
    tokenHops        \* the redirects it has followed

threadVars == << pc, config, client, credentials, token, storage, asked, target, overtaken,
                tokenUrl, tokenHops >>
tokenVars == << token, storage, asked, target, overtaken >>
exchangeVars == << tokenUrl, tokenHops >>
vars == << discoveryVars, receiverVars, threadVars >>

ASSUME AuthorizationAssumption ==
    /\ Interactive \in Threads
    /\ MaxStepUpAttempts \in Nat /\ TokenPolicy.maxRedirects \in Nat
    /\ VerifierEntropyBytes \in Nat /\ Grants \subseteq SUBSET Scopes

Init ==
    /\ DiscoveryInit
    /\ ReceiverInit
    /\ pc = [t \in Threads |-> "idle"]
    /\ config \in RegistrationConfigs
    /\ client = [t \in Threads |-> Absent]
    /\ credentials = Absent
    /\ token = [t \in Threads |-> Absent]
    /\ storage = Absent
    /\ asked = [t \in Threads |-> << >>]
    /\ target = [t \in Threads |-> {}]
    /\ overtaken = {}
    /\ tokenUrl = NoDocument
    /\ tokenHops = 0

Goto(t, label) == pc' = [pc EXCEPT ![t] = label]

-----------------------------------------------------------------------------
\* resolvePreRegistered and resolveClientIdMetadataDocument: pure functions of the
\* configuration, which is "valid", "invalid" (an exception) or not there.
RegisteredAs(t, identity) ==
    /\ client' = [client EXCEPT ![t] = Given(identity)]
    /\ Goto(t, "registered")
    /\ UNCHANGED << config, credentials, tokenVars, exchangeVars >>

RegistrationFails(t) ==
    /\ Goto(t, "failed")
    /\ UNCHANGED << config, client, credentials, tokenVars, exchangeVars >>

ConfiguredIdentity(t, configuration, identity) ==
    IF configuration = "valid" THEN RegisteredAs(t, identity) ELSE RegistrationFails(t)

\* resolveDynamic up to its POST: an identity that is stored for the issuer is
\* returned without one.
RegisterDynamically(t) ==
    IF metadata.registrationEndpoint.value.scheme # "https" THEN RegistrationFails(t)
    ELSE IF credentials.given THEN RegisteredAs(t, credentials.value)
    ELSE Goto(t, "registering") /\ UNCHANGED << config, client, credentials, tokenVars, exchangeVars >>

\* resolveClientRegistration: the strategies in their order.
ResolveRegistration(t) ==
    /\ discovery = "found"
    /\ pc[t] = "idle"
    /\ IF config.preRegistered # "none"
       THEN ConfiguredIdentity(t, config.preRegistered, "preRegistered")
       ELSE IF metadata.documents /\ config.document # "none"
       THEN ConfiguredIdentity(t, config.document, "document")
       ELSE IF config.dynamic /\ metadata.registrationEndpoint.given
       THEN RegisterDynamically(t)
       ELSE RegistrationFails(t)
    /\ UNCHANGED << discoveryVars, receiverVars >>

NeedsSecret(method) == method \in {"client_secret_basic", "client_secret_post"}

\* parseDynamicClientRegistrationResponse: what the answer leaves out is taken from
\* the configuration, and the result must have redirect URIs and the secret its
\* method needs.
IsRegistration(answer) ==
    LET method == IF answer.method = "absent" THEN config.method ELSE answer.method
    IN  /\ answer.status \in {200, 201}
        /\ answer.clientId # ""
        /\ answer.redirectUris \cup config.redirectUris # {}
        /\ NeedsSecret(method) => answer.secret

\* resolveDynamic after its POST: two threads that both found the store empty have
\* both registered, and the store keeps the identity saved last.
RegistrationAnswered(t, answer) ==
    /\ pc[t] = "registering"
    /\ IF IsRegistration(answer)
       THEN /\ credentials' = Given(<< "dynamic", t >>)
            /\ client' = [client EXCEPT ![t] = credentials']
            /\ Goto(t, "registered")
            /\ UNCHANGED << config, tokenVars, exchangeVars >>
       ELSE RegistrationFails(t)
    /\ UNCHANGED << discoveryVars, receiverVars >>

-----------------------------------------------------------------------------
\* Where a thread is inside a call.
Calling == {"calling", "authorizing", "receiving", "waiting", "received", "exchanging"}

\* executeProtectedResourceRequestWithStepUp: the token is read from the storage
\* once, before the first request.
BeginCall(t) ==
    /\ pc[t] = "registered"
    /\ token' = [token EXCEPT ![t] = storage]
    /\ overtaken' = overtaken \ {t}
    /\ Goto(t, "calling")
    /\ UNCHANGED << config, client, credentials, storage, asked, target, exchangeVars,
                    discoveryVars, receiverVars >>

\* The call is over: its locals are gone, what it saved stays.
EndCall(t, label) ==
    /\ Goto(t, label)
    /\ token' = [token EXCEPT ![t] = Absent]
    /\ asked' = [asked EXCEPT ![t] = << >>]
    /\ target' = [target EXCEPT ![t] = {}]
    /\ overtaken' = overtaken \ {t}
    /\ UNCHANGED storage

CallAnswered(t) ==
    /\ pc[t] = "calling"
    /\ EndCall(t, "done")
    /\ UNCHANGED << config, client, credentials, exchangeVars, discoveryVars, receiverVars >>

IsInsufficientScope(challenge) == challenge.error.given /\ challenge.error.value = "insufficient_scope"

\* Mutant of TargetScopes: what the current token has is not asked for again.
TargetScopesAnew(t, challenge) == MergeScopes(SelectedScopes, SanitizeScopeSet(challenge.scope.value))

\* The scopes to ask for: those the host began with (what discovery selected), those
\* the current token has and those the challenge requires.
TargetScopes(t, challenge) ==
    MergeScopes(IF token[t].given THEN MergeScopes(SelectedScopes, token[t].value) ELSE SelectedScopes,
                SanitizeScopeSet(challenge.scope.value))

\* What is remembered of an attempt: the metadata URL of the challenge, if it named
\* one, and the scopes.
AttemptKey(t, challenge) == [at |-> challenge.resourceMetadata, scopes |-> TargetScopes(t, challenge)]

MayStepUp(t, challenge) ==
    /\ Len(asked[t]) < MaxStepUpAttempts
    /\ challenge # NoChallenge /\ challenge.scope.given
    /\ SanitizeScopeSet(challenge.scope.value) # {}
    /\ AttemptKey(t, challenge) \notin ToSet(asked[t])

\* A 403: the first insufficient_scope challenge decides whether the authorizer is
\* called or the 403 returned.
CallForbidden(t, headers) ==
    LET challenge == FirstChallenge(SelectSeq(ParseBearerChallenges(headers), IsInsufficientScope))
    IN  /\ pc[t] = "calling"
        /\ IF MayStepUp(t, challenge)
           THEN /\ asked' = [asked EXCEPT ![t] = Append(@, AttemptKey(t, challenge))]
                /\ target' = [target EXCEPT ![t] = TargetScopes(t, challenge)]
                /\ Goto(t, "authorizing")
                /\ UNCHANGED << token, storage, overtaken >>
           ELSE EndCall(t, "done")
        /\ UNCHANGED << config, client, credentials, exchangeVars, discoveryVars, receiverVars >>

\* The authorizer has returned a token: it is saved for the resource, whatever
\* another call has saved meanwhile, and the request goes out again.
TakeToken(t, granted) ==
    /\ storage' = Given(SanitizeScopeSet(granted))
    /\ token' = [token EXCEPT ![t] = storage']
    /\ target' = [target EXCEPT ![t] = {}]
    /\ overtaken' = { u \in Threads \ {t} : pc[u] \in Calling }
    /\ Goto(t, "calling")
    /\ UNCHANGED << config, client, credentials, asked >>

\* The authorizer threw, or its token has no value: the exception leaves the call.
AuthorizerThrows(t) ==
    /\ EndCall(t, "failed")
    /\ UNCHANGED << config, client, credentials >>

OtherAuthorizer(t) ==
    /\ t # Interactive
    /\ pc[t] = "authorizing"
    /\ \/ \E granted \in Grants : TakeToken(t, granted)
       \/ AuthorizerThrows(t)
    /\ UNCHANGED << exchangeVars, discoveryVars, receiverVars >>

-----------------------------------------------------------------------------
\* buildAuthorizationUrl and buildTokenExchangeHttpRequest refuse a server without
\* PKCE S256 or without HTTPS endpoints; the verifier has the length of its entropy.
IsHttps(endpoint) == endpoint.given /\ endpoint.value.scheme = "https"
CanRequestCode ==
    /\ IsPkceVerifierLength(PkceVerifierLength(VerifierEntropyBytes))
    /\ metadata.pkceS256 /\ IsHttps(metadata.authorizationEndpoint)
CanExchangeCode == metadata.pkceS256 /\ IsHttps(metadata.tokenEndpoint)

\* The authorizer starts the receiver and opens the authorization URL; the receiver
\* may find no port.
StartFlow ==
    /\ pc[Interactive] = "authorizing"
    /\ IF CanRequestCode
       THEN /\ StartReceiver
            /\ Goto(Interactive, "receiving")
            /\ UNCHANGED << config, client, credentials, tokenVars >>
       ELSE UNCHANGED receiverVars /\ AuthorizerThrows(Interactive)
    /\ UNCHANGED << exchangeVars, discoveryVars >>

NoPort ==
    /\ pc[Interactive] = "authorizing"
    /\ CanRequestCode
    /\ AuthorizerThrows(Interactive)
    /\ UNCHANGED << exchangeVars, discoveryVars, receiverVars >>

WaitForCode ==
    /\ pc[Interactive] = "receiving"
    /\ BeginWait
    /\ Goto(Interactive, "waiting")
    /\ UNCHANGED << config, client, credentials, tokenVars, exchangeVars, discoveryVars >>

\* The wait ended without a code; after a timeout the host may wait again, with a
\* new state.
WaitEndsEmpty ==
    /\ pc[Interactive] = "waiting"
    /\ WaitThrows \/ WaitTimesOut
    /\ Goto(Interactive, "receiving")
    /\ UNCHANGED << config, client, credentials, tokenVars, exchangeVars, discoveryVars >>

GiveUpFlow ==
    /\ pc[Interactive] = "receiving"
    /\ StopReceiver
    /\ AuthorizerThrows(Interactive)
    /\ UNCHANGED << exchangeVars, discoveryVars >>

CodeArrives ==
    /\ pc[Interactive] = "waiting"
    /\ WaitReturns
    /\ Goto(Interactive, "received")
    /\ UNCHANGED << config, client, credentials, tokenVars, exchangeVars, discoveryVars >>

BeginExchange ==
    /\ pc[Interactive] = "received"
    /\ StopReceiver
    /\ IF CanExchangeCode
       THEN /\ tokenUrl' = metadata.tokenEndpoint.value
            /\ tokenHops' = 0
            /\ Goto(Interactive, "exchanging")
            /\ UNCHANGED << config, client, credentials, tokenVars >>
       ELSE AuthorizerThrows(Interactive) /\ UNCHANGED exchangeVars
    /\ UNCHANGED discoveryVars

\* Mutant of MayFollowToken: the host is not compared, only the scheme.
MayFollowTokenAway(status, location) ==
    LET next == ResolveRedirectUrl(tokenUrl, location)
    IN  /\ tokenHops < TokenPolicy.maxRedirects
        /\ location.form # "missing"
        /\ IsUsableUrl(next)
        /\ TokenPolicy.requireHttps => next.scheme = "https"
        /\ status \notin {301, 302, 303}

\* executeTokenRequestWithPolicy, a redirect: a POST is not sent on when the status
\* lets a client turn it into a GET.
MayFollowToken(status, location) ==
    LET next == ResolveRedirectUrl(tokenUrl, location)
    IN  /\ tokenHops < TokenPolicy.maxRedirects
        /\ location.form # "missing"
        /\ IsUsableUrl(next)
        /\ TokenPolicy.requireHttps => next.scheme = "https"
        /\ TokenPolicy.requireSameOriginRedirects => OriginForUrl(next) = OriginForUrl(tokenUrl)
        /\ status \notin {301, 302, 303}

\* Mutant of TokenRedirected: the redirects are not counted.
TokenRedirectedForever(status, location) ==
    /\ pc[Interactive] = "exchanging"
    /\ IF MayFollowToken(status, location)
       THEN /\ tokenUrl' = ResolveRedirectUrl(tokenUrl, location)
            /\ UNCHANGED << pc, config, client, credentials, tokenVars, tokenHops >>
       ELSE AuthorizerThrows(Interactive) /\ UNCHANGED exchangeVars
    /\ UNCHANGED << discoveryVars, receiverVars >>

TokenRedirected(status, location) ==
    /\ pc[Interactive] = "exchanging"
    /\ IF MayFollowToken(status, location)
       THEN /\ tokenUrl' = ResolveRedirectUrl(tokenUrl, location)
            /\ tokenHops' = tokenHops + 1
            /\ UNCHANGED << pc, config, client, credentials, tokenVars >>
       ELSE AuthorizerThrows(Interactive) /\ UNCHANGED exchangeVars
    /\ UNCHANGED << discoveryVars, receiverVars >>

\* Any other answer ends the loop; the host reads a token from it, or throws.
TokenAnswered ==
    /\ pc[Interactive] = "exchanging"
    /\ tokenUrl' = NoDocument
    /\ tokenHops' = 0
    /\ \/ \E granted \in Grants : TakeToken(Interactive, granted)
       \/ AuthorizerThrows(Interactive)
    /\ UNCHANGED << discoveryVars, receiverVars >>

-----------------------------------------------------------------------------
Discover ==
    /\ \/ \E r \in DiscoveryRequests : BeginDiscovery(r)
       \/ DiscoveryStep
    /\ UNCHANGED << receiverVars, threadVars >>

Browser == BrowserStep /\ UNCHANGED << discoveryVars, threadVars >>

CallStep(t) ==
    \/ ResolveRegistration(t)
    \/ \E answer \in RegistrationAnswers : RegistrationAnswered(t, answer)
    \/ BeginCall(t)
    \/ CallAnswered(t)
    \/ \E headers \in ForbiddenHeaders : CallForbidden(t, headers)
    \/ OtherAuthorizer(t)

FlowStep ==
    \/ StartFlow \/ NoPort \/ WaitForCode \/ WaitEndsEmpty \/ GiveUpFlow \/ CodeArrives
    \/ BeginExchange
    \/ \E status \in RedirectStatuses, location \in Locations : TokenRedirected(status, location)
    \/ TokenAnswered

\* Everything has ended: the host is done.
Finished ==
    /\ discovery = "failed" \/ \A t \in Threads : pc[t] \in {"done", "failed"}
    /\ UNCHANGED vars

Next ==
    \/ Discover
    \/ Browser
    \/ \E t \in Threads : CallStep(t)
    \/ FlowStep
    \/ Finished

Spec == Init /\ [][Next]_vars

\* Some call proceeds while one can: the servers answer in the end (the HTTP runtime
\* has timeouts and turns them into exceptions), and waits time out.  Nothing is
\* assumed of the browser, nor of which thread goes first.
FairSpec ==
    Spec /\ WF_vars(Discover \/ FlowStep \/ \E t \in Threads : CallStep(t))

-----------------------------------------------------------------------------
\* The token request carries the code and its verifier in the body: however the
\* token endpoint redirects, it is sent by HTTPS and to the endpoint's own origin
\* (oauth_client.cpp:845, 851).
CredentialsStayHome ==
    pc[Interactive] = "exchanging" =>
        /\ tokenUrl.scheme = "https"
        /\ OriginForUrl(tokenUrl) = OriginForUrl(metadata.tokenEndpoint.value)

Busy == Fetching \/ \E t \in Threads : pc[t] \notin {"idle", "done", "failed"}

\* A step-up never gives up scopes the user has consented to: the token a call saves, if it was
\* granted what the call asked for, keeps every scope of the token it replaces, through two rounds
\* of one call and from call to call.  Only a call that another has overtaken, which saved since
\* this one last read or saved, may lose that other's scopes (oauth_client.cpp:893, 929, 976).
StepUpKeepsScopes ==
    [][\A t \in Threads :
         /\ storage' # storage /\ storage.given
         /\ pc[t] # pc'[t] /\ t \notin overtaken /\ target[t] \subseteq storage'.value
         => storage.value \subseteq storage'.value]_vars

\* Redirects, challenges and waits are all bounded: whatever the servers answer, the
\* discovery and every call come to an end (oauth_client.cpp:834, 893;
\* protected_resource_metadata.cpp:790; loopback_receiver.cpp:335).
EveryCallEnds == Busy ~> ~Busy
=============================================================================
