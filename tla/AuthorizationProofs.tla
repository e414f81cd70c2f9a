-------------------------- MODULE AuthorizationProofs --------------------------
(***************************************************************************)
(* Proofs about Authorization, for any documents, redirects, resolver      *)
(* answers, challenges and grants, any set of threads, and any bounds.     *)
(***************************************************************************)
EXTENDS Authorization, SequenceTheorems, WellFoundedInduction, TLAPS

\* A set of natural numbers that is not empty has a least element.
LEMMA LeastNatural ==
    ASSUME NEW S, S \subseteq Nat, S # {}
    PROVE  \E n \in S : \A m \in S : n <= m
  <1>1. PICK x \in S : \A y \in S : ~ (<< y, x >> \in OpToRel(<, Nat))
    BY NatLessThanWellFounded, WFMin
  <1>2. \A y \in S : ~ (y < x)
    BY <1>1 DEF OpToRel
  <1>3. QED
    BY <1>2

-----------------------------------------------------------------------------
(* Who moves.                                                              *)

Points == {"idle", "registering", "registered", "calling", "authorizing", "receiving", "waiting",
           "received", "exchanging", "done", "failed"}

\* Every thread is somewhere, and discovery was over when it began.
PlacesInv ==
    /\ pc \in [Threads -> Points]
    /\ \A t \in Threads : pc[t] # "idle" => discovery = "found"

\* A step that is not one of discovery leaves what was discovered alone and moves one thread.
ThreadMoves ==
    /\ UNCHANGED discoveryVars
    /\ \/ pc' = pc
       \/ /\ discovery = "found"
          /\ \E t \in Threads, label \in Points \ {"idle"} : pc' = [pc EXCEPT ![t] = label]

\* The request for a token begins, is redirected, goes on untouched, or is over.
ExchangeMoves ==
    \/ pc'[Interactive] # "exchanging"
    \/ pc[Interactive] = "exchanging" /\ UNCHANGED tokenUrl
    \/ pc[Interactive] = "received" /\ CanExchangeCode /\ tokenUrl' = metadata.tokenEndpoint.value
    \/ /\ pc[Interactive] = "exchanging"
       /\ \E status \in RedirectStatuses, location \in Locations :
            /\ MayFollowToken(status, location)
            /\ tokenUrl' = ResolveRedirectUrl(tokenUrl, location)

\* What a step may do to threads and to the request for a token.
LEMMA Steps ==
    ASSUME PlacesInv, [Next]_vars
    PROVE  \/ Discover
           \/ ThreadMoves /\ ExchangeMoves
  <1> DEFINE Moves == ThreadMoves /\ ExchangeMoves
  <1>i. Interactive \in Threads
    BY AuthorizationAssumption
  <1>a. ASSUME NEW t \in Threads, NEW label \in Points, label \notin {"idle", "exchanging"},
               discovery = "found", pc' = [pc EXCEPT ![t] = label],
               UNCHANGED << discoveryVars, exchangeVars >>
        PROVE  Moves
    BY <1>a, <1>i DEF PlacesInv, ThreadMoves, ExchangeMoves, exchangeVars, discoveryVars
  <1>b. ASSUME NEW label \in Points, label \notin {"idle", "exchanging"}, discovery = "found",
               pc' = [pc EXCEPT ![Interactive] = label], UNCHANGED discoveryVars
        PROVE  Moves
    BY <1>b, <1>i DEF PlacesInv, ThreadMoves, ExchangeMoves, discoveryVars
  <1>c. ASSUME UNCHANGED << discoveryVars, pc, tokenUrl >> PROVE Moves
    BY <1>c DEF ThreadMoves, ExchangeMoves, discoveryVars
  <1>d. \A t \in Threads : pc[t] # "idle" => discovery = "found"
    BY DEF PlacesInv
  <1> HIDE DEF Moves
  <1>1. ASSUME Browser PROVE Moves
    BY <1>1, <1>c DEF Browser, threadVars, discoveryVars
  <1>2. ASSUME NEW t \in Threads, CallStep(t) PROVE Moves
    <2>1. CASE ResolveRegistration(t)
      <3>1. \E label \in {"registered", "failed", "registering"} : Goto(t, label)
        BY <2>1 DEF ResolveRegistration, ConfiguredIdentity, RegisteredAs, RegistrationFails, RegisterDynamically
      <3>2. discovery = "found" /\ UNCHANGED << discoveryVars, exchangeVars >>
        BY <2>1 DEF ResolveRegistration, ConfiguredIdentity, RegisteredAs, RegistrationFails,
                    RegisterDynamically, tokenVars
      <3>3. QED
        BY <3>1, <3>2, <1>a DEF Goto, Points, discoveryVars
    <2>2. ASSUME NEW answer \in RegistrationAnswers, RegistrationAnswered(t, answer) PROVE Moves
      <3>1. \E label \in {"registered", "failed"} : Goto(t, label)
        BY <2>2 DEF RegistrationAnswered, RegistrationFails
      <3>2. UNCHANGED << discoveryVars, exchangeVars >> /\ pc[t] # "idle"
        BY <2>2 DEF RegistrationAnswered, RegistrationFails, tokenVars
      <3>3. QED
        BY <3>1, <3>2, <1>a, <1>d DEF Goto, Points, discoveryVars
    <2>3. CASE BeginCall(t)
      BY <2>3, <1>a, <1>d DEF BeginCall, Goto, Points, discoveryVars
    <2>4. CASE CallAnswered(t)
      BY <2>4, <1>a, <1>d DEF CallAnswered, EndCall, Goto, Points, tokenVars, discoveryVars
    <2>5. ASSUME NEW headers \in ForbiddenHeaders, CallForbidden(t, headers) PROVE Moves
      <3>1. \E label \in {"done", "authorizing"} : Goto(t, label)
        BY <2>5 DEF CallForbidden, EndCall
      <3>2. UNCHANGED << discoveryVars, exchangeVars >> /\ pc[t] # "idle"
        BY <2>5 DEF CallForbidden
      <3>3. QED
        BY <3>1, <3>2, <1>a, <1>d DEF Goto, Points, discoveryVars
    <2>6. CASE OtherAuthorizer(t)
      <3>1. \E label \in {"calling", "failed"} : Goto(t, label)
        BY <2>6 DEF OtherAuthorizer, TakeToken, AuthorizerThrows, EndCall
      <3>2. UNCHANGED << discoveryVars, exchangeVars >> /\ pc[t] # "idle"
        BY <2>6 DEF OtherAuthorizer, TakeToken, AuthorizerThrows, EndCall, tokenVars
      <3>3. QED
        BY <3>1, <3>2, <1>a, <1>d DEF Goto, Points, discoveryVars
    <2>7. QED
      BY <1>2, <2>1, <2>2, <2>3, <2>4, <2>5, <2>6 DEF CallStep
  <1>3. ASSUME FlowStep PROVE Moves
    <2>1. CASE StartFlow
      <3>1. \E label \in {"receiving", "failed"} : Goto(Interactive, label)
        BY <2>1 DEF StartFlow, AuthorizerThrows, EndCall
      <3>2. UNCHANGED discoveryVars /\ pc[Interactive] # "idle"
        BY <2>1 DEF StartFlow, AuthorizerThrows, EndCall, tokenVars
      <3>3. QED
        BY <3>1, <3>2, <1>b, <1>d, <1>i DEF Goto, Points, discoveryVars
    <2>2. CASE NoPort
      BY <2>2, <1>b, <1>d, <1>i DEF NoPort, AuthorizerThrows, EndCall, Goto, Points, tokenVars, discoveryVars
    <2>3. CASE WaitForCode
      BY <2>3, <1>b, <1>d, <1>i DEF WaitForCode, Goto, Points, tokenVars, discoveryVars
    <2>4. CASE WaitEndsEmpty
      BY <2>4, <1>b, <1>d, <1>i DEF WaitEndsEmpty, Goto, Points, tokenVars, discoveryVars
    <2>5. CASE GiveUpFlow
      BY <2>5, <1>b, <1>d, <1>i DEF GiveUpFlow, AuthorizerThrows, EndCall, Goto, Points, tokenVars, discoveryVars
    <2>6. CASE CodeArrives
      BY <2>6, <1>b, <1>d, <1>i DEF CodeArrives, Goto, Points, tokenVars, discoveryVars
    <2>7. CASE BeginExchange
      <3>1. pc[Interactive] = "received" /\ discovery = "found" /\ UNCHANGED discoveryVars
        BY <2>7, <1>d, <1>i DEF BeginExchange, AuthorizerThrows, EndCall, tokenVars
      <3>2. CASE CanExchangeCode
        <4>1. Goto(Interactive, "exchanging") /\ tokenUrl' = metadata.tokenEndpoint.value
          BY <2>7, <3>2 DEF BeginExchange
        <4>2. QED
          BY <1>i, <3>1, <3>2, <4>1 DEF Moves, ThreadMoves, ExchangeMoves, Goto, Points
      <3>3. CASE ~CanExchangeCode
        <4>1. Goto(Interactive, "failed")
          BY <2>7, <3>3 DEF BeginExchange, AuthorizerThrows, EndCall
        <4>2. QED
          BY <3>1, <4>1, <1>b DEF Goto, Points, discoveryVars
      <3>4. QED
        BY <3>2, <3>3
    <2>8. ASSUME NEW status \in RedirectStatuses, NEW location \in Locations, TokenRedirected(status, location)
          PROVE  Moves
      <3>1. pc[Interactive] = "exchanging" /\ discovery = "found" /\ UNCHANGED discoveryVars
        BY <2>8, <1>d, <1>i DEF TokenRedirected, AuthorizerThrows, EndCall, tokenVars
      <3>2. CASE MayFollowToken(status, location)
        <4>1. pc' = pc /\ tokenUrl' = ResolveRedirectUrl(tokenUrl, location)
          BY <2>8, <3>2 DEF TokenRedirected
        <4>2. QED
          BY <1>i, <3>1, <3>2, <4>1 DEF Moves, ThreadMoves, ExchangeMoves
      <3>3. CASE ~MayFollowToken(status, location)
        <4>1. Goto(Interactive, "failed")
          BY <2>8, <3>3 DEF TokenRedirected, AuthorizerThrows, EndCall
        <4>2. QED
          BY <3>1, <4>1, <1>b DEF Goto, Points, discoveryVars
      <3>4. QED
        BY <3>2, <3>3
    <2>9. CASE TokenAnswered
      <3>1. \E label \in {"calling", "failed"} : Goto(Interactive, label)
        BY <2>9 DEF TokenAnswered, TakeToken, AuthorizerThrows, EndCall
      <3>2. UNCHANGED discoveryVars /\ pc[Interactive] # "idle"
        BY <2>9 DEF TokenAnswered, TakeToken, AuthorizerThrows, EndCall, tokenVars
      <3>3. QED
        BY <3>1, <3>2, <1>b, <1>d, <1>i DEF Goto, Points, discoveryVars
    <2>10. QED
      BY <1>3, <2>1, <2>2, <2>3, <2>4, <2>5, <2>6, <2>7, <2>8, <2>9 DEF FlowStep
  <1>4. ASSUME UNCHANGED vars PROVE Moves
    BY <1>4, <1>c DEF vars, threadVars, discoveryVars
  <1>5. QED
    BY <1>1, <1>2, <1>3, <1>4 DEF Next, Finished, Moves

\* A step of discovery is taken before any thread has begun, and touches nothing else.
LEMMA DiscoverAlone ==
    ASSUME PlacesInv, Discover
    PROVE  /\ discovery # "found"
           /\ \A t \in Threads : pc[t] = "idle"
           /\ UNCHANGED << receiverVars, threadVars >>
  <1>1. discovery # "found"
    BY DEF Discover, BeginDiscovery, DiscoveryStep, RefuseFetch, FetchRedirected, ResourceMissing,
           ServerMissing, ResourceAnswered, ServerAnswered, Fetching
  <1>2. QED
    BY <1>1 DEF Discover, PlacesInv

\* No thread begins before discovery has found everything.
LEMMA ThreadsWait == Spec => []PlacesInv
  <1>1. Init => PlacesInv
    BY DEF Init, PlacesInv, Points
  <1>2. PlacesInv /\ [Next]_vars => PlacesInv'
    <2> SUFFICES ASSUME PlacesInv, [Next]_vars PROVE PlacesInv'
      OBVIOUS
    <2>1. CASE Discover
      BY <2>1, DiscoverAlone DEF PlacesInv, threadVars
    <2>2. CASE ThreadMoves
      BY <2>2 DEF ThreadMoves, PlacesInv, discoveryVars
    <2>3. QED
      BY <2>1, <2>2, Steps
  <1>3. QED
    BY <1>1, <1>2, PTL DEF Spec

-----------------------------------------------------------------------------
(* Discovery.                                                              *)

\* What discovery has so far belongs together.
DiscoveryInv ==
    /\ discovery \in {"server", "found"} =>
        /\ CanonicalUrl(resource.resource) = CanonicalUrl(request.endpoint)
        /\ issuer \in {CanonicalUrl(server) : server \in ToSet(resource.servers)}
    /\ DiscoveryBelongsTogether

\* selectAuthorizationServer takes one of the issuers the document names.
LEMMA SelectedIssuerIsNamed ==
    ASSUME NEW doc \in Documents, IsProtectedResourceMetadata(doc), UsableIssuers(doc) # {}
    PROVE  SelectedIssuer(doc) \in ToSet(doc.servers)
  <1>1. UsableIssuers(doc) \subseteq Nat /\ UsableIssuers(doc) \subseteq DOMAIN doc.servers
    BY DocumentsAssumption DEF UsableIssuers, IsProtectedResourceMetadata
  <1>2. \E i \in UsableIssuers(doc) : \A j \in UsableIssuers(doc) : i <= j
    BY <1>1, LeastNatural
  <1>3. (CHOOSE i \in UsableIssuers(doc) : \A j \in UsableIssuers(doc) : i <= j) \in DOMAIN doc.servers
    BY <1>1, <1>2
  <1>4. QED
    BY <1>3 DEF SelectedIssuer, ToSet

\* A discovery that failed promises nothing.
LEMMA FailedDiscovery ==
    ASSUME Fail
    PROVE  DiscoveryInv'
  BY DEF Fail, DiscoveryInv, DiscoveryBelongsTogether, Fetching

\* The next candidate is probed from its own origin.
LEMMA ProbeStaysHome ==
    ASSUME NEW urls, Probe(urls)
    PROVE  OriginForUrl(url') = OriginForUrl(Head(candidates'))
  BY DEF Probe

\* Every answer of a server keeps what discovery has together.
LEMMA NextDiscoveryInv == DiscoveryInv /\ Discover => DiscoveryInv'
  <1> SUFFICES ASSUME DiscoveryInv, Discover PROVE DiscoveryInv'
    OBVIOUS
  <1>a. ASSUME NEW urls, Probe(urls), Fetching, UNCHANGED << discovery, request, resource, issuer, metadata >>
        PROVE  DiscoveryInv'
    BY <1>a, ProbeStaysHome DEF DiscoveryInv, DiscoveryBelongsTogether, Fetching
  <1>1. ASSUME NEW r \in DiscoveryRequests, BeginDiscovery(r) PROVE DiscoveryInv'
    <2>1. CASE discovery' = "failed"
      BY <2>1 DEF DiscoveryInv, DiscoveryBelongsTogether, Fetching
    <2>2. CASE discovery' # "failed"
      <3>1. discovery' = "resource" /\ \E urls : Probe(urls)
        BY <1>1, <2>2 DEF BeginDiscovery
      <3>2. QED
        BY <3>1, ProbeStaysHome DEF DiscoveryInv, DiscoveryBelongsTogether, Fetching
    <2>3. QED
      BY <2>1, <2>2
  <1>2. ASSUME NEW addresses \in Resolutions, RefuseFetch(addresses) PROVE DiscoveryInv'
    BY <1>2, FailedDiscovery DEF RefuseFetch
  <1>3. ASSUME NEW addresses \in Resolutions, NEW location \in Locations, FetchRedirected(addresses, location)
        PROVE  DiscoveryInv'
    <2>1. CASE MayFollow(location)
      BY <1>3, <2>1 DEF FetchRedirected, MayFollow, DiscoveryInv, DiscoveryBelongsTogether, Fetching
    <2>2. CASE ~MayFollow(location)
      BY <1>3, <2>2, FailedDiscovery DEF FetchRedirected
    <2>3. QED
      BY <2>1, <2>2
  <1>4. ASSUME NEW addresses \in Resolutions, NEW status \in {404, 500}, ResourceMissing(addresses, status)
        PROVE  DiscoveryInv'
    BY <1>4, <1>a, FailedDiscovery DEF ResourceMissing, Fetching
  <1>5. ASSUME discovery = "server", NextServerUrl PROVE DiscoveryInv'
    BY <1>5, <1>a, FailedDiscovery DEF NextServerUrl, Fetching
  <1>6. ASSUME NEW addresses \in Resolutions, ServerMissing(addresses) PROVE DiscoveryInv'
    BY <1>5, <1>6 DEF ServerMissing
  <1>7. ASSUME NEW addresses \in Resolutions, NEW doc \in Documents, ResourceAnswered(addresses, doc)
        PROVE  DiscoveryInv'
    <2> DEFINE fits == /\ IsProtectedResourceMetadata(doc)
                       /\ CanonicalUrl(doc.resource) = CanonicalUrl(request.endpoint)
                       /\ UsableIssuers(doc) # {}
    <2>1. CASE fits
      <3>1. /\ discovery' = "server" /\ request' = request /\ resource' = doc
            /\ issuer' = CanonicalUrl(SelectedIssuer(doc))
            /\ \E urls : Probe(urls)
        BY <1>7, <2>1 DEF ResourceAnswered
      <3>2. issuer' \in {CanonicalUrl(server) : server \in ToSet(doc.servers)}
        BY <2>1, <3>1, SelectedIssuerIsNamed
      <3>3. OriginForUrl(url') = OriginForUrl(Head(candidates'))
        BY <3>1, ProbeStaysHome
      <3>4. QED
        BY <2>1, <3>1, <3>2, <3>3 DEF DiscoveryInv, DiscoveryBelongsTogether, Fetching
    <2>2. CASE ~fits
      BY <1>7, <2>2, FailedDiscovery DEF ResourceAnswered
    <2>3. QED
      BY <2>1, <2>2
  <1>8. ASSUME NEW addresses \in Resolutions, NEW doc \in Documents, ServerAnswered(addresses, doc)
        PROVE  DiscoveryInv'
    <2>1. CASE IsAuthorizationServerMetadata(doc) /\ CanonicalUrl(doc.issuer) = issuer
      BY <1>8, <2>1 DEF ServerAnswered, DiscoveryInv, DiscoveryBelongsTogether, Fetching
    <2>2. CASE ~(IsAuthorizationServerMetadata(doc) /\ CanonicalUrl(doc.issuer) = issuer)
      BY <1>5, <1>8, <2>2 DEF ServerAnswered
    <2>3. QED
      BY <2>1, <2>2
  <1>9. QED
    BY <1>1, <1>2, <1>3, <1>4, <1>6, <1>7, <1>8 DEF Discover, DiscoveryStep

\* The endpoint, the resource's document, the issuer and the server's document of a discovery
\* belong together, and no GET leaves the origin it began at, whatever the servers answer.
THEOREM DiscoveryHoldsTogether == Spec => []DiscoveryBelongsTogether
  <1>1. Init => DiscoveryInv
    BY DEF Init, DiscoveryInit, DiscoveryInv, DiscoveryBelongsTogether, Fetching
  <1>2. PlacesInv /\ DiscoveryInv /\ [Next]_vars => DiscoveryInv'
    <2> SUFFICES ASSUME PlacesInv, DiscoveryInv, [Next]_vars PROVE DiscoveryInv'
      OBVIOUS
    <2>1. CASE ThreadMoves
      BY <2>1 DEF ThreadMoves, DiscoveryInv, DiscoveryBelongsTogether, Fetching, discoveryVars
    <2>2. QED
      BY <2>1, NextDiscoveryInv, Steps
  <1>3. DiscoveryInv => DiscoveryBelongsTogether
    BY DEF DiscoveryInv
  <1>4. QED
    BY ThreadsWait, <1>1, <1>2, <1>3, PTL DEF Spec

-----------------------------------------------------------------------------
(* The token request.                                                      *)

\* With the default policy, which keeps redirects at their origin, the code and its verifier go
\* to the origin of the token endpoint that was discovered and nowhere else.
THEOREM CredentialsAreKept ==
    ASSUME TokenPolicy.requireSameOriginRedirects
    PROVE  Spec => []CredentialsStayHome
  <1>1. Init => CredentialsStayHome
    BY AuthorizationAssumption DEF Init, CredentialsStayHome
  <1>2. PlacesInv /\ CredentialsStayHome /\ [Next]_vars => CredentialsStayHome'
    <2> SUFFICES ASSUME PlacesInv, CredentialsStayHome, [Next]_vars, pc'[Interactive] = "exchanging"
                 PROVE  /\ tokenUrl'.scheme = "https"
                        /\ OriginForUrl(tokenUrl') = OriginForUrl(metadata'.tokenEndpoint.value)
      BY DEF CredentialsStayHome
    <2>1. CASE Discover
      <3>1. pc'[Interactive] = "idle"
        BY <2>1, DiscoverAlone, AuthorizationAssumption DEF threadVars
      <3>2. QED
        BY <3>1
    <2>2. CASE ThreadMoves /\ ExchangeMoves
      <3>1. metadata' = metadata
        BY <2>2 DEF ThreadMoves, discoveryVars
      <3>2. CASE pc[Interactive] = "exchanging" /\ UNCHANGED tokenUrl
        BY <3>1, <3>2 DEF CredentialsStayHome
      <3>3. CASE CanExchangeCode /\ tokenUrl' = metadata.tokenEndpoint.value
        BY <3>1, <3>3 DEF CanExchangeCode, IsHttps
      <3>4. ASSUME pc[Interactive] = "exchanging", NEW status \in RedirectStatuses, NEW location \in Locations,
                   MayFollowToken(status, location), tokenUrl' = ResolveRedirectUrl(tokenUrl, location)
            PROVE  /\ tokenUrl'.scheme = "https"
                   /\ OriginForUrl(tokenUrl') = OriginForUrl(metadata'.tokenEndpoint.value)
        <4>1. OriginForUrl(tokenUrl') = OriginForUrl(tokenUrl)
          BY <3>4 DEF MayFollowToken
        <4>2. OriginForUrl(tokenUrl').scheme = OriginForUrl(tokenUrl).scheme
          BY <4>1
        <4>3. tokenUrl'.scheme = tokenUrl.scheme
          BY <4>2 DEF OriginForUrl
        <4>4. QED
          BY <3>1, <3>4, <4>1, <4>3 DEF CredentialsStayHome
      <3>5. QED
        BY <2>2, <3>2, <3>3, <3>4 DEF ExchangeMoves
    <2>3. QED
      BY <2>1, <2>2, Steps
  <1>3. QED
    BY ThreadsWait, <1>1, <1>2, PTL DEF Spec

-----------------------------------------------------------------------------
(* Step-up.                                                                *)

\* A call that waits for its authorizer.
Asking == Calling \ {"calling"}

\* A call nobody has overtaken has the token of the storage, and what it asks for covers it.
KeptInv ==
    /\ pc \in [Threads -> Points]
    /\ DOMAIN token = Threads /\ DOMAIN target = Threads
    /\ storage.given => "" \notin storage.value
    /\ \A t \in Threads : pc[t] \in Calling /\ t \notin overtaken => token[t] = storage
    /\ \A t \in Threads :
        pc[t] \in Asking /\ t \notin overtaken /\ storage.given => storage.value \subseteq target[t]

\* A 403 the authorizer is called for.
Asks(t) ==
    /\ pc[t] = "calling" /\ Goto(t, "authorizing")
    /\ \E challenge : target' = [target EXCEPT ![t] = TargetScopes(t, challenge)]
    /\ UNCHANGED << token, storage, overtaken >>

\* A thread goes on without touching tokens; it does not enter a call, nor ask, this way.
GoesOn ==
    /\ UNCHANGED tokenVars
    /\ \/ pc' = pc
       \/ \E t \in Threads, label \in Points \ {"calling"} :
            Goto(t, label) /\ (label \in Asking => pc[t] \in Asking)

\* What a step may do to the tokens of the calls and of the storage.
TokenMoves ==
    \/ GoesOn
    \/ \E t \in Threads : BeginCall(t) \/ Asks(t)
    \/ \E t \in Threads, label \in {"done", "failed"} : EndCall(t, label)
    \/ \E t \in Threads, granted \in Grants : pc[t] \in Asking /\ TakeToken(t, granted)

\* Every step is one of these moves.
LEMMA TokenSteps ==
    ASSUME [Next]_vars
    PROVE  TokenMoves
  <1>i. Interactive \in Threads
    BY AuthorizationAssumption
  <1>a. ASSUME UNCHANGED << pc, tokenVars >> PROVE TokenMoves
    BY <1>a DEF TokenMoves, GoesOn
  <1>b. ASSUME NEW t \in Threads, NEW label \in Points \ {"calling"}, Goto(t, label),
               label \in Asking => pc[t] \in Asking, UNCHANGED tokenVars
        PROVE  TokenMoves
    BY <1>b DEF TokenMoves, GoesOn
  <1>c. ASSUME NEW t \in Threads, NEW label \in {"done", "failed"}, EndCall(t, label) PROVE TokenMoves
    BY <1>c DEF TokenMoves
  <1>d. ASSUME NEW t \in Threads, NEW granted \in Grants, pc[t] \in Asking, TakeToken(t, granted)
        PROVE  TokenMoves
    BY <1>d DEF TokenMoves
  <1>1. CASE Discover
    BY <1>1, <1>a DEF Discover, threadVars, tokenVars
  <1>2. CASE Browser
    BY <1>2, <1>a DEF Browser, threadVars, tokenVars
  <1>3. ASSUME NEW t \in Threads, CallStep(t) PROVE TokenMoves
    <2>1. CASE ResolveRegistration(t)
      <3>1. /\ UNCHANGED tokenVars
            /\ \E label \in {"registered", "failed", "registering"} : Goto(t, label)
        BY <2>1 DEF ResolveRegistration, ConfiguredIdentity, RegisteredAs, RegistrationFails, RegisterDynamically
      <3>2. QED
        BY <3>1, <1>b DEF Points, Asking, Calling
    <2>2. ASSUME NEW answer \in RegistrationAnswers, RegistrationAnswered(t, answer) PROVE TokenMoves
      <3>1. UNCHANGED tokenVars /\ \E label \in {"registered", "failed"} : Goto(t, label)
        BY <2>2 DEF RegistrationAnswered, RegistrationFails
      <3>2. QED
        BY <3>1, <1>b DEF Points, Asking, Calling
    <2>3. CASE BeginCall(t)
      BY <2>3 DEF TokenMoves
    <2>4. CASE CallAnswered(t)
      BY <2>4, <1>c DEF CallAnswered
    <2>5. ASSUME NEW headers \in ForbiddenHeaders, CallForbidden(t, headers) PROVE TokenMoves
      <3>1. EndCall(t, "done") \/ Asks(t)
        BY <2>5 DEF CallForbidden, Asks
      <3>2. QED
        BY <3>1, <1>c DEF TokenMoves
    <2>6. CASE OtherAuthorizer(t)
      BY <2>6, <1>c, <1>d DEF OtherAuthorizer, AuthorizerThrows, Asking, Calling
    <2>7. QED
      BY <1>3, <2>1, <2>2, <2>3, <2>4, <2>5, <2>6 DEF CallStep
  <1>4. CASE FlowStep
    <2>1. ASSUME AuthorizerThrows(Interactive) PROVE TokenMoves
      BY <2>1, <1>c, <1>i DEF AuthorizerThrows
    <2>2. ASSUME NEW label \in Asking, Goto(Interactive, label), pc[Interactive] \in Asking, UNCHANGED tokenVars
          PROVE  TokenMoves
      BY <2>2, <1>b, <1>i DEF Asking, Calling, Points
    <2>3. CASE StartFlow
      BY <2>3, <2>1, <2>2 DEF StartFlow, Asking, Calling
    <2>4. CASE NoPort
      BY <2>4, <2>1 DEF NoPort
    <2>5. CASE WaitForCode
      BY <2>5, <2>2 DEF WaitForCode, Asking, Calling
    <2>6. CASE WaitEndsEmpty
      BY <2>6, <2>2 DEF WaitEndsEmpty, Asking, Calling
    <2>7. CASE GiveUpFlow
      BY <2>7, <2>1 DEF GiveUpFlow
    <2>8. CASE CodeArrives
      BY <2>8, <2>2 DEF CodeArrives, Asking, Calling
    <2>9. CASE BeginExchange
      BY <2>9, <2>1, <2>2 DEF BeginExchange, Asking, Calling
    <2>10. ASSUME NEW status \in RedirectStatuses, NEW location \in Locations, TokenRedirected(status, location)
           PROVE  TokenMoves
      BY <2>10, <2>1, <1>a DEF TokenRedirected
    <2>11. CASE TokenAnswered
      BY <2>11, <2>1, <1>d, <1>i DEF TokenAnswered, Asking, Calling
    <2>12. QED
      BY <1>4, <2>3, <2>4, <2>5, <2>6, <2>7, <2>8, <2>9, <2>10, <2>11 DEF FlowStep
  <1>5. CASE UNCHANGED vars
    BY <1>5, <1>a DEF vars, threadVars, tokenVars
  <1>6. QED
    BY <1>1, <1>2, <1>3, <1>4, <1>5 DEF Next, Finished

\* What is asked for covers the scopes of the current token.
LEMMA TargetCoversToken ==
    ASSUME NEW t, NEW challenge, token[t].given, "" \notin token[t].value
    PROVE  token[t].value \subseteq TargetScopes(t, challenge)
  BY DEF TargetScopes, MergeScopes, SanitizeScopeSet

\* Every move keeps what the calls have and ask for in step with the storage.
LEMMA NextKeptInv == KeptInv /\ [Next]_vars => KeptInv'
  <1> SUFFICES ASSUME KeptInv, [Next]_vars PROVE KeptInv'
    OBVIOUS
  <1> USE DEF KeptInv, Goto
  <1>p. {"calling", "authorizing", "done", "failed"} \subseteq Points /\ Asking \subseteq Calling
    BY DEF Points, Asking, Calling
  <1>1. CASE GoesOn
    <2>1. CASE pc' = pc
      BY <1>1, <2>1 DEF GoesOn, tokenVars
    <2>2. ASSUME NEW t \in Threads, NEW label \in Points \ {"calling"}, Goto(t, label),
                 label \in Asking => pc[t] \in Asking
          PROVE  KeptInv'
      <3>1. \A u \in Threads : /\ pc'[u] \in Asking => pc[u] \in Asking
                               /\ pc'[u] \in Calling => pc[u] \in Calling
        BY <2>2, <1>p DEF Asking
      <3>2. QED
        BY <1>1, <2>2, <3>1 DEF GoesOn, tokenVars
    <2>3. QED
      BY <1>1, <2>1, <2>2 DEF GoesOn
  <1>2. ASSUME NEW t \in Threads, BeginCall(t) PROVE KeptInv'
    <2>1. /\ pc' = [pc EXCEPT ![t] = "calling"] /\ token' = [token EXCEPT ![t] = storage]
          /\ overtaken' = overtaken \ {t} /\ storage' = storage /\ target' = target
      BY <1>2 DEF BeginCall
    <2>2. pc'[t] \notin Asking /\ \A u \in Threads : u # t => pc'[u] = pc[u]
      BY <2>1 DEF Asking
    <2>3. QED
      BY <1>p, <2>1, <2>2
  <1>3. ASSUME NEW t \in Threads, Asks(t) PROVE KeptInv'
    <2>1. PICK challenge :
            /\ target' = [target EXCEPT ![t] = TargetScopes(t, challenge)]
            /\ pc[t] = "calling" /\ pc' = [pc EXCEPT ![t] = "authorizing"]
            /\ UNCHANGED << token, storage, overtaken >>
      BY <1>3 DEF Asks
    <2>2. pc[t] \in Calling
      BY <2>1 DEF Calling
    <2>3. t \notin overtaken /\ storage.given => storage.value \subseteq TargetScopes(t, challenge)
      BY <2>2, TargetCoversToken
    <2>4. \A u \in Threads : u # t => pc'[u] = pc[u] /\ target'[u] = target[u]
      BY <2>1
    <2>5. target'[t] = TargetScopes(t, challenge)
      BY <2>1
    <2> HIDE DEF TargetScopes
    <2>6. QED
      BY <1>p, <2>1, <2>2, <2>3, <2>4, <2>5
  <1>4. ASSUME NEW t \in Threads, NEW label \in {"done", "failed"}, EndCall(t, label) PROVE KeptInv'
    <2>1. /\ pc' = [pc EXCEPT ![t] = label] /\ token' = [token EXCEPT ![t] = Absent]
          /\ target' = [target EXCEPT ![t] = {}]
          /\ overtaken' = overtaken \ {t} /\ storage' = storage
      BY <1>4 DEF EndCall
    <2>2. pc'[t] \notin Calling /\ \A u \in Threads : u # t => pc'[u] = pc[u]
      BY <2>1 DEF Calling
    <2>3. QED
      BY <1>p, <2>1, <2>2
  <1>5. ASSUME NEW t \in Threads, NEW granted \in Grants, TakeToken(t, granted) PROVE KeptInv'
    <2>1. /\ pc' = [pc EXCEPT ![t] = "calling"] /\ token' = [token EXCEPT ![t] = storage']
          /\ target' = [target EXCEPT ![t] = {}]
          /\ overtaken' = { u \in Threads \ {t} : pc[u] \in Calling }
          /\ storage' = Given(SanitizeScopeSet(granted))
      BY <1>5 DEF TakeToken
    <2>2. storage'.value = granted \ {""}
      BY <2>1 DEF Given, SanitizeScopeSet
    <2>3. pc'[t] \notin Asking /\ \A u \in Threads : u # t => pc'[u] = pc[u]
      BY <2>1 DEF Asking
    <2>4. \A u \in Threads : u # t /\ pc'[u] \in Calling => u \in overtaken'
      BY <2>1, <2>3
    <2>5. QED
      BY <1>p, <2>1, <2>2, <2>3, <2>4
  <1>6. QED
    BY <1>1, <1>2, <1>3, <1>4, <1>5, TokenSteps DEF TokenMoves

\* However calls and their step-ups interleave: a token that covers what its call asked for loses
\* no scope of the one it replaces in the storage, unless another call has saved since this one
\* last read or saved.
THEOREM StepUpLosesNoScopes == Spec => StepUpKeepsScopes
  <1> DEFINE Kept ==
        \A t \in Threads :
            /\ storage' # storage /\ storage.given
            /\ pc[t] # pc'[t] /\ t \notin overtaken /\ target[t] \subseteq storage'.value
            => storage.value \subseteq storage'.value
  <1>1. Init => KeptInv
    BY DEF Init, KeptInv, Points, Calling, Asking, Absent
  <1>2. KeptInv /\ [Next]_vars => [Kept]_vars
    <2> SUFFICES ASSUME KeptInv, [Next]_vars, NEW t \in Threads,
                        storage' # storage, storage.given,
                        pc[t] # pc'[t], t \notin overtaken, target[t] \subseteq storage'.value
                 PROVE  storage.value \subseteq storage'.value
      OBVIOUS
    <2>1. PICK u \in Threads : pc[u] \in Asking /\ pc' = [pc EXCEPT ![u] = "calling"]
      BY TokenSteps DEF TokenMoves, GoesOn, Asks, BeginCall, EndCall, TakeToken, tokenVars, Goto
    <2>2. u = t
      BY <2>1 DEF KeptInv
    <2>3. QED
      BY <2>1, <2>2 DEF KeptInv
  <1>3. KeptInv /\ [Next]_vars => KeptInv'
    BY NextKeptInv
  <1>4. QED
    BY <1>1, <1>2, <1>3, PTL DEF Spec, StepUpKeepsScopes

-----------------------------------------------------------------------------
(* The loopback receiver.                                                  *)

\* A promise is completed with the state of some wait, an unconsumed one has delivered nothing,
\* and only the caller of an unconsumed one waits.
ReceiverInv ==
    /\ waits \in 0..MaxWaits /\ expectedState \in 0..waits
    /\ completion \in {None, Failed} \cup 1..waits
    /\ waitingFor # None => ~resultConsumed
    /\ resultConsumed \in BOOLEAN
    /\ ~resultConsumed => delivered = << >>
    /\ delivered = << >> \/ \E state \in 1..waits : delivered = << state >>

\* What the threads, the flow and the browser may do to the receiver.
LEMMA ReceiverSteps ==
    ASSUME [Next]_vars
    PROVE  \/ UNCHANGED receiverVars
           \/ StartReceiver \/ StopReceiver \/ BeginWait \/ WaitReturns \/ WaitThrows \/ WaitTimesOut
           \/ BrowserStep
  <1>1. Discover => UNCHANGED receiverVars
    BY DEF Discover
  <1>2. Browser => BrowserStep
    BY DEF Browser
  <1>3. ASSUME NEW t \in Threads, CallStep(t) PROVE UNCHANGED receiverVars
    BY <1>3 DEF CallStep, ResolveRegistration, RegistrationAnswered, BeginCall, CallAnswered, CallForbidden,
                OtherAuthorizer
  <1>4. FlowStep => \/ UNCHANGED receiverVars
                    \/ StartReceiver \/ StopReceiver \/ BeginWait \/ WaitReturns \/ WaitThrows \/ WaitTimesOut
    BY DEF FlowStep, StartFlow, NoPort, WaitForCode, WaitEndsEmpty, GiveUpFlow, CodeArrives, BeginExchange,
           TokenRedirected, TokenAnswered
  <1>5. UNCHANGED vars => UNCHANGED receiverVars
    BY DEF vars
  <1>6. QED
    BY <1>1, <1>2, <1>3, <1>4, <1>5 DEF Next, Finished

\* Callbacks, waits and timeouts in any order keep the promise and what was delivered in step.
LEMMA NextReceiverInv == ReceiverInv /\ [Next]_vars => ReceiverInv'
  <1> SUFFICES ASSUME ReceiverInv, [Next]_vars PROVE ReceiverInv'
    OBVIOUS
  <1> USE ReceiverAssumption DEF ReceiverInv, None, Failed
  <1>1. CASE UNCHANGED receiverVars
    BY <1>1 DEF receiverVars
  <1>2. CASE StartReceiver
    <2>1. /\ expectedState' = 0 /\ completion' = 0 /\ resultConsumed' = FALSE /\ delivered' = << >>
          /\ waits' = waits /\ waits \in Nat
      BY <1>2 DEF StartReceiver
    <2>2. expectedState' \in 0..waits'
      BY <2>1
    <2>3. QED
      BY <2>1, <2>2
  <1>3. CASE StopReceiver
    BY <1>3 DEF StopReceiver
  <1>4. CASE BeginWait
    <2>1. waits' = waits + 1 /\ waits' \in 1..MaxWaits /\ expectedState' = waits'
      BY <1>4 DEF BeginWait
    <2>2. completion' = completion \/ completion' \in {waits', Failed}
      BY <1>4 DEF BeginWait, Finalized
    <2>3. resultConsumed' = FALSE /\ delivered' = << >>
      BY <1>4 DEF BeginWait
    <2>4. completion' \in {0, Failed} \cup 1..waits'
      BY <2>1, <2>2
    <2>5. waits' \in 0..MaxWaits /\ expectedState' \in 0..waits'
      BY <2>1
    <2>6. QED
      BY <2>3, <2>4, <2>5
  <1>5. CASE WaitReturns
    <2>1. delivered = << >> /\ completion \in 1..waits
      BY <1>5 DEF WaitReturns
    <2>2. delivered' = << completion >>
      BY <1>5, <2>1 DEF WaitReturns
    <2>3. QED
      BY <1>5, <2>1, <2>2 DEF WaitReturns
  <1>6. CASE WaitThrows
    BY <1>6 DEF WaitThrows
  <1>7. CASE WaitTimesOut
    BY <1>7 DEF WaitTimesOut
  <1>8. ASSUME NEW state \in States, CallbackWithCode(state) PROVE ReceiverInv'
    <2>1. completion' = completion \/ completion' = Failed \/ (expectedState # None /\ completion' = expectedState)
      BY <1>8 DEF CallbackWithCode, Finalized
    <2>2. UNCHANGED << expectedState, resultConsumed, waitingFor, waits, delivered >>
      BY <1>8 DEF CallbackWithCode
    <2>3. QED
      BY <2>1, <2>2
  <1>9. CASE CallbackMalformed
    BY <1>9 DEF CallbackMalformed
  <1>10. QED
    BY <1>1, <1>2, <1>3, <1>4, <1>5, <1>6, <1>7, <1>8, <1>9, ReceiverSteps DEF BrowserStep

\* Between two starts of the receiver one code at most is returned, and it came with a state
\* some wait of the host asked for, for any number of waits and callbacks.
THEOREM OneCodeIsDelivered == Spec => []OneExpectedCodePerStart
  <1>1. Init => ReceiverInv
    <2> SUFFICES ASSUME ReceiverInit PROVE ReceiverInv
      BY DEF Init
    <2>1. waits \in 0..MaxWaits /\ expectedState \in 0..waits
      BY ReceiverAssumption DEF ReceiverInit, None
    <2>2. QED
      BY <2>1 DEF ReceiverInit, ReceiverInv
  <1>2. ReceiverInv => OneExpectedCodePerStart
    <2> SUFFICES ASSUME ReceiverInv PROVE OneExpectedCodePerStart
      OBVIOUS
    <2>1. CASE delivered = << >>
      <3>1. Len(delivered) = 0 /\ DOMAIN delivered = {}
        BY <2>1
      <3>2. QED
        BY <3>1 DEF OneExpectedCodePerStart
    <2>2. ASSUME NEW state \in 1..waits, delivered = << state >> PROVE OneExpectedCodePerStart
      <3>1. Len(delivered) = 1 /\ DOMAIN delivered = {1} /\ delivered[1] = state
        BY <2>2
      <3>2. QED
        BY <3>1 DEF OneExpectedCodePerStart
    <2>3. QED
      BY <2>1, <2>2 DEF ReceiverInv
  <1>3. QED
    BY NextReceiverInv, <1>1, <1>2, PTL DEF Spec
=============================================================================
