----------------------- MODULE AuthorizationDiscovery -----------------------
(***************************************************************************)
(* discoverAuthorizationMetadata (auth/protected_resource_metadata.cpp):    *)
(* from an MCP endpoint, and the challenge it answered, to the metadata of  *)
(* its authorization server.  Every GET follows redirects under the policy  *)
(* of the request; the answers, and what the resolver says of a host, are   *)
(* the environment's.                                                       *)
(***************************************************************************)
EXTENDS OAuthUrls, FiniteSets

CONSTANTS
    DiscoveryRequests,  \* [endpoint, headers, policy]: what the host may ask
    Documents,          \* the bodies servers answer 200 with
    Locations,          \* what the Location header of a redirect may hold
    Resolutions         \* what the resolver may answer: sets of [valid, octets]

\* The issuers a document names are a list.
ASSUME DocumentsAssumption ==
    \A doc \in Documents : doc.kind = "resource" => DOMAIN doc.servers \subseteq Nat

VARIABLES
    discovery,   \* "idle", "resource", "server", "found" or "failed"
    request,     \* the request discovery works on
    candidates,  \* the metadata URLs left to probe, the current one first
    url,         \* the URL the current GET is at
    hops,        \* the redirects it has followed
    resource,    \* the protected resource's metadata
    issuer,      \* the authorization server selected from it
    metadata     \* the authorization server's metadata

discoveryVars == << discovery, request, candidates, url, hops, resource, issuer, metadata >>

NoRequest == [none |-> TRUE]
NoDocument == [kind |-> "none"]

DiscoveryInit ==
    /\ discovery = "idle"
    /\ request = NoRequest
    /\ candidates = << >>
    /\ url = NoDocument
    /\ hops = 0
    /\ resource = NoDocument
    /\ issuer = NoDocument
    /\ metadata = NoDocument

Challenges == ParseBearerChallenges(request.headers)

\* The challenge that names the metadata document, if one does.
SelectedChallenge(headers) ==
    FirstChallenge(SelectSeq(ParseBearerChallenges(headers), HasResourceMetadata))

\* parseProtectedResourceMetadata: what makes a document unusable is an exception.
IsProtectedResourceMetadata(doc) ==
    /\ doc.kind = "resource"
    /\ IsUsableUrl(doc.resource) /\ doc.resource.scheme = "https"
    /\ doc.servers # << >>

\* parseAuthorizationServerMetadata.
IsAuthorizationServerMetadata(doc) ==
    /\ doc.kind = "server"
    /\ IsUsableUrl(doc.issuer) /\ doc.issuer.scheme = "https"

\* selectAuthorizationServer: the positions of the issuers with an HTTPS URL.
UsableIssuers(doc) ==
    { i \in DOMAIN doc.servers : IsUsableUrl(doc.servers[i]) /\ doc.servers[i].scheme = "https" }

\* The first of them, in the document's order, is taken; the others are never tried.
SelectedIssuer(doc) ==
    doc.servers[CHOOSE i \in UsableIssuers(doc) : \A j \in UsableIssuers(doc) : i <= j]

-----------------------------------------------------------------------------
\* The GETs are over: their locals are gone.
EndProbing ==
    /\ candidates' = << >>
    /\ url' = NoDocument
    /\ hops' = 0

Fail ==
    /\ discovery' = "failed"
    /\ EndProbing
    /\ UNCHANGED << request, resource, issuer, metadata >>

Probe(urls) ==
    /\ candidates' = urls
    /\ url' = Head(urls)
    /\ hops' = 0

\* discoverAuthorizationMetadata up to its first GET.
BeginDiscovery(r) ==
    LET challenge == SelectedChallenge(r.headers)
    IN  /\ discovery = "idle"
        /\ request' = r
        /\ IF r.policy.requireHttps /\ r.endpoint.scheme # "https"
           THEN discovery' = "failed" /\ UNCHANGED << candidates, url, hops >>
           ELSE /\ discovery' = "resource"
                /\ Probe(IF challenge # NoChallenge
                         THEN << challenge.resourceMetadata.value >>
                         ELSE ProtectedResourceMetadataUrls(r.endpoint))
        /\ UNCHANGED << resource, issuer, metadata >>

Fetching == discovery \in {"resource", "server"}

\* executeDiscoveryGet lets a hop through when its URL is HTTPS and its host
\* resolves to public addresses; anything else ends the discovery, not only the
\* candidate.
MayFetch(addresses) ==
    /\ IsUsableUrl(url)
    /\ request.policy.requireHttps => url.scheme = "https"
    /\ ~AddressProblem(url, addresses, request.policy)

RefuseFetch(addresses) ==
    /\ Fetching
    /\ ~MayFetch(addresses)
    /\ Fail

\* executeDiscoveryGet, a redirect: each of the refusals throws out of the whole
\* discovery.
MayFollow(location) ==
    LET next == ResolveRedirectUrl(url, location)
    IN  /\ hops < request.policy.maxRedirects
        /\ location.form # "missing"
        /\ IsUsableUrl(next)
        /\ request.policy.requireHttps => next.scheme = "https"
        /\ request.policy.requireSameOriginRedirects => OriginForUrl(next) = OriginForUrl(url)

FetchRedirected(addresses, location) ==
    /\ Fetching
    /\ MayFetch(addresses)
    /\ IF MayFollow(location)
       THEN /\ url' = ResolveRedirectUrl(url, location)
            /\ hops' = hops + 1
            /\ UNCHANGED << discovery, request, candidates, resource, issuer, metadata >>
       ELSE Fail

\* A 404 moves on to the next well-known URL, but not from the URL the challenge
\* named; any other error status ends the discovery.
ResourceMissing(addresses, status) ==
    /\ discovery = "resource"
    /\ MayFetch(addresses)
    /\ IF status = 404 /\ SelectedChallenge(request.headers) = NoChallenge /\ Len(candidates) > 1
       THEN Probe(Tail(candidates)) /\ UNCHANGED << discovery, request, resource, issuer, metadata >>
       ELSE Fail

\* The resource metadata arrived: it must be about this endpoint and name a usable
\* authorization server.
ResourceAnswered(addresses, doc) ==
    /\ discovery = "resource"
    /\ MayFetch(addresses)
    /\ IF /\ IsProtectedResourceMetadata(doc)
          /\ CanonicalUrl(doc.resource) = CanonicalUrl(request.endpoint)
          /\ UsableIssuers(doc) # {}
       THEN /\ discovery' = "server"
            /\ resource' = doc
            /\ issuer' = CanonicalUrl(SelectedIssuer(doc))
            /\ Probe(AuthorizationServerMetadataUrls(issuer'))
            /\ UNCHANGED << request, metadata >>
       ELSE Fail

NextServerUrl ==
    IF Len(candidates) > 1
    THEN Probe(Tail(candidates)) /\ UNCHANGED << discovery, request, resource, issuer, metadata >>
    ELSE Fail

ServerMissing(addresses) ==
    /\ discovery = "server"
    /\ MayFetch(addresses)
    /\ NextServerUrl

\* Mutant of ServerAnswered: whatever parses is taken.
ServerAnsweredUnchecked(addresses, doc) ==
    /\ discovery = "server"
    /\ MayFetch(addresses)
    /\ IF IsAuthorizationServerMetadata(doc)
       THEN /\ discovery' = "found" /\ metadata' = doc /\ EndProbing
            /\ UNCHANGED << request, resource, issuer >>
       ELSE NextServerUrl

\* A document that does not parse, or is another issuer's, is passed over.
ServerAnswered(addresses, doc) ==
    /\ discovery = "server"
    /\ MayFetch(addresses)
    /\ IF IsAuthorizationServerMetadata(doc) /\ CanonicalUrl(doc.issuer) = issuer
       THEN /\ discovery' = "found"
            /\ metadata' = doc
            /\ EndProbing
            /\ UNCHANGED << request, resource, issuer >>
       ELSE NextServerUrl

\* What the answer to the GET in flight may do.
DiscoveryStep ==
    \E addresses \in Resolutions :
        \/ RefuseFetch(addresses)
        \/ \E location \in Locations : FetchRedirected(addresses, location)
        \/ \E status \in {404, 500} : ResourceMissing(addresses, status)
        \/ ServerMissing(addresses)
        \/ \E doc \in Documents : ResourceAnswered(addresses, doc) \/ ServerAnswered(addresses, doc)

\* The scopes the result carries.
SelectedScopes == SelectScopes(Challenges, resource.supported)

-----------------------------------------------------------------------------
\* The result of a discovery belongs together: the resource is the endpoint, its
\* document names the issuer, the server's document is the issuer's; and under the
\* default policy no GET leaves the origin of the metadata URL it began at
\* (protected_resource_metadata.cpp:806, 1235, 1257).
DiscoveryBelongsTogether ==
    /\ discovery = "found" =>
        /\ CanonicalUrl(resource.resource) = CanonicalUrl(request.endpoint)
        /\ issuer \in {CanonicalUrl(server) : server \in ToSet(resource.servers)}
        /\ CanonicalUrl(metadata.issuer) = issuer
    /\ Fetching /\ request.policy.requireSameOriginRedirects =>
        OriginForUrl(url) = OriginForUrl(Head(candidates))
=============================================================================
