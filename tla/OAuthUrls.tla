------------------------------ MODULE OAuthUrls ------------------------------
(***************************************************************************)
(* What the OAuth code does with URLs, addresses, scopes and challenges:    *)
(* the pure functions of auth/oauth_client.cpp and                          *)
(* auth/protected_resource_metadata.cpp.                                    *)
(*                                                                          *)
(* A URL is [scheme, host, port, path]; port 0 stands for "not written",    *)
(* and path is the sequence of segments between the slashes, so that "/" is *)
(* << "" >> and "/mcp/" is << "mcp", "" >>.  A query is not modelled.  An   *)
(* address is the sequence of its 4 or 16 bytes.  A scope set is a set (the *)
(* code keeps the order it met them in, and sorts to compare them).         *)
(***************************************************************************)
EXTENDS Naturals, Sequences, SequencesExt

DefaultPort(scheme) ==
    CASE scheme = "https" -> 443 [] scheme = "http" -> 80 [] OTHER -> 0

\* parseAbsoluteUrl: a URL whose scheme has no port of its own must write one.
IsUsableUrl(url) == url.port # 0 \/ DefaultPort(url.scheme) # 0

\* originForUrl: a port that was written is part of the origin, the default
\* port of the scheme included.
OriginForUrl(url) == [scheme |-> url.scheme, host |-> url.host, port |-> url.port]

\* normalizeEndpointPath: one trailing slash goes.
NormalizeEndpointPath(path) ==
    IF Len(path) > 1 /\ Last(path) = "" THEN Front(path) ELSE path

\* canonicalResourceIdentifier and canonicalIssuerIdentifier.
CanonicalUrl(url) == [url EXCEPT !.path = NormalizeEndpointPath(@)]

AtOrigin(url, path) == [url EXCEPT !.path = path]

RedirectStatuses == {301, 302, 303, 307, 308}

\* resolveRedirectUrl: a Location is absolute, has the scheme left out, starts
\* at the root, or is relative to the directory of the current path.
ResolveRedirectUrl(current, location) ==
    CASE location.form = "absolute" -> location.url
      [] location.form = "network" -> [location.url EXCEPT !.scheme = current.scheme]
      [] location.form = "rooted" -> AtOrigin(current, location.url.path)
      [] location.form = "relative" -> AtOrigin(current, Front(current.path) \o location.url.path)

-----------------------------------------------------------------------------
\* isBlockedIpv4: private, local, documentation, multicast and reserved ranges.
IsBlockedIpv4(a) ==
    \/ a[1] \in {0, 10, 127} \cup 224..255
    \/ a[1] = 100 /\ a[2] \in 64..127
    \/ a[1] = 172 /\ a[2] \in 16..31
    \/ a[1] = 198 /\ a[2] \in {18, 19}
    \/ << a[1], a[2] >> \in {<< 169, 254 >>, << 192, 168 >>}
    \/ SubSeq(a, 1, 3) \in {<< 192, 0, 0 >>, << 192, 0, 2 >>, << 198, 51, 100 >>, << 203, 0, 113 >>}

\* isBlockedIpv6: loopback, unspecified, multicast, unique local, link local and
\* documentation addresses; a mapped IPv4 address is judged as such.
IsBlockedIpv6(a) ==
    LET zeros == \A i \in 1..10 : a[i] = 0
    IN  \/ zeros /\ (\A i \in 11..15 : a[i] = 0) /\ a[16] \in {0, 1}
        \/ zeros /\ a[11] = 255 /\ a[12] = 255 /\ IsBlockedIpv4(SubSeq(a, 13, 16))
        \/ a[1] \in {252, 253, 255}
        \/ a[1] = 254 /\ a[2] \in 128..191
        \/ SubSeq(a, 1, 4) = << 32, 1, 13, 184 >>

IsBlockedAddress(a) == IF Len(a) = 4 THEN IsBlockedIpv4(a) ELSE IsBlockedIpv6(a)

\* validateHostAddressability: what the resolver answers for the host is a set of
\* addresses, << >> among them when a text is not an address; a host that is a
\* literal address resolves to itself, and "localhost" and what ends in ".localhost" is
\* refused unresolved.
LocalHosts == {"localhost", "mcp.localhost"}

AddressProblem(url, addresses, policy) ==
    /\ ~policy.allowPrivateAndLocalAddresses
    /\ \/ url.host \in LocalHosts
       \/ addresses = {}
       \/ \E a \in addresses : a = << >> \/ IsBlockedAddress(a)

-----------------------------------------------------------------------------
\* The candidates for the metadata of the protected resource: at the endpoint's
\* path, then at the root.
ProtectedResourceMetadataUrls(endpoint) ==
    LET wellKnown == << ".well-known", "oauth-protected-resource" >>
        path == NormalizeEndpointPath(endpoint.path)
    IN  << AtOrigin(endpoint, IF path = << "" >> THEN wellKnown ELSE wellKnown \o path),
           AtOrigin(endpoint, wellKnown) >>

\* buildAuthorizationServerMetadataCandidateUrls: the issuer's path comes after
\* the well-known part, and once before it.
AuthorizationServerMetadataUrls(issuer) ==
    LET path == NormalizeEndpointPath(issuer.path)
        oauth == << ".well-known", "oauth-authorization-server" >>
        oidc == << ".well-known", "openid-configuration" >>
    IN  IF path = << "" >>
        THEN << AtOrigin(issuer, oauth), AtOrigin(issuer, oidc) >>
        ELSE << AtOrigin(issuer, oauth \o path), AtOrigin(issuer, oidc \o path),
                AtOrigin(issuer, path \o oidc) >>

-----------------------------------------------------------------------------
\* parseScopeString, sanitizeScopeSet: blanks and repetitions go.
SanitizeScopeSet(scopes) == scopes \ {""}

MergeScopes(base, required) == SanitizeScopeSet(base) \cup SanitizeScopeSet(required)

Absent == [given |-> FALSE]
Given(v) == [given |-> TRUE, value |-> v]

NoChallenge == [resourceMetadata |-> Absent, scope |-> Absent, error |-> Absent]

\* parseBearerParameter: a parameter whose quoted value is malformed, or that has
\* no value, is skipped; a repeated one overwrites.
WithBearerParameter(challenge, parameter) ==
    IF ~parameter.wellFormed \/ parameter.name \notin DOMAIN NoChallenge
    THEN challenge
    ELSE [challenge EXCEPT ![parameter.name] = Given(parameter.value)]

\* A part of a header value, between commas outside quotes, opens a challenge when
\* its first token is followed by something else than "=".
OpensChallenge(part) == part.scheme # "none"

\* parseBearerWwwAuthenticateChallenges: a header value is the sequence of its
\* comma separated parts.  A part that opens another scheme ends the Bearer
\* challenge, and its parameters, and those that follow, are skipped; the state is
\* the list of challenges and whether one is open.
ParseBearerChallenges(headers) ==
    LET Step(acc, part) ==
            IF OpensChallenge(part)
            THEN IF part.scheme = "Bearer"
                 THEN [open |-> TRUE, list |-> Append(acc.list, WithBearerParameter(NoChallenge, part))]
                 ELSE [acc EXCEPT !.open = FALSE]
            ELSE IF acc.open
                 THEN [acc EXCEPT !.list = Append(Front(@), WithBearerParameter(Last(@), part))]
                 ELSE acc
        Header(list, header) == FoldLeft(Step, [open |-> FALSE, list |-> list], header).list
    IN  FoldLeft(Header, << >>, headers)

\* The first of the challenges that fit, or NoChallenge.
FirstChallenge(fitting) == Head(Append(fitting, NoChallenge))

HasResourceMetadata(challenge) ==
    challenge.resourceMetadata.given

\* selectScopesForAuthorization: the first challenge that names a scope, else what
\* the resource supports.
SelectScopes(challenges, supported) ==
    LET HasScopes(c) == c.scope.given /\ SanitizeScopeSet(c.scope.value) # {}
        challenge == FirstChallenge(SelectSeq(challenges, HasScopes))
    IN  IF challenge # NoChallenge THEN SanitizeScopeSet(challenge.scope.value)
        ELSE SanitizeScopeSet(supported)
-----------------------------------------------------------------------------
\* generatePkceCodePair: the length of the base64url text of n random bytes, and
\* what RFC 7636 allows.
PkceVerifierLength(n) == (4 * n + 2) \div 3
IsPkceVerifierLength(length) == length \in 43..128
=============================================================================
