--------------------------- MODULE MCAuthorization ---------------------------
(* Authorization with small sets of requests, documents and answers.         *)
EXTENDS Authorization

Url(scheme, host, port, path) == [scheme |-> scheme, host |-> host, port |-> port, path |-> path]

Endpoint == Url("https", "mcp", 0, << "mcp", "" >>)
Rooted == Url("https", "mcp", 0, << "" >>)
Issuer == Url("https", "as", 0, << "tenant" >>)
Other == Url("https", "other", 0, << "" >>)

Policy == [requireHttps |-> TRUE, requireSameOriginRedirects |-> TRUE,
           allowPrivateAndLocalAddresses |-> FALSE, maxRedirects |-> 1]

\* A WWW-Authenticate header as its comma separated parts.
Part(scheme, name, value) ==
    [scheme |-> scheme, name |-> name, value |-> value, wellFormed |-> TRUE]

\* A challenge of another scheme after the Bearer one takes the parameters behind it.
NamesMetadata == << << Part("Bearer", "scope", {"a", ""}),
                       Part("none", "resourceMetadata", Url("https", "mcp", 0, << "meta" >>)),
                       Part("Basic", "realm", "r"), Part("none", "scope", {"b"}) >> >>
NamesBadUrl == << << Part("Bearer", "resourceMetadata", Url("ftp", "mcp", 0, << "meta" >>)) >> >>

MCDiscoveryRequests ==
    {[endpoint |-> Endpoint, headers |-> h, policy |-> Policy] : h \in {NamesBadUrl, NamesMetadata}}
    \cup {[endpoint |-> Rooted, headers |-> << >>, policy |-> Policy],
          [endpoint |-> [Endpoint EXCEPT !.scheme = "http"], headers |-> << >>, policy |-> Policy]}

Resource(url_, servers) ==
    [kind |-> "resource", resource |-> url_, servers |-> servers, supported |-> {"a"}]
Server(issuer_, https, dynamic) ==
    [kind |-> "server", issuer |-> issuer_, pkceS256 |-> https, documents |-> ~dynamic,
     authorizationEndpoint |-> Given(Url("https", "as", 0, << "authorize" >>)),
     tokenEndpoint |-> Given(Url(IF https THEN "https" ELSE "http", "as", 0, << "token" >>)),
     registrationEndpoint |->
        IF dynamic THEN Given(Url("https", "as", 0, << "register" >>)) ELSE Absent]

MCDocuments ==
    {[kind |-> "garbage"], Resource(Endpoint, << Url("http", "as", 0, << "" >>), Issuer, Other >>),
     Resource(Rooted, << Other >>), Resource(Endpoint, << >>),
     Server(Issuer, TRUE, TRUE), Server(Other, FALSE, FALSE)}

MCLocations ==
    {[form |-> "missing", url |-> Other], [form |-> "absolute", url |-> Other],
     [form |-> "rooted", url |-> Url("", "", 0, << "moved" >>)],
     [form |-> "relative", url |-> Url("", "", 0, << "near" >>)],
     [form |-> "network", url |-> Url("", "other", 0, << "" >>)],
     [form |-> "absolute", url |-> Url("http", "as", 0, << "token" >>)]}

MCResolutions ==
    {{<< 93, 184, 216, 34 >>}, {},
     {<< 93, 184, 216, 34 >>, << 32, 1, 13, 184, 0, 0, 0, 0, 0, 0, 0, 0, 0, 0, 0, 1 >>}}

Config(pre, document, dynamic) ==
    [preRegistered |-> pre, document |-> document, dynamic |-> dynamic,
     redirectUris |-> {}, method |-> "none"]
MCRegistrationConfigs ==
    {Config("none", "valid", TRUE), Config("none", "none", FALSE)}

RegistrationAnswer(status, uris, method) ==
    [status |-> status, clientId |-> "id", redirectUris |-> uris, method |-> method, secret |-> FALSE]
MCRegistrationAnswers ==
    {RegistrationAnswer(201, {"r"}, "absent"), RegistrationAnswer(200, {"r"}, "client_secret_basic")}

Insufficient(scopes) ==
    << << Part("Bearer", "error", "insufficient_scope"), Part("none", "scope", scopes) >> >>
MCForbiddenHeaders ==
    {Insufficient({"b"}),
     << << Part("Bearer", "error", "insufficient_scope"), Part("none", "scope", {"c"}),
           Part("none", "resourceMetadata", Url("https", "mcp", 0, << "meta" >>)) >> >>}

MCTokenPolicy == [requireHttps |-> TRUE, requireSameOriginRedirects |-> TRUE, maxRedirects |-> 1]
=============================================================================
