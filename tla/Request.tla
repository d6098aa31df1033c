------------------------------- MODULE Request ------------------------------
(***************************************************************************)
(* From options to a request: resolveEndpoint (cmd/mh2c/endpoint.go),      *)
(* readRequestBody and buildRequestFields (request.go).  A header field is *)
(* its name and who gave it.                                               *)
(***************************************************************************)
EXTENDS Naturals, Sequences, SequencesExt, FiniteSetsExt

CONSTANTS MaxPort, DefaultPort    \* 65535 and 443

ASSUME PortsAssumption == MaxPort \in Nat /\ DefaultPort \in 0..MaxPort

NoUrl == [given |-> FALSE]
Url(absolute, scheme, host, port, path) ==
    [given |-> TRUE, absolute |-> absolute, scheme |-> scheme, host |-> host,
     port |-> port, path |-> path]

\* What net/url makes of --url: a port is a number, if it is written.
Urls == {NoUrl} \cup [given : {TRUE}, absolute : BOOLEAN, scheme : STRING, host : STRING,
                      port : SUBSET Nat, path : STRING]
AtMostOnePort(url) == url.given => \A p, q \in url.port : p = q

\* A host, with its port if it is written out.
Authority(host, port) == [host |-> host, port |-> port]

Endpoint(scheme, host, authority, path, port) ==
    [scheme |-> scheme, host |-> host, authority |-> authority, path |-> path, port |-> port]

PathOr(path) == IF path = "" THEN "/" ELSE path

AuthorityOr(options, authority) ==
    IF options.authority # "" THEN Authority(options.authority, {}) ELSE authority

\* Each resolution is the endpoint or, if refused, the empty set.
ResolveUrl(options) ==
    LET url == options.url
    IN  IF url.absolute /\ url.scheme = "https" /\ url.host # "" /\ \A p \in url.port : p <= MaxPort
        THEN {Endpoint(url.scheme, url.host, AuthorityOr(options, Authority(url.host, url.port)),
                       PathOr(url.path), IF url.port = {} THEN DefaultPort ELSE Max(url.port))}
        ELSE {}

ResolveParts(options) ==
    LET written == IF options.port = DefaultPort THEN {} ELSE {options.port}
    IN  IF options.scheme = "https"
        THEN {Endpoint(options.scheme, options.host,
                       AuthorityOr(options, Authority(options.host, written)),
                       PathOr(options.path), options.port)}
        ELSE {}

ResolveEndpoint(options) == IF options.url.given THEN ResolveUrl(options) ELSE ResolveParts(options)

(***************************************************************************)
(* Header fields                                                           *)
(***************************************************************************)
FieldFrom(name, from) == [name |-> name, from |-> from]

\* parseHeader refuses this one.
MalformedHeader == "malformed"

\* A field that the client adds unless the user gives one of that name.
Unless(headers, name, from) == IF name \in ToSet(headers) THEN <<>> ELSE <<FieldFrom(name, from)>>

Defaults(headers) ==
    Unless(headers, ":method", "default") \o Unless(headers, ":path", "default")
        \o Unless(headers, ":scheme", "default") \o Unless(headers, ":authority", "default")

Custom(headers) == [i \in DOMAIN headers |-> FieldFrom(headers[i], "user")]

\* Mutant: content-length is added whether the user gave it or not.
BuildFieldsTwice(headers, body) ==
    Defaults(headers) \o (IF body > 0 THEN <<FieldFrom("content-length", "body")>> ELSE <<>>)
        \o Custom(headers)

BuildRequestFields(headers, body) ==
    Defaults(headers) \o (IF body > 0 THEN Unless(headers, "content-length", "body") ELSE <<>>)
        \o Custom(headers)
=============================================================================
