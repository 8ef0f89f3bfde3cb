------------------------------ MODULE CoapUri ------------------------------
(***************************************************************************)
(* coap_parse_uri (oscore/coap-uri.c): the Proxy-Uri option's value split *)
(* into scheme, host, port, path and query, with the port kept only when  *)
(* it differs from the request's source port.                             *)
(*                                                                         *)
(* The split itself is Zephyr's http_parser_parse_url, not in src/.  A    *)
(* URL is kept as the components it is written from; the parser returns  *)
(* those components for the bytes of a URL of ProxyUris and fails on any  *)
(* other bytes (a cropped value, for instance).  Bytes are ASCII codes.   *)
(***************************************************************************)
EXTENDS Naturals, Sequences, SequencesExt

CONSTANTS
  ProxyUris,         \* [scheme, host, port, path, query, fragment] byte strings
  PeerPort,          \* the UDP port the request came from
  HostLittleEndian   \* byte order of the build target

ASCII == [colon |-> 58, slash |-> 47, question |-> 63, hash |-> 35, zero |-> 48]

\* scheme "://" host [":" port] path ["?" query] ["#" fragment]
UrlBytes(u) ==
  u.scheme \o <<ASCII.colon, ASCII.slash, ASCII.slash>> \o u.host
    \o (IF u.port = <<>> THEN <<>> ELSE <<ASCII.colon>> \o u.port)
    \o u.path
    \o (IF u.query = <<>> THEN <<>> ELSE <<ASCII.question>> \o u.query)
    \o (IF u.fragment = <<>> THEN <<>> ELSE <<ASCII.hash>> \o u.fragment)

\* http_parser_parse_url: the field data, and url.port as a decimal number.
http_parser_parse_url(bytes) ==
  IF \E u \in ProxyUris : UrlBytes(u) = bytes
  THEN [ok |-> TRUE, url |-> CHOOSE u \in ProxyUris : UrlBytes(u) = bytes]
  ELSE [ok |-> FALSE]

DecimalValue(digits) == FoldLeft(LAMBDA acc, d : acc * 10 + d - ASCII.zero, 0, digits)

\* get_from_ip_addr fills a struct sockaddr_in6, whose sin6_port is in
\* network byte order.
sin6_port ==
  IF HostLittleEndian THEN (PeerPort % 256) * 256 + PeerPort \div 256 ELSE PeerPort

tolower(c) == IF c \in 65..90 THEN c + 32 ELSE c

strcasecmp(s1, s2) ==
  Len(s1) = Len(s2) /\ \A i \in DOMAIN s1 : tolower(s1[i]) = tolower(s2[i])

COAP == <<99, 111, 97, 112>>           \* "coap"
COAPS == <<99, 111, 97, 112, 115>>     \* "coaps"
DefaultPort == <<53, 54, 56, 51>>      \* "5683"

\* The port coap_parse_uri reports: the URL's, unless it equals the
\* request's port; with no port in the URL, "5683" unless the request's
\* port is 5683.  Both comparisons are with sin6_port as it is stored.
PortField(u) ==
  IF u.port # <<>>
  THEN IF DecimalValue(u.port) # sin6_port THEN u.port ELSE <<>>
  ELSE IF sin6_port # 5683 THEN DefaultPort ELSE <<>>

coap_parse_uri(value) ==
  LET p == http_parser_parse_url(value)
  IN  CASE ~p.ok -> [err |-> "OscoreUriHttpParserError"]
        [] ~(strcasecmp(p.url.scheme, COAP) \/ strcasecmp(p.url.scheme, COAPS)) ->
             [err |-> "OscoreUriInvalidProtocol"]
        [] p.url.fragment # <<>> -> [err |-> "OscoreUriInvalidFragment"]
        [] OTHER -> [err |-> "OscoreNoError",
                     info |-> [scheme |-> p.url.scheme, host |-> p.url.host,
                               port |-> PortField(p.url), path |-> p.url.path,
                               query |-> p.url.query]]

\* spec.md 4.7: the re-emitted Proxy-Uri is scheme://host[:port], where
\* (RFC 7252 section 6.4 steps 6 and 7, quoted in coap_parse_uri) port is
\* the URL's port or the scheme's default, and is given only when it is
\* not the request's port.
SpecProxyUri(value) ==
  LET u == http_parser_parse_url(value).url
      port == IF u.port # <<>> THEN u.port
              ELSE IF strcasecmp(u.scheme, COAPS) THEN <<53, 54, 56, 52>> ELSE DefaultPort
  IN  u.scheme \o <<ASCII.colon, ASCII.slash, ASCII.slash>> \o u.host
        \o (IF DecimalValue(port) = PeerPort THEN <<>> ELSE <<ASCII.colon>> \o port)

====
