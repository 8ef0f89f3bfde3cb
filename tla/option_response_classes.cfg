\* Responses with ETag, Observe, Content-Format, Max-Age, Block2 and a
\* Proxy-Uri.
SPECIFICATION ExchangeSpec
CONSTANTS
  RequestOptions <- MCRequestOptions
  ResponseOptions <- MCProxyResponseOptions
  ProxyUris <- MCProxyUris
  PeerPort = 5683
  HostLittleEndian = TRUE
  MaxOptions = 3
INVARIANT ResponseOptionsIntact
