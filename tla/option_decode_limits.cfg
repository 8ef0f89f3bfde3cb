\* Requests with a 13-byte Uri-Path or an option numbered 2049.
SPECIFICATION ExchangeSpec
CONSTANTS
  RequestOptions <- MCLimitRequestOptions
  ResponseOptions <- MCPostResponseOptions
  ProxyUris <- MCProxyUris
  PeerPort = 5683
  HostLittleEndian = TRUE
  MaxOptions = 2
INVARIANT RequestOptionsIntact
