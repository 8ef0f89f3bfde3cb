\* Conditional requests with up to ten If-Match and ETag options.
SPECIFICATION ExchangeSpec
CONSTANTS
  RequestOptions <- MCConditionalRequestOptions
  ResponseOptions <- MCPostResponseOptions
  ProxyUris <- MCProxyUris
  PeerPort = 5683
  HostLittleEndian = TRUE
  MaxOptions = 10
INVARIANT ResponseFindsRequestOption
