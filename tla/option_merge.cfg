\* The OSCORE option value codec over spec-encoded options; then requests
\* with interleaved outer and inner options and responses with Class U
\* options on both sides of the OSCORE option.
SPECIFICATION MCSpec
CONSTANTS
  RequestOptions <- MCRequestOptions
  ResponseOptions <- MCExchangeResponseOptions
  ProxyUris <- MCProxyUris
  PeerPort = 5683
  HostLittleEndian = TRUE
  MaxOptions = 3
INVARIANT ResponseFindsRequestOption
INVARIANT RequestOptionsIntact
INVARIANT ResponseOuterOptions
INVARIANT RequestOptionDecoded
INVARIANT ResponseOptionEncoded
