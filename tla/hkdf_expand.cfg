\* main's HKDF self tests for output lengths of up to 254 blocks and one
\* past the RFC 5869 limit, then oscore_init deriving the Common IV and
\* both keys.
SPECIFICATION SCFairSpec
CONSTANTS
  OutLens <- MCOutLens
  PreEstablished <- MCPreEstablished
  NULL = NULL
INVARIANT ExpandMatchesRfc
INVARIANT InitDerivesRfc8613
PROPERTY OscoreInitSucceeds
\* main returns after oscore_init; the model stops there.
CHECK_DEADLOCK FALSE
