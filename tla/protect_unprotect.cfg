\* One boot: honest requests, duplicates, losses and well-formed forgeries.
SPECIFICATION Spec
CONSTANTS
  ByteBase = 3
  SeqBytes = 3
  SID = SID
  RID = RID
  OtherKid = OtherKid
  NoKey = NoKey
  NoReq = NoReq
  MaxClientReqs = 2
  MaxDuplicates = 2
  MaxForgeries = 1
  MaxReboots = 0
  ForgedPivLens <- MCWellFormedPivLens
  ForgedCtLens <- MCWellFormedCtLens
  BufferFailures = TRUE
  LossyNetwork = TRUE
INVARIANT TypeOK
INVARIANT NonceUnique
INVARIANT ResponsesMatchRequests
PROPERTY SenderSequenceSpec
\* The server idles once the bounded client and attacker are done.
CHECK_DEADLOCK FALSE
