\* One request duplicated by the network.
SPECIFICATION Spec
CONSTANTS
  ByteBase = 3
  SeqBytes = 3
  SID = SID
  RID = RID
  OtherKid = OtherKid
  NoKey = NoKey
  NoReq = NoReq
  MaxClientReqs = 1
  MaxDuplicates = 1
  MaxForgeries = 0
  MaxReboots = 0
  ForgedPivLens <- MCWellFormedPivLens
  ForgedCtLens <- MCWellFormedCtLens
  BufferFailures = TRUE
  LossyNetwork = TRUE
INVARIANT AtMostOnce
\* The server idles once the bounded client and attacker are done.
CHECK_DEADLOCK FALSE
