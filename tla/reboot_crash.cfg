\* Reboots, malformed forgeries and a counter that wraps within one boot.
SPECIFICATION Spec
CONSTANTS
  ByteBase = 2
  SeqBytes = 3
  SID = SID
  RID = RID
  OtherKid = OtherKid
  NoKey = NoKey
  NoReq = NoReq
  MaxClientReqs = 2
  MaxDuplicates = 2
  MaxForgeries = 1
  MaxReboots = 1
  ForgedPivLens <- MCMalformedPivLens
  ForgedCtLens <- MCMalformedCtLens
  BufferFailures = TRUE
  LossyNetwork = TRUE
INVARIANT NonceUniqueWithinBoot
\* The server idles once the bounded client and attacker are done.
CHECK_DEADLOCK FALSE
