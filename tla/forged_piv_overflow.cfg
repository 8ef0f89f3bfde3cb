\* One forged request, no honest traffic: a 6-byte PIV or a payload shorter than the tag.
SPECIFICATION Spec
CONSTANTS
  ByteBase = 3
  SeqBytes = 3
  SID = SID
  RID = RID
  OtherKid = OtherKid
  NoKey = NoKey
  NoReq = NoReq
  MaxClientReqs = 0
  MaxDuplicates = 0
  MaxForgeries = 1
  MaxReboots = 0
  ForgedPivLens <- MCMalformedPivLens
  ForgedCtLens <- MCMalformedCtLens
  BufferFailures = TRUE
  LossyNetwork = TRUE
INVARIANT NoUndefinedBehaviour
\* The server idles once the bounded client and attacker are done.
CHECK_DEADLOCK FALSE
