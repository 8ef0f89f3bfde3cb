\* Honest traffic only, more requests than the counter's low bytes can count.
SPECIFICATION Spec
CONSTANTS
  ByteBase = 2
  SeqBytes = 3
  SID = SID
  RID = RID
  OtherKid = OtherKid
  NoKey = NoKey
  NoReq = NoReq
  MaxClientReqs = 4
  MaxDuplicates = 0
  MaxForgeries = 0
  MaxReboots = 0
  ForgedPivLens <- MCWellFormedPivLens
  ForgedCtLens <- MCWellFormedCtLens
  BufferFailures = TRUE
  LossyNetwork = TRUE
PROPERTY SenderSequenceSpec
\* The server idles once the bounded client and attacker are done.
CHECK_DEADLOCK FALSE
