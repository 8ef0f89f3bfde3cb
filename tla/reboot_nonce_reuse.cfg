\* A reboot between two responses: the sequence number restarts from zero.
SPECIFICATION Spec
CONSTANTS
  ByteBase = 3
  SeqBytes = 3
  SID = SID
  RID = RID
  OtherKid = OtherKid
  NoKey = NoKey
  NoReq = NoReq
  MaxClientReqs = 2
  MaxDuplicates = 0
  MaxForgeries = 0
  MaxReboots = 1
  ForgedPivLens <- MCWellFormedPivLens
  ForgedCtLens <- MCWellFormedCtLens
  BufferFailures = TRUE
  LossyNetwork = TRUE
INVARIANT NonceUnique
\* The server idles once the bounded client and attacker are done.
CHECK_DEADLOCK FALSE
