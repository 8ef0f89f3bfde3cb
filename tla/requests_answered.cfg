\* Honest requests, a duplicate and a forgery over a network that does not
\* lose packets, with packet buffers always available and no reboot; the
\* server runs fairly.
SPECIFICATION FairSpec
CONSTANTS
  ByteBase = 3
  SeqBytes = 3
  SID = SID
  RID = RID
  OtherKid = OtherKid
  NoKey = NoKey
  NoReq = NoReq
  MaxClientReqs = 2
  MaxDuplicates = 1
  MaxForgeries = 1
  MaxReboots = 0
  ForgedPivLens <- MCWellFormedPivLens
  ForgedCtLens <- MCWellFormedCtLens
  BufferFailures = FALSE
  LossyNetwork = FALSE
PROPERTY RequestsAnswered
\* The server idles once the bounded client and attacker are done.
CHECK_DEADLOCK FALSE
