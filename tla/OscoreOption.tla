---------------------------- MODULE OscoreOption ----------------------------
(***************************************************************************)
(* The OSCORE option value codec of c_OSCORE (codec/oscore_option.c):     *)
(* from_oscore_option, which from_oscore runs on a request's option, and  *)
(* to_oscore_option with option_value_length, which into_oscore runs for  *)
(* its response.  The value is the flag byte 000hknnn, n bytes of Partial *)
(* IV, with h a length byte s and s bytes of kid context, then the kid.   *)
(*                                                                         *)
(* A field of struct unprotected is its bytes and whether its pointer is  *)
(* set (NULL_ARRAY has none).  The client (not in src/) encodes per       *)
(* spec.md 4.8; that encoding is the reference.  MCOscoreOption checks    *)
(* the codec against it.                                                  *)
(***************************************************************************)
EXTENDS Naturals, Sequences

\* The buffers from_oscore and into_oscore hand to from_oscore_option.
PivCap == 8
KidCap == 7
KidContextCap == 16

Field(b) == [present |-> TRUE, bytes |-> b]
Absent == [present |-> FALSE, bytes |-> <<>>]

-----------------------------------------------------------------------------
(* oscore_option.c                                                         *)

\* Mutant: the kid context read from right after the PIV, over the s byte.
KidContextStartNoSkip(n, h) == 2 + n

\* Index of the first kid context byte: after the flag byte, the PIV and,
\* if h, the s byte (the `if (h) index++`).
KidContextStart(n, h) == 2 + n + h

\* from_oscore_option.  With h set, s is read at ptr[1 + n] before the
\* length is checked; when that is past the value, 1 + n + 1 + s exceeds
\* the length whatever byte is read, so the check fails.
from_oscore_option(v) ==
  IF Len(v) = 0 THEN [status |-> "InvalidOptionLength"]
  ELSE
    LET h == (v[1] \div 16) % 2
        n == v[1] % 8
        s == IF h # 0 /\ 1 + n < Len(v) THEN v[2 + n] ELSE 0
        len_without_kid == 1 + n + (IF h # 0 THEN 1 + s ELSE 0)
        c == KidContextStart(n, h)
    IN  IF Len(v) < len_without_kid THEN [status |-> "InvalidOptionLength"]
        ELSE IF PivCap < n THEN [status |-> "InvalidPartialIvLength"]
        ELSE IF KidCap < Len(v) - len_without_kid THEN [status |-> "InvalidKidLength"]
        ELSE IF KidContextCap < s THEN [status |-> "InvalidKidContextLength"]
        ELSE [status |-> "ok",
              partial_iv |-> SubSeq(v, 2, 1 + n),
              kid_context |-> SubSeq(v, c, c + s - 1),
              kid |-> SubSeq(v, c + s, Len(v))]

\* Mutant: the k flag shifted into the n bits.
KidFlagLowBit(kid) == IF kid.present THEN 4 ELSE 0

\* k = (kid.ptr != NULL) << 3
KidFlag(kid) == IF kid.present THEN 8 ELSE 0

option_value_length(u) ==
  1 + Len(u.partial_iv)
    + (IF u.kid_context.present THEN 1 + Len(u.kid_context.bytes) ELSE 0)
    + Len(u.kid.bytes)

\* to_oscore_option: a response carries no kid context, n < 8; the flag
\* byte, the PIV, the kid.
to_oscore_option(u) ==
  IF u.kid_context.present \/ u.kid_context.bytes # <<>>
  THEN [status |-> "KidContextError"]
  ELSE IF Len(u.partial_iv) >= 8 THEN [status |-> "InvalidPartialIvLength"]
  ELSE [status |-> "ok",
        value |-> <<KidFlag(u.kid) + Len(u.partial_iv)>> \o u.partial_iv \o u.kid.bytes]

-----------------------------------------------------------------------------
(* The peer (spec.md 4.8).                                                 *)

SpecEncode(u) ==
  <<(IF u.kid_context.present THEN 16 ELSE 0) + (IF u.kid.present THEN 8 ELSE 0)
      + Len(u.partial_iv)>>
    \o u.partial_iv
    \o (IF u.kid_context.present
        THEN <<Len(u.kid_context.bytes)>> \o u.kid_context.bytes ELSE <<>>)
    \o u.kid.bytes

====
