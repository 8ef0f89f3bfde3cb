--------------------------- MODULE SenderSequence ---------------------------
(***************************************************************************)
(* What the OSCORE specification promises of a Sender Sequence Number      *)
(* (spec.md, sections 3, 4.11 and 8): it starts at zero, every protect    *)
(* advances it by exactly one, it survives restarts (so no step ever      *)
(* lowers it), and at its limit the sender stops (fail-stop) instead of   *)
(* wrapping around.  OscoreServer is checked to implement this module.     *)
(***************************************************************************)
EXTENDS Naturals

CONSTANT SeqLimit      \* number of values of the counter (2^40 for 5 bytes)

ASSUME SeqLimit \in Nat \ {0}

VARIABLE seqNo

Init == seqNo = 0

\* One protect: the next value, which must still be below the limit.
Advance ==
  /\ seqNo + 1 < SeqLimit
  /\ seqNo' = seqNo + 1

Spec == Init /\ [][Advance]_seqNo

=============================================================================
