--------------------------- MODULE MCOscoreServer ---------------------------
(***************************************************************************)
(* Model-checking instances of OscoreServer.  The byte width is cut to a   *)
(* few values per byte so that carries and the counter's wrap happen       *)
(* within a handful of messages; the counter keeps its 5-byte layout or a  *)
(* 3-byte one where only the carry structure matters.                      *)
(***************************************************************************)
EXTENDS OscoreServer

\* Well-formed forgeries: PIVs of at most 5 bytes, payloads at least a tag.
MCWellFormedPivLens == {0, 1, 2}
MCWellFormedCtLens == {16}

\* Malformed forgeries: a 6-byte PIV (n = 6) and a payload shorter than the tag.
MCMalformedPivLens == {1, 6}
MCMalformedCtLens == {4, 16}

=============================================================================
