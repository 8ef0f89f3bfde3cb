--------------------------- MODULE SecurityContext ---------------------------
(***************************************************************************)
(* Start-up of c_OSCORE: main (main.c) runs the HKDF self tests and then  *)
(* oscore_init (oscore/oscore.c), which derives the Common IV, the Sender *)
(* Key and the Recipient Key in that order.  Each derivation is derive    *)
(* (crypto/security_context.c): it sizes the HKDF info with hkdf_info_len, *)
(* writes it into a buffer of exactly that size with create_hkdf_info     *)
(* (codec/hkdf_info.c), and runs hkdf_sha256, whose block loop is the one *)
(* of module Hkdf.                                                         *)
(*                                                                         *)
(* The info is kept as its list of CBOR data items, and its encoded size  *)
(* is computed from TinyCBOR's head and string lengths.  The two passes   *)
(* each carry their own switch on the derive type; those tables are kept  *)
(* apart, as in the code.                                                  *)
(***************************************************************************)
EXTENDS Hkdf, SequencesExt, TLC

CONSTANTS
  PreEstablished,  \* pre_established values oscore_init may be called with
  NULL             \* a NULL common_id_context.ptr

AES_CCM_16_64_128 == 10   \* enum aead_algorithm

\* main calls test_hkdf_sha256_tc1 and test_hkdf_sha256_tc2 before oscore_init.
SelfTests == 2

-----------------------------------------------------------------------------
(* CBOR encoded sizes (TinyCBOR, definite lengths).                        *)

\* The initial byte plus the 0, 1, 2, 4 or 8 byte argument of a head.
CborHeadLen(v) ==
  CASE v < 24      -> 1
    [] v < 256     -> 2
    [] v < 65536   -> 3
    [] v < 2^32    -> 5
    [] OTHER       -> 9

\* Text strings are only the derive type names.
TextLen == ("KEY" :> 3) @@ ("Key" :> 3) @@ ("IV" :> 2)

CborItemLen(it) ==
  CASE it.major = "bstr" -> CborHeadLen(Len(it.val)) + Len(it.val)
    [] it.major = "tstr" -> CborHeadLen(TextLen[it.val]) + TextLen[it.val]
    [] it.major = "uint" -> CborHeadLen(it.val)
    [] it.major = "null" -> 1

\* An array: its head, then its items; closing it adds nothing.
CborArrayLen(items) ==
  FoldLeft(LAMBDA acc, it : acc + CborItemLen(it), CborHeadLen(Len(items)), items)

-----------------------------------------------------------------------------
(* codec/hkdf_info.c                                                       *)

\* [id, id_context or null, aead_alg, type, l] with the type's text and l.
InfoItems(id, id_context, aead_alg, p) ==
  << [major |-> "bstr", val |-> id],
     IF id_context = NULL THEN [major |-> "null", val |-> 0]
                          ELSE [major |-> "bstr", val |-> id_context],
     [major |-> "uint", val |-> aead_alg],
     [major |-> "tstr", val |-> p.text],
     [major |-> "uint", val |-> p.l] >>

\* The switch of hkdf_info_len.
DeriveParamsLen == [KEY |-> [text |-> "KEY", l |-> 16], IV |-> [text |-> "IV", l |-> 13]]

\* Mutant: the id_context item left out of the length pass.
hkdf_info_len_NoContext(id, id_context, aead_alg, type) ==
  CborArrayLen(SelectSeq(InfoItems(id, id_context, aead_alg, DeriveParamsLen[type]),
                         LAMBDA it : it.major # "null"))

\* Encoding into a NULL buffer: every call reports CborErrorOutOfMemory,
\* as try_cbor_oom expects, and the size is the extra bytes needed.
hkdf_info_len(id, id_context, aead_alg, type) ==
  CborArrayLen(InfoItems(id, id_context, aead_alg, DeriveParamsLen[type]))

\* Mutant: the IV case of create_hkdf_info copied from the KEY case's l.
DeriveParamsIvL16 == [KEY |-> [text |-> "Key", l |-> 16], IV |-> [text |-> "IV", l |-> 16]]

\* The switch of create_hkdf_info.
DeriveParams == [KEY |-> [text |-> "Key", l |-> 16], IV |-> [text |-> "IV", l |-> 13]]

\* Encoding into out.len bytes: try_cbor turns the CborErrorOutOfMemory of
\* an item that does not fit into OscoreCborError.
create_hkdf_info(id, id_context, aead_alg, type, len) ==
  LET items == InfoItems(id, id_context, aead_alg, DeriveParams[type])
  IN  IF CborArrayLen(items) <= len THEN [err |-> "OscoreNoError", info |-> items]
                                    ELSE [err |-> "OscoreCborError", info |-> <<>>]

-----------------------------------------------------------------------------
(* crypto/security_context.c and oscore_init                                *)

\* derive_common_context, derive_sender_context, derive_recipient_context:
\* id, derive type and the size of the output array each passes to derive.
DeriveCalls(pre) ==
  << [id |-> <<>>,             type |-> "IV",  len |-> 13],
     [id |-> pre.sender_id,    type |-> "KEY", len |-> 16],
     [id |-> pre.recipient_id, type |-> "KEY", len |-> 16] >>

VARIABLES
  pre,         \* the pre_established argument of oscore_init
  selfTests,   \* HKDF self tests main has run
  phase,       \* "main", "init" (inside oscore_init), "returned"
  k,           \* the derive_*_context oscore_init is in
  inHkdf,      \* derive waits for its hkdf_sha256 call
  info,        \* the info derive wrote
  derived,     \* the contexts written to *out so far
  initResult   \* what oscore_init returned

scVars == <<pre, selfTests, phase, k, inHkdf, info, derived, initResult>>
allVars == <<vars, scVars>>

SCInit ==
  /\ Init
  /\ pre \in PreEstablished
  /\ selfTests = 0
  /\ phase = "main"
  /\ k = 1
  /\ inHkdf = FALSE
  /\ info = <<>>
  /\ derived = <<>>
  /\ initResult = "none"

\* oscore_init returning err: try propagates the first error.
Return(err) ==
  /\ phase' = "returned"
  /\ initResult' = err

\* test_hkdf_sha256_tc1 / tc2: a direct hkdf_sha256 call.
SelfTest ==
  /\ phase = "main"
  /\ selfTests < SelfTests
  /\ \E len \in OutLens : hkdf_sha256(len)
  /\ selfTests' = selfTests + 1
  /\ UNCHANGED <<pre, phase, k, inHkdf, info, derived, initResult>>

\* main calls oscore_init(PRE_ESTABLISHED) once the self tests are done.
oscore_init ==
  /\ phase = "main"
  /\ selfTests = SelfTests
  /\ status # "running"
  /\ phase' = "init"
  /\ k' = 1
  /\ UNCHANGED <<vars, pre, selfTests, inHkdf, info, derived, initResult>>

\* derive up to its hkdf_sha256 call: ensure(out.len != 0), the length
\* pass, the VLA of that size, the write pass, then the HKDF call.
derive ==
  /\ phase = "init"
  /\ ~inHkdf
  /\ LET c == DeriveCalls(pre)[k]
         w == create_hkdf_info(c.id, pre.common_id_context, AES_CCM_16_64_128, c.type,
                               hkdf_info_len(c.id, pre.common_id_context, AES_CCM_16_64_128, c.type))
         err == IF c.len = 0 THEN "OscoreInvalidOutLength" ELSE w.err
     IN  IF err = "OscoreNoError"
         THEN /\ hkdf_sha256(c.len)
              /\ info' = w.info
              /\ inHkdf' = TRUE
              /\ UNCHANGED <<phase, initResult>>
         ELSE /\ Return(err)
              /\ UNCHANGED <<vars, info, inHkdf>>
  /\ UNCHANGED <<pre, selfTests, k, derived>>

\* hkdf_sha256 has returned: derive returns its result, the caller
\* derive_*_context writes the context and oscore_init goes on to the next.
derive_return ==
  /\ phase = "init"
  /\ inHkdf
  /\ status \notin {"idle", "running"}
  /\ inHkdf' = FALSE
  /\ IF status = "ok"
     THEN /\ derived' = Append(derived, [type |-> DeriveCalls(pre)[k].type, info |-> info,
                                         len |-> outLen, blocks |-> blocks])
          /\ IF k = Len(DeriveCalls(pre))
             THEN Return("OscoreNoError") /\ UNCHANGED k
             ELSE k' = k + 1 /\ UNCHANGED <<phase, initResult>>
     ELSE /\ Return(status)
          /\ UNCHANGED <<derived, k>>
  /\ UNCHANGED <<vars, pre, selfTests, info>>

SCNext ==
  \/ SelfTest
  \/ oscore_init
  \/ derive
  \/ derive_return
  \/ ExpandStep /\ UNCHANGED scVars

SCSpec == SCInit /\ [][SCNext]_allVars

\* main runs on one thread to completion: every step it can take, it takes.
SCFairSpec == SCSpec /\ WF_allVars(SCNext)

-----------------------------------------------------------------------------
(* RFC 8613 section 3.2.1.                                                  *)

\* info = [id: bstr, id_context: bstr / nil, alg_aead: int, type: "Key" /
\* "IV", L: uint], L the key or nonce length of alg_aead in bytes.
RfcType == [KEY |-> "Key", IV |-> "IV"]
RfcL == [KEY |-> 16, IV |-> 13]

RfcInfo(id, id_context, type) ==
  << [major |-> "bstr", val |-> id],
     IF id_context = NULL THEN [major |-> "null", val |-> 0]
                          ELSE [major |-> "bstr", val |-> id_context],
     [major |-> "uint", val |-> AES_CCM_16_64_128],
     [major |-> "tstr", val |-> RfcType[type]],
     [major |-> "uint", val |-> RfcL[type]] >>

-----------------------------------------------------------------------------
(* Properties.                                                             *)

\* Once oscore_init has returned OscoreNoError, the Common IV, Sender Key
\* and Recipient Key it derived are each the first L octets of HKDF over
\* the RFC 8613 info for that id and type, with the L written in the info
\* equal to the size of the array derive_*_context filled.
InitDerivesRfc8613 ==
  initResult = "OscoreNoError" =>
    /\ Len(derived) = Len(DeriveCalls(pre))
    /\ \A n \in 1..Len(derived) :
         LET c == DeriveCalls(pre)[n]
         IN  /\ derived[n].info = RfcInfo(c.id, pre.common_id_context, c.type)
             /\ derived[n].len = RfcL[c.type]
             /\ derived[n].blocks = RfcExpand(RfcL[c.type])

\* main asserts oscore_init(PRE_ESTABLISHED) == OscoreNoError: whatever
\* ids and id context it is given, the size counted by hkdf_info_len fits
\* what create_hkdf_info writes, and oscore_init returns OscoreNoError.
OscoreInitSucceeds == <>(initResult = "OscoreNoError")

====
