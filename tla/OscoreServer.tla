---------------------------- MODULE OscoreServer ----------------------------
(***************************************************************************)
(* The OSCORE server endpoint of c_OSCORE and its surroundings.            *)
(*                                                                         *)
(* Server (src/): the process-wide security context built by oscore_init,  *)
(* the unprotect path from_oscore, the resource handler oscore_post with   *)
(* the protect path into_oscore, and reboots of the device (main runs      *)
(* oscore_init again).  Surroundings (not in src/, modelled from spec.md): *)
(* an OSCORE client that protects requests, and a network that loses,      *)
(* duplicates and reorders packets and carries packets forged by an       *)
(* attacker who holds no key.                                             *)
(*                                                                         *)
(* Data is abstracted to what the properties tell apart: a key is the id   *)
(* it was derived for, a nonce is the pair (id_piv, Partial IV) it is      *)
(* built from (create_nonce is injective on trimmed PIVs), an AEAD         *)
(* ciphertext is a record of the key, nonce and AAD it was sealed under,   *)
(* and opens exactly under those.  Bytes of the sequence number keep their *)
(* carry structure with ByteBase values per byte.                          *)
(***************************************************************************)
EXTENDS Naturals, Sequences, FiniteSets, Bags, SequencesExt, Functions

CONSTANTS
  ByteBase,       \* values of one byte of sender_seq_num (256 in the code)
  SeqBytes,       \* bytes of sender_seq_num (5 in the code)
  SID,            \* SENDER_ID of the server (01 in oscore.c)
  RID,            \* RECIPIENT_ID of the server (empty in oscore.c)
  OtherKid,       \* a kid that names no context of the server
  NoKey,          \* the "key" of a ciphertext forged without any key
  NoReq,          \* no decrypted request is waiting for its handler
  MaxClientReqs,  \* bound: requests the client sends
  MaxDuplicates,  \* bound: packet copies the network makes
  MaxForgeries,   \* bound: packets the attacker forges
  MaxReboots,     \* bound: reboots of the server
  ForgedPivLens,  \* values of the n field the attacker writes (0..7)
  ForgedCtLens,   \* payload lengths of forged packets
  BufferFailures, \* whether net_pkt allocation and appends may fail
  LossyNetwork    \* whether the network may lose packets

ASSUME /\ ByteBase \in Nat /\ ByteBase >= 2
       /\ SeqBytes \in 2..5
       /\ BufferFailures \in BOOLEAN /\ LossyNetwork \in BOOLEAN
       /\ ForgedPivLens \subseteq 0..7
       /\ ForgedCtLens \subseteq Nat \ {0}

Bytes == 0..ByteBase - 1
Kids == {SID, RID, OtherKid}
Tokens == 0..MaxClientReqs

\* Ciphertext length of an honest request: its CoAP code, Uri-Path options
\* and the 8-byte tag.
RequestCtLen == 16

\* Ciphertext length of the response oscore_post builds: code, the
\* Content-Format option (2 bytes), payload marker, "Hello World!", tag.
ResponseCtLen == 1 + 2 + 1 + 12 + 8

VARIABLES
  sender_seq_num, \* sctx.sender_seq_num, index 0 is the most significant byte
  pending,        \* decrypted request handed to oscore_post, or NoReq
  halted,         \* the server ran into undefined behaviour and stopped
  reboots,        \* reboots so far (the boot epoch)
  sealLog,        \* history: boot and nonce of every response sent
  accepted,       \* history: (kid, PIV) of every request handed to oscore_post
  cseq,           \* client: its sender sequence number
  msgs,           \* network: bag of packets in flight
  dups,           \* network: copies made so far
  forgeries       \* attacker: packets forged so far

server == <<sender_seq_num, pending, halted, reboots>>
history == <<sealLog, accepted>>
client == <<cseq>>
network == <<msgs, dups, forgeries>>
vars == <<server, history, client, network>>

-----------------------------------------------------------------------------
(* Security context (security_context.c, oscore.c).                        *)

\* derive(pre, id, id_context, KEY, out): HKDF over the fixed master secret,
\* salt and id context, so the key is determined by the id alone.
DeriveKey(id) == <<"Key", id>>

sender_key == DeriveKey(SID)
recipient_key == DeriveKey(RID)

\* derive_sender_context sets .sender_seq_num = { 0 } and loads nothing.
SeqZero == [i \in 0..SeqBytes - 1 |-> 0]

\* Big-endian value of a byte sequence.
BytesValue(bs) == FoldLeft(LAMBDA acc, b : acc * ByteBase + b, 0, bs)

SeqValue(s) == BytesValue([k \in 1..SeqBytes |-> s[k - 1]])

\* Mutants of the increment loop, each a slip a C programmer could make:
\* testing the byte about to be incremented instead of the one just
\* incremented, starting one byte too far left, and keeping the byte in a
\* wider integer so that it does not wrap.
RECURSIVE IncrementFromNextByte(_, _)
IncrementFromNextByte(s, index) ==
  LET t == [s EXCEPT ![index] = (@ + 1) % ByteBase]
  IN  IF index - 1 > 0 /\ t[index - 1] = 0 THEN IncrementFromNextByte(t, index - 1) ELSE t

IncrementFromNoWrap(s, index) == [s EXCEPT ![index] = @ + 1]

\* The increment loop of into_oscore:
\*   index = sizeof - 1; do { seq[index] += 1; index--; }
\*   while (index > 0 && seq[index+1] == 0);
RECURSIVE IncrementFrom(_, _)
IncrementFrom(s, index) ==
  LET t == [s EXCEPT ![index] = (@ + 1) % ByteBase]
  IN  IF index - 1 > 0 /\ t[index] = 0 THEN IncrementFrom(t, index - 1) ELSE t

IncrementSeqNumOffByOne(s) == IncrementFrom(s, SeqBytes - 2)

IncrementSeqNum(s) == IncrementFrom(s, SeqBytes - 1)

\* while (seq[piv_leading_zeroes] == 0) piv_leading_zeroes++; has no bound:
\* on an all-zero counter it reads past the end of sender_seq_num.
StripRunsOff(s) == \A i \in DOMAIN s : s[i] = 0

\* Mutant: the PIV cut to the least significant byte of the counter.
StripLeadingZerosLowByte(s) == <<s[SeqBytes - 1]>>

\* piv_stripped: the counter from its first non-zero byte on.
StripLeadingZeros(s) ==
  LET z == CHOOSE i \in DOMAIN s : s[i] # 0 /\ \A j \in 0..i - 1 : s[j] = 0
  IN  [k \in 1..SeqBytes - z |-> s[z + k - 1]]

-----------------------------------------------------------------------------
(* Nonce, AAD and AEAD (nonce.c, aad.c, oscore_cose.c, aes.c).             *)

\* partial_iv_bytes is zero-initialised, so an empty PIV reads a 0 here.
FirstPivByte(piv) == IF piv = <<>> THEN 0 ELSE piv[1]

\* Mutant: the trimmed check without its exception for a single byte, so
\* the PIV 0 is refused.
NonceOutcomeNoSingleByte(piv) ==
  IF FirstPivByte(piv) = 0 THEN "untrimmed"
  ELSE IF Len(piv) > 5 THEN "overflow"
  ELSE "ok"

\* Outcome of create_nonce: the trimmed check, then the memcpy into the
\* 5-byte padded_piv at index 5 - len, which writes out of bounds for len > 5.
NonceOutcome(piv) ==
  IF ~(Len(piv) = 1 \/ FirstPivByte(piv) # 0) THEN "untrimmed"
  ELSE IF Len(piv) > 5 THEN "overflow"
  ELSE "ok"

create_nonce(id_piv, piv) == <<id_piv, piv>>

\* create_aad: [1, [alg], request_kid, request_piv, h''] (Class I is empty).
create_aad(kid, piv) == <<kid, piv>>

\* A ciphertext of len bytes holding the plaintext pt (its CoAP code and
\* Uri-Path, the Class E part of the message).
Seal(key, nonce, aad, pt, len) ==
  [key |-> key, nonce |-> nonce, aad |-> aad, pt |-> pt, len |-> len]

Opens(ct, key, nonce, aad) ==
  ct.key = key /\ ct.nonce = nonce /\ ct.aad = aad

\* A packet: its CoAP header (type, token, message id, code), whether it
\* has an OSCORE option, that option's kid and PIV, and the payload.
Packet(kind, hdr, oscore, kid, piv, ct) ==
  [kind |-> kind, hdr |-> hdr, oscore |-> oscore, kid |-> kid,
   piv |-> piv, ct |-> ct]

-----------------------------------------------------------------------------
(* The CoAP header and the resources (oscore.c, oscore_post.c,            *)
(* resources.h).                                                           *)

\* init_decrypted_packet: version, type, token and message id of the
\* request, with the coap_code decrypted from the plaintext; the merged
\* options carry the inner Uri-Path and the outer OSCORE option.
init_decrypted_packet(m) ==
  [kind |-> "req", hdr |-> [m.hdr EXCEPT !.code = m.ct.pt.code],
   path |-> m.ct.pt.path, kid |-> m.kid, piv |-> m.piv]

\* resources[] of resources.h: each path with its method handlers.  Only
\* oscore_post is in src/; the others are named.
resources ==
  << [path |-> <<"test">>, h |-> ("GET" :> "piggyback_get") @@ ("POST" :> "test_post")
                                 @@ ("DELETE" :> "test_del") @@ ("PUT" :> "test_put")],
     [path |-> <<"seg1", "seg2", "seg3">>, h |-> ("GET" :> "piggyback_get")],
     [path |-> <<"query">>, h |-> ("GET" :> "query_get")],
     [path |-> <<"separate">>, h |-> ("GET" :> "separate_get")],
     [path |-> <<"large">>, h |-> ("GET" :> "large_get")],
     [path |-> <<"location-query">>, h |-> ("POST" :> "location_query_post")],
     [path |-> <<"large-update">>, h |-> ("PUT" :> "large_update_put")],
     [path |-> <<"large-create">>, h |-> ("POST" :> "large_create_post")],
     [path |-> <<"obs">>, h |-> ("GET" :> "obs_get")],
     [path |-> <<".well-known", "core">>, h |-> ("GET" :> "well_known_core_get")],
     [path |-> <<".well-known", "core">>, h |-> ("GET" :> "well_known_core_get")],
     [path |-> <<"core1">>, h |-> ("GET" :> "core_get")],
     [path |-> <<"core2">>, h |-> ("GET" :> "core_get")],
     [path |-> <<"oscore", "hello", "1">>, h |-> ("GET" :> "oscore_post")] >>

\* coap_handle_request (Zephyr, not in src/): the first resource whose
\* path is the request's Uri-Path, and its handler for the request's code.
Handler(req) ==
  LET hits == {i \in DOMAIN resources : resources[i].path = req.path}
      r == resources[Min(hits)]
  IN  CASE hits = {} -> "not_found"
        [] req.hdr.code \notin DOMAIN r.h -> "method_not_allowed"
        [] OTHER -> r.h[req.hdr.code]

\* Mutant: every response piggybacked, as if all requests were CON.
ResponseTypeAlwaysAck(type) == "ACK"

\* oscore_post: type = CON ? ACK : NON_CON.
ResponseType(type) == IF type = "CON" THEN "ACK" ELSE "NON"

\* oscore_post's coap_packet_init: the request's token and id, 2.05
\* Content; its payload is Content-Format and "Hello World!".
oscore_post_header(req) ==
  [type |-> ResponseType(req.hdr.type), token |-> req.hdr.token,
   mid |-> req.hdr.mid, code |-> "2.05"]

ResponsePlaintext == [code |-> "2.05", path |-> <<>>]

\* init_encrypted_packet: the response's version, type, token and id with
\* code_faked = COAP_RESPONSE_CODE_CHANGED.
init_encrypted_packet(hdr) == [hdr EXCEPT !.code = "2.04"]

-----------------------------------------------------------------------------
(* Server.                                                                 *)

Init ==
  /\ sender_seq_num = SeqZero
  /\ pending = NoReq
  /\ halted = FALSE
  /\ reboots = 0
  /\ sealLog = <<>>
  /\ accepted = <<>>
  /\ cseq = 0
  /\ msgs = EmptyBag
  /\ dups = 0
  /\ forgeries = 0

\* from_oscore(m): the checks in the order of the code, then decryption.
\* A request reaches create_nonce when it has an OSCORE option, a payload
\* and kid = recipient_id; the plaintext buffer ciphertext.len - 8 is then
\* declared, which underflows for a payload shorter than the tag.
from_oscore(m) ==
  /\ ~halted
  /\ pending = NoReq
  /\ BagIn(m, msgs)
  /\ m.kind = "req"
  /\ msgs' = msgs (-) SetToBag({m})
  /\ LET reaches == m.oscore /\ m.kid = RID
         outcome == NonceOutcome(m.piv)
         decrypts == Opens(m.ct, recipient_key, create_nonce(m.kid, m.piv),
                           create_aad(RID, m.piv))
     IN  \/ /\ \/ ~reaches
               \/ outcome = "untrimmed"
               \/ outcome = "ok" /\ m.ct.len >= 8 /\ ~decrypts
            /\ UNCHANGED <<pending, halted, accepted>>
         \/ /\ reaches
            /\ \/ outcome = "overflow"
               \/ outcome = "ok" /\ m.ct.len < 8
            /\ halted' = TRUE
            /\ UNCHANGED <<pending, accepted>>
         \/ /\ reaches /\ outcome = "ok" /\ m.ct.len >= 8 /\ decrypts
            /\ \/ /\ pending' = init_decrypted_packet(m)
                  /\ accepted' = Append(accepted, <<m.kid, m.piv>>)
               \* init_decrypted_packet: no packet buffer, or an append fails
               \/ /\ BufferFailures
                  /\ UNCHANGED <<pending, accepted>>
            /\ UNCHANGED halted
  /\ UNCHANGED <<sender_seq_num, reboots, sealLog, client, dups, forgeries>>

\* coap_handle_request dispatches the decrypted request by its Uri-Path
\* and code; for oscore_post, that builds the response and
\* into_oscore(response, request) protects it: the request's OSCORE option, the increment, the strip, the
\* nonce (create_nonce accepts piv_stripped, which is trimmed and at most 5
\* bytes), plaintext, AAD from the request's kid and PIV, encryption under
\* sender_key, the OSCORE option (sender id, piv_stripped), then
\* init_encrypted_packet and write_class_u_options; oscore_post sends the
\* result.  A packet buffer or append that fails in oscore_post ends before
\* the increment; one that fails after encryption leaves it consumed.
into_oscore ==
  /\ ~halted
  /\ pending # NoReq
  /\ pending' = NoReq
  /\ IF Handler(pending) # "oscore_post"
     \* another handler, or Zephyr's 4.04 / 4.05, answers without OSCORE
     THEN UNCHANGED <<sender_seq_num, halted, sealLog, msgs>>
     ELSE
       /\ \/ /\ BufferFailures
             /\ UNCHANGED <<sender_seq_num, halted, sealLog, msgs>>
          \/ LET s == IncrementSeqNum(sender_seq_num) IN
             /\ sender_seq_num' = s
             /\ \/ /\ StripRunsOff(s)
                   /\ halted' = TRUE
                   /\ UNCHANGED <<sealLog, msgs>>
                \/ /\ ~StripRunsOff(s)
                   /\ LET piv == StripLeadingZeros(s)
                          nonce == create_nonce(SID, piv)
                          ct == Seal(sender_key, nonce, create_aad(pending.kid, pending.piv),
                                     ResponsePlaintext, ResponseCtLen)
                          hdr == init_encrypted_packet(oscore_post_header(pending))
                      IN  /\ sealLog' = Append(sealLog, [boot |-> reboots, nonce |-> nonce])
                          /\ \/ msgs' = msgs (+) SetToBag({Packet("resp", hdr, TRUE, SID, piv, ct)})
                             \/ /\ BufferFailures
                                /\ UNCHANGED msgs
                   /\ UNCHANGED halted
  /\ UNCHANGED <<reboots, accepted, client, dups, forgeries>>

\* The device restarts: main calls oscore_init, which derives the contexts
\* again with a zero sequence number; RAM state is lost.
oscore_init ==
  /\ reboots < MaxReboots
  /\ reboots' = reboots + 1
  /\ sender_seq_num' = SeqZero
  /\ pending' = NoReq
  /\ halted' = FALSE
  /\ UNCHANGED <<history, client, network>>

-----------------------------------------------------------------------------
(* Client and network (outside src/, modelled from spec.md 4.11, 4.12).    *)

\* Trimmed big-endian encoding of a sequence number; 0 is <<0>>.
RECURSIVE PivOf(_)
PivOf(v) == IF v < ByteBase THEN <<v>> ELSE Append(PivOf(v \div ByteBase), v % ByteBase)

\* The client's n-th request: CON and NON in turn, message ids from
\* ClientMid0 on, token n, outer code POST (RFC 8613 section 4.2); inside,
\* GET on the OSCORE resource's path.
ClientMid0 == 16
ClientHeader(n) ==
  [type |-> IF n % 2 = 0 THEN "CON" ELSE "NON", token |-> n,
   mid |-> ClientMid0 + n, code |-> "POST"]
ClientPlaintext == [code |-> "GET", path |-> <<"oscore", "hello", "1">>]

ClientSend ==
  /\ cseq < MaxClientReqs
  /\ LET piv == PivOf(cseq)
         ct == Seal(DeriveKey(RID), create_nonce(RID, piv), create_aad(RID, piv),
                    ClientPlaintext, RequestCtLen)
     IN  msgs' = msgs (+) SetToBag({Packet("req", ClientHeader(cseq), TRUE, RID, piv, ct)})
  /\ cseq' = cseq + 1
  /\ UNCHANGED <<server, history, dups, forgeries>>

Duplicate(m) ==
  /\ dups < MaxDuplicates
  /\ BagIn(m, msgs)
  /\ msgs' = msgs (+) SetToBag({m})
  /\ dups' = dups + 1
  /\ UNCHANGED <<server, history, client, forgeries>>

Lose(m) ==
  /\ LossyNetwork
  /\ BagIn(m, msgs)
  /\ msgs' = msgs (-) SetToBag({m})
  /\ UNCHANGED <<server, history, client, dups, forgeries>>

\* A request forged without a key: any OSCORE option the attacker likes,
\* behind the header of the client's first request.
Forge ==
  /\ forgeries < MaxForgeries
  /\ \E o \in BOOLEAN, k \in Kids, n \in ForgedPivLens, b \in {0, 1}, l \in ForgedCtLens :
       msgs' = msgs (+) SetToBag({Packet("req", ClientHeader(0), o, k, [i \in 1..n |-> b],
                                          Seal(NoKey, <<>>, <<>>, ClientPlaintext, l))})
  /\ forgeries' = forgeries + 1
  /\ UNCHANGED <<server, history, client, dups>>

Next ==
  \/ \E m \in BagToSet(msgs) : from_oscore(m)
  \/ into_oscore
  \/ oscore_init
  \/ ClientSend
  \/ \E m \in BagToSet(msgs) : Duplicate(m) \/ Lose(m)
  \/ Forge

Spec == Init /\ [][Next]_vars

\* The Zephyr network thread hands every received packet to from_oscore
\* and runs oscore_post to completion before the next one: the server's
\* steps are weakly fair.  The client, network, attacker and reboots are not.
FairSpec ==
  /\ Spec
  /\ WF_vars(\E m \in BagToSet(msgs) : from_oscore(m))
  /\ WF_vars(into_oscore)

-----------------------------------------------------------------------------
(* Properties.                                                             *)

IsPiv(p) == Len(p) <= 7 /\ \A i \in DOMAIN p : p[i] \in Bytes

TypeOK ==
  /\ sender_seq_num \in [0..SeqBytes - 1 -> Bytes]
  /\ pending = NoReq \/ (pending.kind = "req" /\ IsPiv(pending.piv))
  /\ halted \in BOOLEAN
  /\ reboots \in 0..MaxReboots
  /\ \A i \in DOMAIN sealLog : sealLog[i].boot \in 0..MaxReboots
  /\ accepted \in Seq(Kids \X Seq(Bytes))
  /\ cseq \in 0..MaxClientReqs
  /\ IsABag(msgs)
  /\ dups \in 0..MaxDuplicates
  /\ forgeries \in 0..MaxForgeries

\* No two responses the server sent were sealed under the same nonce with
\* its sender key: the increment and trimming in into_oscore must produce
\* a fresh PIV for every protect, whatever duplicates and forgeries arrive.
NonceUnique ==
  \A i, j \in DOMAIN sealLog : i # j => sealLog[i].nonce # sealLog[j].nonce

\* The same, only for responses sent within one boot of the device.
NonceUniqueWithinBoot ==
  \A i, j \in DOMAIN sealLog :
    i # j /\ sealLog[i].boot = sealLog[j].boot => sealLog[i].nonce # sealLog[j].nonce

\* A request (kid, Partial IV) is handed to the application at most once:
\* from_oscore must reject a replayed or duplicated request (spec 3, 5).
AtMostOnce == IsInjective(accepted)

\* No packet, forged or not, drives from_oscore or into_oscore into
\* undefined behaviour (out-of-bounds reads or writes, size underflow).
NoUndefinedBehaviour == ~halted

\* Every response on the network answers a request the client sent, in
\* CoAP's terms (RFC 7252 sections 4.2, 4.3, 5.3.2): its token and message
\* id, an ACK to a CON and a NON to a NON, and the fixed outer code 2.04
\* Changed (spec 6).  The header travels from the request through
\* init_decrypted_packet, the dispatch, oscore_post and
\* init_encrypted_packet.
ResponsesMatchRequests ==
  \A r \in BagToSet(msgs) :
    r.kind = "resp" =>
      LET q == ClientHeader(r.hdr.token)
      IN  /\ r.hdr.token < cseq
          /\ r.hdr.mid = q.mid
          /\ r.hdr.type = (IF q.type = "CON" THEN "ACK" ELSE "NON")
          /\ r.hdr.code = "2.04"

\* The byte array sender_seq_num, read as a big-endian number, behaves as
\* the Sender Sequence Number of the specification.
SenderSeq == INSTANCE SenderSequence
               WITH seqNo <- SeqValue(sender_seq_num), SeqLimit <- ByteBase ^ SeqBytes

SenderSequenceSpec == SenderSeq!Spec

\* The client's check of a response to its request t: the token, then
\* the AEAD under its Recipient Key (the server's Sender Key), the nonce
\* of the response's kid and PIV, and the AAD of its own request's kid
\* and PIV (spec 4.10, 4.12).
ClientAccepts(r, t) ==
  /\ r.kind = "resp" /\ r.oscore /\ r.hdr.token = t
  /\ Opens(r.ct, DeriveKey(SID), create_nonce(r.kid, r.piv), create_aad(RID, PivOf(t)))

\* Every request the client sends is eventually answered by a response in
\* the network that the client accepts for it (spec 4.10, 4.11), when
\* packets are neither lost nor dropped for want of buffers: from_oscore
\* must accept the client's nonce and AAD, and into_oscore, run fairly,
\* must seal a response under the server's key and nonce and the AAD of
\* that request, and send it with the request's token.
Answered(t) == \E r \in BagToSet(msgs) : ClientAccepts(r, t)

RequestsAnswered == \A t \in Tokens : t < cseq ~> Answered(t)

=============================================================================
