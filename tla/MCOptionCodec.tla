--------------------------- MODULE MCOptionCodec ---------------------------
(***************************************************************************)
(* Option sets for OptionCodec.  Numbers: Uri-Host 3, Observe 6,          *)
(* Uri-Port 7, If-Match 1, ETag 4, Uri-Path 11, Content-Format 12, Max-Age 14, Uri-Query 15,   *)
(* Block2 23, Proxy-Uri 35, Size1 60, Accept-Version 2049 (OCF).          *)
(* Requests come from port 5683 to a little-endian target.               *)
(*                                                                         *)
(* MCSpec checks the OSCORE option value codec first: from_oscore decodes *)
(* the options of clients, into_oscore encodes its own.  Field values:    *)
(* trimmed Partial IVs of 0 to 5 bytes, kids of 0, 1 and 7 bytes          *)
(* (7 = nonce length - 6), contexts of 0 to 2 bytes, and the server's own  *)
(* 1-byte SENDER_ID.  Then it runs the option exchange of Spec.           *)
(***************************************************************************)
EXTENDS OptionCodec

Opt(n, l) == [num |-> n, len |-> l]

\* Requests: outer and inner options interleaved (ETag 4 inside, between
\* Uri-Host 3 and Uri-Port 7, below OSCORE), deltas that need an
\* extended byte (35 -> 60), values of up to ValueCap bytes.
MCRequestOptions ==
  {Opt(3, 1), Opt(4, 1), Opt(7, 1), Opt(11, 1), Opt(11, ValueCap), Opt(15, 2), Opt(35, 2), Opt(60, 0)}

\* Options at the decoder's limits: a Uri-Path segment one byte longer
\* than a struct coap_option holds, and an option number that needs a
\* two-byte extended delta.
MCLimitRequestOptions == {Opt(3, 1), Opt(11, ValueCap + 1), Opt(2049, 1)}

\* A conditional request: If-Match and ETag (both repeatable, Class E,
\* numbered below OSCORE) as often as MaxOptions allows.
MCConditionalRequestOptions == {Opt(1, 1), Opt(4, 1)}

\* The response oscore_post builds: Content-Format.
MCPostResponseOptions == {Opt(12, 1)}

\* Responses of a resource with caching, Observe and block-wise transfer.
MCResponseOptions == {Opt(4, 1), Opt(6, 1), Opt(12, 1), Opt(14, 1), Opt(23, 1)}

\* Responses that also carry Class U options below and above OSCORE (9):
\* Observe 6, Proxy-Scheme 39, No-Response 258 (also Class E).
MCOuterResponseOptions ==
  {Opt(4, 1), Opt(6, 1), Opt(12, 1), Opt(14, 0), Opt(39, 1), Opt(258, 0)}

\* Class U options on both sides of OSCORE whose relative deltas
\* encode_options still classes right (Observe 6 below; No-Response 258,
\* Class E and U, above, reached by a delta of 244 to 252), with Max-Age
\* and the Content-Format oscore_post sends.  Proxy-Scheme 39 after any of
\* them has a relative delta of Class E and halts into_oscore
\* (option_response_classes), so it is left to that run.
MCExchangeResponseOptions == {Opt(6, 1), Opt(12, 1), Opt(14, 0), Opt(258, 0)}

\* Proxy-Uri URLs of at most ValueCap bytes, as ASCII codes:
\* "coap://h:1/p", "CoAP://h/p?q" and "coap://hh".
Url(scheme, host, port, path, query) ==
  [scheme |-> scheme, host |-> host, port |-> port, path |-> path, query |-> query,
   fragment |-> <<>>]
MCProxyUris ==
  { Url(<<99, 111, 97, 112>>, <<104>>, <<49>>, <<47, 112>>, <<>>),
    Url(<<67, 111, 65, 80>>, <<104>>, <<>>, <<47, 112>>, <<113>>),
    Url(<<99, 111, 97, 112>>, <<104, 104>>, <<>>, <<>>, <<>>) }

ProxyOpt(u) == [num |-> 35, len |-> Len(UrlBytes(u)), url |-> u]

\* The response set of the class runs, with a Proxy-Uri of each URL.
MCProxyResponseOptions == MCResponseOptions \cup {ProxyOpt(u) : u \in MCProxyUris}

-----------------------------------------------------------------------------
(* The OSCORE option value codec.                                          *)

MCPivs == {<<>>, <<0>>, <<7>>, <<1, 0>>, <<1, 2, 3, 4, 5>>}
MCKids == {<<>>, <<1>>, <<1, 2, 3, 4, 5, 6, 7>>}
MCKidContexts == {<<>>, <<9>>, <<9, 8>>}
MCServerPivs == {<<1>>, <<1, 0>>, <<2, 0, 0>>, <<1, 0, 0, 0, 0>>}
MCSenderId == <<1>>

Fields(S) == {Absent} \cup {Field(b) : b \in S}

OptionRequests ==
  [partial_iv : MCPivs, kid : Fields(MCKids), kid_context : Fields(MCKidContexts)]

\* into_oscore: { piv_stripped, sctx.sender_id, NULL_ARRAY }.
OptionResponses ==
  [partial_iv : MCServerPivs, kid : {Field(MCSenderId)}, kid_context : {Absent}]

NoUnprotected == [partial_iv |-> <<>>, kid |-> Absent, kid_context |-> Absent]

VARIABLES
  phase,        \* "codec", then "exchange"
  optRequest,   \* the unprotected fields a client puts in its request
  optDecoded,   \* what from_oscore_option makes of the option value
  optResponse,  \* the unprotected fields of the server's response
  optEncoded    \* what to_oscore_option writes

codecVars == <<optRequest, optDecoded, optResponse, optEncoded>>

CodecInit ==
  /\ optRequest = NoUnprotected
  /\ optDecoded = from_oscore_option(SpecEncode(NoUnprotected))
  /\ optResponse = NoUnprotected
  /\ optEncoded = to_oscore_option(NoUnprotected)

\* from_oscore reads the OSCORE option of a request.
CodecReceive ==
  \E u \in OptionRequests :
    /\ optRequest' = u
    /\ optDecoded' = from_oscore_option(SpecEncode(u))
    /\ UNCHANGED <<optResponse, optEncoded>>

\* into_oscore writes the OSCORE option of its response.
CodecSend ==
  \E u \in OptionResponses :
    /\ optResponse' = u
    /\ optEncoded' = to_oscore_option(u)
    /\ UNCHANGED <<optRequest, optDecoded>>

\* The codec phase ends and its variables go back to their initial values,
\* so the exchange phase does not multiply with them.
EndCodecPhase ==
  /\ phase' = "exchange"
  /\ optRequest' = NoUnprotected
  /\ optDecoded' = from_oscore_option(SpecEncode(NoUnprotected))
  /\ optResponse' = NoUnprotected
  /\ optEncoded' = to_oscore_option(NoUnprotected)

MCInit == Init /\ CodecInit /\ phase = "codec"

MCNext ==
  \/ /\ phase = "codec"
     /\ CodecReceive \/ CodecSend
     /\ UNCHANGED <<vars, phase>>
  \/ /\ phase = "codec"
     /\ EndCodecPhase
     /\ UNCHANGED vars
  \/ /\ phase = "exchange"
     /\ Next
     /\ UNCHANGED <<phase, codecVars>>

MCSpec == MCInit /\ [][MCNext]_<<vars, phase, codecVars>>

\* The option exchange alone.
ExchangeSpec == Init /\ CodecInit /\ phase = "exchange" /\ [][MCNext]_<<vars, phase, codecVars>>

\* from_oscore_option recovers the Partial IV, kid context and kid of every
\* option a client encodes with at most 7-byte kids and short contexts, so
\* the nonce and AAD of from_oscore are built from what the client sent.
RequestOptionDecoded ==
  /\ optDecoded.status = "ok"
  /\ optDecoded.partial_iv = optRequest.partial_iv
  /\ optDecoded.kid_context = optRequest.kid_context.bytes
  /\ optDecoded.kid = optRequest.kid.bytes

\* to_oscore_option writes exactly the bytes the client expects (h = 0,
\* k = 1, n = |piv|, PIV, kid), and option_value_length sized them.
ResponseOptionEncoded ==
  /\ optEncoded.status = "ok"
  /\ optEncoded.value = SpecEncode(optResponse)
  /\ Len(optEncoded.value) = option_value_length(optResponse)

=============================================================================
