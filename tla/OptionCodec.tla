---------------------------- MODULE OptionCodec ----------------------------
(***************************************************************************)
(* The CoAP option codec of c_OSCORE (oscore/options.c) and the option    *)
(* steps of from_oscore and into_oscore that use it: decoding the Class E *)
(* options of a decrypted plaintext and merging them with the outer       *)
(* options, and splitting a response's options into the encrypted Class E *)
(* bytes and the outer Class U options with the OSCORE option.            *)
(*                                                                         *)
(* An option the code handles is a struct coap_option: a delta relative   *)
(* to the previous option and a value (at most ValueCap bytes).  Byte     *)
(* strings are sequences of numbers in 0..255.  The peer (an OSCORE       *)
(* client, not in src/) encodes per RFC 7252 section 3.1; that encoding is *)
(* minimal and hence canonical, so it is the reference the server's bytes *)
(* are compared with.  The OSCORE option's value goes through the codec  *)
(* of OscoreOption, as in into_oscore.                                     *)
(***************************************************************************)
EXTENDS Naturals, Sequences, SequencesExt, OscoreOption, CoapUri

CONSTANTS
  RequestOptions,   \* [num, len] of options the client may put in a request
  ResponseOptions,  \* [num, len] of options a resource may put in a response
  MaxOptions        \* bound: options per message

ValueCap == 12      \* sizeof(struct coap_option.value) in Zephyr
OptNum == 10        \* u8_t opt_num = 10 in from_oscore and into_oscore
Untouched == 65530  \* the delta get_options marks unparsed slots with
U16 == 65536        \* option numbers and deltas are u16_t

COAP_OPTION_URI_HOST == 3
COAP_OPTION_OBSERVE == 6
COAP_OPTION_URI_PORT == 7
COAP_OPTION_OSCORE == 9
COAP_OPTION_PROXY_URI == 35
COAP_OPTION_PROXY_SCHEME == 39
COAP_OPTION_NO_RESPONSE == 258

-----------------------------------------------------------------------------
(* options.c                                                               *)

is_class_e(code) ==
  code \notin {COAP_OPTION_URI_HOST, COAP_OPTION_URI_PORT, COAP_OPTION_OSCORE,
               COAP_OPTION_PROXY_URI, COAP_OPTION_PROXY_SCHEME}

is_class_u(code) ==
  code \in {COAP_OPTION_URI_HOST, COAP_OPTION_OBSERVE, COAP_OPTION_URI_PORT,
            COAP_OPTION_OSCORE, COAP_OPTION_PROXY_URI, COAP_OPTION_PROXY_SCHEME,
            COAP_OPTION_NO_RESPONSE}

is_class_i(code) == FALSE

\* class_to_condition: only Class I and Class E are ever requested.
InClass(class, code) == IF class = "I" THEN is_class_i(code) ELSE is_class_e(code)

option_field_len(value) == IF value < 13 THEN 0 ELSE IF value < 269 THEN 1 ELSE 2

\* get_option_value: the value of the first option whose running sum of
\* deltas equals code, or NULL_ARRAY.
get_option_value(options, code) ==
  LET hits == {i \in DOMAIN options :
                 FoldLeft(LAMBDA acc, o : (acc + o.delta) % U16, 0,
                          SubSeq(options, 1, i)) = code}
  IN  IF hits = {} THEN [found |-> FALSE]
      ELSE [found |-> TRUE, value |-> options[Min(hits)].value]

\* read_field: an extended field replaces the nibble's value.  field_len 2
\* is unreachable from decode_options_internal, which passes a nibble.
read_field(bytes, pos, field_len, value) ==
  CASE field_len = 0 -> value
    [] field_len = 1 -> (bytes[pos + 1] + 13) % U16
    [] OTHER         -> bytes[pos + 1] * 256 + bytes[pos + 2] + 269

\* decode_options_internal from byte offset offset (0-based), up to the end
\* or a 0xFF byte; option_field_len is applied to the nibbles themselves.
\* A value longer than ValueCap is cropped to ValueCap bytes.
RECURSIVE DecodeFrom(_, _, _)
DecodeFrom(bytes, offset, out) ==
  IF offset >= Len(bytes) \/ bytes[offset + 1] = 255
  THEN [status |-> "ok", options |-> out, offset |-> offset]
  ELSE
    LET first == bytes[offset + 1]
        delta_len == option_field_len(first \div 16)
        len_len == option_field_len(first % 16)
        o1 == offset + 1
        delta == read_field(bytes, o1, delta_len, first \div 16)
        len == read_field(bytes, o1 + delta_len, len_len, first % 16)
        o3 == o1 + delta_len + len_len
        kept == IF len < ValueCap THEN len ELSE ValueCap
    IN  IF Len(bytes) < o3 THEN [status |-> "InvalidOptionLength"]
        ELSE IF Len(bytes) < o3 + len THEN [status |-> "InvalidOptionLength"]
        ELSE DecodeFrom(bytes, o3 + len,
               Append(out, [delta |-> delta, value |-> SubSeq(bytes, o3 + 1, o3 + kept)]))

\* num_options and decode_options both run decode_options_internal.
decode_options(bytes) == DecodeFrom(bytes, 0, <<>>)

\* encoded_option_len: the class is tested on the absolute option number,
\* the field lengths on the option's own delta.
encoded_option_len(options, class) ==
  FoldLeftDomain(
    LAMBDA acc, i :
      LET code == FoldLeft(LAMBDA t, o : (t + o.delta) % U16, 0, SubSeq(options, 1, i))
          o == options[i]
      IN  IF InClass(class, code)
          THEN acc + 1 + option_field_len(o.delta) + option_field_len(Len(o.value)) + Len(o.value)
          ELSE acc,
    0, options)

\* The bytes encode_options writes for one option: the delta/length byte,
\* the extended delta, the extended length, the value.
EncodeOption(delta, value) ==
  LET length == Len(value)
      Nibble(v) == CASE option_field_len(v) = 0 -> v
                     [] option_field_len(v) = 1 -> 13
                     [] OTHER                   -> 14
      Extended(v) == CASE option_field_len(v) = 0 -> <<>>
                       [] option_field_len(v) = 1 -> <<(v - 13) % 256>>
                       [] OTHER -> <<((v - 269) \div 256) % 256, (v - 269) % 256>>
  IN  <<(Nibble(delta) * 16 + Nibble(length)) % 256>>
        \o Extended(delta) \o Extended(length) \o value

\* encode_options: delta = options[i].delta + skipped_delta is tested for
\* the class; skipped options add their delta to skipped_delta, which an
\* emitted option resets.
RECURSIVE EncodeFrom(_, _, _, _)
EncodeFrom(options, class, i, skipped_delta) ==
  IF i > Len(options) THEN <<>>
  ELSE
    LET delta == (options[i].delta + skipped_delta) % U16
    IN  IF ~InClass(class, delta)
        THEN EncodeFrom(options, class, i + 1, (skipped_delta + options[i].delta) % U16)
        ELSE EncodeOption(delta, options[i].value) \o EncodeFrom(options, class, i + 1, 0)

encode_options(options, class) == EncodeFrom(options, class, 1, 0)

-----------------------------------------------------------------------------
(* coap_helper.c                                                           *)

\* get_options: every slot is marked with delta 65530, coap_packet_parse
\* fills the first opt_num slots and parses the rest of the options into
\* nothing, and the count stops at the first slot still marked.
get_options(options) ==
  LET filled == SubSeq(options, 1, IF Len(options) < OptNum THEN Len(options) ELSE OptNum)
      marked == {i \in DOMAIN filled : filled[i].delta = Untouched}
  IN  IF marked = {} THEN filled ELSE SubSeq(filled, 1, Min(marked) - 1)

-----------------------------------------------------------------------------
(* oscore.c: merging in from_oscore, Class U options in into_oscore.       *)

\* coap_packet_append_option (Zephyr, not in src/): an option number below
\* the previous one is rejected with -EINVAL.
AppendOption(out, code, value) ==
  IF out.ok /\ (out.opts = <<>> \/ Last(out.opts).num <= code)
  THEN [ok |-> TRUE, opts |-> Append(out.opts, [num |-> code, value |-> value])]
  ELSE [ok |-> FALSE, opts |-> out.opts]

NoOptions == [ok |-> TRUE, opts |-> <<>>]

\* Mutant: the two next option numbers compared the wrong way round.
TakeClassEFirstSwapped(new_delta_e, new_delta_u) == new_delta_u < new_delta_e

\* if (new_delta_e < new_delta_u): the Class E option goes first; on a tie
\* the outer option does.
TakeClassEFirst(new_delta_e, new_delta_u) == new_delta_e < new_delta_u

\* merge_decrypted_options: walk both lists, keeping the running option
\* number of each, and append the option with the smaller next number.
RECURSIVE MergeFrom(_, _, _, _, _, _, _)
MergeFrom(opt_u, opt_e, index_u, total_delta_u, index_e, total_delta_e, out) ==
  IF index_u > Len(opt_u) /\ index_e > Len(opt_e) THEN out
  ELSE
    LET new_delta_u == IF index_u > Len(opt_u) THEN 0
                       ELSE (total_delta_u + opt_u[index_u].delta) % U16
        new_delta_e == IF index_e > Len(opt_e) THEN 0
                       ELSE (total_delta_e + opt_e[index_e].delta) % U16
        takeE == \/ index_u > Len(opt_u)
                 \/ index_e <= Len(opt_e) /\ TakeClassEFirst(new_delta_e, new_delta_u)
    IN  IF takeE
        THEN MergeFrom(opt_u, opt_e, index_u, total_delta_u, index_e + 1, new_delta_e,
                       AppendOption(out, new_delta_e, opt_e[index_e].value))
        ELSE MergeFrom(opt_u, opt_e, index_u + 1, new_delta_u, index_e, total_delta_e,
                       AppendOption(out, new_delta_u, opt_u[index_u].value))

merge_decrypted_options(opt_u, opt_e) == MergeFrom(opt_u, opt_e, 1, 0, 1, 0, NoOptions)

\* Mutant: the trailing if (!has_oscore_option) append left out.
AppendOscoreIfMissingDropped(out, has_oscore_option, oscore_option) == out

\* After the loop: the OSCORE option goes last if no Class U option above
\* it was written.
AppendOscoreIfMissing(out, has_oscore_option, oscore_option) ==
  IF has_oscore_option THEN out
  ELSE AppendOption(out, COAP_OPTION_OSCORE, oscore_option)

\* The Proxy-Uri special case: coap_parse_uri on the option, then scheme,
\* "://", host and the port field memcpy'd into the copy's value array.
\* Nothing checks the length against the array's ValueCap bytes.
ProxyUriRewrite(value) ==
  LET r == coap_parse_uri(value)
      v == IF r.err # "OscoreNoError" THEN <<>>
           ELSE r.info.scheme \o <<ASCII.colon, ASCII.slash, ASCII.slash>>
                  \o r.info.host \o r.info.port
  IN  CASE r.err # "OscoreNoError" -> [status |-> r.err]
        [] Len(v) > ValueCap -> [status |-> "overflow"]
        [] OTHER -> [status |-> "OscoreNoError", value |-> v]

\* Mutant: the !has_oscore_option test dropped, so the OSCORE option goes
\* before every Class U option above it.
InsertOscoreBeforeUnguarded(code, has_oscore_option) == code > COAP_OPTION_OSCORE

\* if (total_delta > COAP_OPTION_OSCORE && !has_oscore_option): the OSCORE
\* option is appended before the first Class U option above it.
InsertOscoreBefore(code, has_oscore_option) ==
  code > COAP_OPTION_OSCORE /\ ~has_oscore_option

\* Leaving the loop: an error or undefined behaviour ends it early.
WriteResult(out, overflow) == [ok |-> out.ok, opts |-> out.opts, overflow |-> overflow]

\* write_class_u_options: the Class U options by absolute number, with the
\* OSCORE option put before the first one above it, or at the end, and a
\* Proxy-Uri cut down to scheme, host and port.
RECURSIVE WriteClassUFrom(_, _, _, _, _, _)
WriteClassUFrom(options, oscore_option, i, total_delta, has_oscore_option, out) ==
  IF i > Len(options)
  THEN WriteResult(AppendOscoreIfMissing(out, has_oscore_option, oscore_option), FALSE)
  ELSE
    LET code == (total_delta + options[i].delta) % U16
        rw == IF code = COAP_OPTION_PROXY_URI THEN ProxyUriRewrite(options[i].value)
              ELSE [status |-> "OscoreNoError", value |-> options[i].value]
        insert == InsertOscoreBefore(code, has_oscore_option)
        out1 == IF insert THEN AppendOption(out, COAP_OPTION_OSCORE, oscore_option) ELSE out
    IN  CASE ~is_class_u(code) ->
               WriteClassUFrom(options, oscore_option, i + 1, code, has_oscore_option, out)
          [] ~out.ok -> WriteResult(out, FALSE)
          [] rw.status = "overflow" -> WriteResult(out, TRUE)
          [] rw.status # "OscoreNoError" -> WriteResult([ok |-> FALSE, opts |-> out.opts], FALSE)
          [] OTHER ->
               WriteClassUFrom(options, oscore_option, i + 1, code, has_oscore_option \/ insert,
                               AppendOption(out1, code, rw.value))

write_class_u_options(options, oscore_option) ==
  WriteClassUFrom(options, oscore_option, 1, 0, FALSE, NoOptions)

\* from_oscore: get_options parses the outer options, the OSCORE option is
\* located among them, the Class E options are decoded from the plaintext
\* after its code byte, a byte after them must be the payload marker, and
\* the parsed outer and the inner options are merged.
UnprotectOptions(packet_options, plaintext) ==
  LET outer == get_options(packet_options)
      options_array == Tail(plaintext)
      dec == decode_options(options_array)
      payload_offset == 1 + dec.offset
  IN  IF ~get_option_value(outer, COAP_OPTION_OSCORE).found THEN [ok |-> FALSE, opts |-> <<>>]
      ELSE IF dec.status # "ok" THEN [ok |-> FALSE, opts |-> <<>>]
      ELSE IF Len(plaintext) > payload_offset /\ plaintext[payload_offset + 1] # 255
           THEN [ok |-> FALSE, opts |-> <<>>]
      ELSE merge_decrypted_options(outer, dec.options)

\* into_oscore on the response's options: decode them from the response
\* being built, size and encode the Class E ones (assert_eq(len,
\* encoded_opt_len) spins on a mismatch, and a longer encoding has already
\* overrun the plaintext buffer), and write the Class U ones outside (a
\* Proxy-Uri rewrite past its value array is undefined behaviour).
ProtectOptions(option_bytes, oscore_option) ==
  LET options == decode_options(option_bytes).options
      encoded_opt_len == encoded_option_len(options, "E")
      plain == encode_options(options, "E")
      w == write_class_u_options(options, oscore_option)
  IN  IF Len(plain) # encoded_opt_len \/ w.overflow
      THEN [halted |-> TRUE]
      ELSE [halted |-> FALSE, inner |-> plain, outer |-> [ok |-> w.ok, opts |-> w.opts]]

\* Mutant: the parsed count taken as an index (request_opt_num - 1), so
\* the last parsed option is not searched.
RequestOscoreOptionLastDropped(request_options) ==
  LET parsed == get_options(request_options)
      v == get_option_value(SubSeq(parsed, 1, Len(parsed) - 1), COAP_OPTION_OSCORE)
  IN  IF ~v.found THEN [status |-> "NoOscoreOption"] ELSE from_oscore_option(v.value)

\* into_oscore's first steps: get_options on the decrypted request, the
\* value of its OSCORE option (without it, OscoreNoOscoreOption), and
\* from_oscore_option on it, which gives request_kid and request_piv for
\* the response's AAD.
RequestOscoreOption(request_options) ==
  LET v == get_option_value(get_options(request_options), COAP_OPTION_OSCORE)
  IN  IF ~v.found THEN [status |-> "NoOscoreOption"] ELSE from_oscore_option(v.value)

-----------------------------------------------------------------------------
(* The peer (spec.md 4.6, 4.7; RFC 7252 section 3.1) and the exchange.    *)

\* An option as the application sees it: its number and value bytes.  The
\* bytes are derived from the number so that options are told apart; a
\* Proxy-Uri given as a URL holds that URL's bytes.
MkOption(o) ==
  [num |-> o.num,
   value |-> IF "url" \in DOMAIN o THEN UrlBytes(o.url)
             ELSE [k \in 1..o.len |-> (o.num + k) % 256]]

\* Messages: at most MaxOptions options, in non-decreasing number order.
OptionLists(S) ==
  { [i \in DOMAIN s |-> MkOption(s[i])] :
      s \in {t \in BoundedSeq(S, MaxOptions) : IsSorted(t, LAMBDA a, b : a.num <= b.num)} }

ToRelative(opts) ==
  [i \in DOMAIN opts |->
     [delta |-> opts[i].num - (IF i = 1 THEN 0 ELSE opts[i - 1].num),
      value |-> opts[i].value]]

\* The minimal encoding of a delta or length: nibble and extended bytes.
RfcNibble(v) == IF v < 13 THEN v ELSE IF v < 269 THEN 13 ELSE 14
RfcExtended(v) ==
  IF v < 13 THEN <<>> ELSE IF v < 269 THEN <<v - 13>>
  ELSE <<(v - 269) \div 256, (v - 269) % 256>>

RfcEncode(opts) ==
  FoldLeft(LAMBDA acc, o : acc \o <<16 * RfcNibble(o.delta) + RfcNibble(Len(o.value))>>
                             \o RfcExtended(o.delta) \o RfcExtended(Len(o.value)) \o o.value,
           <<>>, ToRelative(opts))

ClassE(opts) == SelectSeq(opts, LAMBDA o : is_class_e(o.num))
ClassU(opts) == SelectSeq(opts, LAMBDA o : is_class_u(o.num))

\* The outer options spec.md 4.7 and 4.11 call for: the Class U ones, a
\* Proxy-Uri rewritten to scheme://host[:port].
SpecOuter(opts) ==
  [i \in DOMAIN ClassU(opts) |->
     LET o == ClassU(opts)[i]
     IN  IF o.num = COAP_OPTION_PROXY_URI THEN [o EXCEPT !.value = SpecProxyUri(o.value)] ELSE o]

\* The client's OSCORE option: Partial IV 5 and the server's recipient id
\* (empty) as kid, encoded per spec.md 4.8.
ClientUnprotected == [partial_iv |-> <<5>>, kid |-> Field(<<>>), kid_context |-> Absent]

OscoreValue == SpecEncode(ClientUnprotected)

WithOscore(opts) ==
  SelectSeq(opts, LAMBDA o : o.num <= COAP_OPTION_OSCORE)
    \o <<[num |-> COAP_OPTION_OSCORE, value |-> OscoreValue]>>
    \o SelectSeq(opts, LAMBDA o : o.num > COAP_OPTION_OSCORE)

RequestCode == 2    \* POST

\* The request as the client protects it: Class U options and the OSCORE
\* option outside, code, Class E options and payload in the plaintext.
Unprotected(req, withPayload) ==
  UnprotectOptions(ToRelative(WithOscore(ClassU(req))),
                   <<RequestCode>> \o RfcEncode(ClassE(req))
                     \o (IF withPayload THEN <<255, 1>> ELSE <<>>))

\* The response's options as coap_packet_append_option wrote them.
Protected(resp) == ProtectOptions(RfcEncode(resp), OscoreValue)

VARIABLES
  request,      \* options of the client's request
  withPayload,  \* whether the request carries a payload
  serverView,   \* the options from_oscore hands to the resource
  response,     \* options of the resource's response
  clientView,   \* what into_oscore makes of them
  requestOscore \* the request's OSCORE option as into_oscore finds it

vars == <<request, withPayload, serverView, response, clientView, requestOscore>>

Init ==
  /\ request = <<>>
  /\ withPayload = FALSE
  /\ serverView = Unprotected(<<>>, FALSE)
  /\ response = <<>>
  /\ clientView = Protected(<<>>)
  /\ requestOscore = RequestOscoreOption(ToRelative(serverView.opts))

\* A request arrives and from_oscore unprotects it.
ReceiveRequest ==
  \E req \in OptionLists(RequestOptions), p \in BOOLEAN :
    /\ request' = req
    /\ withPayload' = p
    /\ serverView' = Unprotected(req, p)
    /\ UNCHANGED <<response, clientView, requestOscore>>

\* The resource answers the request from_oscore handed it, and into_oscore
\* reads that request's OSCORE option and protects the response.
SendResponse ==
  \E resp \in OptionLists(ResponseOptions) :
    /\ serverView.ok
    /\ response' = resp
    /\ clientView' = Protected(resp)
    /\ requestOscore' = RequestOscoreOption(ToRelative(serverView.opts))
    /\ UNCHANGED <<request, withPayload, serverView>>

Next == ReceiveRequest \/ SendResponse

Spec == Init /\ [][Next]_vars

-----------------------------------------------------------------------------
(* Properties.                                                             *)

\* from_oscore hands the resource exactly the options the client sent, in
\* order, plus the OSCORE option (kept for into_oscore): decoding the Class
\* E options from the plaintext and merging them with the outer options by
\* running option number loses, reorders and alters none.
RequestOptionsIntact == serverView = [ok |-> TRUE, opts |-> WithOscore(request)]

\* into_oscore neither stops nor misplaces an option: the plaintext holds
\* exactly the resource's Class E options, encoded as the client decodes
\* them, and outside are exactly its Class U options, a Proxy-Uri cut to
\* scheme://host[:port] (spec 4.7), and the OSCORE option.
ResponseOptionsIntact ==
  /\ ~clientView.halted
  /\ clientView.inner = RfcEncode(ClassE(response))
  /\ clientView.outer = [ok |-> TRUE, opts |-> WithOscore(SpecOuter(response))]

\* into_oscore finds and decodes the OSCORE option of every request
\* from_oscore accepted, recovering the kid and Partial IV the client sent,
\* so the response is bound to that request (spec 4.10: the AAD of a
\* response carries request_kid and request_piv).
ResponseFindsRequestOption ==
  /\ requestOscore.status = "ok"
  /\ requestOscore.partial_iv = ClientUnprotected.partial_iv
  /\ requestOscore.kid = ClientUnprotected.kid.bytes

\* Whenever into_oscore gets past the encoding of the Class E options, the
\* outer options write_class_u_options appends are exactly the response's
\* Class U options (a Proxy-Uri cut to scheme://host[:port]), in order,
\* with one OSCORE option at its sorted place.
ResponseOuterOptions ==
  ~clientView.halted =>
    clientView.outer = [ok |-> TRUE, opts |-> WithOscore(SpecOuter(response))]

====
