# TLA+ models of c_OSCORE

These models cover the OSCORE (RFC 8613) server of c_OSCORE, which runs on
Zephyr. The sources are under `src/` and the protocol text is in `spec.md`.
The models describe the server's state machine, which is its security
context and its sequence number. They also describe what the server does
with every packet a client, a network or an attacker can deliver. The
two option codecs are modelled as pure operators. Each is checked against
a reference encoding written from RFC 7252 and `spec.md`.

## 1. The system

### Parts and how they interact

| Part | Source | State | Operations |
|---|---|---|---|
| Boot | `main.c` | none | `main` runs the HKDF self tests, then `oscore_init`, then starts the CoAP server |
| Security context | `oscore/oscore.c` 38-87, `crypto/security_context.c` | `common_iv`, `sender_key`, `recipient_key`, `sctx.sender_seq_num` (5 bytes, big-endian), `rctx` (no replay window) | `oscore_init` → `derive_common_context`, `derive_sender_context`, `derive_recipient_context` → `derive` → HKDF |
| Unprotect | `oscore/oscore.c` 203-319 | reads the context | `from_oscore`: `get_options`, `from_oscore_option`, kid check, `create_nonce`, `aad_length`/`create_aad`, `from_oscore_cose_encrypt0`, `decode_options`, `init_decrypted_packet`, `merge_decrypted_options` |
| Resource | `server/oscore_post.c` | none | `oscore_post` builds the response "2.05, Content-Format, Hello World!" and calls `into_oscore`, then sends what it returns |
| Protect | `oscore/oscore.c` 402-575 | increments `sender_seq_num` | option parse, increment loop, strip leading zeros, `create_nonce`, `encode_options(CLASS_E)`, `create_aad`, `to_oscore_cose_encrypt0`, `to_oscore_option`, `init_encrypted_packet`, `write_class_u_options` |
| Option parse | `oscore/coap_helper.c` | pure | `get_options`: at most `opt_num = 10` options, counted up to the first slot still marked with delta 65530 |
| Option codec | `oscore/options.c` | pure | `is_class_e/u/i`, `option_field_len`, `get_option_value`, `decode_options_internal`, `encoded_option_len`, `encode_options` |
| OSCORE option codec | `codec/oscore_option.c` | pure | `from_oscore_option`, `to_oscore_option`, `option_value_length` |
| Nonce, AAD | `codec/nonce.c`, `codec/aad.c` | pure | `create_nonce` (trimmed check, padding, XOR with the Common IV), `aad_length`/`create_aad` (CBOR in two passes) |
| AEAD, KDF | `crypto/*.c` | pure | AES-CCM-16-64-128 through COSE Encrypt0, HKDF-SHA-256 |
| URI parsing | `oscore/coap-uri.c` | pure | `coap_parse_uri`, used for Proxy-Uri in `write_class_u_options` |

The glue that calls `from_oscore` before the resource runs is not under
`src/`. The same holds for the OSCORE client at the other end. Both are
modelled from `spec.md` sections 4.11 and 4.12.

The server is one Zephyr thread. It handles one request at a time: a
request is unprotected, handed to `oscore_post`, and the response is
protected and sent. The only state that outlives a request is the
security context. Of that context, only `sender_seq_num` changes after
boot.

### Behaviours that make the server hard to test

- The network duplicates, loses and reorders packets, and an attacker
  who holds no key injects packets with any OSCORE option. Everything up
  to AEAD verification runs on attacker input.
- The device reboots. `derive_sender_context` sets the sequence number
  to zero and loads nothing (TODO at `security_context.c:94`). The
  protect path never saves it (TODO at `oscore.c:448`).
- The counter is a byte array that is incremented with a hand-written
  carry loop (`oscore.c:443-447`). It is then stripped with an unbounded
  loop (`oscore.c:457-459`).
- Every step of `into_oscore` after the increment may fail, and the
  number stays consumed when it does. A failure after encryption leaves
  the sealed response unsent.
- `from_oscore` and `into_oscore` parse at most 10 options
  (`coap_helper.c:17`, "TODO assume max 10").
- The HKDF expand loop counts blocks in a `u8_t` (`hkdf.c:46`).
- `derive` sizes the HKDF info with one function (`hkdf_info_len`, which
  encodes the type as "KEY") and writes it with another
  (`create_hkdf_info`, "Key") into a buffer of exactly that size. Each
  function has its own switch on the derive type.
- Sizes come from attacker-controlled fields: `n` of the OSCORE option,
  the payload length, and option nibbles.

## 2. Modules

| Module | Models | Kind |
|---|---|---|
| `SenderSequence` | The Sender Sequence Number as `spec.md` promises it: it starts at 0, goes up by one per protect, survives reboots, and stops at its limit | abstract spec |
| `OscoreServer` | The server (`oscore_init`, `from_oscore`, `oscore_post` + `into_oscore`, reboot), an OSCORE client, a lossy duplicating network and a keyless attacker | detailed spec |
| `MCOscoreServer` | The constant sets used by the configs | MC module |
| `OptionCodec` | `options.c` (class tests, decoder, encoder, encoded length) and the option steps of `from_oscore` (decode of the plaintext, `merge_decrypted_options`) and `into_oscore` (`encode_options(CLASS_E)`, size assert, `write_class_u_options`) | operators + harness |
| `MCOptionCodec` | The option sets of the option runs, and a two-phase harness: `MCSpec` first decodes every spec-encoded request OSCORE option and encodes every response option (over PIV, kid and kid context sets), then runs the request/response exchange of `OptionCodec`; `ExchangeSpec` starts directly with the exchange | MC module + harness |
| `CoapUri` | `coap-uri.c`: `coap_parse_uri`, `strcasecmp`, and the spec's Proxy-Uri rewrite; `OptionCodec` extends it | operators |
| `OscoreOption` | `oscore_option.c`: `from_oscore_option` with the buffers of `from_oscore`, `to_oscore_option`, `option_value_length`; `OptionCodec` extends it | operators |
| `Hkdf` | The expand loop of `hkdf_sha256` (`crypto/hkdf.c`), one loop iteration per step, against RFC 5869 section 2.3 | detailed spec |
| `SecurityContext` | `main`'s start-up: the HKDF self tests, then `oscore_init` → `derive_*_context` → `derive` → `hkdf_info_len`, `create_hkdf_info`, `hkdf_sha256` (the loop of `Hkdf`), against RFC 8613 section 3.2.1 | composition of `Hkdf` |
| `MCSecurityContext` | Output lengths of the self tests and the pre-established contexts | MC module |

### How `OscoreServer` corresponds to the code

- **State.**
  - `sender_seq_num` is `sctx.sender_seq_num`, indexed 0 (most
    significant) to `SeqBytes-1`, with `ByteBase` values per byte.
  - `pending` is the decrypted request that `from_oscore` builds with
    `init_decrypted_packet`. It has the request's type, token and
    message id, the decrypted code and inner Uri-Path, and the kid and
    PIV of the OSCORE option kept among its options.
  - `halted` means the server hit undefined behaviour (an out-of-bounds
    read or write, or a VLA size underflow). Such a server can do
    anything, so the model stops it until the next reboot.
  - `reboots` counts boot epochs.
  - `sealLog` and `accepted` are history variables that record each
    response's nonce and each accepted request's (kid, PIV).
  - `msgs` is a bag, which allows duplicates and any delivery order.
- **Data.**
  - A key is `DeriveKey(id)`: `derive` feeds a fixed master secret, salt
    and context into HKDF, so the id alone determines the key.
  - A nonce is `create_nonce(id_piv, piv) = <<id_piv, piv>>`. The real
    nonce is injective on trimmed PIVs of at most 5 bytes and ids of at
    most 7 bytes, so equality is kept.
  - The AAD is `<<kid, piv>>`, because Class I options are empty.
  - A ciphertext is a record of key, nonce, AAD, plaintext (code and
    Uri-Path) and length, and it opens only under the same three. This
    is a perfect AEAD.
  - A packet has its CoAP header (`type`, `token`, `mid`, `code`). The
    client sends CON and NON requests in turn, with outer code POST and
    `GET oscore/hello/1` inside.
- **`from_oscore(m)`** follows the code's order:
  - A missing OSCORE option or a kid that is not the recipient id is an
    early return.
  - `create_nonce` fails on an untrimmed PIV. It writes out of bounds for
    a PIV longer than 5 bytes.
  - The plaintext buffer underflows when the payload is shorter than the
    8-byte tag.
  - AEAD verification can fail. Rebuilding the packet can fail after
    decryption.
- **`into_oscore`** models the dispatch, `oscore_post` and `into_oscore`:
  - Zephyr's `coap_handle_request` (not in `src/`) is `Handler`, a
    lookup in the `resources` table of `resources.h`: the first entry
    whose path is the request's Uri-Path, then its handler for the
    request's code. Any handler other than `oscore_post` answers without
    OSCORE, and the model drops the request there.
  - `oscore_post` answers a CON with an ACK and anything else with a
    NON, with the request's token and id. `init_encrypted_packet` keeps
    that header and sets the outer code to 2.04 Changed.
  - The carry loop is `IncrementFrom`, a RECURSIVE operator that
    translates the `do … while (index > 0 && seq[index+1] == 0)` loop.
  - `StripRunsOff` is the all-zero case of the strip loop.
  - Stripping is followed by `create_nonce` and the seal.
  - Any later step (nonce, AAD, encryption, `init_encrypted_packet`,
    option writing) may fail on a full buffer and leave the number
    consumed. If nothing fails, `oscore_post` sends the response sealed
    under the request's kid and PIV (`ResponseCtLen` is its plaintext:
    code, Content-Format, marker, "Hello World!").
- **Fault constants.** `BufferFailures` enables the failure of
  `init_decrypted_packet` after decryption (a full Zephyr buffer), and
  `LossyNetwork` enables `Lose`. Both are TRUE in every run except
  `requests_answered`, which asks whether a request is answered when
  neither fault occurs.
- **`FairSpec`** adds weak fairness on `from_oscore` of every packet in
  flight and on `into_oscore`. The Zephyr network thread handles each
  received packet to completion and keeps receiving, so a delivered
  packet that stays deliverable is eventually handled. The client, the
  network, the attacker and reboots get no fairness.
- **`oscore_init`** is a reboot: `main` runs `oscore_init` again, and
  RAM state is lost.

`SenderSeq == INSTANCE SenderSequence WITH seqNo <- SeqValue(sender_seq_num)`
is the refinement mapping: the byte array read as a big-endian number.
`SenderSequenceSpec` is checked as a PROPERTY.

### How `OptionCodec` corresponds to the code

- An option is `[num, value]`, with an absolute number. The code's
  `struct coap_option` holds a relative `delta` and a value of at most
  `ValueCap = 12` bytes (Zephyr's `CONFIG_COAP_EXTENDED_OPTIONS_LEN_VALUE`
  default). `ToRelative` turns a list into that form.
- `DecodeFrom` is the loop of `decode_options_internal`. It reads a
  header byte, passes both nibbles through `option_field_len`, reads the
  extensions with `read_field`, and crops values to `ValueCap`.
- `EncodeFrom` and `EncodeOption` are the loop of `encode_options`. They
  carry `skipped_delta` and test the class on `delta + skipped_delta`.
  `encoded_option_len` is the sizing loop, which tests the class on the
  running total.
- `MergeFrom` is the two-index loop of `merge_decrypted_options`.
  `TakeClassEFirst` is its comparison. `AppendOption` is Zephyr's
  `coap_packet_append_option`, which rejects a number below the last one.
- `WriteClassUFrom` is the loop of `write_class_u_options`. It inserts the
  OSCORE option before the first larger Class U number, or at the end.
  For a Proxy-Uri it first calls `ProxyUriRewrite` (lines 368-389):
  `coap_parse_uri`, whose error returns from the function. Then scheme,
  `://`, host and the port field are copied into the option's value.
  A result longer than `ValueCap` writes past that array. It is
  undefined behaviour, and `ProtectOptions` halts on it.
- `CoapUri` models `coap_parse_uri` (`coap-uri.c`). `strcasecmp` checks
  the scheme against `coap` and `coaps`, and a fragment fails. The port is
  the URL's when its value differs from `sin6_port`. With no port in the
  URL it is `"5683"`, unless `sin6_port` is 5683. `sin6_port` is the
  request's port in network order, byte-swapped when
  `HostLittleEndian`. Zephyr's `http_parser_parse_url` is not in
  `src/`. It is abstracted to recovering the components of a URL of
  `ProxyUris` from its bytes, and it fails on any other bytes.
- `SpecOuter` is what spec 4.7 asks for outside. It is the Class U
  options, with a Proxy-Uri cut to `scheme://host[:port]`. The
  `[:port]` follows RFC 7252 section 6.4 steps 6 and 7, which
  `coap_parse_uri` quotes: the URL's port, or the scheme's default,
  written only when it is not the request's port.
- `UnprotectOptions` is lines 283-306 of `from_oscore`: get the OSCORE
  option, decode the plaintext after the code byte, and merge.
  `ProtectOptions` is lines 481-517 of `into_oscore`. It halts when
  `assert_eq` fails, because `panic` spins forever.
- `get_options` keeps the first `OptNum = 10` options and counts up to
  the first one still carrying the mark `Untouched = 65530`.
  `UnprotectOptions` and `RequestOscoreOption` (the first lines of
  `into_oscore`) both go through it. `RequestOscoreOption` then decodes
  the option value with `OscoreOption`'s `from_oscore_option`, as
  `into_oscore` does at line 433.
- The harness takes a client request from `RequestOptions` and the
  response options of `oscore_post` from `ResponseOptions`. It stores
  what the code's operators return. `requestOscore` is the OSCORE option
  that `into_oscore` finds in the request `from_oscore` rebuilt.

### How `Hkdf` corresponds to the code

- HMAC-SHA-256 is not computed. A block `T(i)` is the sequence of block
  counters chained into it: `T(1) = <<1>>` and `T(i) = Append(T(i-1), i)`.
  The PRK and `info` are the same in every block and are left out.
- `hkdf_sha256` is the call: extract, `iterations = (out.len + 31) / 32`,
  and the refusal of more than 255 blocks.
- `ExpandStep` is one pass of `for (u8_t i = 1; i <= iterations; i++)`.
  It chains `t` only when `i > 1`, copies 32 bytes or `out.len % 32` to
  `out.ptr[(i-1)*32]`, and increments `i` modulo 256. A copy outside
  `out` ends the call with `OutOfBounds`.
- A recursive operator would need 255 levels, deeper than TLC's stack, so
  each iteration is a step.
- `hkdf_sha256(len)` takes `out.len` as a parameter. `Hkdf`'s own `Next`
  calls it with any length of `OutLens`; `SecurityContext` calls it from
  the self tests and from `derive`.

### How `SecurityContext` corresponds to the code

- **State.** `pre` is the `pre_established` argument. `selfTests` counts
  the `test_hkdf_sha256_*` calls of `main`. `phase` says whether `main` is
  before `oscore_init`, inside it, or past it. `k` is the
  `derive_*_context` call `oscore_init` is in. `inHkdf` means `derive` is
  waiting for its `hkdf_sha256` call. `info` is what `create_hkdf_info`
  wrote. `derived` holds the contexts written to `*out`, and `initResult`
  is what `oscore_init` returned.
- **Data.** The HKDF info is the list of its five CBOR items. Its size
  comes from TinyCBOR's head sizes (`CborHeadLen`) and string lengths.
  Ids and ID contexts are byte sequences, because only their lengths
  reach the sizes. A NULL `common_id_context.ptr` is the model value `NULL`
  and is encoded as CBOR null.
- **Actions.** `SelfTest` is a direct `hkdf_sha256` call from `main`. The
  test bodies are not in `src/`, so its length ranges over `OutLens`.
  `oscore_init` starts the three derivations. `derive` runs everything
  up to the HKDF call in order: `ensure(out.len != 0)`, `hkdf_info_len`,
  the VLA of that size, `create_hkdf_info` (which fails with
  `OscoreCborError` when an item does not fit), then `hkdf_sha256`.
  `derive_return` is `try(hkdf_sha256(...))` returning. The caller
  writes its context, and `oscore_init` either goes on to the next one
  or returns.
- `DeriveParamsLen` and `DeriveParams` are the two switches, kept apart as
  in the code. `DeriveCalls` holds the id, type and output size of
  `derive_common_context`, `derive_sender_context` and
  `derive_recipient_context`.

### How `OscoreOption` corresponds to the code

- A field of `struct unprotected` is `[present, bytes]`. `present` is
  whether the pointer is set, because `to_oscore_option` tests `ptr != NULL`.
- `from_oscore_option` keeps the code's order of checks: empty value,
  option length, PIV buffer (8), kid buffer (7), and kid context buffer
  (16). The buffers are those that `from_oscore` hands in.
- The `s` byte is read at `ptr[1+n]` before the length check. When that
  read is past the value, the check fails whatever byte it reads, so the
  model does not branch on it.
- `to_oscore_option` runs on the `{piv_stripped, sender_id, NULL_ARRAY}`
  that `into_oscore` builds.

## 3. Runs

The OscoreServer runs use `MCOscoreServer`. The bounds are constants in
the cfg.

| Run | Bounds | Properties | Expect | Shows |
|---|---|---|---|---|
| `protect_unprotect` | 3 values/byte, 3 bytes; 2 requests, 2 duplicates, 1 well-formed forgery, no reboot | `TypeOK`, `NonceUnique`, `ResponsesMatchRequests`, `SenderSequenceSpec` | pass | Within one boot and below the wrap, every response has a fresh nonce and the counter refines the abstract one. Every response carries the token and message id of a request the client sent, an ACK for a CON and a NON for a NON, and the outer code 2.04. Two requests with two duplicates produce four protects, which crosses the carry from byte 2 into byte 1. |
| `reboot_crash` | 2 values/byte, 3 bytes; 2 requests, 2 duplicates, 1 malformed forgery, 1 reboot | `NonceUniqueWithinBoot` | pass | Within one boot no nonce repeats, even when malformed forgeries crash the server and it reboots. With binary bytes, four protects reach the wrap (`011 → 000`), where the strip loop runs off and the server halts before sealing. |
| `reboot_nonce_reuse` | 3/3; 2 requests, 1 reboot | `NonceUnique` | violation | After a reboot the first response reuses the nonce of the first response before it. |
| `replay` | 3/3; 1 request, 1 duplicate | `AtMostOnce` | violation | The duplicate is decrypted and processed a second time. |
| `seq_wrap` | 2/3; 4 honest requests | `SenderSequenceSpec` | violation | The counter goes from 3 to 0 because the carry never reaches byte 0. |
| `forged_piv_overflow` | 3/3; no honest request, 1 malformed forgery | `NoUndefinedBehaviour` | violation | A keyless packet with `n = 6`, or with a 4-byte payload, reaches undefined behaviour before any verification. |
| `requests_answered` | 3/3; 2 requests, 1 duplicate, 1 well-formed forgery, no reboot, buffer failure or loss; `FairSpec` | `RequestsAnswered` | pass | Every request the client sends is eventually answered by a response sealed for its kid and PIV. A duplicate or a forgery arriving in between does not prevent this. |

The option runs use `MCOptionCodec`. `option_merge` runs `MCSpec`, with both phases; the violation runs run `ExchangeSpec`:

| Run | Bounds | Properties | Expect | Shows |
|---|---|---|---|---|
| `option_merge` | up to 3 request options from {3, 4, 7, 11, 11 with 12 bytes, 15, 35, 60}, repeats allowed, with or without payload; up to 3 response options from {6, 12, 14 empty, 258 empty}; in the codec phase, PIVs of 0-5 bytes, kids of 0, 1 and 7 bytes, contexts of 0-2 bytes, present or absent | `ResponseFindsRequestOption`, `RequestOptionsIntact`, `ResponseOuterOptions`, `RequestOptionDecoded`, `ResponseOptionEncoded` | pass | `from_oscore_option` inverts the client's encoding of the OSCORE option, and `to_oscore_option` produces it. The server's view of a request equals the client's options plus the OSCORE option, with Class U options on both sides of Class E ones and with repeats. `into_oscore` finds that request's OSCORE option, also behind ETag. When `into_oscore` does not halt, its outer options are the Class U ones with one OSCORE option in sorted place. This includes Observe below it and No-Response above it, and two No-Response options. |
| `option_decode_limits` | request options {Uri-Path 3, Uri-Path 11 with 13 bytes, 2049}, up to 2 | `RequestOptionsIntact` | violation | A 13-byte Uri-Path reaches the resource cut to 12 bytes, with no error (`options.c:151`). |
| `option_response_classes` | responses from {4, 6, 12, 14, 23} and a Proxy-Uri of `coap://h:1/p`, `CoAP://h/p?q` or `coap://hh`, up to 3; request from port 5683, little-endian target | `ResponseOptionsIntact` | violation | Every defect here needs only one response, so TLC may show any of them. In our runs it shows `coap://hh`, whose rewrite with the added `5683` is 13 bytes written into a 12-byte value. With the response set restricted to one URL, `coap://h:1/p` goes out as `coap://h1`, because no `:` is written. `CoAP://h/p?q` goes out as `CoAP://h5683`, because 5683 is compared with the byte-swapped `sin6_port`. With `MCResponseOptions` alone, Max-Age (14) followed by Block2 (23) gives a relative delta of 9. `encode_options` then takes Block2 for the OSCORE option and drops it, so the size assert spins. |
| `option_count` | up to 10 request options from {If-Match 1, ETag 4} | `ResponseFindsRequestOption` | violation | With ten If-Match options the OSCORE option is the 11th. `get_options` stops at 10, and `into_oscore` finds no OSCORE option. |

The HKDF run uses `MCSecurityContext` with `SCFairSpec`:

| Run | Bounds | Properties | Expect | Shows |
|---|---|---|---|---|
| `hkdf_expand` | self-test `out.len` in 0..130, 8127, 8128 and 8161; four pre-established contexts: `main`'s (Sender ID 0x01, empty Recipient ID, no ID Context), an empty ID Context, a 24-byte ID Context, a 7-byte Sender ID | `ExpandMatchesRfc`, `InitDerivesRfc8613`, `OscoreInitSucceeds` | pass | Every HKDF call writes exactly the first L octets of T(1)…T(N), every block in its place, up to 254 blocks, and 8161 octets are refused. The 255-block band is not checked, see below. Then `oscore_init` returns `OscoreNoError` for every context, and each derived Common IV and key is HKDF over the RFC 8613 info, with an L equal to the size of the array it fills. |

Two defects found while modelling have no run of their own.
Each one is reproduced by changing a copy of a config:
- `option_decode_limits.cfg` with `Opt(11, ValueCap + 1)` removed from
  `MCLimitRequestOptions`: inner option 2049 is misread, because nibble
  14 is decoded as a one-byte extension, and the request is rejected
  (`options.c:131`). With the long Uri-Path present, TLC reports the
  crop first.
- `MCLimitOutLens` in `hkdf_expand.cfg`: with 8129 to 8160 octets
  (255 blocks), the iterations check passes. The loop writes all 255
  blocks, then the `u8_t` counter wraps to 0, and the next block is
  copied to `out.ptr[-32]` (`hkdf.c:46`). The model's status becomes
  `OutOfBounds`. RFC 5869, and `spec.md`'s boundary list, say
  L = 255·32 succeeds. `ExpandMatchesRfc` leaves this band out rather
  than pass over it. `oscore_init` only derives 13 and 16 octets, and
  `main`'s tests 42 and 82, so the program does not reach it.

Why the bounds are enough:
- Each distinct path through `from_oscore` and `into_oscore` needs at most
  four messages in flight.
- Three values per byte make the carry happen after two protects. Two
  values per byte make the wrap happen after three.
- `requests_answered` has two requests, so the second one is verified
  after a response has already been sent. A duplicate and a forgery
  arrive between them.
- The pre-established contexts change every CBOR size the info can take
  for OSCORE ids: an empty, 1-byte and 7-byte id, a null ID Context, an
  empty one, and a 24-byte one, whose head grows to two bytes.
- `option_count` needs ten options before OSCORE, the cap itself.
- The three Proxy-Uri URLs take the three ways out of `coap_parse_uri`'s
  port logic: an explicit port, no port, and no port with a host long
  enough that the added `5683` overflows. All of them fit in 12 bytes,
  so the decoder's crop does not hide the rewrite. `oscore_post`'s own
  response carries no Proxy-Uri. The rewrite matters for a resource
  that returns one.
- HKDF lengths 0..130 cover every remainder modulo 32 for one to five
  blocks. 8127 and 8128 are 254 blocks, the last count before the
  counter's wrap. 8161 is the first length past RFC 5869's limit, so the
  refusal is checked too.
- For the option codecs, three or four options already cover every way of
  interleaving Class U and Class E options, repeats, and inserting the
  OSCORE option before, between or after them. Responses use No-Response
  258 as the Class U option above OSCORE, not Proxy-Scheme 39. After
  any other option, 39's relative delta (25, 27 or 33) counts as Class E
  to `encode_options`, which halts `into_oscore`. That would leave
  `ResponseOuterOptions` nothing to check. 258's deltas (244 to 252) are
  Class E by both tests. The option numbers are
  chosen for their encodings: nibble, one-byte extension (13-268),
  two-byte extension (269 and up), and the boundary value of 12 bytes.
- The defects depend on the carry structure and not on the byte width,
  so the same traces exist with 256 values per byte and 5 bytes. There
  they need 2^32 responses.

The OscoreServer configs say `CHECK_DEADLOCK FALSE`. Once the bounded
client, network and attacker have acted, the server waits for a packet
that never comes. That is the real idle state of the Zephyr server.
`hkdf_expand` also says it, because `main` returns after `oscore_init`.
The other configs check deadlock: another message or another call can
always come.

Fairness:
- `requests_answered` uses `FairSpec`: weak fairness on the server's two
  steps, justified because the network thread handles each packet to
  completion. It switches off loss and buffer failures. A dropped packet
  is not retransmitted, because CON retransmission is the client's job
  and the client is not in `src/`.
- `hkdf_expand` uses `SCFairSpec`: weak fairness on every step of
  `main`. Start-up is one thread running to completion, so no step of it
  waits on anything else.

### Properties

- `TypeOK`: the type of every variable.
- `ResponsesMatchRequests`: every response on the network has the token
  and message id of a request the client sent, an ACK to its CON or a
  NON to its NON, and the outer code 2.04 Changed (spec 6). The header
  passes through `init_decrypted_packet`, the dispatch, `oscore_post`
  and `init_encrypted_packet`.
- `NonceUnique`: no two responses were sealed under the same nonce, across
  all boots. This is the AEAD's security requirement, since the sender key
  never changes.
- `NonceUniqueWithinBoot`: the same property restricted to one boot. It
  separates the increment logic from persistence.
- `AtMostOnce`: each accepted (kid, PIV) is processed once, which is
  replay protection.
- `NoUndefinedBehaviour`: no packet drives the server into undefined
  behaviour.
- `SenderSequenceSpec`: refinement of `SenderSequence`. The counter starts
  at 0 and each protect adds exactly one. The counter never wraps or
  decreases.
- `RequestOptionsIntact`: the options the resource sees are exactly the
  client's, which tests the decoder and the merge together.
- `ResponseOuterOptions`: when `into_oscore` completes, the outer options
  are exactly the response's Class U options plus one OSCORE option, which
  `write_class_u_options` puts before the first Class U option above 9 or
  appends at the end. It cannot show the `encode_options` class slip,
  because the outer options are chosen by the absolute option number.
- `ResponseOptionsIntact`: `into_oscore` completes with exactly the Class E
  options inside and the Class U options outside.
- `RequestsAnswered`: every request the client sends is eventually
  answered by a response on the network, sealed under a nonce and AAD the
  client accepts for it: its token, and the AEAD under the server's key,
  the response's nonce and the AAD of the request's kid and PIV (spec
  4.10). Checked under `FairSpec`. The request must also reach
  `oscore_post`, so this property needs `init_decrypted_packet` to use
  the decrypted GET. With the outer POST, the GET-only OSCORE resource
  would never call `oscore_post`, and TLC finds the property violated.
- `ResponseFindsRequestOption`: `into_oscore` finds the OSCORE option of
  the request `from_oscore` accepted, which binds the response to the
  request's kid and PIV (spec 4.10).
- `ExpandMatchesRfc`: every `hkdf_sha256` call of at most 254 blocks
  writes exactly RFC 5869's output, and a call with L > 255·32 is
  refused. The 255-block band is excluded by name. There the code breaks
  RFC 5869, as described above.
- `InitDerivesRfc8613`: once `oscore_init` has returned `OscoreNoError`,
  each of the three derived values is HKDF over the RFC 8613 info
  `[id, id_context / nil, 10, "Key" / "IV", L]`. Its L equals the size of
  the array filled.
- `OscoreInitSucceeds`: `oscore_init` eventually returns `OscoreNoError`,
  which `main` asserts. This needs the size counted by the length pass to
  fit what the write pass writes.
- `RequestOptionDecoded` and `ResponseOptionEncoded`: the OSCORE option
  value codec inverts, and matches, the encoding of `spec.md` 4.8.

Each property of a passing run has a mutant in `PROJECT.json`. A mutant
is a plausible slip in the translated code, and TLC finds it:
- The carry tests the wrong byte (`IncrementFromNextByte`).
- The byte does not wrap (`IncrementFromNoWrap`).
- The loop starts one byte too far left (`IncrementSeqNumOffByOne`).
- The PIV is cut to the low byte (`StripLeadingZerosLowByte`).
- The merge compares the other way round (`TakeClassEFirstSwapped`).
- The OSCORE option is inserted before every Class U option above it, because the `!has_oscore_option` test is dropped (`InsertOscoreBeforeUnguarded`).
- The `s` byte is not skipped (`KidContextStartNoSkip`).
- The `k` flag is written to the wrong bit (`KidFlagLowBit`).
- The parsed option count is used as an index, so the last option is
  not searched (`RequestOscoreOptionLastDropped`).
- `t` is chained into the first block too (`NextBlockChainAll`).
- The IV case of `create_hkdf_info` keeps the KEY case's `l = 16`
  (`DeriveParamsIvL16`).
- `hkdf_info_len` leaves out the ID Context item
  (`hkdf_info_len_NoContext`).
- `create_nonce` also rejects a 1-byte PIV with a zero high bit
  (`NonceOutcomeNoSingleByte`), so the first response fails.

## 4. Plan (later modules)

Findings so far: the carry wrap (`oscore.c:447`), nonce reuse after
reboot (`oscore.c:448`), no replay window (`oscore.c:236`), undefined
behaviour on forged packets (`nonce.c:20`, `oscore.c:269`), the
relative-delta class test (`options.c:202`), the silent crop of option values longer than 12 bytes (`options.c:151`), the Proxy-Uri rewrite (missing `:`, byte order, overflow: `oscore.c:385`, `coap-uri.c:92`) and the 10-option cap
(`oscore.c:405`). An earlier version of this project reported that
`init_encrypted_packet` (`oscore.c:326`) lacked a return. That was
wrong: it returns `OscoreNoError` at line 344, and `requests_answered`
now checks that requests are answered. Remaining:

1. Refine the `from_oscore` and `into_oscore` abstractions in
   `OscoreServer` by the option codecs. The request's options would run
   through `UnprotectOptions` and the response through `ProtectOptions`.
   The AAD's Class I list would then come from `is_class_i`.

## 5. Not modelled

- SHA-256, HMAC, AES-CCM and CBOR byte layouts. The model abstracts them
  as a key per id, a block as its chain of counters, and a perfect AEAD. Computing them is out of TLC's
  reach, and the properties depend only on key and nonce equality.
- Zephyr's `http_parser_parse_url`, which `coap_parse_uri` calls. It is
  not in `src/`. The model takes its result to be the components of the
  URL.
- The comment at the top of `hkdf_info.c` lists a four-item info without
  `id_context`. The code encodes five items, as RFC 8613 does, and the
  model follows the code.
- The salt default of `hkdf_sha256` and the getters' defaults for a NULL
  `pre.opt`. `main` always passes `OPT`, and no property depends on the
  salt.
- `array.c`. Its `array_equals` is model-value equality.
- The Zephyr network stack and packet buffers. `init_decrypted_packet`
  and `init_encrypted_packet` can fail on a full buffer, and those
  failures are kept as failure disjuncts. Buffers are not counted.
  `oscore_post` does not free its packets when `into_oscore` fails, and
  nothing in `src/` frees the decrypted request (TODO at
  `oscore.c:572`). Whether the pools run dry, so that the thread
  blocks forever in `net_pkt_get_*(K_FOREVER)`, depends on the Zephyr
  glue and on pool sizes, and neither is in the repository.
- The resource handlers other than `oscore_post` named in
  `resources.h`. They are not in `src/`.
