--------------------------- MODULE MCSecurityContext ---------------------------
(***************************************************************************)
(* Inputs for SecurityContext.  Output lengths for the direct HKDF calls: *)
(* everything up to a few blocks (42 and 82 are the RFC 5869 test cases  *)
(* main runs, 13 and 16 what derive asks for) and the lengths around the  *)
(* 255-block limit.  The pre_established values: the one main passes, and *)
(* ids and id contexts that change the CBOR sizes of the info.            *)
(***************************************************************************)
EXTENDS SecurityContext

\* Short outputs, 254 blocks (the most the u8_t counter survives) and
\* 8161 octets, one past RFC 5869's 255 * HashLen.
MCOutLens == (0..130) \cup {8127, 8128, 8161}

\* 255 blocks (8129..8160) and one past the limit.
MCLimitOutLens == {16, 8129, 8160, 8161}

Bytes(n) == [j \in 1..n |-> 0]

\* PRE_ESTABLISHED of main.c (Sender ID 0x01, empty Recipient ID, no ID
\* Context); an empty but present ID Context; a 24-byte ID Context, whose
\* bstr head takes two bytes; a 7-byte Sender ID with a 1-byte context.
MCPreEstablished ==
  { [sender_id |-> <<1>>, recipient_id |-> <<>>, common_id_context |-> NULL],
    [sender_id |-> <<1>>, recipient_id |-> <<>>, common_id_context |-> <<>>],
    [sender_id |-> <<>>, recipient_id |-> <<1>>, common_id_context |-> Bytes(24)],
    [sender_id |-> Bytes(7), recipient_id |-> <<2>>, common_id_context |-> <<3>>] }

==============================================================================
