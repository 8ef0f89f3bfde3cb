-------------------------------- MODULE Hkdf --------------------------------
(***************************************************************************)
(* HKDF-SHA-256 of c_OSCORE (crypto/hkdf.c), which derive (in             *)
(* crypto/security_context.c) runs for the Common IV and the two keys.    *)
(*                                                                         *)
(* HMAC is not computed: a block T(i) of the expand step is the sequence  *)
(* of block counters that went into its chain, T(1) = <<1>>,              *)
(* T(i) = Append(T(i-1), i), with the zero-filled t[32] the code starts   *)
(* from written <<0>>.  The PRK and info are the same in every block and  *)
(* are left out.  What is kept is the loop's control: the block count,    *)
(* the u8_t block counter, where each block is copied and how much of it. *)
(***************************************************************************)
EXTENDS Integers, Sequences

CONSTANT OutLens     \* out.len values hkdf_sha256 is called with

HashLen == 32        \* TC_SHA256_DIGEST_SIZE
U8 == 256            \* the loop counter is a u8_t

\* t[32] = { 0 } before the first block.
ZeroBlock == <<0>>

\* size_t iterations = (out.len + 31) / 32;
Iterations(len) == (len + HashLen - 1) \div HashLen

\* Mutant: t chained into every block, T(1) included (if (i > 0)).
NextBlockChainAll(t, i) == Append(t, i)

\* HMAC(prk, [t if i > 1] || info || i)
NextBlock(t, i) == IF i > 1 THEN Append(t, i) ELSE <<i>>

-----------------------------------------------------------------------------
(* RFC 5869 section 2.3.                                                   *)

\* OKM = first L octets of T(1) | T(2) | ... | T(N), N = ceil(L/HashLen),
\* for L <= 255 * HashLen.
RfcExpand(len) ==
  LET n == (len + HashLen - 1) \div HashLen
  IN  [k \in 1..n |-> [at |-> (k - 1) * HashLen,
                       count |-> IF k * HashLen <= len THEN HashLen ELSE len % HashLen,
                       t |-> [j \in 1..k |-> j]]]

-----------------------------------------------------------------------------
(* hkdf_sha256, one loop iteration per step.                               *)

VARIABLES
  outLen,      \* out.len of the current call
  iterations,  \* size_t iterations
  i,           \* u8_t i, the loop counter and block number
  t,           \* u8_t t[32], the previous block
  blocks,      \* the copies into out so far: offset, length, block
  status       \* "idle", "running", or how the call ended

vars == <<outLen, iterations, i, t, blocks, status>>

Init ==
  /\ outLen = 0
  /\ iterations = 0
  /\ i = 1
  /\ t = ZeroBlock
  /\ blocks = <<>>
  /\ status = "idle"

\* A call hkdf_sha256(salt, ikm, info, out) with out.len = len: the
\* extract step, N = ceil(L/32), more than 255 blocks refused.
hkdf_sha256(len) ==
  /\ status # "running"
  /\ outLen' = len
  /\ iterations' = Iterations(len)
  /\ status' = IF Iterations(len) > 255 THEN "OutTooLong" ELSE "running"
  /\ i' = 1
  /\ t' = ZeroBlock
  /\ blocks' = <<>>

\* One pass of for (u8_t i = 1; i <= iterations; i++): block i goes to
\* out.ptr[(i-1)*32], 32 bytes or out.len % 32 when out.len < i*32.  A
\* copy outside out (once i has wrapped to 0) is undefined behaviour.
ExpandStep ==
  /\ status = "running"
  /\ \/ /\ ~(i <= iterations)
        /\ status' = "ok"
        /\ UNCHANGED <<i, t, blocks>>
     \/ /\ i <= iterations
        /\ LET t1 == NextBlock(t, i)
               at == (i - 1) * HashLen
               count == IF outLen < i * HashLen THEN outLen % HashLen ELSE HashLen
           IN  IF at < 0 \/ outLen < at + count
               THEN /\ status' = "OutOfBounds"
                    /\ UNCHANGED <<i, t, blocks>>
               ELSE /\ t' = t1
                    /\ blocks' = Append(blocks, [at |-> at, count |-> count, t |-> t1])
                    /\ i' = (i + 1) % U8
                    /\ UNCHANGED status
  /\ UNCHANGED <<outLen, iterations>>

Next == (\E len \in OutLens : hkdf_sha256(len)) \/ ExpandStep

Spec == Init /\ [][Next]_vars

-----------------------------------------------------------------------------
(* Properties.                                                             *)

\* Every call of hkdf_sha256 that its u8_t counter can count through
\* (at most U8 - 2 = 254 blocks) ends having written exactly the first L
\* octets of T(1) | ... | T(N), each block at its place and chained from
\* the one before, and every call with L > 255 * HashLen is refused with
\* OscoreOutTooLong.  Between the two, 255 blocks (8129 to 8160 octets)
\* are accepted by the iterations check but the loop's i++ wraps to 0
\* before i <= iterations fails, so RFC 5869's L = 255 * HashLen is not
\* met; that band is left out here and recorded as a hazard.
ExpandMatchesRfc ==
  status \notin {"idle", "running"} =>
    /\ Iterations(outLen) <= U8 - 2 => status = "ok" /\ blocks = RfcExpand(outLen)
    /\ outLen > 255 * HashLen => status = "OutTooLong"

====
