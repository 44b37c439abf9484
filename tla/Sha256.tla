-------------------------------- MODULE Sha256 --------------------------------
(***************************************************************************)
(* sha256.c as far as it decides which blocks are compressed: the partial  *)
(* block carried between calls of sha256_update, and the padding.  The     *)
(* compression function is taken to be injective: the state is the         *)
(* sequence of bytes compressed so far, and a digest the padded message.   *)
(***************************************************************************)
EXTENDS Naturals, Sequences

CONSTANTS
  BlockLen,     \* SHA256_BLOCK_LEN
  LenLen,       \* bytes of the message length at the end of the last block
  BitsPerByte

ASSUME BlockAssumption ==
  /\ BlockLen \in Nat /\ LenLen \in Nat /\ LenLen < BlockLen
  /\ BitsPerByte \in Nat \ {0}

Bytes == 0 .. 2 ^ BitsPerByte - 1
TopBit == 2 ^ (BitsPerByte - 1)      \* 0x80
BitLens == 2 ^ (BitsPerByte * LenLen) \* the length is a u64

\* A power of two; the provers know nothing of powers.
ASSUME PowerAssumption == BitLens \in Nat \ {0}

Least(m, n) == IF m < n THEN m ELSE n
Zeros(n) == [k \in 1 .. n |-> 0]

\* The first n bytes, and those after them.
First(d, n) == SubSeq(d, 1, n)
After(d, n) == SubSeq(d, n + 1, Len(d))

\* memcpy and memset into the block buffer, at offset at.
Copied(buf, at, d) ==
  [k \in 1 .. BlockLen |-> IF k > at /\ k <= at + Len(d) THEN d[k - at] ELSE buf[k]]

\* The length as LenLen bytes, most significant first.
LengthBytes(bits) ==
  [k \in 1 .. LenLen |->
     (bits \div (2 ^ (BitsPerByte * (LenLen - k)))) % (2 ^ BitsPerByte)]

Compress(state, block) == state \o block

\* sha256_init leaves buf as it was; any contents will do.
InitCtx(buf) == [state |-> <<>>, bitlen |-> 0, buf |-> buf, buflen |-> 0]

\* n bytes are copied behind the partial block.
Carry(ctx, d) ==
  [ctx EXCEPT !.buf = Copied(ctx.buf, ctx.buflen, d),
              !.buflen = @ + Len(d),
              !.bitlen = (@ + Len(d) * BitsPerByte) % BitLens]

\* The block is compressed when it is full.
Flushed(ctx) ==
  IF ctx.buflen = BlockLen
  THEN [ctx EXCEPT !.state = Compress(@, ctx.buf), !.buflen = 0]
  ELSE ctx

\* Phase 1: as much of the data as tops up the carried block.
TopUp(ctx, d) ==
  IF ctx.buflen = 0 THEN 0 ELSE Least(BlockLen - ctx.buflen, Len(d))

\* Phase 2: whole blocks, straight from the caller's buffer.
Whole(d) == Len(d) - (Len(d) % BlockLen)

Absorb(ctx, d) ==
  [ctx EXCEPT !.state = Compress(@, d),
              !.bitlen = (@ + Len(d) * BitsPerByte) % BitLens]

\* Mutated form of sha256_update: the carried block is not topped up, so that
\* whole blocks overtake it.
UpdateNoTopUp(ctx, d) ==
  LET w == Whole(d)
  IN IF ctx.buflen + Len(d) < BlockLen THEN Carry(ctx, d)
     ELSE Carry(Absorb(ctx, First(d, w)), After(d, Least(w, Len(d))))

\* sha256_update; phase 3 carries the remainder.
sha256_update(ctx, d) ==
  LET n == TopUp(ctx, d)
      topped == IF n = 0 THEN ctx ELSE Flushed(Carry(ctx, First(d, n)))
      rest == After(d, n)
      w == Whole(rest)
  IN Carry(Absorb(topped, First(rest, w)), After(rest, w))

\* sha256_final: 0x80, zeros, and the length, in a block of its own when it
\* does not fit behind the 0x80.
sha256_final(ctx) ==
  LET marked == [ctx EXCEPT !.buf = Copied(@, ctx.buflen, <<TopBit>>), !.buflen = @ + 1]
      spilt == IF marked.buflen <= BlockLen - LenLen THEN marked
               ELSE [marked EXCEPT
                       !.state = Compress(@, Copied(marked.buf, marked.buflen,
                                                    Zeros(BlockLen - marked.buflen))),
                       !.buflen = 0]
      filled == Copied(spilt.buf, spilt.buflen, Zeros(BlockLen - LenLen - spilt.buflen))
  IN Compress(spilt.state, Copied(filled, BlockLen - LenLen, LengthBytes(ctx.bitlen)))

-----------------------------------------------------------------------------
\* FIPS 180-4, 5.1.1: the message, a 1 bit, the fewest 0 bits that leave room
\* for the length in a whole number of blocks, and the length.
Padded(m) ==
  LET short == Len(m) + 1 + LenLen
      fill == (BlockLen - (short % BlockLen)) % BlockLen
  IN m \o <<TopBit>> \o Zeros(fill) \o LengthBytes((Len(m) * BitsPerByte) % BitLens)
=============================================================================
