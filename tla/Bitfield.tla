------------------------------- MODULE Bitfield -------------------------------
(***************************************************************************)
(* The pieces that libtorrent has, as TorrentFile sees them: a slice over  *)
(* the bytes of its bitfield, the first piece in the highest bit.  The     *)
(* slice counts from 0, the sequence from 1.                               *)
(***************************************************************************)
EXTENDS Integers, Sequences

Byte == 0..255

\* 0x80 >> (idx & 7)
Mask(idx) == <<128, 64, 32, 16, 8, 4, 2, 1>>[(idx % 8) + 1]

\* One bit of a byte.
Has(byte, mask) == (byte \div mask) % 2 = 1

Outside(b, idx) == idx \div 8 >= Len(b)

GetBit(b, idx) == ~Outside(b, idx) /\ Has(b[idx \div 8 + 1], Mask(idx))

\* |= and &^= of one bit
With(byte, mask)    == IF Has(byte, mask) THEN byte ELSE byte + mask
Without(byte, mask) == IF Has(byte, mask) THEN byte - mask ELSE byte

SetBit(b, idx, value) ==
    IF Outside(b, idx)
    THEN b
    ELSE [b EXCEPT ![idx \div 8 + 1] =
              IF value THEN With(@, Mask(idx)) ELSE Without(@, Mask(idx))]

-----------------------------------------------------------------------------
(* libtorrent's bitfield of a torrent of n pieces *)

PieceBytes(n) == (n + 7) \div 8

\* The byte that holds the bits of the pieces from 8 * i.
PackedByte(pieces, i) ==
    LET Bit(k) == IF 8 * i + k \in pieces THEN Mask(k) ELSE 0
    IN  Bit(0) + Bit(1) + Bit(2) + Bit(3) + Bit(4) + Bit(5) + Bit(6) + Bit(7)

Packed(pieces, n) == [i \in 1..PieceBytes(n) |-> PackedByte(pieces, i - 1)]

\* The length that updatePieces gives the slice: for one bit more than there is.
SliceSize(n) ==
    LET bits == n + 1
    IN  bits \div 8 + (IF bits % 8 > 0 THEN 1 ELSE 0)

\* The slice: libtorrent's bytes and, as the case may be, those behind them.
Slice(pieces, n, behind) ==
    [i \in 1..SliceSize(n) |-> IF i <= PieceBytes(n) THEN Packed(pieces, n)[i] ELSE behind]
===============================================================================
