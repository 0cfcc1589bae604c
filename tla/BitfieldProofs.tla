---------------------------- MODULE BitfieldProofs ----------------------------
(* What GetBit answers after SetBit, and of the slice that updatePieces makes. *)
EXTENDS Bitfield, TLAPS

Bitfields == Seq(Byte)

\* The eight masks, and which bit each of the eight is of.
LEMMA MaskCases ==
    ASSUME NEW idx \in Nat
    PROVE  /\ idx % 8 \in 0..7
           /\ idx = 8 * (idx \div 8) + (idx % 8)
           /\ idx \div 8 \in Nat
           /\ Mask(idx) = Mask(idx % 8)
           /\ Mask(idx) \in {128, 64, 32, 16, 8, 4, 2, 1}
<1>1. idx % 8 \in 0..7 /\ idx = 8 * (idx \div 8) + (idx % 8) /\ idx \div 8 \in Nat
  OBVIOUS
<1>2. (idx % 8) % 8 = idx % 8
  BY <1>1
<1> QED BY <1>1, <1>2 DEF Mask

\* Two of the eight bits are the same only if their indices are.
LEMMA MaskDistinct ==
    ASSUME NEW i \in 0..7, NEW j \in 0..7
    PROVE  Mask(i) = Mask(j) <=> i = j
<1>1. /\ Mask(0) = 128 /\ Mask(1) = 64 /\ Mask(2) = 32 /\ Mask(3) = 16
      /\ Mask(4) = 8 /\ Mask(5) = 4 /\ Mask(6) = 2 /\ Mask(7) = 1
  BY DEF Mask
<1> QED BY <1>1

\* Setting and clearing one bit of a byte leaves a byte, sets or clears that bit
\* and no other.
LEMMA OneBit ==
    ASSUME NEW byte \in Byte,
           NEW m \in {128, 64, 32, 16, 8, 4, 2, 1},
           NEW o \in {128, 64, 32, 16, 8, 4, 2, 1}
    PROVE  /\ With(byte, m) \in Byte /\ Without(byte, m) \in Byte
           /\ Has(With(byte, m), m) /\ ~Has(Without(byte, m), m)
           /\ o # m => /\ Has(With(byte, m), o) <=> Has(byte, o)
                       /\ Has(Without(byte, m), o) <=> Has(byte, o)
<1>1. CASE m = 128
  BY <1>1, SMTT(60) DEF With, Without, Has, Byte
<1>2. CASE m = 64
  BY <1>2, SMTT(60) DEF With, Without, Has, Byte
<1>3. CASE m = 32
  BY <1>3, SMTT(60) DEF With, Without, Has, Byte
<1>4. CASE m = 16
  BY <1>4, SMTT(60) DEF With, Without, Has, Byte
<1>5. CASE m = 8
  BY <1>5, SMTT(60) DEF With, Without, Has, Byte
<1>6. CASE m = 4
  BY <1>6, SMTT(60) DEF With, Without, Has, Byte
<1>7. CASE m = 2
  BY <1>7, SMTT(60) DEF With, Without, Has, Byte
<1>8. CASE m = 1
  BY <1>8, SMTT(60) DEF With, Without, Has, Byte
<1> QED BY <1>1, <1>2, <1>3, <1>4, <1>5, <1>6, <1>7, <1>8

-----------------------------------------------------------------------------
(* Set, then get *)

\* A bit reads as it was last set, whatever it was, and no other bit changes
\* (SetBit, GetBit): for bitfields of any length.  Outside nothing is set or read.
THEOREM GetAfterSet ==
    ASSUME NEW b \in Bitfields, NEW idx \in Nat, NEW other \in Nat, NEW value \in BOOLEAN
    PROVE  /\ SetBit(b, idx, value) \in Bitfields
           /\ GetBit(SetBit(b, idx, value), idx) <=> value /\ ~Outside(b, idx)
           /\ other # idx =>
                (GetBit(SetBit(b, idx, value), other) <=> GetBit(b, other))
<1> DEFINE i == idx \div 8 + 1
           j == other \div 8 + 1
           new == IF value THEN With(b[i], Mask(idx)) ELSE Without(b[i], Mask(idx))
<1>1. CASE Outside(b, idx)
  BY <1>1 DEF SetBit, GetBit
<1>2. CASE ~Outside(b, idx)
  <2>1. idx \div 8 \in Nat /\ i \in 1..Len(b) /\ b[i] \in Byte /\ j \in Nat \ {0}
    BY <1>2, MaskCases DEF Outside, Bitfields
  <2>2. Mask(idx) \in {128, 64, 32, 16, 8, 4, 2, 1}
        /\ Mask(other) \in {128, 64, 32, 16, 8, 4, 2, 1}
    BY MaskCases
  <2>3. new \in Byte /\ (Has(new, Mask(idx)) <=> value)
    <3>1. CASE value
      BY <3>1, <2>1, <2>2, OneBit
    <3>2. CASE ~value
      BY <3>2, <2>1, <2>2, OneBit
    <3> QED BY <3>1, <3>2
  <2>4. SetBit(b, idx, value) = [b EXCEPT ![i] = new]
    BY <1>2 DEF SetBit
  <2> HIDE DEF new
  <2>5. /\ [b EXCEPT ![i] = new] \in Bitfields
        /\ Len([b EXCEPT ![i] = new]) = Len(b)
        /\ [b EXCEPT ![i] = new][i] = new
        /\ \A k \in 1..Len(b) : k # i => [b EXCEPT ![i] = new][k] = b[k]
    BY <2>1, <2>3 DEF Bitfields
  <2>6. GetBit(SetBit(b, idx, value), idx) <=> value
    BY <1>2, <2>3, <2>4, <2>5 DEF GetBit, Outside
  <2>7. ASSUME other # idx
        PROVE  GetBit(SetBit(b, idx, value), other) <=> GetBit(b, other)
    <3>1. Outside(SetBit(b, idx, value), other) <=> Outside(b, other)
      BY <2>4, <2>5 DEF Outside
    <3>2. CASE Outside(b, other)
      BY <3>1, <3>2 DEF GetBit
    <3>3. CASE ~Outside(b, other) /\ i # j
      <4>1. j \in 1..Len(b)
        BY <3>3, <2>1, MaskCases DEF Outside, Bitfields
      <4>2. SetBit(b, idx, value)[j] = b[j]
        BY <4>1, <3>3, <2>4, <2>5
      <4> QED BY <3>1, <4>2 DEF GetBit
    <3>4. CASE ~Outside(b, other) /\ i = j
      <4>1. idx % 8 # other % 8
        BY <2>7, <3>4, MaskCases
      <4>2. Mask(other) # Mask(idx)
        BY <4>1, MaskCases, MaskDistinct
      <4>3. Has(new, Mask(other)) <=> Has(b[i], Mask(other))
        <5>1. CASE value
          BY <5>1, <4>2, <2>1, <2>2, OneBit DEF new
        <5>2. CASE ~value
          BY <5>2, <4>2, <2>1, <2>2, OneBit DEF new
        <5> QED BY <5>1, <5>2
      <4>4. SetBit(b, idx, value)[j] = new
        BY <3>4, <2>4, <2>5
      <4> QED BY <3>1, <3>4, <4>3, <4>4 DEF GetBit
    <3> QED BY <3>2, <3>3, <3>4
  <2> QED BY <1>2, <2>4, <2>5, <2>6, <2>7
<1> QED BY <1>1, <1>2

-----------------------------------------------------------------------------
(* The slice over libtorrent's bytes *)

\* The bits of one byte of libtorrent's.
LEMMA PackedBits ==
    ASSUME NEW pieces, NEW i \in Nat, NEW k \in 0..7
    PROVE  /\ PackedByte(pieces, i) \in Byte
           /\ Has(PackedByte(pieces, i), Mask(k)) <=> 8 * i + k \in pieces
<1> DEFINE b0 == IF 8 * i + 0 \in pieces THEN Mask(0) ELSE 0
           b1 == IF 8 * i + 1 \in pieces THEN Mask(1) ELSE 0
           b2 == IF 8 * i + 2 \in pieces THEN Mask(2) ELSE 0
           b3 == IF 8 * i + 3 \in pieces THEN Mask(3) ELSE 0
           b4 == IF 8 * i + 4 \in pieces THEN Mask(4) ELSE 0
           b5 == IF 8 * i + 5 \in pieces THEN Mask(5) ELSE 0
           b6 == IF 8 * i + 6 \in pieces THEN Mask(6) ELSE 0
           b7 == IF 8 * i + 7 \in pieces THEN Mask(7) ELSE 0
           byte == b0 + b1 + b2 + b3 + b4 + b5 + b6 + b7
<1>1. /\ Mask(0) = 128 /\ Mask(1) = 64 /\ Mask(2) = 32 /\ Mask(3) = 16
      /\ Mask(4) = 8 /\ Mask(5) = 4 /\ Mask(6) = 2 /\ Mask(7) = 1
  BY DEF Mask
<1>2. PackedByte(pieces, i) = byte
  BY DEF PackedByte
<1>3. /\ b0 \in {0, 128} /\ b1 \in {0, 64} /\ b2 \in {0, 32} /\ b3 \in {0, 16}
      /\ b4 \in {0, 8} /\ b5 \in {0, 4} /\ b6 \in {0, 2} /\ b7 \in {0, 1}
  BY <1>1
<1>4. /\ (b0 # 0 <=> 8 * i + 0 \in pieces) /\ (b1 # 0 <=> 8 * i + 1 \in pieces)
      /\ (b2 # 0 <=> 8 * i + 2 \in pieces) /\ (b3 # 0 <=> 8 * i + 3 \in pieces)
      /\ (b4 # 0 <=> 8 * i + 4 \in pieces) /\ (b5 # 0 <=> 8 * i + 5 \in pieces)
      /\ (b6 # 0 <=> 8 * i + 6 \in pieces) /\ (b7 # 0 <=> 8 * i + 7 \in pieces)
  BY <1>1
<1> HIDE DEF b0, b1, b2, b3, b4, b5, b6, b7
<1>5. /\ byte \in Byte
      /\ Has(byte, 128) <=> b0 # 0
      /\ Has(byte, 64) <=> b1 # 0
      /\ Has(byte, 32) <=> b2 # 0
      /\ Has(byte, 16) <=> b3 # 0
      /\ Has(byte, 8) <=> b4 # 0
      /\ Has(byte, 4) <=> b5 # 0
      /\ Has(byte, 2) <=> b6 # 0
      /\ Has(byte, 1) <=> b7 # 0
  BY <1>3, SMTT(60) DEF Has, Byte
<1> HIDE DEF byte
<1>6. k \in {0, 1, 2, 3, 4, 5, 6, 7}
  OBVIOUS
<1> QED BY <1>1, <1>2, <1>4, <1>5, <1>6

\* For a torrent of any number of pieces, the slice holds the bit of each, at the place
\* where GetBit looks for it; the one byte that may lie behind libtorrent's is only
\* asked for the piece after the last, and only if the pieces fill whole bytes
\* (updatePieces, hasPiece).
THEOREM SliceHoldsPieces ==
    ASSUME NEW n \in Nat, NEW pieces \in SUBSET (0..(n - 1)), NEW behind \in Byte,
           NEW piece \in Nat
    PROVE  LET slice == Slice(pieces, n, behind)
           IN  /\ slice \in Bitfields
               /\ piece < n => (GetBit(slice, piece) <=> piece \in pieces)
               /\ piece >= n /\ GetBit(slice, piece) => n % 8 = 0 /\ piece < n + 8
<1> DEFINE slice == Slice(pieces, n, behind)
           i == piece \div 8
<1>1. /\ PieceBytes(n) \in Nat /\ SliceSize(n) \in Nat
      /\ PieceBytes(n) <= SliceSize(n) /\ SliceSize(n) <= PieceBytes(n) + 1
      /\ (n % 8) # 0 => SliceSize(n) = PieceBytes(n)
      /\ (n % 8) = 0 => n = 8 * PieceBytes(n)
      /\ 8 * PieceBytes(n) >= n
  BY DEF PieceBytes, SliceSize
<1>2. \A l \in Nat : PackedByte(pieces, l) \in Byte
  BY PackedBits
<1>3. slice \in Bitfields /\ Len(slice) = SliceSize(n)
  <2>1. \A l \in 1..SliceSize(n) :
            (IF l <= PieceBytes(n) THEN Packed(pieces, n)[l] ELSE behind) \in Byte
    BY <1>1, <1>2 DEF Packed
  <2>2. slice = [l \in 1..SliceSize(n) |->
                    IF l <= PieceBytes(n) THEN Packed(pieces, n)[l] ELSE behind]
    BY DEF Slice
  <2> QED BY <1>1, <2>1, <2>2 DEF Bitfields
<1>4. /\ i \in Nat /\ (piece % 8) \in 0..7 /\ piece = 8 * i + (piece % 8)
      /\ Mask(piece) = Mask(piece % 8)
  BY MaskCases
<1>5. ASSUME i < PieceBytes(n)
      PROVE  GetBit(slice, piece) <=> piece \in pieces
  <2>1. slice[i + 1] = PackedByte(pieces, i)
    BY <1>1, <1>4, <1>5 DEF Slice, Packed
  <2>2. ~Outside(slice, piece)
    BY <1>1, <1>3, <1>4, <1>5 DEF Outside
  <2>3. Has(PackedByte(pieces, i), Mask(piece % 8)) <=> piece \in pieces
    BY <1>4, PackedBits
  <2> QED BY <2>1, <2>2, <2>3, <1>4 DEF GetBit
<1>6. piece < n => i < PieceBytes(n)
  BY <1>1, <1>4
<1>7. ASSUME piece >= n, GetBit(slice, piece)
      PROVE  n % 8 = 0 /\ piece < n + 8
  <2>1. i >= PieceBytes(n)
    BY <1>5, <1>7, <1>1, <1>4
  <2>2. i < SliceSize(n)
    BY <1>7, <1>3, <1>4 DEF GetBit, Outside
  <2> QED BY <2>1, <2>2, <1>1, <1>4
<1> QED BY <1>3, <1>5, <1>6, <1>7
===============================================================================
