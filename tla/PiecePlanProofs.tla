--------------------------- MODULE PiecePlanProofs ---------------------------
(* What prioritizepieces promises, for every layout, buffer and file. *)
EXTENDS PiecePlan, TLAPS

\* Pieces are in the order of their bytes.
LEMMA DivMonotone ==
    ASSUME NEW a \in Nat, NEW b \in Nat, a <= b, NEW L \in Nat \ {0}
    PROVE  /\ a \div L \in Nat /\ b \div L \in Nat
           /\ a \div L <= b \div L
<1>1. a \div L \in Nat /\ b \div L \in Nat
  OBVIOUS
<1>2. a \div L <= b \div L
  OBVIOUS
<1> QED BY <1>1, <1>2

\* The byte before is in the same piece or in the one before.
LEMMA DivNext ==
    ASSUME NEW a \in Nat, NEW L \in Nat \ {0}
    PROVE  (a + 1) \div L <= a \div L + 1
<1>1. a < L * (a \div L) + L
  OBVIOUS
<1>2. (a + 1) \div L \in Nat /\ a \div L \in Nat
  OBVIOUS
<1>3. L * ((a + 1) \div L) <= a + 1
  OBVIOUS
<1>4. SUFFICES ASSUME (a + 1) \div L >= a \div L + 2 PROVE FALSE
  BY <1>2
<1>5. L * ((a + 1) \div L) >= L * (a \div L + 2)
  BY <1>2, <1>4
<1> QED BY <1>1, <1>2, <1>3, <1>5

\* N pieces of bytes, wherever they begin, span at most N + 1 pieces.
LEMMA DivSpan ==
    ASSUME NEW a \in Nat, NEW x \in Nat, NEW L \in Nat \ {0}, NEW N \in Nat, x <= N * L
    PROVE  (a + x) \div L <= a \div L + N
<1> DEFINE d == a \div L
           e == (a + x) \div L
<1>1. d \in Nat /\ e \in Nat /\ a < L * d + L /\ L * e <= a + x
  OBVIOUS
<1> HIDE DEF d, e
<1>2. SUFFICES ASSUME e >= d + N + 1 PROVE FALSE
  BY <1>1 DEF d, e
<1>3. L * e >= L * (d + N + 1)
  BY <1>1, <1>2
<1>4. L * (d + N + 1) = L * d + N * L + L
  BY <1>1
<1>5. L * d \in Nat /\ N * L \in Nat /\ L * e \in Nat
  BY <1>1
<1> QED BY <1>1, <1>3, <1>4, <1>5

\* A file that lies in the torrent is no longer than it.
LEMMA FittingSize ==
    ASSUME NEW offset \in Nat, NEW size \in Nat, Fits(offset, size)
    PROVE  size <= NumPieces * PieceLength
  BY PlanAssumption DEF Fits

\* The stops of the loops of prioritizepieces, in their order, even for the offset of
\* one file and the size of another.
LEMMA Stops ==
    ASSUME NEW offset \in Nat, NEW size \in Nat, size <= NumPieces * PieceLength
    PROVE  /\ StartPiece(offset) \in Nat /\ EndPiece(offset, size) \in Nat
           /\ StartPiece(offset) <= EndPiece(offset, size)
           /\ HeadStop(offset, size) \in Nat /\ MiddleStop(offset, size) \in Nat
           /\ TailStop(offset, size) \in Nat /\ VectorLength(offset, size) \in Nat
           /\ StartPiece(offset) < HeadStop(offset, size)
           /\ HeadStop(offset, size) <= MiddleStop(offset, size)
           /\ MiddleStop(offset, size) <= TailStop(offset, size)
           /\ EndPiece(offset, size) < TailStop(offset, size)
           /\ TailStop(offset, size) <= VectorLength(offset, size)
           /\ NumPieces <= VectorLength(offset, size)
<1> DEFINE s == StartPiece(offset)
           e == EndPiece(offset, size)
<1>1. s \in Nat /\ e \in Nat /\ s <= e
  <2>1. offset + size \in Nat /\ offset <= offset + size
    OBVIOUS
  <2> QED BY <2>1, DivMonotone, PlanAssumption DEF StartPiece, EndPiece
<1>2. e <= s + NumPieces
  BY DivSpan, PlanAssumption DEF StartPiece, EndPiece
<1>3. StartBuffer[e - s] \in Nat
  <2>1. e - s \in 0..(NumPieces + 1)
    BY <1>1, <1>2, PlanAssumption
  <2> HIDE DEF s, e
  <2> QED BY <2>1, PlanAssumption
<1>4. HeadStop(offset, size) = s + StartBuffer[e - s] + 1
  BY DEF HeadStop
<1>5. HeadStop(offset, size) \in Nat /\ s < HeadStop(offset, size)
  <2> HIDE DEF s, e
  <2> QED BY <1>1, <1>3, <1>4
<1>6. MiddleStop(offset, size) = Largest(HeadStop(offset, size), e - EndBuffer)
  BY DEF MiddleStop
<1>7. MiddleStop(offset, size) \in Nat /\ HeadStop(offset, size) <= MiddleStop(offset, size)
  <2> HIDE DEF s, e
  <2> QED BY <1>1, <1>5, <1>6, PlanAssumption DEF Largest
<1>8. TailStop(offset, size) = Largest(MiddleStop(offset, size), e + 1)
  BY DEF TailStop
<1>9. /\ TailStop(offset, size) \in Nat /\ e < TailStop(offset, size)
      /\ MiddleStop(offset, size) <= TailStop(offset, size)
  <2> HIDE DEF s, e
  <2> QED BY <1>1, <1>7, <1>8 DEF Largest
<1>10. /\ VectorLength(offset, size) \in Nat
       /\ TailStop(offset, size) <= VectorLength(offset, size)
       /\ NumPieces <= VectorLength(offset, size)
  BY <1>9, PlanAssumption DEF VectorLength, Largest
<1> QED BY <1>1, <1>5, <1>7, <1>9, <1>10

\* prioritizepieces fetches every piece of whatever file, and nothing but the file,
\* the piece of the byte after it and the head of the buffer.
THEOREM FetchesEveryFile ==
    ASSUME NEW offset \in Nat, NEW size \in Nat, Fits(offset, size)
    PROVE  FetchesTheFile(offset, size)
<1> DEFINE s == StartPiece(offset)
           e == EndPiece(offset, size)
           h == HeadStop(offset, size)
           m == MiddleStop(offset, size)
           t == TailStop(offset, size)
           v == VectorLength(offset, size)
           V == Vector(offset, size)
<1>1. SUFFICES ASSUME NEW p \in Pieces
               PROVE  /\ p \in PiecesOf(offset, size) => V[p] > 0
                      /\ V[p] > 0 => p \in s..e \/ p \in HeadKeys(offset, size)
  BY DEF FetchesTheFile
<1>2. /\ s \in Nat /\ e \in Nat /\ h \in Nat /\ m \in Nat /\ t \in Nat /\ v \in Nat
      /\ s <= e /\ s < h /\ h <= m /\ m <= t /\ e < t /\ t <= v /\ NumPieces <= v
  BY Stops, FittingSize
<1>3. p \in Int /\ 0 <= p /\ p < v
  BY <1>2, PlanAssumption DEF Pieces
<1>4. HeadKeys(offset, size) = s..(h - 1) /\ TailKeys(offset, size) = m..(t - 1)
  BY DEF HeadKeys, TailKeys
<1>5. V[p] = IF p \in HeadKeys(offset, size) \cup TailKeys(offset, size) THEN 7
             ELSE IF p \in h..(m - 1) THEN 1 ELSE 0
  <2>1. p \in 0..(v - 1)
    BY <1>2, <1>3
  <2> QED BY <2>1 DEF Vector, BufferKeys
<1>6. t = m \/ t = e + 1
  BY DEF TailStop, Largest
<1>7. p \in PiecesOf(offset, size) => s <= p /\ p <= e
  <2>1. SUFFICES ASSUME NEW b \in offset..(offset + size - 1), b \div PieceLength = p
                 PROVE  s <= p /\ p <= e
    BY DEF PiecesOf
  <2>2. b \in Nat /\ offset <= b /\ b <= offset + size /\ offset + size \in Nat
    BY <2>1
  <2>3. offset \div PieceLength <= b \div PieceLength
    BY <2>2, DivMonotone, PlanAssumption
  <2>4. b \div PieceLength <= (offset + size) \div PieceLength
    BY <2>2, DivMonotone, PlanAssumption
  <2> QED BY <2>1, <2>3, <2>4 DEF StartPiece, EndPiece
<1>8. s <= p /\ p <= e => V[p] > 0
  <2> HIDE DEF s, e, h, m, t, v, V
  <2> QED BY <1>2, <1>3, <1>4, <1>5
<1>9. m = h \/ m = e - EndBuffer
  BY DEF MiddleStop, Largest
<1>10. V[p] > 0 => p \in s..e \/ p \in HeadKeys(offset, size)
  <2> HIDE DEF s, e, h, m, t, v, V
  <2> QED BY <1>2, <1>3, <1>4, <1>5, <1>6, <1>9, PlanAssumption
<1> QED BY <1>7, <1>8, <1>10

\* The pieces of the first byte and of the last are counted in the buffer, whatever
\* share of the file the buffer is.
THEOREM BuffersEveryFile ==
    ASSUME NEW offset \in Nat, NEW size \in Nat, Fits(offset, size)
    PROVE  BuffersBothEnds(offset, size)
<1> DEFINE s == StartPiece(offset)
           e == EndPiece(offset, size)
           h == HeadStop(offset, size)
           m == MiddleStop(offset, size)
           t == TailStop(offset, size)
           l == (offset + size - 1) \div PieceLength
<1>1. SUFFICES ASSUME size > 0
               PROVE  s \in BufferKeys(offset, size) /\ l \in BufferKeys(offset, size)
  BY DEF BuffersBothEnds, StartPiece
<1>2. /\ s \in Nat /\ e \in Nat /\ h \in Nat /\ m \in Nat /\ t \in Nat
      /\ s <= e /\ s < h /\ h <= m /\ m <= t /\ e < t
  BY Stops, FittingSize
<1>3. l \in Nat /\ s <= l /\ l <= e
  <2>1. offset + size - 1 \in Nat /\ offset <= offset + size - 1 /\ offset + size \in Nat
    BY <1>1
  <2>2. l \in Nat /\ s <= l
    BY <2>1, DivMonotone, PlanAssumption DEF StartPiece
  <2>3. l <= e
    BY <2>1, DivMonotone, PlanAssumption DEF EndPiece
  <2> QED BY <2>2, <2>3
<1>4. e <= l + 1
  <2>1. offset + size - 1 \in Nat /\ (offset + size - 1) + 1 = offset + size
    BY <1>1
  <2>2. ((offset + size - 1) + 1) \div PieceLength <= l + 1
    BY <2>1, DivNext, PlanAssumption
  <2> QED BY <2>1, <2>2 DEF EndPiece
<1>5. BufferKeys(offset, size) = (s..(h - 1)) \cup (m..(t - 1))
  BY DEF BufferKeys, HeadKeys, TailKeys
<1>6. m = h \/ m = e - EndBuffer
  BY DEF MiddleStop, Largest
<1>7. s \in s..(h - 1)
  <2> HIDE DEF s, h
  <2> QED BY <1>2
<1>8. l \in (s..(h - 1)) \cup (m..(t - 1))
  <2> HIDE DEF s, e, h, m, t, l
  <2> QED BY <1>2, <1>3, <1>4, <1>6, PlanAssumption
<1> QED BY <1>5, <1>7, <1>8
=============================================================================
