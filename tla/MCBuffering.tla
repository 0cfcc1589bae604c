----------------------------- MODULE MCBuffering -----------------------------
(* Instances of Buffering for TLC: pieces of two bytes. *)
EXTENDS Buffering, TLC

CONSTANTS s1, s2, w1

OneSetter == {s1}
TwoSetters == {s1, s2}
OneWatcher == {w1}
NoWatcher == {}

\* One piece of the head for every three the file spans, rounded up.
Third == [n \in 0..(NumPieces + 1) |-> (n + 2) \div 3]

\* Two files, the first of which is bigger; the second begins within a piece and
\* ends within the last.
TwoOffsets == (0 :> 0) @@ (1 :> 5)
TwoSizes   == (0 :> 5) @@ (1 :> 4)

\* The same in three pieces.
ShortOffsets == (0 :> 0) @@ (1 :> 3)
ShortSizes   == (0 :> 3) @@ (1 :> 2)

\* And in two.
TinyOffsets == (0 :> 0) @@ (1 :> 2)
TinySizes   == (0 :> 2) @@ (1 :> 1)

SetToSeven == {<<0, 7>>, <<1, 7>>}
SetAnyWay  == {<<0, 7>>, <<1, 7>>, <<1, 0>>, <<0, 9999>>}

Minus1 == -1

SetterSymmetry == Permutations(Setters)
=============================================================================
