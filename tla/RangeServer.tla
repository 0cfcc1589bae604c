----------------------------- MODULE RangeServer -----------------------------
(***************************************************************************)
(* What the /files/ part of torrent2http promises to its clients, whatever *)
(* the pieces, the seeks and the priorities behind it: a response is the   *)
(* range that was asked for, in order, as far as it goes, and no byte of   *)
(* it leaves before its piece is available.                                *)
(***************************************************************************)
EXTENDS Integers

CONSTANTS
    Readers,
    Asks,            \* [file, first, last]: bytes first..last-1 of a file
    PieceOf(_, _)    \* the piece that holds a byte of a file

VARIABLES
    available,       \* the pieces there are
    response         \* each reader's: none, or its ask and the next byte to serve

vars == <<available, response>>

None == [state |-> "none"]

Init == response = [r \in Readers |-> None]

Begin(r, a) ==
    /\ response[r] = None
    /\ response' = [response EXCEPT ![r] =
                       [state |-> "serving", ask |-> a, next |-> a.first]]
    /\ UNCHANGED available

\* Some more bytes of the range, all of them available.
Serve(r, upTo) ==
    LET q == response[r]
    IN  /\ q # None
        /\ q.state = "serving"
        /\ upTo > q.next /\ upTo <= q.ask.last
        /\ \A b \in q.next..(upTo - 1) : PieceOf(q.ask.file, b) \in available
        /\ response' = [response EXCEPT ![r].next = upTo]
        /\ UNCHANGED available

\* The response is complete, or broken off.
End(r) ==
    /\ response[r] # None
    /\ response[r].state = "serving"
    /\ response' = [response EXCEPT ![r].state = "over"]
    /\ UNCHANGED available

\* Pieces come and do not go.
More ==
    /\ available \subseteq available'
    /\ UNCHANGED response

Next ==
    \/ \E r \in Readers :
          \/ \E a \in Asks : Begin(r, a)
          \/ /\ response[r] # None
             /\ \E upTo \in response[r].ask.first..response[r].ask.last : Serve(r, upTo)
          \/ End(r)
    \/ More

Spec == Init /\ [][Next]_vars
=============================================================================
