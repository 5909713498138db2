---------------------------- MODULE MCDataStore ----------------------------
(* Small instances of DataStore for TLC. *)
EXTENDS DataStore, TLC

Piece(k, lo, hi) == [key |-> k, lo |-> lo, hi |-> hi, bytes |-> "own"]
Foreign(k, lo, hi) == [Piece(k, lo, hi) EXCEPT !.bytes = "other"]
Unreadable(k, lo, hi) == [Piece(k, lo, hi) EXCEPT !.bytes = "unreadable"]

\* A payload of two chunks and a payload of one.
MCSize == [k \in Keys |-> IF k = "two" THEN 4 ELSE 2]
MCChunks ==
  [k \in Keys |-> IF k = "two" THEN {Piece(k, 0, 1), Piece(k, 2, 3)}
                  ELSE {Piece(k, 0, 1)}]

\* Transactions are named after their payload.
MCKeyOf == [x \in Txs |-> IF x = "txTwo" THEN "two" ELSE "one"]

MCData == [x \in Txs |-> MCChunks[MCKeyOf[x]]]

\* A genuine chunk; four bytes for a place of two, which reach back over the
\* payload allocated before or below address zero; and bytes that do not decode.
MCSubmitted ==
  {Piece("two", 2, 3), Foreign("one", -2, 1), Unreadable("one", 0, 1)}

\* Request goroutines are interchangeable.
Symmetry == Permutations(Actors)
=============================================================================
