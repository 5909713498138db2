----------------------------- MODULE MCOnChain ------------------------------
(* Small instances of OnChain for TLC. *)
EXTENDS OnChain

\* The Sort header an item comes with: "p" and "q" never ask for a sequence,
\* "s" always does, "m" does both.
MCSize == [i \in Items |-> 1]
MCModes == [i \in Items |-> CASE i \in {"p", "q"} -> {FALSE}
                              [] i = "m" -> BOOLEAN
                              [] i = "s" -> {TRUE}]
=============================================================================
