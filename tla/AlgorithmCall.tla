--------------------------- MODULE AlgorithmCall ----------------------------
(***************************************************************************)
(* One call of one function: its name and arguments, and what it returned. *)
(***************************************************************************)
EXTENDS Integers

VARIABLES
  input,    \* the function called, and its arguments
  output    \* what it returned

\* The sequences over a set of at most that length.
UpTo(n, set) == UNION {[1..k -> set] : k \in 0..n}

NotYet == [done |-> FALSE]
Returned(value) == [done |-> TRUE, value |-> value]
Is(function) == output.done /\ input.function = function
=============================================================================
