------------------------------ MODULE GateChain ------------------------------
(***************************************************************************)
(* The shape shared by the pure evaluators of opsd and of the policies:    *)
(* of an if / else if chain or a series of early returns the first closed  *)
(* gate answers, and the gates behind it are not consulted.                *)
(***************************************************************************)
LOCAL INSTANCE Integers

Gate(closed, answer) == [closed |-> closed, answer |-> answer]

(* The first of a non-empty set of positions. *)
Earliest(positions) == CHOOSE i \in positions : \A j \in positions : i <= j

FirstClosed(gates, otherwise) ==
  LET closed == {i \in DOMAIN gates : gates[i].closed}
  IN  IF closed = {} THEN otherwise ELSE gates[Earliest(closed)].answer
=============================================================================
