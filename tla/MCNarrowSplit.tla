--------------------------- MODULE MCNarrowSplit ---------------------------
(* Small runs for TLC. *)
EXTENDS NarrowSplit, TLC

CONSTANTS w1, w2, revA, revB, w12

\* Revision B finds other champions and cuts the space into fewer units.
TwoRevs == w12 :> ((revA :> << <<11>>, << >>, <<13, 14>> >>) @@ (revB :> << <<21>>, <<22>> >>))
Swap == Permutations({w1, w2})
============================================================================
