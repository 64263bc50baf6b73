------------------------------ MODULE MCFleet ------------------------------
(* Small fleets for TLC: one worker thread per host, except where noted.   *)
EXTENDS Fleet, TLC

CONSTANTS w1, w2, h1, h2

TwoHosts == (w1 :> h1) @@ (w2 :> h2)
OneHost == (w1 :> h1) @@ (w2 :> h1)
Swap == Permutations({w1, w2})
=============================================================================
