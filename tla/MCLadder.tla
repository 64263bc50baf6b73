------------------------------ MODULE MCLadder ------------------------------
(***************************************************************************)
(* Instances of GatedLadder: a few programs with tables of errors per      *)
(* group and sizes, and a generator of a few states.                       *)
(***************************************************************************)
EXTENDS GatedLadder

MCMutated(p, lib, rng) == (p + 1 + rng + 2 * Cardinality(lib)) % 6
MCLucky(rng, loss, heat) == (rng + loss + (IF heat[1] THEN 3 ELSE heat[2]) + heat[3]) % 3 = 0
MCFresh(rng) == (rng * 2) % 6
MCSeed(frontier, attempt, r) == (1 + frontier + 2 * attempt + 3 * r) % 7
MCDraw(rng) == (rng * 3 + 2) % 7
MCStructure(p) == p % 3
MCMined(progs) == {p \div 2 : p \in progs}
MCPrograms == 0 .. 5
MCGenerators == 0 .. 6
MCLibraries == SUBSET (0 .. 2)

Table(f) == [p \in 0 .. 5 |-> f[p + 1]]
Base == [mode |-> "ladder", restarts |-> 1, groups |-> 2, rungs |-> 2, iters |-> 4, step |-> 1, beat |-> 2,
         retries |-> 2, pool_max |-> 2, w |-> 4, anchor |-> 1, handoff |-> 2,
         err |-> Table(<<<<3, 4, 1>>, <<2, 2, 1>>, <<0, 3, 2>>, <<1, 0, 0>>, <<2, 1, 0>>, <<0, 0, 2>>>>) ,
         size |-> Table(<<1, 2, 2, 3, 3, 4>>)]
Pairs == [Base EXCEPT !.restarts = 2, !.step = 2]
Shrink == [Base EXCEPT !.mode = "compress", !.retries = 0, !.err = Table(<<<<0, 1>>, <<0, 0>>, <<0, 0>>, <<1, 0>>, <<0, 0>>, <<0, 0>>>>)] @@
          [start |-> 5, certified |-> Table(<<FALSE, FALSE, TRUE, FALSE, TRUE, TRUE>>)]
\* Restarts that are not slower than a checkpoint: with two of them only one
\* checkpoint lies between the snapshots.
MCLadders == "climb" :> Base
    @@ "three" :> [Base EXCEPT !.groups = 3, !.rungs = 3]
    @@ "stall" :> [Base EXCEPT !.err = Table(<<<<3, 4>>, <<2, 2>>, <<1, 3>>, <<1, 1>>, <<2, 0>>, <<1, 0>>>>)]
    @@ "pair" :> Pairs
    @@ "pair_stall" :> [Pairs EXCEPT !.retries = 1, !.err = Table(<<<<3, 4>>, <<2, 2>>, <<1, 3>>, <<1, 1>>, <<2, 0>>, <<1, 0>>>>)]
    @@ "shrink" :> [Shrink EXCEPT !.rungs = 2, !.iters = 5]
    @@ "shrink_pair" :> [Shrink EXCEPT !.restarts = 2, !.step = 2]

\* Three checkpoints between two snapshots.
MCRaces == "race" :> [Pairs EXCEPT !.step = 1, !.iters = 4, !.beat = 4, !.retries = 0]
=============================================================================
