------------------------- MODULE GatedLadder_proof -------------------------
(***************************************************************************)
(* Theorems about GatedLadder: types, certified compression, and restarts  *)
(* that leave together.                                                    *)
(*                                                                         *)
(* Types are not inductive alone: that the parts of a snapshot are there   *)
(* when restart 0 takes them depends on where everybody else is.  Aligned  *)
(* says that.  There is a checkpoint such that all restarts look at its    *)
(* flags or are on their way from it (InLook), or take its snapshot        *)
(* (InGather), or leave or go on behind it (InEmit).  The last two parts   *)
(* are the race of a Ctrl-C: the others take the snapshot of a checkpoint  *)
(* while restart 0 is at the next (InSplit), which then takes a mixed one  *)
(* and waits for ever (InTorn).                                            *)
(***************************************************************************)
EXTENDS GatedLadder, FiniteSetTheorems, Induction

-----------------------------------------------------------------------------
(* What the recursive definitions compute.                                 *)

\* The sum of the errors of the first groups.
LEMMA ErrsIsSum ==
    ASSUME NEW l, NEW p, NEW n \in Nat
    PROVE  \E sum : /\ sum = [k \in 0 .. n |-> IF k = 0 THEN 0 ELSE sum[k - 1] + Err(l, p, k - 1)]
                    /\ Errs(l, p, n) = sum[n]
<1> DEFINE Sums(j, sum) == sum = [k \in 0 .. j |-> IF k = 0 THEN 0 ELSE sum[k - 1] + Err(l, p, k - 1)]
           T == {j \in Nat : \E sum : Sums(j, sum)}
<1>1. 0 \in T
  <2>1. Sums(0, [k \in 0 .. 0 |-> 0])
    OBVIOUS
  <2> QED BY <2>1
<1>2. ASSUME NEW j \in T PROVE j + 1 \in T
  <2>1. PICK sum : Sums(j, sum)
    OBVIOUS
  <2> DEFINE next == [k \in 0 .. j + 1 |-> IF k = j + 1 THEN sum[j] + Err(l, p, j) ELSE sum[k]]
  <2>2. \A k \in 0 .. j : sum[k] = IF k = 0 THEN 0 ELSE sum[k - 1] + Err(l, p, k - 1)
    BY <2>1
  <2>3. \A k \in 0 .. j + 1 : next[k] = IF k = 0 THEN 0 ELSE next[k - 1] + Err(l, p, k - 1)
    BY <2>2
  <2>4. Sums(j + 1, next)
    BY <2>3
  <2>5. j + 1 \in Nat /\ \E s : Sums(j + 1, s)
    <3> HIDE DEF Sums, next
    <3> QED BY <2>4
  <2> QED BY <2>5
<1>3. T = Nat
  <2>1. T \in SUBSET Nat
    OBVIOUS
  <2> HIDE DEF T
  <2> QED BY <1>1, <1>2, <2>1, NatSet
<1>4. \E sum : Sums(n, sum)
  BY <1>3
<1> QED BY <1>4 DEF Errs

LEMMA ErrsType ==
    ASSUME NEW x \in DOMAIN Ladders, NEW p \in Programs, NEW n \in 0 .. Ladders[x].groups
    PROVE  Errs(Ladders[x], p, n) \in Nat
<1>1. n \in Nat
  BY LadderAssumption
<1>2. PICK sum : /\ sum = [k \in 0 .. n |-> IF k = 0 THEN 0 ELSE sum[k - 1] + Err(Ladders[x], p, k - 1)]
                 /\ Errs(Ladders[x], p, n) = sum[n]
  BY <1>1, ErrsIsSum
<1> DEFINE T == {k \in 0 .. n : sum[k] \in Nat}
<1>3. 0 \in T
  BY <1>1, <1>2
<1>4. ASSUME NEW k \in T, k < n PROVE k + 1 \in T
  <2>1. sum[k + 1] = sum[k] + Err(Ladders[x], p, k)
    BY <1>1, <1>2, <1>4
  <2>2. Err(Ladders[x], p, k) \in Nat
    BY <1>1, <1>4, LadderAssumption DEF Err
  <2> QED BY <1>1, <1>4, <2>1, <2>2
<1>5. T = 0 .. n
  <2>1. T \in SUBSET (0 .. n)
    OBVIOUS
  <2> HIDE DEF T
  <2> QED BY <1>1, <1>3, <1>4, <2>1, IntervalSet
<1>6. n \in T
  BY <1>1, <1>5
<1> QED BY <1>2, <1>6

\* The lock-step of a rung, iteration by iteration.
LEMMA LockStepPath ==
    ASSUME NEW l, NEW m, l.iters \in Nat
    PROVE  LockStep(l, m) =
             [i \in 0 .. l.iters |-> IF i = 0 THEN [r \in RestartsOf(l) |-> Begun(l, m, r)]
                                    ELSE InStep(l, m, LockStep(l, m)[i - 1], i - 1)]
<1> DEFINE first == [r \in RestartsOf(l) |-> Begun(l, m, r)]
           Path(j, path) == path = [i \in 0 .. j |-> IF i = 0 THEN first ELSE InStep(l, m, path[i - 1], i - 1)]
           T == {j \in Nat : \E path : Path(j, path)}
<1> HIDE DEF first
<1>1. 0 \in T
  <2>1. Path(0, [i \in 0 .. 0 |-> first])
    OBVIOUS
  <2> QED BY <2>1
<1>2. ASSUME NEW j \in T PROVE j + 1 \in T
  <2>1. PICK path : Path(j, path)
    OBVIOUS
  <2> DEFINE next == [i \in 0 .. j + 1 |-> IF i = j + 1 THEN InStep(l, m, path[j], j) ELSE path[i]]
  <2>2. \A i \in 0 .. j : path[i] = IF i = 0 THEN first ELSE InStep(l, m, path[i - 1], i - 1)
    BY <2>1
  <2>3. \A i \in 0 .. j + 1 : next[i] = IF i = 0 THEN first ELSE InStep(l, m, next[i - 1], i - 1)
    BY <2>2
  <2>4. Path(j + 1, next)
    BY <2>3
  <2>5. j + 1 \in Nat /\ \E path_1 : Path(j + 1, path_1)
    <3> HIDE DEF Path, next
    <3> QED BY <2>4
  <2> QED BY <2>5
<1>3. T = Nat
  <2>1. T \in SUBSET Nat
    OBVIOUS
  <2> HIDE DEF T
  <2> QED BY <1>1, <1>2, <2>1, NatSet
<1>4. \E path : Path(l.iters, path)
  BY <1>3
<1> QED BY <1>4 DEF LockStep, first

\* The undisturbed climb, step by step.
LEMMA ClimbPath ==
    ASSUME NEW l, Heights(l) \in Nat
    PROVE  Climb(l) = [n \in 0 .. Heights(l) |-> IF n = 0 THEN Fresher(l) ELSE Climbed(l, Climb(l)[n - 1])]
<1> DEFINE Path(j, path) == path = [n \in 0 .. j |-> IF n = 0 THEN Fresher(l) ELSE Climbed(l, path[n - 1])]
           T == {j \in Nat : \E path : Path(j, path)}
<1>1. 0 \in T
  <2>1. Path(0, [n \in 0 .. 0 |-> Fresher(l)])
    OBVIOUS
  <2> QED BY <2>1
<1>2. ASSUME NEW j \in T PROVE j + 1 \in T
  <2>1. PICK path : Path(j, path)
    OBVIOUS
  <2> DEFINE next == [n \in 0 .. j + 1 |-> IF n = j + 1 THEN Climbed(l, path[j]) ELSE path[n]]
  <2>2. \A n \in 0 .. j : path[n] = IF n = 0 THEN Fresher(l) ELSE Climbed(l, path[n - 1])
    BY <2>1
  <2>3. \A n \in 0 .. j + 1 : next[n] = IF n = 0 THEN Fresher(l) ELSE Climbed(l, next[n - 1])
    BY <2>2
  <2>4. Path(j + 1, next)
    BY <2>3
  <2>5. j + 1 \in Nat /\ \E path_1 : Path(j + 1, path_1)
    <3> HIDE DEF Path, next
    <3> QED BY <2>4
  <2> QED BY <2>5
<1>3. T = Nat
  <2>1. T \in SUBSET Nat
    OBVIOUS
  <2> HIDE DEF T
  <2> QED BY <1>1, <1>2, <2>1, NatSet
<1>4. \E path : Path(Heights(l), path)
  BY <1>3
<1> QED BY <1>4 DEF Climb

-----------------------------------------------------------------------------
(* Checkpoints.                                                            *)

LEMMA Divided ==
    ASSUME NEW step \in Nat \ {0}, NEW k \in Int
    PROVE  /\ k \div step \in Int /\ k % step \in 0 .. step - 1
           /\ k = step * (k \div step) + (k % step)
  OBVIOUS

LEMMA DividedOnce ==
    ASSUME NEW step \in Nat \ {0}, NEW k \in Int, NEW q \in Int, NEW r \in 0 .. step - 1, k = step * q + r
    PROVE  r = k % step
<1> DEFINE d == k \div step
<1>1. d \in Int /\ k = step * d + (k % step) /\ k % step \in 0 .. step - 1
  BY Divided
<1>2. step * (q - d) = (k % step) - r
  BY <1>1
<1> HIDE DEF d
<1>3. CASE d = q
  BY <1>1, <1>3
<1>4. CASE d < q
  <2>1. step * (q - d) >= step
    BY <1>1, <1>4
  <2> QED BY <1>1, <1>2, <2>1
<1>5. CASE d > q
  <2>1. step * (q - d) <= -step
    BY <1>1, <1>5
  <2> QED BY <1>1, <1>2, <2>1
<1> QED BY <1>1, <1>3, <1>4, <1>5

LEMMA NextOnGrid ==
    ASSUME NEW step \in Nat \ {0}, NEW k \in Int
    PROVE  (k + step) % step = k % step
<1> DEFINE q == k \div step r == k % step
<1>1. q \in Int /\ r \in 0 .. step - 1 /\ k = step * q + r
  BY Divided
<1> HIDE DEF q, r
<1>2. k + step = step * (q + 1) + r /\ k + step \in Int /\ q + 1 \in Int
  BY <1>1
<1>3. r = (k + step) % step
  BY <1>1, <1>2, DividedOnce
<1> QED BY <1>3 DEF r

\* Between a checkpoint and the next there is none.
LEMMA OnGrid ==
    ASSUME NEW step \in Nat \ {0}, NEW k \in Int, NEW i \in Int,
           k % step = 0, i % step = 0, k < i, i <= k + step
    PROVE  i = k + step
<1> DEFINE a == k \div step b == i \div step
<1>1. a \in Int /\ b \in Int /\ k = step * a /\ i = step * b
  BY Divided
<1> HIDE DEF a, b
<1>2. step * (b - a) = i - k
  BY <1>1
<1>3. CASE b - a <= 0
  <2>1. step * (b - a) <= 0
    BY <1>1, <1>3
  <2> QED BY <1>2, <2>1
<1>4. CASE b - a >= 2
  <2>1. step * (b - a) >= 2 * step
    BY <1>1, <1>4
  <2> QED BY <1>2, <2>1
<1>5. CASE b - a = 1
  BY <1>2, <1>5
<1> QED BY <1>1, <1>3, <1>4, <1>5

-----------------------------------------------------------------------------
(* Types.                                                                  *)

\* A best program; while compressing, certified and ranked by its size.
GoodBest(l) == {b \in BestType : Compresses(l) => l.certified[b.prog] /\ b.sel = l.size[b.prog]}

PartType(l) == [rng : Generators, cur : Programs, best : GoodBest(l)]
Parts(l) == [RestartsOf(l) -> PartType(l)]

Pcs == Waits \cup {"top", "latch", "look", "look_stop", "deposit", "gather", "decide", "move", "end", "ended"}
RestartType(l) ==
    [pc : Pcs, i : 0 .. l.iters, rng : Generators, cur : Programs, best : GoodBest(l),
     stash : GoodBest(l) \cup {NoSnap}, done : BOOLEAN, stopping : BOOLEAN]

\* The champion of a compression is certified, and nothing larger than its start.
Certified(l, s) ==
    Compresses(l) => s.champ \in Programs /\ l.certified[s.champ] /\ l.size[s.champ] <= l.size[l.start]

\* In an attempt there is a rung left, which its champion does not solve yet;
\* compression tries once, from its champion.
Passed(l, s) == ~Compresses(l) /\ s.champ # NoProgram /\ Solves(l, s.champ, s.frontier)
Attempting(l, s) ==
    /\ s.frontier < l.rungs /\ ~Passed(l, s)
    /\ Compresses(l) => s.attempt = 0 /\ s.pool = <<s.champ>> /\ s.champ # NoProgram

MainType(l) ==
    {m \in [at : {"rung", "attempt", "join", "finished"}, frontier : 0 .. l.rungs, attempt : 0 .. l.retries,
            solved : Nat, reheat : Nat, champ : Programs \cup {NoProgram}, pool : Seq(Programs),
            lib : Libraries, minima : Seq(GoodBest(l)),
            mid : {NoSnap} \cup [iter : 0 .. l.iters, restarts : Parts(l)]] :
        /\ Certified(l, m)
        /\ m.at \in {"attempt", "join"} \/ (m.at = "rung" /\ m.mid # NoSnap) => Attempting(l, m)
        /\ m.mid # NoSnap => IsCheckpoint(l, m.mid.iter)}

SnapshotType(l) ==
    {s \in [frontier : 0 .. l.rungs, attempt : 0 .. l.retries, champ : Programs \cup {NoProgram},
            solved : Nat, reheat : Nat, pool : Seq(Programs), lib : Libraries, minima : Seq(GoodBest(l)),
            iter : 0 .. l.iters, restarts : Parts(l)] :
        Certified(l, s) /\ Attempting(l, s) /\ IsCheckpoint(l, s.iter)}

DiskType(l) == [header : BOOLEAN, snap : {NoSnap, Garbled} \cup SnapshotType(l), ended : BOOLEAN]

-----------------------------------------------------------------------------
(* What the moves, the rungs and the selection keep.                       *)

LEMMA LadderFacts ==
    ASSUME NEW x \in DOMAIN Ladders, NEW l, l = Ladders[x]
    PROVE  /\ l.groups \in Nat /\ l.rungs \in Nat /\ l.iters \in Nat /\ l.pool_max \in Nat
           /\ l.w \in Nat /\ l.anchor \in Nat /\ l.handoff \in Nat
           /\ ~Compresses(l) => l.rungs <= l.groups
           /\ l.restarts \in Nat \ {0} /\ l.step \in Nat \ {0} /\ l.beat \in Nat \ {0} /\ l.retries \in Nat
           /\ l.size \in [Programs -> Nat]
           /\ Compresses(l) => l.start \in Programs /\ l.certified[l.start]
  BY LadderAssumption DEF Compresses

LEMMA SelType ==
    ASSUME NEW x \in DOMAIN Ladders, NEW l, l = Ladders[x], NEW m, m.frontier \in Nat, NEW p \in Programs
    PROVE  Sel(l, m, p) \in Nat
<1> DEFINE n == IF m.frontier + 2 < l.groups THEN m.frontier + 2 ELSE l.groups
<1>1. n \in 0 .. l.groups
  BY LadderFacts
<1>2. Errs(l, p, n) \in Nat /\ l.w \in Nat /\ l.size[p] \in Nat
  BY <1>1, ErrsType, LadderFacts
<1>3. l.w * Errs(l, p, n) \in Nat
  BY <1>2
<1>4. l.w * Errs(l, p, n) + l.size[p] \in Nat
  BY <1>2, <1>3
<1> QED BY <1>2, <1>4 DEF Sel

LEMMA ScoredType ==
    ASSUME NEW x \in DOMAIN Ladders, NEW l, l = Ladders[x], NEW m, m.frontier \in Nat, NEW p \in Programs,
           Compresses(l) => l.certified[p]
    PROVE  Scored(l, m, p) \in GoodBest(l)
<1>1. Sel(l, m, p) \in Nat /\ (Compresses(l) => Sel(l, m, p) = l.size[p])
  BY SelType DEF Sel
<1> QED BY <1>1 DEF Scored, GoodBest, BestType

LEMMA SampledType ==
    ASSUME NEW x \in DOMAIN Ladders, NEW l, l = Ladders[x], NEW m, m.frontier \in Nat, NEW t \in RestartType(l)
    PROVE  /\ Sampled(l, m, t) \in RestartType(l)
           /\ \E b \in GoodBest(l) : Sampled(l, m, t) = [t EXCEPT !.best = b]
<1>1. t.cur \in Programs /\ t.best \in GoodBest(l)
  BY DEF RestartType
<1>2. CASE ~Compresses(l) /\ Better(l, m, t.cur, t.best)
  <2>1. Scored(l, m, t.cur) \in GoodBest(l)
    BY <1>1, <1>2, ScoredType
  <2> QED BY <1>2, <2>1 DEF Sampled, RestartType
<1>3. CASE ~(~Compresses(l) /\ Better(l, m, t.cur, t.best))
  <2>1. Sampled(l, m, t) = t /\ t = [t EXCEPT !.best = t.best]
    BY <1>3 DEF Sampled, RestartType
  <2> QED BY <1>1, <2>1
<1> QED BY <1>2, <1>3

LEMMA MovedType ==
    ASSUME NEW x \in DOMAIN Ladders, NEW l, l = Ladders[x], NEW m, m.frontier \in Nat, m.lib \in Libraries,
           NEW t \in RestartType(l), t.i < l.iters
    PROVE  /\ Moved(l, m, t) \in RestartType(l)
           /\ Moved(l, m, t).pc = "top" /\ Moved(l, m, t).i = t.i + 1
           /\ Moved(l, m, t).done = t.done /\ Moved(l, m, t).stopping = t.stopping
           /\ Moved(l, m, t).stash = t.stash
<1> DEFINE cand == Mutated(t.cur, m.lib, t.rng)
           at == t.i - (t.i % l.step)
           cost == Weighted(l, m, cand, at)
           loss == cost - Weighted(l, m, t.cur, at)
           drawn == Draw(t.rng)
           accepted == loss <= 0 \/ Lucky(drawn, loss, Heat(m, t.i))
           kept == accepted /\ cost < l.w * l.handoff /\ Better(l, m, cand, t.best)
           rng == IF loss <= 0 THEN drawn ELSE Draw(drawn)
           cur == IF accepted THEN cand ELSE t.cur
           best == IF kept THEN Scored(l, m, cand) ELSE t.best
<1>1. t.cur \in Programs /\ t.best \in GoodBest(l) /\ t.rng \in Generators
  BY DEF RestartType
<1>2. cand \in Programs /\ drawn \in Generators /\ Draw(drawn) \in Generators
  BY <1>1, MoveAssumption
<1>3. kept => Scored(l, m, cand) \in GoodBest(l)
  BY <1>2, ScoredType DEF Better
<1>4. Moved(l, m, t) = [t EXCEPT !.pc = "top", !.i = t.i + 1, !.rng = rng, !.cur = cur, !.best = best]
  BY DEF Moved, RestartType
<1>5. rng \in Generators /\ cur \in Programs /\ best \in GoodBest(l)
  <2> HIDE DEF accepted, kept, loss, cand, drawn
  <2> QED BY <1>1, <1>2, <1>3
<1> HIDE DEF rng, cur, best
<1>6. t.i + 1 \in 0 .. l.iters
  BY LadderFacts DEF RestartType
<1> QED BY ZenonT(40), <1>4, <1>5, <1>6 DEF RestartType, Pcs

\* A restart that is spawned.
LEMMA BegunType ==
    ASSUME NEW x \in DOMAIN Ladders, NEW l, l = Ladders[x], NEW m \in MainType(l), Attempting(l, m),
           NEW r \in RestartsOf(l)
    PROVE  /\ Begun(l, m, r) \in RestartType(l)
           /\ Begun(l, m, r).pc = "top" /\ Begun(l, m, r).stopping = FALSE /\ Begun(l, m, r).done = FALSE
           /\ Begun(l, m, r).i = IF m.mid # NoSnap THEN m.mid.iter ELSE 0
           /\ Begun(l, m, r).stash = NoSnap
<1> DEFINE seed == Seed(m.frontier, m.attempt, r)
           warm == WarmStart(l, m, r)
           drawn == Fresh(seed)
<1>1. seed \in Generators /\ Draw(seed) \in Generators /\ drawn \in Programs
  BY MoveAssumption DEF MainType, RestartsOf
<1>2. warm \in Programs \cup {NoProgram} /\ (Compresses(l) => warm = m.champ /\ warm # NoProgram)
  <2>1. m.pool \in Seq(Programs) /\ r \in Nat /\ (Compresses(l) => m.attempt = 0 /\ m.pool = <<m.champ>> /\ m.champ # NoProgram)
    BY LadderFacts DEF MainType, RestartsOf, Attempting
  <2>2. CASE m.pool = << >>
    BY <2>1, <2>2 DEF WarmStart
  <2>3. CASE m.pool # << >>
    <3>1. Len(m.pool) \in Nat \ {0} /\ r \div 2 \in Nat
      BY <2>1, <2>3
    <3>2. (r \div 2) % Len(m.pool) \in 0 .. Len(m.pool) - 1
      BY <3>1
    <3>3. m.pool[((r \div 2) % Len(m.pool)) + 1] \in Programs
      BY <2>1, <3>1, <3>2
    <3>4. CASE Compresses(l)
      <4>0. Len(<<m.champ>>) = 1 /\ <<m.champ>>[1] = m.champ
        OBVIOUS
      <4>1. Len(m.pool) = 1 /\ m.pool[1] = m.champ /\ m.attempt = 0
        BY <2>1, <3>4, <4>0
      <4>2. ((r \div 2) % Len(m.pool)) + 1 = 1
        BY <3>2, <4>1
      <4>3. warm = m.champ
        BY <2>3, <4>1, <4>2 DEF WarmStart
      <4> QED BY <2>1, <3>4, <4>3 DEF MainType
    <3> QED BY <3>3, <3>4 DEF WarmStart
  <2> QED BY <2>2, <2>3
<1>3. CASE m.mid # NoSnap
  <2>1. /\ m.mid.iter \in 0 .. l.iters /\ m.mid.restarts[r].rng \in Generators
        /\ m.mid.restarts[r].cur \in Programs /\ m.mid.restarts[r].best \in GoodBest(l)
    BY <1>3 DEF MainType, Parts, PartType
  <2>2. Begun(l, m, r) = Restart(m.mid.iter, m.mid.restarts[r].rng, m.mid.restarts[r].cur, m.mid.restarts[r].best)
    BY <1>3 DEF Begun
  <2> QED BY <1>3, <2>1, <2>2 DEF Restart, RestartType, Pcs
<1>4. CASE m.mid = NoSnap
  <2>1. m.frontier \in Nat /\ 0 \in 0 .. l.iters
    BY LadderFacts DEF MainType
  <2>2. CASE warm = NoProgram
    <3>1. Scored(l, m, drawn) \in GoodBest(l)
      BY <1>1, <1>2, <2>1, <2>2, ScoredType
    <3>2. Begun(l, m, r) = Restart(0, Draw(seed), drawn, Scored(l, m, drawn))
      BY <1>4, <2>2 DEF Begun
    <3> QED BY <1>1, <1>4, <2>1, <3>1, <3>2 DEF Restart, RestartType, Pcs
  <2>3. CASE warm # NoProgram
    <3>1. Compresses(l) => l.certified[warm]
      BY <1>2 DEF MainType, Certified
    <3>2. Scored(l, m, warm) \in GoodBest(l)
      BY <1>2, <2>1, <2>3, <3>1, ScoredType
    <3>3. Begun(l, m, r) = Restart(0, seed, warm, Scored(l, m, warm))
      BY <1>4, <2>3 DEF Begun
    <3> QED BY <1>1, <1>2, <1>4, <2>1, <2>3, <3>2, <3>3 DEF Restart, RestartType, Pcs
  <2> QED BY <2>2, <2>3
<1> QED BY <1>3, <1>4

\* Entering a rung.
LEMMA EnteredType ==
    ASSUME NEW x \in DOMAIN Ladders, NEW l, l = Ladders[x], NEW m \in MainType(l), m.at = "rung"
    PROVE  /\ Entered(l, m) \in MainType(l)
           /\ Entered(l, m).at = "rung" => ~Compresses(l) /\ m.mid = NoSnap
<1>1. CASE m.frontier = l.rungs
  BY <1>1 DEF Entered, MainType, Certified
<1>2. CASE m.frontier # l.rungs /\ Passed(l, m)
  <2>1. m.frontier + 1 \in 0 .. l.rungs /\ m.frontier + 1 \in Nat
    BY <1>2, LadderFacts DEF MainType
  <2>2. Entered(l, m) = [m EXCEPT !.frontier = m.frontier + 1, !.solved = m.frontier + 1]
    BY <1>2 DEF Entered, Passed, MainType
  <2>3. m.mid = NoSnap
    BY <1>2 DEF MainType, Attempting
  <2> QED BY <1>2, <2>1, <2>2, <2>3 DEF MainType, Certified, Passed
<1>3. CASE m.frontier # l.rungs /\ ~Passed(l, m) /\ m.mid # NoSnap
  <2>1. Entered(l, m) = [m EXCEPT !.at = "attempt"]
    BY <1>3 DEF Entered, Passed
  <2> QED BY <1>3, <2>1 DEF MainType, Certified, Attempting, Passed
<1>4. CASE m.frontier # l.rungs /\ ~Passed(l, m) /\ m.mid = NoSnap
  <2> DEFINE pool == IF m.champ = NoProgram THEN << >> ELSE <<m.champ>>
  <2>1. Entered(l, m) = [m EXCEPT !.at = "attempt", !.attempt = 0, !.reheat = 0, !.lib = {}, !.minima = << >>, !.pool = pool]
    BY <1>4 DEF Entered, Passed
  <2>2. pool \in Seq(Programs) /\ (Compresses(l) => m.champ # NoProgram /\ pool = <<m.champ>>)
    BY LadderAssumption DEF MainType, Certified
  <2>3. 0 \in 0 .. l.retries /\ m.frontier < l.rungs /\ {} \in Libraries /\ << >> \in Seq(GoodBest(l))
    BY <1>4, LadderFacts, MoveAssumption DEF MainType
  <2> HIDE DEF pool
  <2> DEFINE e == [m EXCEPT !.at = "attempt", !.attempt = 0, !.reheat = 0, !.lib = {}, !.minima = << >>, !.pool = pool]
  <2>4. /\ e \in [at : {"rung", "attempt", "join", "finished"}, frontier : 0 .. l.rungs, attempt : 0 .. l.retries,
                  solved : Nat, reheat : Nat, champ : Programs \cup {NoProgram}, pool : Seq(Programs),
                  lib : Libraries, minima : Seq(GoodBest(l)),
                  mid : {NoSnap} \cup [iter : 0 .. l.iters, restarts : Parts(l)]]
        /\ e.at = "attempt" /\ e.attempt = 0 /\ e.pool = pool
        /\ e.frontier = m.frontier /\ e.champ = m.champ /\ e.mid = NoSnap
    BY <1>4, <2>2, <2>3 DEF MainType
  <2> HIDE DEF e
  <2>5. Certified(l, e) /\ Attempting(l, e)
    BY <1>4, <2>2, <2>3, <2>4 DEF MainType, Certified, Attempting, Passed
  <2> QED BY ZenonT(40), <2>1, <2>4, <2>5 DEF MainType, e
<1> QED BY <1>1, <1>2, <1>3, <1>4

\* The smallest of several is one of them.
LEMMA LeastType ==
    ASSUME NEW among \in SUBSET Nat, among # {}, NEW bests, \A r \in among : bests[r].sel \in Nat
    PROVE  Least(bests, among) \in among
<1> DEFINE sels == {bests[r].sel : r \in among}
<1>1. sels \in SUBSET Nat /\ sels # {}
  OBVIOUS
<1>2. PICK v \in sels : \A y \in sels : v <= y
  BY <1>1, LeastNumber
<1> DEFINE lowest == {r \in among : bests[r].sel = v}
<1>3. lowest \in SUBSET Nat /\ lowest # {}
  BY <1>2
<1>4. PICK r \in lowest : \A s \in lowest : r <= s
  BY <1>3, LeastNumber
<1>5. ASSUME NEW s \in among
      PROVE  bests[r].sel < bests[s].sel \/ (bests[r].sel = bests[s].sel /\ r <= s)
  <2>1. bests[r].sel = v /\ v \in Nat /\ bests[s].sel \in Nat /\ v <= bests[s].sel
    BY <1>1, <1>2, <1>4
  <2>2. bests[s].sel = v => r <= s
    BY <1>4
  <2> QED BY <2>1, <2>2
<1> HIDE DEF lowest, sels
<1>6. r \in among
  BY <1>4 DEF lowest
<1> QED BY <1>5, <1>6 DEF Least

\* In a finite set under a strict total order, there is one element with k before it.
TotalOrder(R, S) ==
    /\ \A a \in S : <<a, a>> \notin R
    /\ \A a, b, c \in S : <<a, b>> \in R /\ <<b, c>> \in R => <<a, c>> \in R
    /\ \A a, b \in S : a # b => <<a, b>> \in R \/ <<b, a>> \in R
Before(R, S, a) == {b \in S : <<b, a>> \in R}
LEMMA Places ==
    ASSUME NEW S, IsFiniteSet(S), NEW R, TotalOrder(R, S), NEW k \in 1 .. Cardinality(S)
    PROVE  \E a \in S : Cardinality(Before(R, S, a)) = k - 1
<1> DEFINE n == Cardinality(S)
           before(a) == {b \in S : <<b, a>> \in R}
           rank == [a \in S |-> Cardinality(before(a))]
<1>1. n \in Nat
  BY FS_CardinalityType
<1>2. ASSUME NEW a \in S PROVE before(a) \in SUBSET S /\ before(a) # S
  BY DEF TotalOrder
<1>3. ASSUME NEW a \in S, NEW b \in S, <<a, b>> \in R
      PROVE  before(a) \in SUBSET before(b) /\ before(a) # before(b)
  BY <1>3 DEF TotalOrder
<1>4. \A a \in S : rank[a] = Cardinality(before(a))
  OBVIOUS
<1>5. rank = [a \in S |-> rank[a]]
  OBVIOUS
<1>a. (\E a \in S : rank[a] = k - 1) => \E a \in S : Cardinality(Before(R, S, a)) = k - 1
  BY DEF Before
<1> HIDE DEF n, before, rank
<1>6. ASSUME NEW a \in S PROVE IsFiniteSet(before(a)) /\ rank[a] \in 0 .. n - 1
  <2>1. IsFiniteSet(before(a)) /\ Cardinality(before(a)) <= n /\ Cardinality(before(a)) # n
    BY <1>2, FS_Subset DEF n
  <2>2. Cardinality(before(a)) \in Nat
    BY <2>1, FS_CardinalityType
  <2> QED BY <1>1, <1>4, <2>1, <2>2
<1>7. ASSUME NEW a \in S, NEW b \in S, <<a, b>> \in R PROVE rank[a] # rank[b]
  <2>1. Cardinality(before(a)) # Cardinality(before(b))
    BY <1>3, <1>6, <1>7, FS_Subset
  <2> QED BY <1>4, <2>1
<1>8. rank \in Injection(S, 0 .. n - 1)
  <2>1. rank \in [S -> 0 .. n - 1]
    BY <1>5, <1>6
  <2>2. \A a, b \in S : rank[a] = rank[b] => a = b
    BY <1>7 DEF TotalOrder
  <2> QED BY <2>1, <2>2 DEF Injection, IsInjective
<1>9. IsFiniteSet(0 .. n - 1) /\ Cardinality(0 .. n - 1) = n
  <2>1. 0 \in Int /\ n - 1 \in Int /\ (IF 0 > n - 1 THEN 0 ELSE (n - 1) - 0 + 1) = n
    BY <1>1
  <2> QED BY <2>1, FS_Interval
<1>10. rank \in Surjection(S, 0 .. n - 1)
  BY <1>8, <1>9, FS_Injection DEF n
<1>11. k - 1 \in 0 .. n - 1
  BY <1>1 DEF n
<1>12. \E a \in S : rank[a] = k - 1
  BY <1>10, <1>11 DEF Surjection
<1> QED BY <1>a, <1>12

LEMMA DistinctType ==
    ASSUME NEW l, NEW minima \in Seq(GoodBest(l))
    PROVE  Distinct(minima) \in Seq(Programs) /\ Range(Distinct(minima)) \in SUBSET Programs
<1> DEFINE first == {a \in DOMAIN minima : \A b \in DOMAIN minima :
                       Ahead(minima, b, a) => Structure(minima[b].prog) # Structure(minima[a].prog)}
           before(a) == {b \in first : Ahead(minima, b, a)}
           place(k) == CHOOSE a \in first : Cardinality(before(a)) = k - 1
           R == {e \in first \X first : Ahead(minima, e[1], e[2])}
<1>1. /\ DOMAIN minima = 1 .. Len(minima) /\ Len(minima) \in Nat
      /\ \A a \in DOMAIN minima : minima[a] \in GoodBest(l)
  OBVIOUS
<1>2. \A a \in DOMAIN minima : minima[a].prog \in Programs /\ minima[a].sel \in Nat
  BY <1>1 DEF GoodBest, BestType
<1>3. first \in SUBSET (1 .. Len(minima)) /\ IsFiniteSet(first)
  <2>1. first \in SUBSET (1 .. Len(minima))
    BY <1>1
  <2>2. IsFiniteSet(1 .. Len(minima))
    BY <1>1, FS_Interval
  <2> HIDE DEF first
  <2> QED BY <2>1, <2>2, FS_Subset
<1> HIDE DEF first
<1>4. ASSUME NEW k \in 1 .. Cardinality(first) PROVE place(k) \in first
  <2>2. \A a, b \in first : <<a, b>> \in R <=> Ahead(minima, a, b)
    OBVIOUS
  <2>3. \A a \in first : Before(R, first, a) = before(a)
    BY DEF Before
  <2> HIDE DEF R, before
  <2>4. TotalOrder(R, first)
    <3>1. \A a, b \in first : a \in Nat /\ minima[a].sel \in Nat
      BY <1>1, <1>2, <1>3
    <3>2. \A a \in first : <<a, a>> \notin R
      BY <2>2, <3>1 DEF Ahead
    <3>3. \A a, b, c \in first : <<a, b>> \in R /\ <<b, c>> \in R => <<a, c>> \in R
      BY SMTT(20), <2>2, <3>1 DEF Ahead
    <3>4. \A a, b \in first : a # b => <<a, b>> \in R \/ <<b, a>> \in R
      BY <2>2, <3>1 DEF Ahead
    <3> QED BY <3>2, <3>3, <3>4 DEF TotalOrder
  <2>5. \E a \in first : Cardinality(Before(R, first, a)) = k - 1
    BY <1>3, <2>4, Places
  <2>6. \E a \in first : Cardinality(before(a)) = k - 1
    BY <2>3, <2>5
  <2> QED BY <2>6
<1> DEFINE n == Cardinality(first)
           d == [k \in 1 .. n |-> minima[place(k)].prog]
<1>5. n \in Nat
  BY <1>3, FS_CardinalityType
<1>6. \A k \in 1 .. n : minima[place(k)].prog \in Programs
  BY <1>1, <1>2, <1>3, <1>4
<1>7. Distinct(minima) = d
  BY DEF Distinct, first
<1> HIDE DEF place, n
<1>8. d \in Seq(Programs) /\ DOMAIN d = 1 .. n /\ \A k \in 1 .. n : d[k] \in Programs
  BY <1>5, <1>6
<1> HIDE DEF d
<1> QED BY <1>7, <1>8 DEF Range

\* The outcome of an attempt.
LEMMA SelectedType ==
    ASSUME NEW x \in DOMAIN Ladders, NEW l, l = Ladders[x], NEW m \in MainType(l), m.at \in {"attempt", "join"},
           NEW bests, \A r \in RestartsOf(l) : bests[r] \in GoodBest(l)
    PROVE  Selected(l, m, bests) \in MainType(l) /\ Selected(l, m, bests).mid = NoSnap
<1> DEFINE solvers == {r \in RestartsOf(l) : Solves(l, bests[r].prog, m.frontier)}
           among == IF ~Compresses(l) /\ solvers # {} THEN solvers ELSE RestartsOf(l)
           rc == bests[Least(bests, among)]
           next == [m EXCEPT !.mid = NoSnap]
<1>1. rc \in GoodBest(l)
  <2>1. among \in SUBSET Nat /\ among # {} /\ among \in SUBSET RestartsOf(l)
    BY LadderFacts DEF RestartsOf
  <2>2. \A r \in among : bests[r].sel \in Nat
    BY <2>1 DEF GoodBest, BestType
  <2> HIDE DEF among
  <2> QED BY <2>1, <2>2, LeastType
<1>2. rc.prog \in Programs /\ (Compresses(l) => l.certified[rc.prog] /\ rc.sel = l.size[rc.prog])
  BY <1>1 DEF GoodBest, BestType
<1>3. m.frontier + 1 \in 0 .. l.rungs /\ m.frontier + 1 \in Nat
  BY LadderFacts DEF MainType, Attempting
<1>4. /\ next \in [at : {"rung", "attempt", "join", "finished"}, frontier : 0 .. l.rungs, attempt : 0 .. l.retries,
                  solved : Nat, reheat : Nat, champ : Programs \cup {NoProgram}, pool : Seq(Programs),
                  lib : Libraries, minima : Seq(GoodBest(l)),
                  mid : {NoSnap} \cup [iter : 0 .. l.iters, restarts : Parts(l)]]
      /\ next.mid = NoSnap /\ next.champ = m.champ /\ next.frontier = m.frontier /\ next.attempt = m.attempt
      /\ next.reheat = m.reheat
  BY DEF MainType
<1>5. Certified(l, m) /\ Attempting(l, m)
  BY DEF MainType
<1>a. Selected(l, m, bests) =
        IF Compresses(l)
        THEN [next EXCEPT !.at = "rung", !.frontier = @ + 1,
                          !.champ = IF rc.sel < l.size[@] THEN rc.prog ELSE @]
        ELSE IF solvers # {}
        THEN [next EXCEPT !.at = "rung", !.frontier = @ + 1, !.champ = rc.prog, !.solved = m.frontier + 1]
        ELSE IF m.attempt < l.retries THEN Escalated(l, next, bests)
        ELSE [next EXCEPT !.at = "finished", !.champ = rc.prog]
  BY DEF Selected
<1> HIDE DEF next, rc, solvers
<1>6. CASE Compresses(l)
  <2> DEFINE champ == IF rc.sel < l.size[m.champ] THEN rc.prog ELSE m.champ
  <2>1. Selected(l, m, bests) = [next EXCEPT !.at = "rung", !.frontier = m.frontier + 1, !.champ = champ]
    BY <1>4, <1>6, <1>a
  <2>2. champ \in Programs /\ l.certified[champ] /\ l.size[champ] <= l.size[l.start]
    <3>1. m.champ \in Programs /\ l.size[m.champ] <= l.size[l.start] /\ l.certified[m.champ]
      BY <1>5, <1>6 DEF Certified
    <3>2. l.size[rc.prog] \in Nat /\ l.size[m.champ] \in Nat /\ l.size[l.start] \in Nat
      BY <1>2, <1>6, <3>1, LadderFacts
    <3> QED BY <1>2, <1>6, <3>1, <3>2
  <2> HIDE DEF champ
  <2>3. /\ Selected(l, m, bests).at = "rung" /\ Selected(l, m, bests).mid = NoSnap
        /\ Selected(l, m, bests).champ = champ
    BY <1>4, <2>1
  <2>4. Certified(l, Selected(l, m, bests))
    BY <2>2, <2>3 DEF Certified
  <2> QED BY ZenonT(40), <1>3, <1>4, <1>6, <2>1, <2>2, <2>3, <2>4 DEF MainType
<1>7. CASE ~Compresses(l) /\ solvers # {}
  <2>1. Selected(l, m, bests) = [next EXCEPT !.at = "rung", !.frontier = m.frontier + 1, !.champ = rc.prog, !.solved = m.frontier + 1]
    BY <1>4, <1>7, <1>a
  <2>2. Selected(l, m, bests).at = "rung" /\ Selected(l, m, bests).mid = NoSnap
    BY <1>4, <2>1
  <2>3. Certified(l, Selected(l, m, bests))
    BY <1>7 DEF Certified
  <2> QED BY ZenonT(40), <1>2, <1>3, <1>4, <2>1, <2>2, <2>3 DEF MainType
<1>8. CASE ~Compresses(l) /\ solvers = {} /\ m.attempt < l.retries
  <2> DEFINE minima == m.minima \o [k \in 1 .. l.restarts |-> bests[k - 1]]
             distinct == Distinct(minima)
             len == IF Len(distinct) < l.pool_max THEN Len(distinct) ELSE l.pool_max
             pool == SubSeq(distinct, 1, len)
             lib == Mined(Range(distinct))
  <2>1. next.minima = m.minima /\ Escalated(l, next, bests) =
          [next EXCEPT !.at = "attempt", !.attempt = m.attempt + 1, !.reheat = m.reheat + 1, !.minima = minima,
                       !.lib = lib, !.pool = pool]
    BY <1>4 DEF Escalated, next, MainType
  <2>2. minima \in Seq(GoodBest(l))
    <3>1. \A k \in 1 .. l.restarts : bests[k - 1] \in GoodBest(l)
      BY LadderFacts DEF RestartsOf
    <3>2. [k \in 1 .. l.restarts |-> bests[k - 1]] \in Seq(GoodBest(l))
      <4>1. l.restarts \in Nat
        BY LadderFacts
      <4> QED BY <3>1, <4>1
    <3>3. m.minima \in Seq(GoodBest(l))
      BY DEF MainType
    <3> QED BY <3>2, <3>3
  <2> HIDE DEF minima
  <2>3. distinct \in Seq(Programs) /\ Range(distinct) \in SUBSET Programs
    BY <2>2, DistinctType
  <2> HIDE DEF distinct
  <2>4. pool \in Seq(Programs) /\ lib \in Libraries
    <3>1. len \in 0 .. Len(distinct)
      BY <2>3, LadderFacts
    <3> HIDE DEF len
    <3>2. pool \in Seq(Programs)
      BY <2>3, <3>1
    <3>3. lib \in Libraries
      BY <2>3, MoveAssumption
    <3> QED BY <3>2, <3>3
  <2> HIDE DEF pool, lib
  <2>5. m.attempt + 1 \in 0 .. l.retries /\ m.reheat + 1 \in Nat
    BY <1>8, LadderFacts DEF MainType
  <2> DEFINE e == [next EXCEPT !.at = "attempt", !.attempt = m.attempt + 1, !.reheat = m.reheat + 1, !.minima = minima,
                       !.lib = lib, !.pool = pool]
  <2>6. /\ e \in [at : {"rung", "attempt", "join", "finished"}, frontier : 0 .. l.rungs, attempt : 0 .. l.retries,
                  solved : Nat, reheat : Nat, champ : Programs \cup {NoProgram}, pool : Seq(Programs),
                  lib : Libraries, minima : Seq(GoodBest(l)),
                  mid : {NoSnap} \cup [iter : 0 .. l.iters, restarts : Parts(l)]]
        /\ e.at = "attempt" /\ e.mid = NoSnap /\ e.champ = m.champ /\ e.frontier = m.frontier
    BY <1>4, <2>2, <2>4, <2>5
  <2> HIDE DEF e
  <2>7. Certified(l, e) /\ Attempting(l, e)
    BY <1>5, <1>8, <2>6 DEF Certified, Attempting, Passed
  <2>8. Selected(l, m, bests) = e
    BY <1>8, <1>a, <2>1 DEF e
  <2> QED BY <2>6, <2>7, <2>8 DEF MainType
<1>9. CASE ~Compresses(l) /\ solvers = {} /\ ~(m.attempt < l.retries)
  <2>1. Selected(l, m, bests) = [next EXCEPT !.at = "finished", !.champ = rc.prog]
    BY <1>9, <1>a
  <2> QED BY <1>2, <1>4, <1>9, <2>1 DEF MainType, Certified
<1> QED BY <1>6, <1>7, <1>8, <1>9

-----------------------------------------------------------------------------
(***************************************************************************)
(* Where the restarts of an attempt are, relative to checkpoint k: before  *)
(* they know whether to leave, at its snapshot, on their way to the next.  *)
(***************************************************************************)
Leaves(t) == t.done \/ t.stopping
Looks(t, k) == t.i = k /\ t.pc \in {"look", "look_stop"}
Deposits(l, t, k) == t.i = k /\ t.pc \in {"deposit", "wait_deposit"} /\ (IsBeat(l, k) \/ t.stopping)
Gathers(t, k) == t.i = k /\ t.pc \in {"gather", "wait_emit"}
Decides(t, k) == t.i = k /\ t.pc = "decide"
Left(l, t, k) == t.i = k /\ t.pc \in {"end", "ended"} /\ k < l.iters
Goes(l, t, k) ==
    \/ t.i = k /\ t.pc = "move"
    \/ t.pc = "top" /\ k < t.i /\ t.i <= k + l.step
    \/ t.pc \in {"latch", "wait_block"} /\ t.i = k + l.step /\ k + l.step < l.iters
    \/ t.pc = "ended" /\ t.i = l.iters /\ l.iters <= k + l.step

\* They look at the flags of checkpoint k.  Where there is no snapshot, who has
\* not to stop goes on without waiting for the others.
InLook(l, ts, so, la, k) ==
    /\ IsCheckpoint(l, k) /\ k >= 0
    /\ \A r \in RestartsOf(l) :
        \/ Looks(ts[r], k) \/ Deposits(l, ts[r], k)
        \/ ~IsBeat(l, k) /\ ((Decides(ts[r], k) /\ ~ts[r].stopping) \/ (Left(l, ts[r], k) /\ so) \/ Goes(l, ts[r], k))
    /\ la => \/ \A r \in RestartsOf(l) : Looks(ts[r], k) \/ Deposits(l, ts[r], k)
             \/ ts[0].pc = "wait_block" /\ ts[0].i = k + l.step
    /\ IsBeat(l, k) => \A r \in RestartsOf(l) :
        /\ ts[r].pc # "look" => ts[r].done = so
        /\ ts[r].pc \in {"deposit", "wait_deposit"} => ts[r].stopping = la

\* All have deposited: restart 0 writes the snapshot.
Filled(l, slot) == slot \in PartType(l)
InGather(l, ts, sl, k) ==
    /\ \A r \in RestartsOf(l) : Gathers(ts[r], k)
    /\ (\A r \in RestartsOf(l) : Leaves(ts[r])) \/ (\A r \in RestartsOf(l) : ~Leaves(ts[r]))
    /\ ts[0].pc = "gather" => \A r \in RestartsOf(l) : Filled(l, sl[r])

\* They leave together, or go on to the next checkpoint.
InEmit(l, ts, k) ==
    \/ \A r \in RestartsOf(l) : (Decides(ts[r], k) /\ Leaves(ts[r])) \/ Left(l, ts[r], k)
    \/ \A r \in RestartsOf(l) : (Decides(ts[r], k) /\ ~Leaves(ts[r])) \/ Goes(l, ts[r], k)

\* The barrier has met some for the snapshot of k, and restart 0 at the next checkpoint.
Late(l, t, slot, k) == Gathers(t, k) /\ t.stopping /\ Filled(l, slot)
InSplit(l, ts, la, sl, k) ==
    /\ k + l.step < l.iters /\ ~IsBeat(l, k) /\ la
    /\ Looks(ts[0], k + l.step) \/ Deposits(l, ts[0], k + l.step)
    /\ \A r \in RestartsOf(l) :
        Looks(ts[r], k + l.step) \/ Deposits(l, ts[r], k + l.step) \/ Late(l, ts[r], sl[r], k)
    /\ \E r \in RestartsOf(l) : Late(l, ts[r], sl[r], k)

\* The snapshot mixes two checkpoints; nobody meets restart 0 again.
Gone(l, t, k) == (Decides(t, k) /\ t.stopping) \/ Left(l, t, k)
InTorn(l, ts, la, sl, k) ==
    /\ k + l.step < l.iters /\ ~IsBeat(l, k) /\ la
    /\ Gathers(ts[0], k + l.step)
    /\ \A r \in RestartsOf(l) : Gathers(ts[r], k + l.step) \/ Gone(l, ts[r], k)
    /\ \E r \in RestartsOf(l) : Gone(l, ts[r], k)
    /\ ts[0].pc = "gather" => \A r \in RestartsOf(l) : Filled(l, sl[r])

Grid(l) == {k \in (-l.step) .. l.iters : k % l.step = 0}
AlignedAt(l, ts, so, la, sl, k) ==
    \/ InLook(l, ts, so, la, k) \/ InGather(l, ts, sl, k) \/ InEmit(l, ts, k)
    \/ InSplit(l, ts, la, sl, k) \/ InTorn(l, ts, la, sl, k)
Aligned(l, ts, so, la, sl) == \E k \in Grid(l) : AlignedAt(l, ts, so, la, sl, k)

\* What a restart knows by itself.
Stage(l, t, so, la, slot) ==
    /\ t.pc \notin {"top", "ended"} => IsCheckpoint(l, t.i)
    /\ t.pc \in {"latch", "wait_block", "look", "look_stop", "deposit", "wait_deposit"} => t.stash \in GoodBest(l)
    /\ t.stopping => la
    /\ t.done => so
    /\ t.pc = "wait_deposit" => Filled(l, slot)
    /\ t.pc \in {"end", "ended"} /\ t.i < l.iters => (so \/ la) /\ IsCheckpoint(l, t.i)

Slots(l) == [RestartsOf(l) -> PartType(l) \cup {NoSnap}]
Threads(l, ts, so, la, sl) ==
    /\ ts \in [RestartsOf(l) -> RestartType(l)] /\ sl \in Slots(l) /\ {so, la} \subseteq BOOLEAN
    /\ \A r \in RestartsOf(l) : Stage(l, ts[r], so, la, sl[r]) /\ (ts[r].pc = "latch" => r = 0)
    /\ Compresses(l) => ~so
    /\ Aligned(l, ts, so, la, sl)

-----------------------------------------------------------------------------
(* Every step of a restart keeps them aligned.                             *)

\* The facts about a search that the steps need.
Sane(l) ==
    /\ l.iters \in Nat /\ l.restarts \in Nat \ {0} /\ l.step \in Nat \ {0}
    /\ 0 \in RestartsOf(l)

LEMMA LaddersSane ==
    ASSUME NEW x \in DOMAIN Ladders
    PROVE  Sane(Ladders[x])
  BY LadderFacts DEF Sane, RestartsOf

LEMMA GridNext ==
    ASSUME NEW l, Sane(l), NEW k \in Grid(l)
    PROVE  /\ k \in Int /\ k + l.step \in Nat /\ l.step \in Nat /\ l.iters \in Nat /\ l.step > 0
           /\ k + l.step < l.iters => k + l.step \in Grid(l) /\ IsCheckpoint(l, k + l.step)
           /\ \A i \in 0 .. l.iters : IsCheckpoint(l, i) /\ k < i /\ i <= k + l.step => i = k + l.step
<1>1. k \in Int /\ k % l.step = 0 /\ l.step \in Nat \ {0} /\ -l.step <= k /\ l.iters \in Nat
  BY DEF Grid, Sane
<1>2. (k + l.step) % l.step = 0
  BY <1>1, NextOnGrid
<1>3. k + l.step \in Int /\ k + l.step >= -l.step /\ k + l.step >= 0
  BY <1>1
<1>4. ASSUME NEW i \in 0 .. l.iters, IsCheckpoint(l, i), k < i, i <= k + l.step PROVE i = k + l.step
  BY <1>1, <1>4, OnGrid DEF IsCheckpoint
<1> QED BY <1>1, <1>2, <1>3, <1>4 DEF Grid, IsCheckpoint

\* All meet at the barrier.
LEMMA ReleaseAligned ==
    ASSUME NEW l, Sane(l), NEW ts, NEW so, NEW la, NEW sl, Threads(l, ts, so, la, sl),
           \A r \in RestartsOf(l) : ts[r].pc \in Waits
    PROVE  Threads(l, [r \in RestartsOf(l) |-> Released(ts[r])], so, la, sl)
<1> DEFINE R == RestartsOf(l)
           us == [r \in R |-> Released(ts[r])]
<1>1. ASSUME NEW r \in R
      PROVE  /\ us[r] \in RestartType(l)
             /\ us[r].pc = CASE ts[r].pc = "wait_block" -> "look" [] ts[r].pc = "wait_deposit" -> "gather"
                             [] ts[r].pc = "wait_emit" -> "decide"
             /\ us[r].i = ts[r].i /\ us[r].done = ts[r].done /\ us[r].stopping = ts[r].stopping
             /\ us[r].stash = ts[r].stash
  <2>1. ts[r] \in RestartType(l) /\ us[r] = Released(ts[r])
    BY DEF Threads
  <2>2. CASE ts[r].pc = "wait_block"
    BY <2>1, <2>2 DEF Released, RestartType, Pcs, Waits
  <2>3. CASE ts[r].pc = "wait_deposit"
    BY <2>1, <2>3 DEF Released, RestartType, Pcs, Waits
  <2>4. CASE ts[r].pc = "wait_emit"
    BY <2>1, <2>4 DEF Released, RestartType, Pcs, Waits
  <2> QED BY <2>2, <2>3, <2>4 DEF Waits
<1>2. us \in [R -> RestartType(l)]
  BY <1>1
<1> HIDE DEF us
<1>3. ASSUME NEW r \in R PROVE Stage(l, us[r], so, la, sl[r]) /\ us[r].pc # "latch"
  BY <1>1 DEF Threads, Stage, Waits
<1>4. PICK k \in Grid(l) : AlignedAt(l, ts, so, la, sl, k)
  BY DEF Threads, Aligned
<1>5. /\ k \in Int /\ k + l.step \in Nat /\ l.step \in Nat /\ l.step > 0
      /\ k + l.step < l.iters => k + l.step \in Grid(l) /\ IsCheckpoint(l, k + l.step)
  BY GridNext
<1>6. ASSUME InEmit(l, ts, k) PROVE Aligned(l, us, so, la, sl)
  <2>1. \A r \in R : ts[r].pc = "wait_block" /\ ts[r].i = k + l.step /\ k + l.step < l.iters
    BY <1>6 DEF InEmit, Decides, Left, Goes, Waits
  <2>2. \A r \in R : us[r].pc = "look" /\ Looks(us[r], k + l.step)
    BY <1>1, <2>1 DEF Looks
  <2>3. k + l.step \in Grid(l) /\ InLook(l, us, so, la, k + l.step)
    BY <2>1, <2>2, <1>5 DEF InLook, Sane
  <2> QED BY <2>3 DEF Aligned, AlignedAt
<1>7. ASSUME InGather(l, ts, sl, k) PROVE Aligned(l, us, so, la, sl)
  <2>1. \A r \in R : ts[r].pc = "wait_emit" /\ ts[r].i = k
    BY <1>7 DEF InGather, Gathers, Waits
  <2>2. \A r \in R : Decides(us[r], k) /\ (Leaves(us[r]) <=> Leaves(ts[r]))
    BY <1>1, <2>1 DEF Decides, Leaves
  <2>3. InEmit(l, us, k)
    BY <1>7, <2>2 DEF InEmit, InGather
  <2> QED BY <2>3 DEF Aligned, AlignedAt
<1>8. ASSUME InLook(l, ts, so, la, k) PROVE Aligned(l, us, so, la, sl)
  <2>1. ASSUME NEW r \in R
        PROVE  \/ Deposits(l, ts[r], k) /\ ts[r].pc = "wait_deposit"
               \/ ~IsBeat(l, k) /\ ts[r].pc = "wait_block" /\ ts[r].i = k + l.step /\ k + l.step < l.iters
    BY <1>8 DEF InLook, Looks, Deposits, Decides, Left, Goes, Waits
  <2>2. CASE \A r \in R : ts[r].pc = "wait_deposit"
    <3>1. \A r \in R : Gathers(us[r], k) /\ Filled(l, sl[r])
      BY <1>1, <2>1, <2>2 DEF Gathers, Deposits, Threads, Stage
    <3>2. CASE IsBeat(l, k)
      <4>1. \A r \in R : us[r].done = so /\ us[r].stopping = la
        BY <1>1, <1>8, <2>2, <3>2 DEF InLook
      <4>2. InGather(l, us, sl, k)
        BY <3>1, <4>1 DEF InGather, Leaves
      <4> QED BY <4>2 DEF Aligned, AlignedAt
    <3>3. CASE ~IsBeat(l, k)
      <4>1. \A r \in R : us[r].stopping
        BY <1>1, <2>1, <2>2, <3>3 DEF Deposits
      <4>2. InGather(l, us, sl, k)
        BY <3>1, <4>1 DEF InGather, Leaves
      <4> QED BY <4>2 DEF Aligned, AlignedAt
    <3> QED BY <3>2, <3>3
  <2>3. CASE \A r \in R : ts[r].pc = "wait_block"
    <3>1. \A r \in R : us[r].pc = "look" /\ Looks(us[r], k + l.step)
      BY <1>1, <2>1, <2>3 DEF Looks
    <3>2. k + l.step \in Grid(l) /\ InLook(l, us, so, la, k + l.step)
      BY <2>1, <2>3, <3>1, <1>5 DEF InLook, Sane
    <3> QED BY <3>2 DEF Aligned, AlignedAt
  <2>4. CASE ~(\A r \in R : ts[r].pc = "wait_deposit") /\ ~(\A r \in R : ts[r].pc = "wait_block")
    <3>1. PICK a \in R : ts[a].pc = "wait_deposit"
      BY <2>1, <2>4
    <3>2. PICK b \in R : ts[b].pc = "wait_block"
      BY <2>1, <2>4
    <3>3. ~IsBeat(l, k) /\ k + l.step < l.iters /\ ts[a].stopping /\ la
      BY <2>1, <3>1, <3>2 DEF Deposits, Threads, Stage
    <3>4. ts[0].pc = "wait_block" /\ ts[0].i = k + l.step
      BY <1>8, <3>2, <3>3 DEF InLook, Looks, Deposits
    <3>5. Looks(us[0], k + l.step)
      BY <1>1, <3>4 DEF Looks, Sane
    <3>6. \A r \in R : Looks(us[r], k + l.step) \/ Late(l, us[r], sl[r], k)
      BY <1>1, <2>1, <3>3 DEF Looks, Late, Gathers, Deposits, Threads, Stage
    <3>7. Late(l, us[a], sl[a], k)
      BY <1>1, <2>1, <3>1, <3>3 DEF Late, Gathers, Deposits, Threads, Stage
    <3>8. InSplit(l, us, la, sl, k)
      BY <3>3, <3>5, <3>6, <3>7 DEF InSplit
    <3> QED BY <3>8 DEF Aligned, AlignedAt
  <2> QED BY <2>2, <2>3, <2>4
<1>9. ASSUME InSplit(l, ts, la, sl, k) PROVE Aligned(l, us, so, la, sl)
  <2>1. ASSUME NEW r \in R
        PROVE  \/ ts[r].pc = "wait_deposit" /\ ts[r].i = k + l.step
               \/ Late(l, ts[r], sl[r], k) /\ ts[r].pc = "wait_emit"
    BY <1>9 DEF InSplit, Looks, Deposits, Late, Gathers, Waits
  <2>2. Gathers(us[0], k + l.step)
    BY <1>1, <1>9 DEF InSplit, Looks, Deposits, Gathers, Waits, Sane
  <2>3. \A r \in R : Filled(l, sl[r]) /\ (Gathers(us[r], k + l.step) \/ Gone(l, us[r], k))
    BY <1>1, <2>1 DEF Gathers, Gone, Decides, Late, Threads, Stage
  <2>4. PICK a \in R : Late(l, ts[a], sl[a], k)
    BY <1>9 DEF InSplit
  <2>5. Gone(l, us[a], k)
    BY <1>1, <2>1, <2>4 DEF Late, Gathers, Gone, Decides
  <2>6. InTorn(l, us, la, sl, k)
    BY <1>9, <2>2, <2>3, <2>5 DEF InTorn, InSplit
  <2> QED BY <2>6 DEF Aligned, AlignedAt
<1>10. ASSUME InTorn(l, ts, la, sl, k) PROVE Aligned(l, us, so, la, sl)
  BY <1>10 DEF InTorn, Gone, Decides, Left, Waits
<1>11. Aligned(l, us, so, la, sl)
  BY <1>4, <1>6, <1>7, <1>8, <1>9, <1>10 DEF AlignedAt
<1>12. Threads(l, us, so, la, sl)
  BY <1>2, <1>3, <1>11 DEF Threads
<1> QED BY <1>12 DEF us

\* A flag that is never taken back.
Rises(a, b) == {a, b} \subseteq BOOLEAN /\ (a => b)

\* One restart is elsewhere; the others are where they were.
LEMMA OneStep ==
    ASSUME NEW l, NEW ts \in [RestartsOf(l) -> RestartType(l)], NEW r \in RestartsOf(l), NEW t \in RestartType(l)
    PROVE  /\ [ts EXCEPT ![r] = t] \in [RestartsOf(l) -> RestartType(l)]
           /\ [ts EXCEPT ![r] = t][r] = t
           /\ \A s \in RestartsOf(l) \ {r} : [ts EXCEPT ![r] = t][s] = ts[s]
  OBVIOUS

\* Restart 0 samples the stop flag.
LEMMA LatchAligned ==
    ASSUME NEW l, Sane(l), NEW ts, NEW so, NEW la, NEW sl, Threads(l, ts, so, la, sl),
           NEW r \in RestartsOf(l), NEW t \in RestartType(l), t.i = ts[r].i,
           NEW la2, Rises(la, la2), ts[r].pc = "latch", t.pc = "wait_block",
           t.stash = ts[r].stash, t.done = ts[r].done, t.stopping = ts[r].stopping
    PROVE  Threads(l, [ts EXCEPT ![r] = t], so, la2, sl)
<1> DEFINE R == RestartsOf(l)
           us == [ts EXCEPT ![r] = t]
<1>1. ts \in [R -> RestartType(l)] /\ 0 \in R
  BY DEF Threads, Sane
<1>2. us \in [R -> RestartType(l)] /\ us[r] = t /\ \A s \in R \ {r} : us[s] = ts[s]
  BY <1>1, OneStep
<1> HIDE DEF us
<1>3. \A s \in R : Stage(l, us[s], so, la2, sl[s]) /\ (us[s].pc = "latch" => s = 0)
  BY <1>2 DEF Threads, Stage, Rises
<1>4. PICK k \in Grid(l) : AlignedAt(l, ts, so, la, sl, k)
  BY DEF Threads, Aligned
<1>5. k \in Int /\ k + l.step \in Nat /\ l.step \in Nat /\ l.iters \in Nat /\ l.step > 0
  BY GridNext
<1>6. ASSUME InLook(l, ts, so, la, k) PROVE InLook(l, us, so, la2, k)
  BY <1>1, <1>2, <1>5, <1>6 DEF Rises, InLook, Threads, Stage, Looks, Deposits, Gathers, Decides, Left, Goes, Late, Gone, Leaves
<1>7. ASSUME InGather(l, ts, sl, k) PROVE InGather(l, us, sl, k)
  BY <1>1, <1>2, <1>5, <1>7 DEF InGather, Threads, Stage, Looks, Deposits, Gathers, Decides, Left, Goes, Late, Gone, Leaves
<1>8. ASSUME InEmit(l, ts, k) PROVE InEmit(l, us, k)
  BY <1>1, <1>2, <1>5, <1>8 DEF InEmit, Threads, Stage, Looks, Deposits, Gathers, Decides, Left, Goes, Late, Gone, Leaves
<1>9. ASSUME InSplit(l, ts, la, sl, k) PROVE InSplit(l, us, la2, sl, k)
  BY <1>1, <1>2, <1>5, <1>9 DEF InSplit, Threads, Stage, Looks, Deposits, Gathers, Decides, Left, Goes, Late, Gone, Leaves
<1>10. ASSUME InTorn(l, ts, la, sl, k) PROVE InTorn(l, us, la2, sl, k)
  BY <1>1, <1>2, <1>5, <1>10 DEF InTorn, Threads, Stage, Looks, Deposits, Gathers, Decides, Left, Goes, Late, Gone, Leaves
<1>11. Aligned(l, us, so, la2, sl)
  BY <1>4, <1>6, <1>7, <1>8, <1>9, <1>10 DEF Aligned, AlignedAt
<1>12. Threads(l, us, so, la2, sl)
  BY <1>2, <1>3, <1>11 DEF Threads, Rises
<1> QED BY <1>12 DEF us

\* A restart looks whether the rung is solved.
LEMMA LookDoneAligned ==
    ASSUME NEW l, Sane(l), NEW ts, NEW so, NEW la, NEW sl, Threads(l, ts, so, la, sl),
           NEW r \in RestartsOf(l), NEW t \in RestartType(l), t.i = ts[r].i,
           ts[r].pc = "look", t.pc = "look_stop", t.stash = ts[r].stash, t.done = so, t.stopping = ts[r].stopping
    PROVE  Threads(l, [ts EXCEPT ![r] = t], so, la, sl)
<1> DEFINE R == RestartsOf(l)
           us == [ts EXCEPT ![r] = t]
<1>1. ts \in [R -> RestartType(l)] /\ 0 \in R
  BY DEF Threads, Sane
<1>2. us \in [R -> RestartType(l)] /\ us[r] = t /\ \A s \in R \ {r} : us[s] = ts[s]
  BY <1>1, OneStep
<1> HIDE DEF us
<1>3. \A s \in R : Stage(l, us[s], so, la, sl[s]) /\ (us[s].pc = "latch" => s = 0)
  BY <1>2 DEF Threads, Stage
<1>4. PICK k \in Grid(l) : AlignedAt(l, ts, so, la, sl, k)
  BY DEF Threads, Aligned
<1>5. k \in Int /\ k + l.step \in Nat /\ l.step \in Nat /\ l.iters \in Nat /\ l.step > 0
  BY GridNext
<1>6. ASSUME InLook(l, ts, so, la, k) PROVE InLook(l, us, so, la, k)
  BY <1>1, <1>2, <1>5, <1>6 DEF InLook, Threads, Stage, Looks, Deposits, Gathers, Decides, Left, Goes, Late, Gone, Leaves
<1>7. ASSUME InGather(l, ts, sl, k) PROVE InGather(l, us, sl, k)
  BY <1>1, <1>2, <1>5, <1>7 DEF InGather, Threads, Stage, Looks, Deposits, Gathers, Decides, Left, Goes, Late, Gone, Leaves
<1>8. ASSUME InEmit(l, ts, k) PROVE InEmit(l, us, k)
  BY <1>1, <1>2, <1>5, <1>8 DEF InEmit, Threads, Stage, Looks, Deposits, Gathers, Decides, Left, Goes, Late, Gone, Leaves
<1>9. ASSUME InSplit(l, ts, la, sl, k) PROVE InSplit(l, us, la, sl, k)
  BY <1>1, <1>2, <1>5, <1>9 DEF InSplit, Threads, Stage, Looks, Deposits, Gathers, Decides, Left, Goes, Late, Gone, Leaves
<1>10. ASSUME InTorn(l, ts, la, sl, k) PROVE InTorn(l, us, la, sl, k)
  BY <1>1, <1>2, <1>5, <1>10 DEF InTorn, Threads, Stage, Looks, Deposits, Gathers, Decides, Left, Goes, Late, Gone, Leaves
<1>11. Aligned(l, us, so, la, sl)
  BY <1>4, <1>6, <1>7, <1>8, <1>9, <1>10 DEF Aligned, AlignedAt
<1>12. Threads(l, us, so, la, sl)
  BY <1>2, <1>3, <1>11 DEF Threads
<1> QED BY <1>12 DEF us

\* A restart looks whether to stop.
LEMMA LookStopAligned ==
    ASSUME NEW l, Sane(l), NEW ts, NEW so, NEW la, NEW sl, Threads(l, ts, so, la, sl),
           NEW r \in RestartsOf(l), NEW t \in RestartType(l), t.i = ts[r].i,
           ts[r].pc = "look_stop", t.stash = ts[r].stash, t.done = ts[r].done, t.stopping = la,
           t.pc = IF la \/ IsBeat(l, ts[r].i) THEN "deposit" ELSE "decide"
    PROVE  Threads(l, [ts EXCEPT ![r] = t], so, la, sl)
<1> DEFINE R == RestartsOf(l)
           us == [ts EXCEPT ![r] = t]
<1>1. ts \in [R -> RestartType(l)] /\ 0 \in R
  BY DEF Threads, Sane
<1>2. us \in [R -> RestartType(l)] /\ us[r] = t /\ \A s \in R \ {r} : us[s] = ts[s]
  BY <1>1, OneStep
<1> HIDE DEF us
<1>3. \A s \in R : Stage(l, us[s], so, la, sl[s]) /\ (us[s].pc = "latch" => s = 0)
  BY <1>2 DEF Threads, Stage
<1>4. PICK k \in Grid(l) : AlignedAt(l, ts, so, la, sl, k)
  BY DEF Threads, Aligned
<1>5. k \in Int /\ k + l.step \in Nat /\ l.step \in Nat /\ l.iters \in Nat /\ l.step > 0
  BY GridNext
<1>6. ASSUME InLook(l, ts, so, la, k) PROVE InLook(l, us, so, la, k)
  BY <1>1, <1>2, <1>5, <1>6 DEF InLook, Threads, Stage, Looks, Deposits, Gathers, Decides, Left, Goes, Late, Gone, Leaves
<1>7. ASSUME InGather(l, ts, sl, k) PROVE InGather(l, us, sl, k)
  BY <1>1, <1>2, <1>5, <1>7 DEF InGather, Threads, Stage, Looks, Deposits, Gathers, Decides, Left, Goes, Late, Gone, Leaves
<1>8. ASSUME InEmit(l, ts, k) PROVE InEmit(l, us, k)
  BY <1>1, <1>2, <1>5, <1>8 DEF InEmit, Threads, Stage, Looks, Deposits, Gathers, Decides, Left, Goes, Late, Gone, Leaves
<1>9. ASSUME InSplit(l, ts, la, sl, k) PROVE InSplit(l, us, la, sl, k)
  BY ZenonT(40), <1>1, <1>2, <1>5, <1>9 DEF InSplit, Threads, Stage, Looks, Deposits, Gathers, Decides, Left, Goes, Late, Gone, Leaves
<1>10. ASSUME InTorn(l, ts, la, sl, k) PROVE InTorn(l, us, la, sl, k)
  BY <1>1, <1>2, <1>5, <1>10 DEF InTorn, Threads, Stage, Looks, Deposits, Gathers, Decides, Left, Goes, Late, Gone, Leaves
<1>11. Aligned(l, us, so, la, sl)
  BY <1>4, <1>6, <1>7, <1>8, <1>9, <1>10 DEF Aligned, AlignedAt
<1>12. Threads(l, us, so, la, sl)
  BY <1>2, <1>3, <1>11 DEF Threads
<1> QED BY <1>12 DEF us

\* A restart deposits its part of the snapshot.
LEMMA DepositAligned ==
    ASSUME NEW l, Sane(l), NEW ts, NEW so, NEW la, NEW sl, Threads(l, ts, so, la, sl),
           NEW r \in RestartsOf(l), NEW t \in RestartType(l), t.i = ts[r].i,
           ts[r].pc = "deposit", t.pc = "wait_deposit",
           t.stash = ts[r].stash, t.done = ts[r].done, t.stopping = ts[r].stopping,
           NEW sl2 \in Slots(l), Filled(l, sl2[r]), \A s \in RestartsOf(l) \ {r} : sl2[s] = sl[s]
    PROVE  Threads(l, [ts EXCEPT ![r] = t], so, la, sl2)
<1> DEFINE R == RestartsOf(l)
           us == [ts EXCEPT ![r] = t]
<1>1. ts \in [R -> RestartType(l)] /\ 0 \in R
  BY DEF Threads, Sane
<1>2. us \in [R -> RestartType(l)] /\ us[r] = t /\ \A s \in R \ {r} : us[s] = ts[s]
  BY <1>1, OneStep
<1> HIDE DEF us
<1>3. \A s \in R : Stage(l, us[s], so, la, sl2[s]) /\ (us[s].pc = "latch" => s = 0)
  BY <1>2 DEF Threads, Stage
<1>4. PICK k \in Grid(l) : AlignedAt(l, ts, so, la, sl, k)
  BY DEF Threads, Aligned
<1>5. k \in Int /\ k + l.step \in Nat /\ l.step \in Nat /\ l.iters \in Nat /\ l.step > 0
  BY GridNext
<1>6. ASSUME InLook(l, ts, so, la, k) PROVE InLook(l, us, so, la, k)
  BY <1>1, <1>2, <1>5, <1>6 DEF InLook, Threads, Stage, Looks, Deposits, Gathers, Decides, Left, Goes, Late, Gone, Leaves
<1>7. ASSUME InGather(l, ts, sl, k) PROVE InGather(l, us, sl2, k)
  BY <1>1, <1>2, <1>5, <1>7 DEF InGather, Threads, Stage, Looks, Deposits, Gathers, Decides, Left, Goes, Late, Gone, Leaves
<1>8. ASSUME InEmit(l, ts, k) PROVE InEmit(l, us, k)
  BY <1>1, <1>2, <1>5, <1>8 DEF InEmit, Threads, Stage, Looks, Deposits, Gathers, Decides, Left, Goes, Late, Gone, Leaves
<1>9. ASSUME InSplit(l, ts, la, sl, k) PROVE InSplit(l, us, la, sl2, k)
  BY <1>1, <1>2, <1>5, <1>9 DEF InSplit, Threads, Stage, Looks, Deposits, Gathers, Decides, Left, Goes, Late, Gone, Leaves
<1>10. ASSUME InTorn(l, ts, la, sl, k) PROVE InTorn(l, us, la, sl2, k)
  BY <1>1, <1>2, <1>5, <1>10 DEF InTorn, Threads, Stage, Looks, Deposits, Gathers, Decides, Left, Goes, Late, Gone, Leaves
<1>11. Aligned(l, us, so, la, sl2)
  BY <1>4, <1>6, <1>7, <1>8, <1>9, <1>10 DEF Aligned, AlignedAt
<1>12. Threads(l, us, so, la, sl2)
  BY <1>2, <1>3, <1>11 DEF Threads
<1> QED BY <1>12 DEF us

\* Restart 0 writes the snapshot.
LEMMA GatherAligned ==
    ASSUME NEW l, Sane(l), NEW ts, NEW so, NEW la, NEW sl, Threads(l, ts, so, la, sl),
           NEW r \in RestartsOf(l), NEW t \in RestartType(l), t.i = ts[r].i,
           ts[r].pc = "gather", t.pc = "wait_emit",
           t.stash = ts[r].stash, t.done = ts[r].done, t.stopping = ts[r].stopping,
           NEW sl2 \in Slots(l), r # 0 => sl2 = sl
    PROVE  Threads(l, [ts EXCEPT ![r] = t], so, la, sl2)
<1> DEFINE R == RestartsOf(l)
           us == [ts EXCEPT ![r] = t]
<1>1. ts \in [R -> RestartType(l)] /\ 0 \in R
  BY DEF Threads, Sane
<1>2. us \in [R -> RestartType(l)] /\ us[r] = t /\ \A s \in R \ {r} : us[s] = ts[s]
  BY <1>1, OneStep
<1> HIDE DEF us
<1>4. PICK k \in Grid(l) : AlignedAt(l, ts, so, la, sl, k)
  BY DEF Threads, Aligned
<1>5. k \in Int /\ k + l.step \in Nat /\ l.step \in Nat /\ l.iters \in Nat /\ l.step > 0
  BY GridNext
<1>6. ASSUME InLook(l, ts, so, la, k) PROVE InLook(l, us, so, la, k)
  BY <1>1, <1>2, <1>5, <1>6 DEF InLook, Threads, Stage, Looks, Deposits, Gathers, Decides, Left, Goes, Late, Gone, Leaves
<1>7. ASSUME InGather(l, ts, sl, k) PROVE InGather(l, us, sl2, k)
  BY <1>1, <1>2, <1>5, <1>7 DEF InGather, Threads, Stage, Looks, Deposits, Gathers, Decides, Left, Goes, Late, Gone, Leaves
<1>8. ASSUME InEmit(l, ts, k) PROVE InEmit(l, us, k)
  BY <1>1, <1>2, <1>5, <1>8 DEF InEmit, Threads, Stage, Looks, Deposits, Gathers, Decides, Left, Goes, Late, Gone, Leaves
<1>9. ASSUME InSplit(l, ts, la, sl, k) PROVE InSplit(l, us, la, sl2, k)
  BY <1>1, <1>2, <1>5, <1>9 DEF InSplit, Threads, Stage, Looks, Deposits, Gathers, Decides, Left, Goes, Late, Gone, Leaves
<1>10. ASSUME InTorn(l, ts, la, sl, k) PROVE InTorn(l, us, la, sl2, k)
  BY <1>1, <1>2, <1>5, <1>10 DEF InTorn, Threads, Stage, Looks, Deposits, Gathers, Decides, Left, Goes, Late, Gone, Leaves
<1>a. r = 0 => \A s \in R : ts[s].pc # "wait_deposit"
  BY <1>4 DEF AlignedAt, InLook, InGather, InEmit, InSplit, InTorn, Looks, Deposits, Gathers, Decides, Left, Goes, Gone
<1>3. \A s \in R : Stage(l, us[s], so, la, sl2[s]) /\ (us[s].pc = "latch" => s = 0)
  BY <1>2, <1>a DEF Threads, Stage
<1>11. Aligned(l, us, so, la, sl2)
  BY <1>4, <1>6, <1>7, <1>8, <1>9, <1>10 DEF Aligned, AlignedAt
<1>12. Threads(l, us, so, la, sl2)
  BY <1>2, <1>3, <1>11 DEF Threads
<1> QED BY <1>12 DEF us

\* A restart leaves, or goes on.
LEMMA DecideAligned ==
    ASSUME NEW l, Sane(l), NEW ts, NEW so, NEW la, NEW sl, Threads(l, ts, so, la, sl),
           NEW r \in RestartsOf(l), NEW t \in RestartType(l), t.i = ts[r].i,
           ts[r].pc = "decide", t.pc = IF ts[r].done \/ ts[r].stopping THEN "end" ELSE "move",
           t.done = FALSE, t.stopping = FALSE
    PROVE  Threads(l, [ts EXCEPT ![r] = t], so, la, sl)
<1> DEFINE R == RestartsOf(l)
           us == [ts EXCEPT ![r] = t]
<1>1. ts \in [R -> RestartType(l)] /\ 0 \in R
  BY DEF Threads, Sane
<1>2. us \in [R -> RestartType(l)] /\ us[r] = t /\ \A s \in R \ {r} : us[s] = ts[s]
  BY <1>1, OneStep
<1> HIDE DEF us
<1>3. \A s \in R : Stage(l, us[s], so, la, sl[s]) /\ (us[s].pc = "latch" => s = 0)
  BY <1>2 DEF Threads, Stage
<1>4. PICK k \in Grid(l) : AlignedAt(l, ts, so, la, sl, k)
  BY DEF Threads, Aligned
<1>5. k \in Int /\ k + l.step \in Nat /\ l.step \in Nat /\ l.iters \in Nat /\ l.step > 0
  BY GridNext
<1>6. ASSUME InLook(l, ts, so, la, k) PROVE InLook(l, us, so, la, k)
  <2>1. Decides(ts[r], k) /\ ~IsBeat(l, k) /\ ~ts[r].stopping
    BY <1>6 DEF InLook, Looks, Deposits, Left, Goes
  <2>2. k < l.iters
    BY <1>6 DEF InLook, IsCheckpoint
  <2>3. (Left(l, t, k) /\ so) \/ Goes(l, t, k)
    <3>1. ts[r].done => so
      BY DEF Threads, Stage
    <3> QED BY <2>1, <2>2, <3>1 DEF Decides, Left, Goes
  <2>4. la => r # 0 /\ us[0].pc = "wait_block" /\ us[0].i = k + l.step
    BY <1>1, <1>2, <1>6, <2>1 DEF InLook, Looks, Deposits, Decides
  <2> QED BY <1>2, <1>6, <2>1, <2>3, <2>4 DEF InLook
<1>7. ASSUME InGather(l, ts, sl, k) PROVE InGather(l, us, sl, k)
  BY <1>1, <1>2, <1>5, <1>7 DEF InGather, Threads, Stage, Looks, Deposits, Gathers, Decides, Left, Goes, Late, Gone, Leaves
<1>8. ASSUME InEmit(l, ts, k) PROVE InEmit(l, us, k)
  <2>1. Decides(ts[r], k) /\ (IsCheckpoint(l, ts[r].i) => k < l.iters)
    BY <1>8 DEF InEmit, Left, Goes, Decides, IsCheckpoint
  <2>2. k < l.iters
    BY <2>1 DEF Threads, Stage
  <2>3. IF Leaves(ts[r]) THEN Left(l, t, k) ELSE Goes(l, t, k)
    BY <2>1, <2>2 DEF Leaves, Decides, Left, Goes
  <2>4. CASE \A s \in R : (Decides(ts[s], k) /\ Leaves(ts[s])) \/ Left(l, ts[s], k)
    <3>1. Left(l, t, k)
      BY <2>1, <2>3, <2>4 DEF Left, Decides
    <3> QED BY <1>2, <2>4, <3>1 DEF InEmit
  <2>5. CASE \A s \in R : (Decides(ts[s], k) /\ ~Leaves(ts[s])) \/ Goes(l, ts[s], k)
    <3>1. Goes(l, t, k)
      BY <2>1, <2>3, <2>5 DEF Goes, Decides
    <3> QED BY <1>2, <2>5, <3>1 DEF InEmit
  <2> QED BY <1>8, <2>4, <2>5 DEF InEmit
<1>9. ASSUME InSplit(l, ts, la, sl, k) PROVE InSplit(l, us, la, sl, k)
  BY <1>1, <1>2, <1>5, <1>9 DEF InSplit, Threads, Stage, Looks, Deposits, Gathers, Decides, Left, Goes, Late, Gone, Leaves
<1>10. ASSUME InTorn(l, ts, la, sl, k) PROVE InTorn(l, us, la, sl, k)
  BY <1>1, <1>2, <1>5, <1>10 DEF InTorn, Threads, Stage, Looks, Deposits, Gathers, Decides, Left, Goes, Late, Gone, Leaves
<1>11. Aligned(l, us, so, la, sl)
  BY <1>4, <1>6, <1>7, <1>8, <1>9, <1>10 DEF Aligned, AlignedAt
<1>12. Threads(l, us, so, la, sl)
  BY <1>2, <1>3, <1>11 DEF Threads
<1> QED BY <1>12 DEF us

\* A restart reaches a checkpoint.
LEMMA BlockAligned ==
    ASSUME NEW l, Sane(l), NEW ts, NEW so, NEW la, NEW sl, Threads(l, ts, so, la, sl),
           NEW r \in RestartsOf(l), NEW t \in RestartType(l),
           ts[r].pc = "top", IsCheckpoint(l, ts[r].i), t.i = ts[r].i, t.stash \in GoodBest(l),
           t.done = ts[r].done, t.stopping = ts[r].stopping,
           t.pc = IF r = 0 THEN "latch" ELSE "wait_block",
           NEW so2, Rises(so, so2), Compresses(l) => ~so2
    PROVE  Threads(l, [ts EXCEPT ![r] = t], so2, la, sl)
<1> DEFINE R == RestartsOf(l)
           us == [ts EXCEPT ![r] = t]
<1>1. ts \in [R -> RestartType(l)] /\ 0 \in R
  BY DEF Threads, Sane
<1>2. us \in [R -> RestartType(l)] /\ us[r] = t /\ \A s \in R \ {r} : us[s] = ts[s]
  BY <1>1, OneStep
<1> HIDE DEF us
<1>3. \A s \in R : Stage(l, us[s], so2, la, sl[s]) /\ (us[s].pc = "latch" => s = 0)
  BY <1>2 DEF Threads, Stage, Rises
<1>4. PICK k \in Grid(l) : AlignedAt(l, ts, so, la, sl, k)
  BY DEF Threads, Aligned
<1>5. /\ k \in Int /\ k + l.step \in Nat /\ l.step \in Nat /\ l.iters \in Nat /\ l.step > 0
      /\ ts[r].i \in 0 .. l.iters
      /\ IsCheckpoint(l, ts[r].i) /\ k < ts[r].i /\ ts[r].i <= k + l.step => ts[r].i = k + l.step
  <2>1. ts[r].i \in 0 .. l.iters
    BY <1>1 DEF RestartType
  <2> QED BY <2>1, GridNext
<1>b. ts[r].i < l.iters /\ (Goes(l, ts[r], k) => Goes(l, t, k))
  BY <1>5 DEF Goes, IsCheckpoint
<1>6. ASSUME InLook(l, ts, so, la, k) PROVE InLook(l, us, so2, la, k)
  BY <1>1, <1>2, <1>5, <1>b, <1>6 DEF Rises, InLook, Looks, Deposits, Gathers, Decides, Left, Goes, Late, Gone, Leaves
<1>7. ASSUME InGather(l, ts, sl, k) PROVE InGather(l, us, sl, k)
  BY <1>1, <1>2, <1>5, <1>b, <1>7 DEF InGather, Looks, Deposits, Gathers, Decides, Left, Goes, Late, Gone, Leaves
<1>8. ASSUME InEmit(l, ts, k) PROVE InEmit(l, us, k)
  BY <1>1, <1>2, <1>5, <1>b, <1>8 DEF InEmit, Looks, Deposits, Gathers, Decides, Left, Goes, Late, Gone, Leaves
<1>9. ASSUME InSplit(l, ts, la, sl, k) PROVE InSplit(l, us, la, sl, k)
  BY <1>1, <1>2, <1>5, <1>b, <1>9 DEF InSplit, Looks, Deposits, Gathers, Decides, Left, Goes, Late, Gone, Leaves
<1>10. ASSUME InTorn(l, ts, la, sl, k) PROVE InTorn(l, us, la, sl, k)
  BY <1>1, <1>2, <1>5, <1>b, <1>10 DEF InTorn, Looks, Deposits, Gathers, Decides, Left, Goes, Late, Gone, Leaves
<1>11. Aligned(l, us, so2, la, sl)
  BY <1>4, <1>6, <1>7, <1>8, <1>9, <1>10 DEF Aligned, AlignedAt
<1>12. Threads(l, us, so2, la, sl)
  BY <1>2, <1>3, <1>11 DEF Threads, Rises
<1> QED BY <1>12 DEF us

\* A restart anneals.
LEMMA MoveAligned ==
    ASSUME NEW l, Sane(l), NEW ts, NEW so, NEW la, NEW sl, Threads(l, ts, so, la, sl),
           NEW r \in RestartsOf(l), NEW t \in RestartType(l),
           ts[r].i < l.iters, t.i = ts[r].i + 1, t.pc = "top",
           \/ ts[r].pc = "move"
           \/ ts[r].pc = "top" /\ ~IsCheckpoint(l, ts[r].i),
           t.done = ts[r].done, t.stopping = ts[r].stopping
    PROVE  Threads(l, [ts EXCEPT ![r] = t], so, la, sl)
<1> DEFINE R == RestartsOf(l)
           us == [ts EXCEPT ![r] = t]
<1>1. ts \in [R -> RestartType(l)] /\ 0 \in R
  BY DEF Threads, Sane
<1>2. us \in [R -> RestartType(l)] /\ us[r] = t /\ \A s \in R \ {r} : us[s] = ts[s]
  BY <1>1, OneStep
<1> HIDE DEF us
<1>3. \A s \in R : Stage(l, us[s], so, la, sl[s]) /\ (us[s].pc = "latch" => s = 0)
  BY <1>2 DEF Threads, Stage
<1>4. PICK k \in Grid(l) : AlignedAt(l, ts, so, la, sl, k)
  BY DEF Threads, Aligned
<1>5. /\ k \in Int /\ k + l.step \in Nat /\ l.step \in Nat /\ l.iters \in Nat /\ l.step > 0
      /\ ts[r].i \in 0 .. l.iters
      /\ IsCheckpoint(l, ts[r].i) /\ k < ts[r].i /\ ts[r].i <= k + l.step => ts[r].i = k + l.step
  <2>1. ts[r].i \in 0 .. l.iters
    BY <1>1 DEF RestartType
  <2> QED BY <2>1, GridNext
<1>b. Goes(l, ts[r], k) => Goes(l, t, k)
  <2>1. ASSUME ts[r].pc = "top", k < ts[r].i, ts[r].i <= k + l.step PROVE ts[r].i + 1 <= k + l.step
    <3>1. ts[r].i = k + l.step => IsCheckpoint(l, ts[r].i)
      BY GridNext, <1>5
    <3> QED BY <1>5, <2>1, <3>1
  <2> QED BY <1>5, <2>1 DEF Goes
<1>6. ASSUME InLook(l, ts, so, la, k) PROVE InLook(l, us, so, la, k)
  BY <1>1, <1>2, <1>5, <1>b, <1>6 DEF InLook, Looks, Deposits, Gathers, Decides, Left, Goes, Late, Gone, Leaves
<1>7. ASSUME InGather(l, ts, sl, k) PROVE InGather(l, us, sl, k)
  BY <1>1, <1>2, <1>5, <1>b, <1>7 DEF InGather, Looks, Deposits, Gathers, Decides, Left, Goes, Late, Gone, Leaves
<1>8. ASSUME InEmit(l, ts, k) PROVE InEmit(l, us, k)
  BY <1>1, <1>2, <1>5, <1>b, <1>8 DEF InEmit, Looks, Deposits, Gathers, Decides, Left, Goes, Late, Gone, Leaves
<1>9. ASSUME InSplit(l, ts, la, sl, k) PROVE InSplit(l, us, la, sl, k)
  BY <1>1, <1>2, <1>5, <1>b, <1>9 DEF InSplit, Looks, Deposits, Gathers, Decides, Left, Goes, Late, Gone, Leaves
<1>10. ASSUME InTorn(l, ts, la, sl, k) PROVE InTorn(l, us, la, sl, k)
  BY <1>1, <1>2, <1>5, <1>b, <1>10 DEF InTorn, Looks, Deposits, Gathers, Decides, Left, Goes, Late, Gone, Leaves
<1>11. Aligned(l, us, so, la, sl)
  BY <1>4, <1>6, <1>7, <1>8, <1>9, <1>10 DEF Aligned, AlignedAt
<1>12. Threads(l, us, so, la, sl)
  BY <1>2, <1>3, <1>11 DEF Threads
<1> QED BY <1>12 DEF us

\* A restart ends.
LEMMA EndAligned ==
    ASSUME NEW l, Sane(l), NEW ts, NEW so, NEW la, NEW sl, Threads(l, ts, so, la, sl),
           NEW r \in RestartsOf(l), NEW t \in RestartType(l),
           \/ ts[r].pc = "end"
           \/ ts[r].pc = "top" /\ ts[r].i = l.iters,
           t.i = ts[r].i, t.pc = "ended", t.done = ts[r].done, t.stopping = ts[r].stopping
    PROVE  Threads(l, [ts EXCEPT ![r] = t], so, la, sl)
<1> DEFINE R == RestartsOf(l)
           us == [ts EXCEPT ![r] = t]
<1>1. ts \in [R -> RestartType(l)] /\ 0 \in R
  BY DEF Threads, Sane
<1>2. us \in [R -> RestartType(l)] /\ us[r] = t /\ \A s \in R \ {r} : us[s] = ts[s]
  BY <1>1, OneStep
<1> HIDE DEF us
<1>3. \A s \in R : Stage(l, us[s], so, la, sl[s]) /\ (us[s].pc = "latch" => s = 0)
  <2>1. ~(l.iters < l.iters)
    BY DEF Sane
  <2> QED BY <1>2, <2>1 DEF Threads, Stage
<1>4. PICK k \in Grid(l) : AlignedAt(l, ts, so, la, sl, k)
  BY DEF Threads, Aligned
<1>5. /\ k \in Int /\ k + l.step \in Nat /\ l.step \in Nat /\ l.iters \in Nat /\ l.step > 0
      /\ ts[r].i \in 0 .. l.iters
      /\ IsCheckpoint(l, ts[r].i) /\ k < ts[r].i /\ ts[r].i <= k + l.step => ts[r].i = k + l.step
  <2>1. ts[r].i \in 0 .. l.iters
    BY <1>1 DEF RestartType
  <2> QED BY <2>1, GridNext
<1>b. /\ Goes(l, ts[r], k) => Goes(l, t, k)
      /\ Left(l, ts[r], k) => Left(l, t, k)
  BY <1>5 DEF Goes, Left
<1>6. ASSUME InLook(l, ts, so, la, k) PROVE InLook(l, us, so, la, k)
  BY <1>1, <1>2, <1>5, <1>b, <1>6 DEF InLook, Looks, Deposits, Gathers, Decides, Left, Goes, Late, Gone, Leaves
<1>7. ASSUME InGather(l, ts, sl, k) PROVE InGather(l, us, sl, k)
  BY <1>1, <1>2, <1>5, <1>b, <1>7 DEF InGather, Looks, Deposits, Gathers, Decides, Left, Goes, Late, Gone, Leaves
<1>8. ASSUME InEmit(l, ts, k) PROVE InEmit(l, us, k)
  BY <1>1, <1>2, <1>5, <1>b, <1>8 DEF InEmit, Looks, Deposits, Gathers, Decides, Left, Goes, Late, Gone, Leaves
<1>9. ASSUME InSplit(l, ts, la, sl, k) PROVE InSplit(l, us, la, sl, k)
  BY <1>1, <1>2, <1>5, <1>b, <1>9 DEF InSplit, Looks, Deposits, Gathers, Decides, Left, Goes, Late, Gone, Leaves
<1>10. ASSUME InTorn(l, ts, la, sl, k) PROVE InTorn(l, us, la, sl, k)
  BY <1>1, <1>2, <1>5, <1>b, <1>10 DEF InTorn, Looks, Deposits, Gathers, Decides, Left, Goes, Late, Gone, Leaves
<1>11. Aligned(l, us, so, la, sl)
  BY <1>4, <1>6, <1>7, <1>8, <1>9, <1>10 DEF Aligned, AlignedAt
<1>12. Threads(l, us, so, la, sl)
  BY <1>2, <1>3, <1>11 DEF Threads
<1> QED BY <1>12 DEF us

-----------------------------------------------------------------------------
(***************************************************************************)
(* The invariant: types, and restarts that are aligned.                    *)
(***************************************************************************)
Inv ==
    /\ name \in DOMAIN Ladders
    /\ {stop, rows, solved, latch} \subseteq BOOLEAN
    /\ disk \in DiskType(L)
    /\ main = Down \/ main = [at |-> "opened"] \/ main \in MainType(L)
    /\ main.at = "join" => Threads(L, th, solved, latch, slots) /\ (latch => stop)

LEMMA InitInv == Init => Inv
<1> SUFFICES ASSUME Init PROVE Inv
  OBVIOUS
<1>1. disk \in DiskType(L)
  BY DEF Init, NoFile, DiskType
<1>2. main = Down /\ main.at # "join"
  BY DEF Init, Down
<1> QED BY <1>1, <1>2 DEF Init, Inv

\* Where the main thread waits for the restarts.
LEMMA Joining ==
    ASSUME Inv, main.at = "join"
    PROVE  /\ main \in MainType(L) /\ Sane(L) /\ Threads(L, th, solved, latch, slots) /\ (latch => stop)
           /\ th \in [Restarts -> RestartType(L)] /\ slots \in Slots(L) /\ Restarts = RestartsOf(L)
  BY LaddersSane DEF Inv, Down, L, Threads, Restarts

LEMMA ArriveThreads ==
    ASSUME Sane(L), NEW r \in Restarts, NEW t, Arrive(r, t),
           NEW so, NEW la, NEW sl, Threads(L, [th EXCEPT ![r] = t], so, la, sl)
    PROVE  Threads(L, th', so, la, sl)
<1> DEFINE arrived == [th EXCEPT ![r] = t]
<1>1. th' = IF \A s \in RestartsOf(L) : arrived[s].pc \in Waits
            THEN [s \in RestartsOf(L) |-> Released(arrived[s])] ELSE arrived
  BY DEF Arrive, Restarts
<1> HIDE DEF arrived
<1>2. Threads(L, arrived, so, la, sl)
  BY DEF arrived
<1>3. CASE \A s \in RestartsOf(L) : arrived[s].pc \in Waits
  BY <1>1, <1>2, <1>3, ReleaseAligned
<1>4. CASE ~\A s \in RestartsOf(L) : arrived[s].pc \in Waits
  BY <1>1, <1>2, <1>4
<1> QED BY <1>3, <1>4

\* When restart 0 writes the snapshot, all parts are there.
LEMMA AllDeposited ==
    ASSUME NEW l, Sane(l), NEW ts, NEW so, NEW la, NEW sl, Threads(l, ts, so, la, sl), ts[0].pc = "gather"
    PROVE  sl \in Parts(l) /\ IsCheckpoint(l, ts[0].i) /\ ts[0].i \in 0 .. l.iters
<1>1. PICK k \in Grid(l) : AlignedAt(l, ts, so, la, sl, k)
  BY DEF Threads, Aligned
<1>2. \A r \in RestartsOf(l) : Filled(l, sl[r])
  BY <1>1 DEF AlignedAt, InLook, InGather, InEmit, InSplit, InTorn, Looks, Deposits, Decides, Left, Goes, Sane
<1>3. IsCheckpoint(l, ts[0].i) /\ ts[0].i \in 0 .. l.iters
  BY DEF Threads, Stage, Sane, RestartType
<1>4. sl \in Parts(l)
  BY <1>2 DEF Threads, Slots, Parts, Filled
<1> QED BY <1>3, <1>4

LEMMA SnapshotTyped ==
    ASSUME Inv, main.at = "join", th[0].pc = "gather"
    PROVE  Snapshot(th[0].i, slots) \in SnapshotType(L)
<1>1. main \in MainType(L) /\ Sane(L) /\ Threads(L, th, solved, latch, slots)
  BY Joining
<1>2. slots \in Parts(L) /\ IsCheckpoint(L, th[0].i) /\ th[0].i \in 0 .. L.iters
  BY <1>1, AllDeposited
<1> QED BY <1>1, <1>2 DEF Snapshot, SnapshotType, MainType, Certified, Attempting, Passed

\* A step of a restart.
LEMMA StepInv ==
    ASSUME Inv, NEW r \in Restarts, Step(r)
    PROVE  Inv'
<1>1. main.at = "join" /\ UNCHANGED <<name, main, stop>>
  BY DEF Step, Block, Latch, LookDone, LookStop, Deposit, Gather, Decide, Move, End, Is, Still
<1>2. /\ main \in MainType(L) /\ Sane(L) /\ Threads(L, th, solved, latch, slots) /\ (latch => stop)
      /\ th \in [Restarts -> RestartType(L)] /\ slots \in Slots(L) /\ Restarts = RestartsOf(L)
  BY <1>1, Joining
<1>3. L' = L /\ name \in DOMAIN Ladders /\ {stop, rows, solved, latch} \subseteq BOOLEAN /\ disk \in DiskType(L)
  BY <1>1 DEF L, Inv
<1>4. SUFFICES /\ Threads(L, th', solved', latch', slots') /\ (latch' => stop)
               /\ rows' \in BOOLEAN /\ disk' \in DiskType(L)
  BY <1>1, <1>2, <1>3 DEF Inv, Threads
<1>5. /\ th[r] \in RestartType(L) /\ main.frontier \in Nat /\ main.lib \in Libraries
      /\ {solved, latch, stop, rows} \subseteq BOOLEAN /\ (Compresses(L) => ~solved)
      /\ \E x \in DOMAIN Ladders : L = Ladders[x]
  BY <1>2, <1>3 DEF MainType, Threads, L
<1>6. CASE Block(r)
  <2> DEFINE s == Sampled(L, main, th[r])
             t == [s EXCEPT !.stash = th[r].best, !.pc = IF r = 0 THEN "latch" ELSE "wait_block"]
  <2>1. PICK b \in GoodBest(L) : s = [th[r] EXCEPT !.best = b]
    BY <1>5, SampledType
  <2>2. /\ t \in RestartType(L) /\ t.i = th[r].i /\ t.stash \in GoodBest(L) /\ t.done = th[r].done
        /\ t.stopping = th[r].stopping /\ t.pc = IF r = 0 THEN "latch" ELSE "wait_block"
    BY <1>5, <2>1 DEF RestartType, Pcs, Waits
  <2>3. /\ solved' \in BOOLEAN /\ (solved => solved') /\ (Compresses(L) => ~solved')
        /\ th[r].pc = "top" /\ IsCheckpoint(L, th[r].i)
        /\ UNCHANGED <<latch, slots, disk>> /\ rows' = TRUE
    BY <1>5, <1>6 DEF Block, Is
  <2>4. Threads(L, [th EXCEPT ![r] = t], solved', latch, slots)
    <3> HIDE DEF t
    <3>1. Rises(solved, solved')
      BY <1>5, <2>3 DEF Rises
    <3> QED BY <1>2, <2>2, <2>3, <3>1, BlockAligned
  <2>5. IF r = 0 THEN th' = [th EXCEPT ![r] = t] ELSE Arrive(r, t)
    <3>1. [[s EXCEPT !.stash = th[r].best] EXCEPT !.pc = IF r = 0 THEN "latch" ELSE "wait_block"] = t
      BY <1>5, <2>1 DEF RestartType
    <3> QED BY <1>6, <3>1 DEF Block
  <2>6. Threads(L, th', solved', latch, slots)
    <3> HIDE DEF t
    <3> QED BY <1>2, <2>4, <2>5, ArriveThreads
  <2> QED BY <1>2, <1>3, <2>3, <2>6
<1>7. CASE Latch(r)
  <2> DEFINE t == [th[r] EXCEPT !.pc = "wait_block"]
  <2>1. /\ t \in RestartType(L) /\ t.i = th[r].i /\ t.stash = th[r].stash /\ t.done = th[r].done
        /\ t.stopping = th[r].stopping /\ t.pc = "wait_block"
    BY <1>5 DEF RestartType, Pcs, Waits
  <2>2. th[r].pc = "latch" /\ latch' = stop /\ Arrive(r, t) /\ UNCHANGED <<solved, slots, disk, rows>>
    BY <1>7 DEF Latch, Is
  <2> HIDE DEF t
  <2>3. Threads(L, [th EXCEPT ![r] = t], solved, stop, slots)
    <3>1. Rises(latch, stop)
      BY <1>2, <1>5 DEF Rises
    <3> QED BY <1>2, <2>1, <2>2, <3>1, LatchAligned
  <2>4. Threads(L, th', solved, stop, slots)
    BY <1>2, <2>2, <2>3, ArriveThreads
  <2> QED BY <1>3, <2>2, <2>4
<1>8. CASE LookDone(r)
  <2> DEFINE t == [th[r] EXCEPT !.pc = "look_stop", !.done = solved]
  <2>1. /\ t \in RestartType(L) /\ t.i = th[r].i /\ t.stash = th[r].stash /\ t.done = solved
        /\ t.stopping = th[r].stopping /\ t.pc = "look_stop"
    BY <1>5 DEF RestartType, Pcs, Waits
  <2>2. th[r].pc = "look" /\ th' = [th EXCEPT ![r] = t] /\ UNCHANGED <<solved, latch, slots, disk, rows>>
    BY <1>2, <1>8 DEF LookDone, Is
  <2> HIDE DEF t
  <2>3. Threads(L, [th EXCEPT ![r] = t], solved, latch, slots)
    BY <1>2, <1>5, <2>1, <2>2, LookDoneAligned
  <2> QED BY <1>2, <1>3, <2>2, <2>3
<1>9. CASE LookStop(r)
  <2> DEFINE t == [th[r] EXCEPT !.pc = IF latch \/ IsBeat(L, th[r].i) THEN "deposit" ELSE "decide", !.stopping = latch]
  <2>1. /\ t \in RestartType(L) /\ t.i = th[r].i /\ t.stash = th[r].stash /\ t.done = th[r].done
        /\ t.stopping = latch /\ t.pc = IF latch \/ IsBeat(L, th[r].i) THEN "deposit" ELSE "decide"
    BY <1>5 DEF RestartType, Pcs, Waits
  <2>2. th[r].pc = "look_stop" /\ th' = [th EXCEPT ![r] = t] /\ UNCHANGED <<solved, latch, slots, disk, rows>>
    BY <1>2, <1>9 DEF LookStop, Is
  <2> HIDE DEF t
  <2>3. Threads(L, [th EXCEPT ![r] = t], solved, latch, slots)
    BY <1>2, <1>5, <2>1, <2>2, LookStopAligned
  <2> QED BY <1>2, <1>3, <2>2, <2>3
<1>10. CASE Deposit(r)
  <2> DEFINE t == [th[r] EXCEPT !.pc = "wait_deposit"]
  <2>1. /\ t \in RestartType(L) /\ t.i = th[r].i /\ t.stash = th[r].stash /\ t.done = th[r].done
        /\ t.stopping = th[r].stopping /\ t.pc = "wait_deposit"
    BY <1>5 DEF RestartType, Pcs, Waits
  <2>2. /\ th[r].pc = "deposit" /\ slots' = [slots EXCEPT ![r] = SnapOf(th[r])] /\ Arrive(r, t)
        /\ UNCHANGED <<solved, latch, disk, rows>>
    BY <1>10 DEF Deposit, Is
  <2> HIDE DEF t
  <2>3. SnapOf(th[r]) \in PartType(L)
    BY <1>2, <1>5, <2>2 DEF SnapOf, PartType, RestartType, Threads, Stage
  <2>4. /\ slots' \in Slots(L) /\ Filled(L, slots'[r])
        /\ \A s \in RestartsOf(L) \ {r} : slots'[s] = slots[s]
    BY <1>2, <2>2, <2>3 DEF Slots, Filled
  <2>5. Threads(L, [th EXCEPT ![r] = t], solved, latch, slots')
    BY ZenonT(40), <1>2, <1>5, <2>1, <2>2, <2>4, DepositAligned
  <2>6. Threads(L, th', solved, latch, slots')
    BY <1>2, <2>2, <2>5, ArriveThreads
  <2> QED BY <1>2, <1>3, <2>2, <2>6
<1>11. CASE Gather(r)
  <2> DEFINE t == [th[r] EXCEPT !.pc = "wait_emit"]
  <2>1. /\ t \in RestartType(L) /\ t.i = th[r].i /\ t.stash = th[r].stash /\ t.done = th[r].done
        /\ t.stopping = th[r].stopping /\ t.pc = "wait_emit"
    BY <1>5 DEF RestartType, Pcs, Waits
  <2>2. th[r].pc = "gather" /\ Arrive(r, t) /\ UNCHANGED <<solved, latch>>
    BY <1>11 DEF Gather, Is
  <2> HIDE DEF t
  <2>3. slots' \in Slots(L) /\ (r # 0 => slots' = slots)
    BY <1>2, <1>11 DEF Gather, Slots
  <2>4. rows' \in BOOLEAN /\ disk' \in DiskType(L)
    <3>1. r = 0 => Snapshot(th[0].i, slots) \in SnapshotType(L)
      BY <1>1, <2>2, SnapshotTyped
    <3> QED BY <1>3, <1>11, <3>1 DEF Gather, DiskType
  <2>5. Threads(L, [th EXCEPT ![r] = t], solved, latch, slots')
    BY <1>2, <1>5, <2>1, <2>2, <2>3, GatherAligned
  <2>6. Threads(L, th', solved, latch, slots')
    BY <1>2, <2>2, <2>5, ArriveThreads
  <2> QED BY <1>2, <2>2, <2>4, <2>6
<1>12. CASE Decide(r)
  <2> DEFINE t == [th[r] EXCEPT !.pc = IF th[r].done \/ th[r].stopping THEN "end" ELSE "move",
                                !.stash = NoSnap, !.done = FALSE, !.stopping = FALSE]
  <2>1. /\ t \in RestartType(L) /\ t.i = th[r].i /\ t.done = FALSE /\ t.stopping = FALSE
        /\ t.pc = IF th[r].done \/ th[r].stopping THEN "end" ELSE "move"
    BY <1>5 DEF RestartType, Pcs, Waits
  <2>2. th[r].pc = "decide" /\ th' = [th EXCEPT ![r] = t] /\ UNCHANGED <<solved, latch, slots, disk, rows>>
    BY <1>2, <1>12 DEF Decide, Is
  <2> HIDE DEF t
  <2>3. Threads(L, [th EXCEPT ![r] = t], solved, latch, slots)
    BY <1>2, <1>5, <2>1, <2>2, DecideAligned
  <2> QED BY <1>2, <1>3, <2>2, <2>3
<1>13. CASE Move(r)
  <2> DEFINE t == Moved(L, main, th[r])
  <2>1. /\ th[r].i < L.iters /\ th' = [th EXCEPT ![r] = t] /\ UNCHANGED <<solved, latch, slots, disk, rows>>
        /\ \/ th[r].pc = "move"
           \/ th[r].pc = "top" /\ ~IsCheckpoint(L, th[r].i)
    BY <1>2, <1>13 DEF Move, Is, Threads, Stage, IsCheckpoint
  <2>2. /\ t \in RestartType(L) /\ t.pc = "top" /\ t.i = th[r].i + 1
        /\ t.done = th[r].done /\ t.stopping = th[r].stopping
    BY <1>5, <2>1, MovedType
  <2> HIDE DEF t
  <2>3. Threads(L, [th EXCEPT ![r] = t], solved, latch, slots)
    BY <1>2, <1>5, <2>1, <2>2, MoveAligned
  <2> QED BY <1>2, <1>3, <2>1, <2>3
<1>14. CASE End(r)
  <2> DEFINE s == Sampled(L, main, th[r])
             t == [s EXCEPT !.pc = "ended"]
  <2>1. PICK b \in GoodBest(L) : s = [th[r] EXCEPT !.best = b]
    BY <1>5, SampledType
  <2>2. /\ t \in RestartType(L) /\ t.i = th[r].i /\ t.pc = "ended"
        /\ t.done = th[r].done /\ t.stopping = th[r].stopping
    BY <1>5, <2>1 DEF RestartType, Pcs
  <2>3. /\ th' = [th EXCEPT ![r] = t] /\ UNCHANGED <<solved, latch, slots, disk>> /\ rows' = TRUE
        /\ \/ th[r].pc = "end"
           \/ th[r].pc = "top" /\ th[r].i = L.iters
    BY <1>14 DEF End, Is
  <2> HIDE DEF t
  <2>4. Threads(L, [th EXCEPT ![r] = t], solved, latch, slots)
    BY <1>2, <1>5, <2>2, <2>3, EndAligned
  <2> QED BY <1>2, <1>3, <2>3, <2>4
<1> QED BY <1>6, <1>7, <1>8, <1>9, <1>10, <1>11, <1>12, <1>13, <1>14 DEF Step

\* What the restarts begin with is aligned: nobody has moved.
LEMMA BegunThreads ==
    ASSUME NEW x \in DOMAIN Ladders, NEW l, l = Ladders[x], NEW m \in MainType(l), Attempting(l, m)
    PROVE  Threads(l, [r \in RestartsOf(l) |-> Begun(l, m, r)], FALSE, FALSE, [r \in RestartsOf(l) |-> NoSnap])
<1> DEFINE ts == [r \in RestartsOf(l) |-> Begun(l, m, r)]
           start == IF m.mid # NoSnap THEN m.mid.iter ELSE 0
<1>1. \A r \in RestartsOf(l) :
        /\ ts[r] \in RestartType(l) /\ ts[r].pc = "top" /\ ts[r].stopping = FALSE /\ ts[r].done = FALSE
        /\ ts[r].i = start
  BY BegunType
<1>2. ts \in [RestartsOf(l) -> RestartType(l)]
  BY <1>1
<1>3. Sane(l)
  BY LaddersSane
<1>4. start \in 0 .. l.iters /\ start % l.step = 0
  <2>1. l.iters \in Nat /\ l.step \in Nat \ {0}
    BY <1>3 DEF Sane
  <2>2. CASE m.mid # NoSnap
    BY <2>2 DEF MainType, IsCheckpoint
  <2>3. CASE m.mid = NoSnap
    <3>1. 0 = l.step * 0 + 0 /\ 0 \in 0 .. l.step - 1
      BY <2>1
    <3>2. 0 % l.step = 0
      BY <2>1, <3>1, DividedOnce
    <3> QED BY <2>1, <2>3, <3>2
  <2> QED BY <2>2, <2>3
<1> HIDE DEF ts, start
<1>5. PICK k \in Grid(l) : k + l.step = start /\ k < start
  <2>1. l.iters \in Nat /\ l.step \in Nat \ {0} /\ start - l.step \in Int /\ start \in Nat
    BY <1>3, <1>4 DEF Sane
  <2>2. ((start - l.step) + l.step) % l.step = (start - l.step) % l.step
    BY <2>1, NextOnGrid
  <2>3. (start - l.step) + l.step = start
    BY <2>1
  <2>4. start - l.step \in Grid(l)
    BY <1>4, <2>1, <2>2, <2>3 DEF Grid
  <2> QED BY <2>1, <2>3, <2>4
<1>6. \A r \in RestartsOf(l) : Goes(l, ts[r], k)
  <2>1. start <= k + l.step
    BY <1>4, <1>5
  <2> QED BY <1>1, <1>5, <2>1 DEF Goes
<1>7. Aligned(l, ts, FALSE, FALSE, [r \in RestartsOf(l) |-> NoSnap])
  BY <1>6 DEF Aligned, AlignedAt, InEmit
<1>8. \A r \in RestartsOf(l) : Stage(l, ts[r], FALSE, FALSE, NoSnap) /\ ts[r].pc # "latch"
  BY <1>1 DEF Stage
<1>9. Threads(l, ts, FALSE, FALSE, [r \in RestartsOf(l) |-> NoSnap])
  BY <1>2, <1>7, <1>8 DEF Threads, Slots
<1> QED BY <1>9 DEF ts

LEMMA MainInv ==
    ASSUME Inv, Main
    PROVE  Inv'
<1>1. name' = name /\ L' = L /\ name \in DOMAIN Ladders /\ {stop, rows, solved, latch} \subseteq BOOLEAN /\ disk \in DiskType(L)
  BY DEF Main, Open, WriteHeader, Enter, Spawn, Select, Interrupted, Finish, L, Inv
<1>2. \E x \in DOMAIN Ladders : L = Ladders[x]
  BY <1>1 DEF L
<1>3. Down.at = "down" /\ [at |-> "opened"].at = "opened"
  BY DEF Down
<1>4. Flushed => disk' \in DiskType(L) /\ rows' \in BOOLEAN
  BY <1>1 DEF Flushed, WithRows, DiskType
<1>5. CASE Open
  <2>1. {stop', rows', solved', latch'} \subseteq BOOLEAN
    BY <1>1, <1>5 DEF Open, restartVars
  <2>2. CASE Resumable
    <3>1. disk.snap \in SnapshotType(L)
      BY <1>1, <2>2 DEF Resumable, DiskType
    <3>2. Restored(disk.snap) \in MainType(L) /\ Restored(disk.snap).at = "rung"
      BY <3>1 DEF Restored, SnapshotType, MainType, Certified, Attempting, Passed
    <3>3. main' = Restored(disk.snap) /\ disk' = disk
      BY <1>5, <2>2 DEF Open
    <3> QED BY <1>1, <2>1, <3>2, <3>3 DEF Inv
  <2>3. CASE ~Resumable
    <3>1. main' = [at |-> "opened"] /\ disk' = NoFile
      BY <1>5, <2>3 DEF Open
    <3>2. NoFile \in DiskType(L)
      BY DEF NoFile, DiskType
    <3> QED BY <1>1, <1>3, <2>1, <3>1, <3>2 DEF Inv
  <2> QED BY <2>2, <2>3
<1>6. CASE WriteHeader
  <2>1. disk' \in DiskType(L)
    BY <1>1, <1>6 DEF WriteHeader, DiskType
  <2>2. Fresher(L) \in MainType(L) /\ Fresher(L).at = "rung"
    <3>1. /\ L.rungs \in Nat /\ L.retries \in Nat /\ L.size \in [Programs -> Nat]
          /\ Compresses(L) => L.start \in Programs /\ L.certified[L.start] /\ L.size[L.start] \in Nat
      BY <1>2, LadderFacts
    <3>2. {} \in Libraries
      BY MoveAssumption
    <3> QED BY <3>1, <3>2 DEF Fresher, MainType, Certified
  <2>3. main' = Fresher(L) /\ {stop', rows', solved', latch'} \subseteq BOOLEAN
    BY <1>1, <1>6 DEF WriteHeader, restartVars
  <2> QED BY <1>1, <2>1, <2>2, <2>3 DEF Inv
<1>7. CASE Enter
  <2>1. main \in MainType(L) /\ main.at = "rung"
    BY <1>3, <1>7 DEF Inv, Enter
  <2>2. Entered(L, main) \in MainType(L)
    BY <1>2, <2>1, EnteredType
  <2>3. Entered(L, main).at # "join"
    BY <2>1 DEF Entered, MainType
  <2>4. main' = Entered(L, main) /\ UNCHANGED <<stop, disk, rows, solved, latch>>
    BY <1>7 DEF Enter, fileVars, restartVars
  <2> QED BY <1>1, <2>2, <2>3, <2>4 DEF Inv
<1>8. CASE Spawn
  <2>1. main \in MainType(L) /\ main.at = "attempt"
    BY <1>3, <1>8 DEF Inv, Spawn
  <2>2. Attempting(L, main)
    BY <2>1 DEF MainType
  <2>3. Threads(L, [r \in RestartsOf(L) |-> Begun(L, main, r)], FALSE, FALSE, [r \in RestartsOf(L) |-> NoSnap])
    BY <1>2, <2>1, <2>2, BegunThreads
  <2>4. /\ th' = [r \in RestartsOf(L) |-> Begun(L, main, r)] /\ slots' = [r \in RestartsOf(L) |-> NoSnap]
        /\ solved' = FALSE /\ latch' = FALSE /\ main' = [main EXCEPT !.at = "join"]
        /\ UNCHANGED <<stop, disk, rows>>
    BY <1>8 DEF Spawn, Idle, Restarts, fileVars
  <2>5. main' \in MainType(L)
    BY <2>1, <2>2, <2>4 DEF MainType, Certified, Attempting, Passed
  <2> QED BY <1>1, <2>3, <2>4, <2>5 DEF Inv
<1>9. CASE Select
  <2>1. main.at = "join" /\ main \in MainType(L) /\ th \in [Restarts -> RestartType(L)] /\ Restarts = RestartsOf(L)
    BY <1>9, Joining DEF Select, AllEnded
  <2> DEFINE bests == [r \in Restarts |-> th[r].best]
  <2>2. \A r \in RestartsOf(L) : bests[r] \in GoodBest(L)
    BY <2>1 DEF RestartType
  <2>3. main' = Selected(L, main, bests) /\ UNCHANGED <<stop, disk>> /\ rows' = TRUE /\ solved' = FALSE /\ latch' = FALSE
    BY <1>9 DEF Select, NoRestarts
  <2> HIDE DEF bests
  <2>4. Selected(L, main, bests) \in MainType(L)
    BY <1>2, <2>1, <2>2, SelectedType
  <2>5. Selected(L, main, bests).at # "join"
    BY <2>1 DEF Selected, Escalated, MainType
  <2> QED BY <1>1, <2>3, <2>4, <2>5 DEF Inv
<1>10. CASE Interrupted
  BY <1>1, <1>3, <1>4, <1>10 DEF Interrupted, NoRestarts, Inv
<1>11. CASE Finish
  BY <1>1, <1>3, <1>4, <1>11 DEF Finish, restartVars, Inv
<1> QED BY <1>5, <1>6, <1>7, <1>8, <1>9, <1>10, <1>11 DEF Main

LEMMA FaultInv ==
    ASSUME Inv, CtrlC \/ Kill \/ KillAmidSnapshot
    PROVE  Inv'
<1>1. name' = name /\ L' = L /\ name \in DOMAIN Ladders /\ {stop, rows, solved, latch} \subseteq BOOLEAN /\ disk \in DiskType(L)
  BY DEF CtrlC, Kill, KillAmidSnapshot, Dies, L, Inv
<1>2. Down.at = "down"
  BY DEF Down
<1>3. CASE CtrlC
  BY <1>1, <1>3 DEF CtrlC, restartVars, fileVars, Inv
<1>4. CASE Kill
  <2>1. disk' \in DiskType(L)
    BY <1>1, <1>4 DEF Kill, WithRows, DiskType
  <2> QED BY <1>1, <1>2, <1>4, <2>1 DEF Kill, Dies, NoRestarts, Inv
<1>5. CASE KillAmidSnapshot
  <2>1. Snapshot(th[0].i, slots) \in SnapshotType(L)
    BY <1>5, SnapshotTyped DEF KillAmidSnapshot, Is
  <2>2. disk' \in DiskType(L)
    BY <1>1, <1>5, <2>1 DEF KillAmidSnapshot, DiskType
  <2> QED BY <1>1, <1>2, <1>5, <2>2 DEF KillAmidSnapshot, Dies, NoRestarts, Inv
<1> QED BY <1>3, <1>4, <1>5

LEMMA NextInv == Inv /\ [Next]_vars => Inv'
<1> SUFFICES ASSUME Inv, [Next]_vars PROVE Inv'
  OBVIOUS
<1>1. CASE UNCHANGED vars
  BY <1>1 DEF vars, restartVars, fileVars, Inv, L
<1> QED BY <1>1, MainInv, StepInv, FaultInv DEF Next, Over

\* Types are kept, whatever happens.
THEOREM TypeCorrect == Spec => []TypeOK
<1>1. Inv => TypeOK
  <2> SUFFICES ASSUME Inv PROVE TypeOK
    OBVIOUS
  <2>1. main.at \in {"down", "opened", "rung", "attempt", "join", "finished"}
    BY DEF Inv, Down, MainType
  <2>2. ASSUME main.at = "join", NEW r \in Restarts
        PROVE  /\ th[r].pc \in Waits \cup {"top", "latch", "look", "look_stop", "deposit", "gather", "decide", "move", "end", "ended"}
               /\ th[r].i \in 0 .. L.iters
               /\ th[r].rng \in Generators /\ th[r].cur \in Programs /\ th[r].best \in BestType
               /\ th[r].stash \in BestType \cup {NoSnap}
               /\ slots[r] \in SnapType \cup {NoSnap}
    <3>1. th[r] \in RestartType(L) /\ slots[r] \in PartType(L) \cup {NoSnap}
      BY <2>2, Joining DEF Slots
    <3> QED BY <3>1 DEF RestartType, GoodBest, PartType, SnapType, Pcs
  <2>3. {solved, latch, stop, rows, disk.header, disk.ended} \subseteq BOOLEAN
    BY DEF Inv, DiskType
  <2>4. Resumable => \A r \in Restarts : disk.snap.restarts[r] \in SnapType
    <3>1. Resumable => disk.snap \in SnapshotType(L)
      BY DEF Inv, DiskType, Resumable
    <3> QED BY <3>1 DEF SnapshotType, Parts, PartType, GoodBest, SnapType, Restarts
  <2>5. name \in DOMAIN Ladders
    BY DEF Inv
  <2> QED BY <2>1, <2>2, <2>3, <2>4, <2>5 DEF TypeOK
<1> QED BY <1>1, InitInv, NextInv, PTL DEF Spec

\* A compression holds only certified programs, and never a larger champion than
\* the one it was given, whatever was killed, stopped or resumed on the way.
THEOREM CompressionIsCertified == Spec => []ShrinksCertified
<1>1. Inv => ShrinksCertified
  <2> SUFFICES ASSUME Inv, Compresses(L) PROVE ShrinksCertified
    BY DEF ShrinksCertified
  <2>1. ASSUME main.at \in {"rung", "attempt", "join", "finished"}
        PROVE  L.certified[main.champ] /\ L.size[main.champ] <= L.size[L.start]
    BY <2>1 DEF Inv, Down, MainType, Certified
  <2>2. ASSUME main.at = "join", NEW r \in Restarts PROVE L.certified[th[r].best.prog]
    <3>1. th[r] \in RestartType(L)
      BY <2>2, Joining
    <3> QED BY <3>1 DEF RestartType, GoodBest
  <2> QED BY <2>1, <2>2 DEF ShrinksCertified
<1> QED BY <1>1, InitInv, NextInv, PTL DEF Spec

-----------------------------------------------------------------------------
(***************************************************************************)
(* Nobody is left waiting, where the barrier cannot be met for two things  *)
(* at once: one restart; a snapshot at every checkpoint that another one   *)
(* follows; or a compression, which nobody solves, that is not stopped.    *)
(***************************************************************************)
Paced(l) ==
    \/ l.restarts = 1
    \/ \A i \in 0 .. l.iters : IsCheckpoint(l, i) /\ i + l.step < l.iters => IsBeat(l, i)

LEMMA NobodyWaits ==
    ASSUME NEW l, Sane(l), NEW ts, NEW so, NEW la, NEW sl, Threads(l, ts, so, la, sl),
           Paced(l) \/ (Compresses(l) /\ ~la),
           NEW r \in RestartsOf(l), NEW s \in RestartsOf(l), ts[r].pc = "ended"
    PROVE  ts[s].pc \notin Waits
<1> SUFFICES ASSUME ts[s].pc \in Waits PROVE FALSE
  OBVIOUS
<1>1. PICK k \in Grid(l) : AlignedAt(l, ts, so, la, sl, k)
  BY DEF Threads, Aligned
<1>2. k \in Int /\ l.step \in Nat /\ l.iters \in Nat /\ l.step > 0 /\ ts[r].i \in 0 .. l.iters
  BY GridNext DEF Threads, RestartType
<1>3. CASE l.restarts = 1
  <2>1. r = 0 /\ s = 0
    BY <1>3 DEF RestartsOf
  <2> QED BY <2>1 DEF Waits
<1>4. ASSUME l.restarts # 1, Paced(l), IsCheckpoint(l, k), k >= 0, k + l.step < l.iters PROVE IsBeat(l, k)
  BY <1>2, <1>4 DEF Paced
<1>5. ASSUME Compresses(l), ~la PROVE \A q \in RestartsOf(l) : ~Left(l, ts[q], k) /\ ~Leaves(ts[q])
  BY <1>5 DEF Threads, Stage, Left, Leaves
<1>6. ASSUME InLook(l, ts, so, la, k) PROVE FALSE
  <2>1. ~IsBeat(l, k) /\ (Left(l, ts[r], k) \/ Goes(l, ts[r], k))
    BY <1>6 DEF InLook, Looks, Deposits, Decides
  <2>2. \/ Deposits(l, ts[s], k) /\ ts[s].pc = "wait_deposit"
        \/ Goes(l, ts[s], k) /\ ts[s].pc = "wait_block"
    BY <1>6 DEF InLook, Looks, Deposits, Decides, Left, Goes, Waits
  <2>3. CASE k + l.step < l.iters
    <3>1. Compresses(l) /\ ~la
      BY <1>3, <1>4, <1>6, <2>1, <2>3 DEF InLook
    <3>2. Goes(l, ts[r], k)
      BY <1>5, <2>1, <3>1
    <3> QED BY <1>2, <2>3, <3>2 DEF Goes
  <2>4. CASE ~(k + l.step < l.iters)
    <3>1. ts[s].pc = "wait_deposit" /\ ts[s].stopping /\ la
      BY <2>1, <2>2, <2>4 DEF Goes, Deposits, Threads, Stage
    <3>2. ts[0].pc = "wait_block" /\ ts[0].i = k + l.step
      BY <1>6, <3>1 DEF InLook, Looks, Deposits
    <3>3. IsCheckpoint(l, k + l.step)
      BY <3>2 DEF Threads, Stage, Sane
    <3> QED BY <2>4, <3>3 DEF IsCheckpoint
  <2> QED BY <2>3, <2>4
<1>7. ASSUME InGather(l, ts, sl, k) PROVE FALSE
  BY <1>7 DEF InGather, Gathers
<1>8. ASSUME InEmit(l, ts, k) PROVE FALSE
  BY <1>2, <1>8 DEF InEmit, Decides, Left, Goes, Waits
<1>9. ASSUME l.restarts # 1, InSplit(l, ts, la, sl, k) PROVE FALSE
  BY <1>9 DEF InSplit, Looks, Deposits, Late, Gathers
<1>10. ASSUME l.restarts # 1, InTorn(l, ts, la, sl, k) PROVE FALSE
  <2>1. IsCheckpoint(l, k) /\ k >= 0
    <3>1. PICK a \in RestartsOf(l) : Gone(l, ts[a], k)
      BY <1>10 DEF InTorn
    <3> QED BY <3>1 DEF Gone, Decides, Left, Threads, Stage, RestartType
  <2> QED BY <1>4, <1>5, <1>10, <2>1 DEF InTorn, Gone, Leaves
<1> QED BY <1>1, <1>3, <1>6, <1>7, <1>8, <1>9, <1>10 DEF AlignedAt

\* All restarts break together, where the barrier admits it.
THEOREM NobodyIsLeftWaiting ==
    Spec => [](Paced(L) \/ (Compresses(L) /\ ~stop) => NobodyLeftWaiting)
<1>1. Inv => (Paced(L) \/ (Compresses(L) /\ ~stop) => NobodyLeftWaiting)
  <2> SUFFICES ASSUME Inv, main.at = "join", NEW r \in Restarts, NEW s \in Restarts, th[r].pc = "ended",
                      Paced(L) \/ (Compresses(L) /\ ~stop)
               PROVE  th[s].pc \notin Waits
    BY DEF NobodyLeftWaiting
  <2>1. Sane(L) /\ Threads(L, th, solved, latch, slots) /\ Restarts = RestartsOf(L)
    BY Joining
  <2>2. Paced(L) \/ (Compresses(L) /\ ~latch)
    BY Joining
  <2> QED BY <2>1, <2>2, NobodyWaits
<1> QED BY <1>1, InitInv, NextInv, PTL DEF Spec

=============================================================================
