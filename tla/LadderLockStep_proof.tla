----------------------- MODULE LadderLockStep_proof -----------------------
(***************************************************************************)
(* Theorems about GatedLadder: what is killed, stopped and resumed does    *)
(* what an undisturbed search does.                                        *)
(*                                                                         *)
(* The undisturbed search is two recursions: LockStep over the iterations  *)
(* of an attempt, Climb over the states of the main thread.  The invariant *)
(* LockInv says where on them everything is:                               *)
(*                                                                         *)
(*  - main is on the climb, or resumes a snapshot that is (OnPath);        *)
(*  - every restart is where the lock-step is at its own iteration, which  *)
(*    the lock-step has reached (Traced), up to what the checkpoint it     *)
(*    stands at has done to it so far;                                     *)
(*  - solved_flag is set by a restart that is still at the checkpoint      *)
(*    where it solved the rung (Announced), so one who hears of it early   *)
(*    has ended where the lock-step ends;                                  *)
(*  - what was deposited is of the iteration of those who wait (Deposited).*)
(*                                                                         *)
(* It is inductive while the stop flag is down, or no two checkpoints can  *)
(* be confused (Quiet); ladder_mixed shows that it is not otherwise.       *)
(***************************************************************************)
EXTENDS GatedLadder_proof

-----------------------------------------------------------------------------
(***************************************************************************)
(* A restart is where the lock-step of its attempt is.                     *)
(***************************************************************************)
\* The attempt as it is entered, whatever it is resumed from.
Alone(m) == [m EXCEPT !.at = "attempt", !.mid = NoSnap]

\* The lock-step has not been stopped before iteration i; a solver is found at i.
Running(l, m, i) == \A r \in RestartsOf(l) : LockStep(l, m)[i][r].i = i
SolvesAt(l, m, i, r) ==
    ~Compresses(l) /\ Solves(l, Sampled(l, m, LockStep(l, m)[i][r]).best.prog, m.frontier)
OverAt(l, m, i) == IsCheckpoint(l, i) /\ \E r \in RestartsOf(l) : SolvesAt(l, m, i, r)

PartOf(p) == [rng |-> p.rng, cur |-> p.cur, best |-> p.best]

Looked == {"look_stop", "deposit", "wait_deposit", "gather", "wait_emit", "decide"}
AtCheckpoint == Looked \cup {"latch", "wait_block", "look"}

\* It has found a solver at its checkpoint.
Announces(l, m, t, r) == t.pc # "top" /\ t.i < l.iters /\ SolvesAt(l, m, t.i, r)
Heard(l, m, t, r, so) == Announces(l, m, t, r) => so

Traced(l, m, t, r, so) ==
    LET p == LockStep(l, m)[t.i][r] IN
    /\ Running(l, m, t.i)
    /\ t.pc = "top" => t = p
    /\ t.pc \in AtCheckpoint =>
        t.rng = p.rng /\ t.cur = p.cur /\ t.stash = p.best /\ t.best = Sampled(l, m, p).best
    /\ t.pc \in {"move", "end"} => t = [Sampled(l, m, p) EXCEPT !.pc = t.pc]
    /\ t.pc = "ended" =>
        t.best = IF t.i < l.iters THEN Sampled(l, m, Sampled(l, m, p)).best ELSE Sampled(l, m, p).best
    /\ (t.pc \in Looked /\ ~t.done) \/ t.pc = "move" => ~OverAt(l, m, t.i)
    /\ Heard(l, m, t, r, so)

\* The rung is announced as solved by a restart that has, and stays there.
Announced(l, m, ts, so) ==
    so => \E r \in RestartsOf(l) : Announces(l, m, ts[r], r)

Deposited(l, m, ts, sl) ==
    /\ \A r \in RestartsOf(l) : ts[r].pc = "wait_deposit" => sl[r] = PartOf(LockStep(l, m)[ts[r].i][r])
    /\ ts[0].pc = "gather" => \A r \in RestartsOf(l) : sl[r] = PartOf(LockStep(l, m)[ts[0].i][r])

InLockStep(l, m, ts, so, sl) ==
    /\ \A r \in RestartsOf(l) : Traced(l, m, ts[r], r, so)
    /\ Announced(l, m, ts, so)
    /\ Deposited(l, m, ts, sl)

\* The undisturbed search is in state m, and there at iteration `iter`.
Reached(l, m) == \E n \in 0 .. Heights(l) : Climb(l)[n] = m
OnPath(l, m, iter, parts) ==
    /\ Reached(l, m) /\ Running(l, m, iter)
    /\ \A r \in RestartsOf(l) : parts[r] = PartOf(LockStep(l, m)[iter][r])

LockInv ==
    /\ main.at \in {"rung", "attempt", "finished"} =>
        IF main.mid = NoSnap THEN Reached(L, main)
        ELSE OnPath(L, Alone(main), main.mid.iter, main.mid.restarts)
    /\ main.at = "finished" => main.mid = NoSnap
    /\ main.at = "opened" => disk.snap = NoSnap
    /\ main.at = "join" => Reached(L, Alone(main)) /\ InLockStep(L, Alone(main), th, solved, slots)
    /\ Resumable => OnPath(L, Alone(Restored(disk.snap)), disk.snap.iter, disk.snap.restarts)
    /\ LadderIsUninterrupted

-----------------------------------------------------------------------------
(* The lock-step of an attempt.                                            *)

\* An attempt that begins at its first iteration.
Start(l, m) == m \in MainType(l) /\ Attempting(l, m) /\ m.mid = NoSnap

LEMMA AloneType ==
    ASSUME NEW l, NEW m \in MainType(l), Attempting(l, m)
    PROVE  /\ Start(l, Alone(m)) /\ Alone(m).at = "attempt"
           /\ Alone(m).frontier = m.frontier /\ Alone(m).attempt = m.attempt /\ Alone(m).champ = m.champ
           /\ Alone(m).solved = m.solved /\ Alone(m).reheat = m.reheat /\ Alone(m).pool = m.pool
           /\ Alone(m).lib = m.lib /\ Alone(m).minima = m.minima
<1>1. /\ Alone(m).at = "attempt" /\ Alone(m).mid = NoSnap
      /\ Alone(m).frontier = m.frontier /\ Alone(m).attempt = m.attempt /\ Alone(m).champ = m.champ
      /\ Alone(m).solved = m.solved /\ Alone(m).reheat = m.reheat /\ Alone(m).pool = m.pool
      /\ Alone(m).lib = m.lib /\ Alone(m).minima = m.minima
  BY DEF Alone, MainType
<1>2. Certified(l, Alone(m)) /\ Attempting(l, Alone(m))
  BY <1>1 DEF MainType, Certified, Attempting, Passed
<1>3. Alone(m) \in MainType(l)
  BY <1>1, <1>2 DEF Alone, MainType
<1> QED BY <1>1, <1>2, <1>3 DEF Start

\* What is annealed depends on the rung, its champion, heat and library.
LEMMA SameMoves ==
    ASSUME NEW l, NEW m, NEW n, m.frontier = n.frontier, m.champ = n.champ, m.reheat = n.reheat, m.lib = n.lib, NEW t
    PROVE  Sampled(l, m, t) = Sampled(l, n, t) /\ Moved(l, m, t) = Moved(l, n, t)
<1>1. \A p : Sel(l, m, p) = Sel(l, n, p)
  BY DEF Sel
<1>2. \A p : Scored(l, m, p) = Scored(l, n, p)
  BY <1>1 DEF Scored
<1>3. \A p, b : Better(l, m, p, b) <=> Better(l, n, p, b)
  BY <1>1 DEF Better
<1>4. \A p, i : Weighted(l, m, p, i) = Weighted(l, n, p, i)
  BY DEF Weighted, Ramp
<1>5. \A i : Heat(m, i) = Heat(n, i)
  BY DEF Heat
<1>6. Sampled(l, m, t) = Sampled(l, n, t)
  BY <1>2, <1>3 DEF Sampled
<1>7. Moved(l, m, t) = Moved(l, n, t)
  <2> DEFINE cand == Mutated(t.cur, m.lib, t.rng)
             at == t.i - (t.i % l.step)
             cost == Weighted(l, m, cand, at)
             loss == cost - Weighted(l, m, t.cur, at)
             drawn == Draw(t.rng)
             Outcome(lucky, better, scored) ==
               LET accepted == loss <= 0 \/ lucky
                   kept == accepted /\ cost < l.w * l.handoff /\ better
               IN  [t EXCEPT !.pc = "top", !.i = @ + 1,
                             !.rng = IF loss <= 0 THEN drawn ELSE Draw(drawn),
                             !.cur = IF accepted THEN cand ELSE @,
                             !.best = IF kept THEN scored ELSE @]
  <2>1. Moved(l, m, t) = Outcome(Lucky(drawn, loss, Heat(m, t.i)), Better(l, m, cand, t.best), Scored(l, m, cand))
    BY DEF Moved
  <2>2. cand = Mutated(t.cur, n.lib, t.rng)
    OBVIOUS
  <2>3. cost = Weighted(l, n, cand, at) /\ Weighted(l, m, t.cur, at) = Weighted(l, n, t.cur, at)
    BY <1>4
  <2>4. Moved(l, n, t) = Outcome(Lucky(drawn, loss, Heat(n, t.i)), Better(l, n, cand, t.best), Scored(l, n, cand))
    <3> HIDE DEF cost, cand
    <3> QED BY <2>2, <2>3 DEF Moved
  <2>5. Heat(m, t.i) = Heat(n, t.i) /\ Scored(l, m, cand) = Scored(l, n, cand)
    BY <1>2, <1>5
  <2>6. Better(l, m, cand, t.best) = Better(l, n, cand, t.best)
    <3>1. Sel(l, m, cand) = Sel(l, n, cand)
      BY <1>1
    <3> QED BY <3>1 DEF Better
  <2> HIDE DEF Outcome, cand, loss, drawn
  <2> QED BY <2>1, <2>4, <2>5, <2>6
<1> QED BY <1>6, <1>7

\* A restart at the top of an iteration.
AtTop(l, t) == t \in RestartType(l) /\ t.pc = "top" /\ t.stash = NoSnap /\ t.done = FALSE /\ t.stopping = FALSE

LEMMA PathType ==
    ASSUME NEW x \in DOMAIN Ladders, NEW l, l = Ladders[x], NEW m, Start(l, m), NEW i \in 0 .. l.iters
    PROVE  LET ts == LockStep(l, m)[i] IN
           /\ ts = [r \in RestartsOf(l) |-> ts[r]]
           /\ \A r \in RestartsOf(l) : AtTop(l, ts[r]) /\ ts[r].i = ts[0].i /\ ts[r].i <= i
<1> DEFINE P == LockStep(l, m)
           Good(ts, j) == /\ ts = [r \in RestartsOf(l) |-> ts[r]]
                          /\ \A r \in RestartsOf(l) : AtTop(l, ts[r]) /\ ts[r].i = ts[0].i /\ ts[r].i <= j
           T == {j \in 0 .. l.iters : Good(P[j], j)}
<1>1. Sane(l) /\ l.iters \in Nat /\ m \in MainType(l) /\ m.frontier \in Nat /\ m.lib \in Libraries
  BY LaddersSane DEF Start, MainType, Sane
<1>2. P = [j \in 0 .. l.iters |-> IF j = 0 THEN [r \in RestartsOf(l) |-> Begun(l, m, r)]
                                  ELSE InStep(l, m, P[j - 1], j - 1)]
  BY <1>1, LockStepPath
<1> HIDE DEF P
<1>3. 0 \in T
  <2>1. P[0] = [r \in RestartsOf(l) |-> Begun(l, m, r)]
    BY <1>1, <1>2
  <2>2. \A r \in RestartsOf(l) : AtTop(l, Begun(l, m, r)) /\ Begun(l, m, r).i = 0
    BY BegunType DEF Start, AtTop
  <2>3. Good(P[0], 0)
    BY <1>1, <2>1, <2>2 DEF Sane
  <2> QED BY <1>1, <2>3
<1>4. ASSUME NEW j \in T, j < l.iters PROVE j + 1 \in T
  <2>1. Good(P[j], j) /\ j \in Nat /\ j + 1 \in 0 .. l.iters
    BY <1>1, <1>4
  <2>2. P[j + 1] = InStep(l, m, P[j], j)
    BY <1>2, <2>1
  <2> DEFINE ts == P[j]
             sampled == [r \in RestartsOf(l) |-> IF IsCheckpoint(l, j) THEN Sampled(l, m, ts[r]) ELSE ts[r]]
  <2>3. ASSUME NEW r \in RestartsOf(l) PROVE AtTop(l, sampled[r]) /\ sampled[r].i = ts[r].i
    <3>1. ts[r] \in RestartType(l) /\ AtTop(l, ts[r])
      BY <2>1 DEF AtTop
    <3>2. PICK b \in GoodBest(l) : Sampled(l, m, ts[r]) = [ts[r] EXCEPT !.best = b] /\ Sampled(l, m, ts[r]) \in RestartType(l)
      BY <1>1, <3>1, SampledType
    <3>3. AtTop(l, Sampled(l, m, ts[r])) /\ Sampled(l, m, ts[r]).i = ts[r].i
      BY <3>1, <3>2 DEF AtTop, RestartType
    <3> QED BY <3>1, <3>3
  <2>4. P[j + 1] = ts \/ P[j + 1] = sampled \/ P[j + 1] = [r \in RestartsOf(l) |-> Moved(l, m, sampled[r])]
    BY <2>2 DEF InStep
  <2>5. CASE P[j + 1] = ts
    BY <2>1, <2>5 DEF AtTop, RestartType
  <2> HIDE DEF ts
  <2>6. CASE P[j + 1] = sampled
    <3>1. \A r \in RestartsOf(l) : ts[r].i = ts[0].i /\ ts[r].i <= j /\ ts[r].i \in Nat
      BY <2>1 DEF ts, AtTop, RestartType
    <3>2. \A r \in RestartsOf(l) : sampled[r].i = ts[0].i /\ sampled[r].i <= j + 1
      BY <2>1, <2>3, <3>1
    <3> QED BY <1>1, <2>1, <2>3, <2>6, <3>2 DEF Sane
  <2>7. CASE P[j + 1] = [r \in RestartsOf(l) |-> Moved(l, m, sampled[r])]
    <3>1. \A r \in RestartsOf(l) : ts[r].i = ts[0].i /\ ts[r].i <= j /\ ts[r].i \in Nat /\ ts[r].i < l.iters
      BY <1>1, <1>4, <2>1 DEF ts, AtTop, RestartType
    <3>2. ASSUME NEW r \in RestartsOf(l)
          PROVE  AtTop(l, Moved(l, m, sampled[r])) /\ Moved(l, m, sampled[r]).i = ts[0].i + 1
      <4>1. sampled[r] \in RestartType(l) /\ sampled[r].i < l.iters /\ sampled[r].i = ts[0].i
        BY <2>3, <3>1 DEF AtTop
      <4> HIDE DEF sampled
      <4>2. AtTop(l, sampled[r])
        BY <2>3
      <4> DEFINE u == Moved(l, m, sampled[r])
      <4>3. /\ u \in RestartType(l) /\ u.pc = "top" /\ u.i = sampled[r].i + 1 /\ u.stash = sampled[r].stash
            /\ u.done = sampled[r].done /\ u.stopping = sampled[r].stopping
        BY <1>1, <4>1, MovedType
      <4> HIDE DEF u
      <4>4. AtTop(l, u) /\ u.i = ts[0].i + 1
        BY <4>1, <4>2, <4>3 DEF AtTop
      <4> QED BY <4>4 DEF u
    <3>3. ts[0].i + 1 <= j + 1
      BY <1>1, <2>1, <3>1 DEF Sane
    <3> QED BY <1>1, <2>1, <2>7, <3>2, <3>3 DEF Sane
  <2> QED BY <2>4, <2>5, <2>6, <2>7
<1>5. T = 0 .. l.iters
  <2>1. T \in SUBSET (0 .. l.iters)
    OBVIOUS
  <2> HIDE DEF T
  <2> QED BY <1>1, <1>3, <1>4, <2>1, IntervalSet
<1>6. i \in T
  BY <1>5
<1> QED BY <1>6 DEF P

\* A restart at the top of iteration i, once it has looked at its program.
Seen(l, m, t, i) == IF IsCheckpoint(l, i) THEN Sampled(l, m, t) ELSE t
Halted(l, m, ts) == [r \in RestartsOf(l) |-> Sampled(l, m, ts[r])]
Advanced(l, m, ts, i) == [r \in RestartsOf(l) |-> Moved(l, m, Seen(l, m, ts[r], i))]

\* An iteration that nobody ends moves everybody; one that is over stops everybody.
LEMMA PathStep ==
    ASSUME NEW x \in DOMAIN Ladders, NEW l, l = Ladders[x], NEW m, Start(l, m),
           NEW i \in 0 .. l.iters, i < l.iters, Running(l, m, i)
    PROVE  /\ OverAt(l, m, i) => LockStep(l, m)[i + 1] = Halted(l, m, LockStep(l, m)[i])
           /\ ~OverAt(l, m, i) => LockStep(l, m)[i + 1] = Advanced(l, m, LockStep(l, m)[i], i) /\ Running(l, m, i + 1)
<1> DEFINE P == LockStep(l, m)
           ts == P[i]
           sampled == [r \in RestartsOf(l) |-> IF IsCheckpoint(l, i) THEN Sampled(l, m, ts[r]) ELSE ts[r]]
<1>1. Sane(l) /\ l.iters \in Nat /\ 0 \in RestartsOf(l) /\ m.frontier \in Nat /\ m.lib \in Libraries
  BY LaddersSane DEF Start, MainType, Sane
<1>2. P[i + 1] = InStep(l, m, ts, i)
  <2>1. i + 1 \in 0 .. l.iters /\ i + 1 # 0 /\ (i + 1) - 1 = i
    BY <1>1
  <2>2. P = [j \in 0 .. l.iters |-> IF j = 0 THEN [r \in RestartsOf(l) |-> Begun(l, m, r)]
                                  ELSE InStep(l, m, P[j - 1], j - 1)]
    BY <1>1, LockStepPath
  <2> HIDE DEF P
  <2> QED BY <2>1, <2>2
<1>3. \A r \in RestartsOf(l) : ts[r] \in RestartType(l) /\ ts[r].i = i
  BY PathType DEF AtTop, Running
<1>4. ~(ts[0].i < i)
  BY <1>1, <1>3
<1>5. OverAt(l, m, i) <=> /\ ~Compresses(l) /\ IsCheckpoint(l, i)
                          /\ \E r \in RestartsOf(l) : Solves(l, sampled[r].best.prog, m.frontier)
  BY DEF OverAt, SolvesAt
<1>6. P[i + 1] = IF OverAt(l, m, i) THEN sampled ELSE [r \in RestartsOf(l) |-> Moved(l, m, sampled[r])]
  <2> HIDE DEF ts
  <2> QED BY <1>2, <1>4, <1>5 DEF InStep
<1>7. CASE OverAt(l, m, i)
  BY <1>6, <1>7 DEF OverAt, Halted
<1>8. CASE ~OverAt(l, m, i)
  <2>1. P[i + 1] = [r \in RestartsOf(l) |-> Moved(l, m, Seen(l, m, ts[r], i))]
    BY <1>6, <1>8 DEF Seen
  <2>2. ASSUME NEW r \in RestartsOf(l) PROVE P[i + 1][r].i = i + 1
    <3>1. Seen(l, m, ts[r], i) \in RestartType(l) /\ Seen(l, m, ts[r], i).i = i
      <4>1. ts[r] \in RestartType(l) /\ ts[r].i = i
        BY <1>3
      <4> HIDE DEF ts
      <4>2. PICK b \in GoodBest(l) : Sampled(l, m, ts[r]) = [ts[r] EXCEPT !.best = b] /\ Sampled(l, m, ts[r]) \in RestartType(l)
        BY <1>1, <4>1, SampledType
      <4>3. Sampled(l, m, ts[r]).i = i
        BY <4>1, <4>2 DEF RestartType
      <4> QED BY <4>1, <4>2, <4>3 DEF Seen
    <3>2. Moved(l, m, Seen(l, m, ts[r], i)).i = i + 1
      <4> DEFINE s == Seen(l, m, ts[r], i)
      <4>1. s \in RestartType(l) /\ s.i = i
        BY <3>1
      <4> HIDE DEF s
      <4>2. Moved(l, m, s).i = i + 1
        BY <1>1, <4>1, MovedType
      <4> QED BY <4>2 DEF s
    <3> QED BY <2>1, <3>2
  <2>3. Running(l, m, i + 1)
    BY <2>2 DEF Running
  <2> QED BY <1>8, <2>1, <2>3 DEF Advanced
<1> QED BY <1>7, <1>8

\* What is over stays as it is.
LEMMA PathOver ==
    ASSUME NEW x \in DOMAIN Ladders, NEW l, l = Ladders[x], NEW m, Start(l, m),
           NEW i \in 0 .. l.iters, i < l.iters, Running(l, m, i), OverAt(l, m, i),
           NEW j \in 0 .. l.iters, i < j
    PROVE  /\ LockStep(l, m)[j] = Halted(l, m, LockStep(l, m)[i])
           /\ ~Running(l, m, j)
<1> DEFINE P == LockStep(l, m)
           over == Halted(l, m, P[i])
           d == l.iters - (i + 1)
           T == {k \in 0 .. d : P[i + 1 + k] = over}
<1>1. Sane(l) /\ l.iters \in Nat /\ 0 \in RestartsOf(l) /\ m.frontier \in Nat /\ i \in Nat /\ d \in Nat
  BY SMTT(20), LaddersSane DEF Start, MainType, Sane
<1>2. over[0].i = i
  <2>1. P[i][0] \in RestartType(l) /\ P[i][0].i = i
    BY <1>1, PathType DEF AtTop, Running
  <2>2. over[0] = Sampled(l, m, P[i][0])
    BY <1>1 DEF Halted
  <2> HIDE DEF P, over
  <2>3. PICK b \in GoodBest(l) : Sampled(l, m, P[i][0]) = [P[i][0] EXCEPT !.best = b]
    BY <1>1, <2>1, SampledType
  <2> QED BY <2>1, <2>2, <2>3 DEF RestartType
<1>3. 0 \in T
  <2>1. P[i + 1] = over
    BY PathStep
  <2> HIDE DEF P, over
  <2> QED BY <1>1, <2>1
<1>4. ASSUME NEW k \in T, k < d PROVE k + 1 \in T
  <2>1. k \in Nat /\ P[i + 1 + k] = over /\ k + 1 \in 0 .. d
    BY <1>1, <1>4
  <2>2. i + 1 + (k + 1) \in 0 .. l.iters /\ i + 1 + (k + 1) # 0 /\ (i + 1 + (k + 1)) - 1 = i + 1 + k
    BY <1>1, <1>4, <2>1
  <2>3. P = [n \in 0 .. l.iters |-> IF n = 0 THEN [r \in RestartsOf(l) |-> Begun(l, m, r)]
                                  ELSE InStep(l, m, P[n - 1], n - 1)]
    BY <1>1, LockStepPath
  <2> HIDE DEF P, over
  <2>4. P[i + 1 + (k + 1)] = InStep(l, m, over, i + 1 + k)
    BY <2>1, <2>2, <2>3
  <2>5. over[0].i < i + 1 + k
    BY <1>1, <1>2, <2>1
  <2>6. P[i + 1 + (k + 1)] = over
    BY <2>4, <2>5 DEF InStep
  <2> HIDE DEF d
  <2> QED BY <2>1, <2>6
<1>5. T = 0 .. d
  <2>1. T \in SUBSET (0 .. d)
    OBVIOUS
  <2> HIDE DEF T, d
  <2> QED BY <1>1, <1>3, <1>4, <2>1, IntervalSet
<1>6. P[j] = over
  <2>1. j - (i + 1) \in 0 .. d /\ i + 1 + (j - (i + 1)) = j
    BY <1>1
  <2> HIDE DEF P, over, d
  <2> QED BY <1>5, <2>1
<1>7. ~Running(l, m, j)
  <2>1. P[j][0].i # j
    BY <1>1, <1>2, <1>6
  <2> QED BY <1>1, <2>1 DEF Running
<1> QED BY <1>6, <1>7

-----------------------------------------------------------------------------
(* What is sampled and moved.                                              *)

LEMMA SampledBest ==
    ASSUME NEW l, NEW m, NEW t \in RestartType(l), NEW u \in RestartType(l), t.cur = u.cur, t.best = u.best
    PROVE  Sampled(l, m, t).best = Sampled(l, m, u).best
<1> DEFINE better == ~Compresses(l) /\ Better(l, m, t.cur, t.best)
           b == Scored(l, m, t.cur)
<1>1. Sampled(l, m, t) = IF better THEN [t EXCEPT !.best = b] ELSE t
  BY DEF Sampled
<1>2. Sampled(l, m, u) = IF better THEN [u EXCEPT !.best = b] ELSE u
  BY DEF Sampled
<1> HIDE DEF better, b
<1> QED BY <1>1, <1>2 DEF RestartType

\* Sampling leaves all but the best program alone.
LEMMA SampledRest ==
    ASSUME NEW x \in DOMAIN Ladders, NEW l, l = Ladders[x], NEW m, m.frontier \in Nat, NEW t \in RestartType(l)
    PROVE  LET s == Sampled(l, m, t) IN
           /\ s \in RestartType(l) /\ s.pc = t.pc /\ s.i = t.i /\ s.rng = t.rng /\ s.cur = t.cur
           /\ s.stash = t.stash /\ s.done = t.done /\ s.stopping = t.stopping
<1> DEFINE s == Sampled(l, m, t)
<1>1. PICK b \in GoodBest(l) : s = [t EXCEPT !.best = b] /\ s \in RestartType(l)
  BY SampledType
<1> HIDE DEF s
<1>2. /\ s.pc = t.pc /\ s.i = t.i /\ s.rng = t.rng /\ s.cur = t.cur
      /\ s.stash = t.stash /\ s.done = t.done /\ s.stopping = t.stopping
  BY <1>1 DEF RestartType
<1> QED BY <1>1, <1>2 DEF s

\* A move does not depend on how the restart got there.
LEMMA MovedSame ==
    ASSUME NEW l, NEW m, NEW u \in RestartType(l), NEW pc, NEW t, t = [u EXCEPT !.pc = pc]
    PROVE  Moved(l, m, t) = Moved(l, m, u)
<1> DEFINE cand == Mutated(u.cur, m.lib, u.rng)
           at == u.i - (u.i % l.step)
           cost == Weighted(l, m, cand, at)
           loss == cost - Weighted(l, m, u.cur, at)
           drawn == Draw(u.rng)
           accepted == loss <= 0 \/ Lucky(drawn, loss, Heat(m, u.i))
           kept == accepted /\ cost < l.w * l.handoff /\ Better(l, m, cand, u.best)
           scored == Scored(l, m, cand)
           rng == IF loss <= 0 THEN drawn ELSE Draw(drawn)
           cur == IF accepted THEN cand ELSE u.cur
           best == IF kept THEN scored ELSE u.best
<1>1. t.cur = u.cur /\ t.rng = u.rng /\ t.i = u.i /\ t.best = u.best
  BY DEF RestartType
<1>2. Moved(l, m, u) = [u EXCEPT !.pc = "top", !.i = u.i + 1, !.rng = rng, !.cur = cur, !.best = best]
  BY DEF Moved, RestartType
<1>3. Moved(l, m, t) = [t EXCEPT !.pc = "top", !.i = u.i + 1, !.rng = rng, !.cur = cur, !.best = best]
  <2>1. [t EXCEPT !.pc = "top", !.i = @ + 1, !.rng = rng, !.cur = IF accepted THEN cand ELSE @,
                  !.best = IF kept THEN scored ELSE @]
          = [t EXCEPT !.pc = "top", !.i = u.i + 1, !.rng = rng, !.cur = cur, !.best = best]
    <3> HIDE DEF cand, at, cost, loss, drawn, accepted, kept, scored, rng
    <3> QED BY <1>1 DEF RestartType
  <2>2. Moved(l, m, t) = [t EXCEPT !.pc = "top", !.i = @ + 1, !.rng = rng, !.cur = IF accepted THEN cand ELSE @,
                  !.best = IF kept THEN scored ELSE @]
    BY <1>1 DEF Moved
  <2> HIDE DEF cand, at, cost, loss, drawn, accepted, kept, scored, rng, cur, best
  <2> QED BY <2>1, <2>2
<1> HIDE DEF cand, at, cost, loss, drawn, accepted, kept, scored, rng, cur, best
<1>4. [t EXCEPT !.pc = "top", !.i = u.i + 1, !.rng = rng, !.cur = cur, !.best = best]
        = [u EXCEPT !.pc = "top", !.i = u.i + 1, !.rng = rng, !.cur = cur, !.best = best]
  BY DEF RestartType
<1> QED BY <1>2, <1>3, <1>4

-----------------------------------------------------------------------------
(***************************************************************************)
(* Where the restarts are, in a process that is not asked to stop or where *)
(* a checkpoint that another follows is one of a snapshot.                 *)
(***************************************************************************)
Calm(l, la) == Paced(l) \/ ~la

\* No snapshot mixes two checkpoints.
LEMMA Together ==
    ASSUME NEW l, Sane(l), NEW ts, NEW so, NEW la, NEW sl, Threads(l, ts, so, la, sl), Calm(l, la)
    PROVE  \E k \in Grid(l) : InLook(l, ts, so, la, k) \/ InGather(l, ts, sl, k) \/ InEmit(l, ts, k)
<1>1. PICK k \in Grid(l) : AlignedAt(l, ts, so, la, sl, k)
  BY DEF Threads, Aligned
<1>2. k \in Int /\ l.step \in Nat /\ l.iters \in Nat /\ l.step > 0
  BY GridNext
<1>3. l.restarts = 1 => \A r \in RestartsOf(l) : r = 0
  BY DEF RestartsOf
<1>4. ASSUME l.restarts # 1, la, IsCheckpoint(l, k), k >= 0, k + l.step < l.iters PROVE IsBeat(l, k)
  BY <1>2, <1>4 DEF Calm, Paced
<1>5. ASSUME NEW r \in RestartsOf(l), ts[r].i = k, ts[r].pc \notin {"top", "ended"} \/ (k < l.iters /\ ts[r].pc = "ended")
      PROVE  IsCheckpoint(l, k) /\ k >= 0
  BY <1>2, <1>5 DEF Threads, Stage, RestartType
<1>6. ASSUME InSplit(l, ts, la, sl, k) PROVE FALSE
  <2>1. PICK a \in RestartsOf(l) : Late(l, ts[a], sl[a], k)
    BY <1>6 DEF InSplit
  <2>2. ts[a].i = k /\ ts[a].pc \in {"gather", "wait_emit"} /\ a # 0
    BY <1>6, <2>1 DEF InSplit, Late, Gathers, Looks, Deposits
  <2>3. IsCheckpoint(l, k) /\ k >= 0
    BY <1>5, <2>1, <2>2
  <2> QED BY <1>3, <1>4, <2>1, <1>6, <2>2, <2>3 DEF InSplit
<1>7. ASSUME InTorn(l, ts, la, sl, k) PROVE FALSE
  <2>1. PICK a \in RestartsOf(l) : Gone(l, ts[a], k)
    BY <1>7 DEF InTorn
  <2>2. /\ ts[a].i = k /\ a # 0
        /\ ts[a].pc \notin {"top", "ended"} \/ (k < l.iters /\ ts[a].pc = "ended")
    <3>1. Gathers(ts[0], k + l.step)
      BY <1>7 DEF InTorn
    <3>2. CASE Decides(ts[a], k)
      BY <3>1, <3>2 DEF Gathers, Decides
    <3>3. CASE Left(l, ts[a], k)
      BY <3>1, <3>3 DEF Gathers, Left
    <3> QED BY <2>1, <3>2, <3>3 DEF Gone
  <2>3. IsCheckpoint(l, k) /\ k >= 0
    BY <1>5, <2>1, <2>2
  <2> QED BY <1>3, <1>4, <2>1, <1>7, <2>2, <2>3 DEF InTorn
<1> QED BY <1>1, <1>6, <1>7 DEF AlignedAt

\* Who looks at a checkpoint has the others there, or ahead.
LEMMA LooksTogether ==
    ASSUME NEW l, Sane(l), NEW ts, NEW so, NEW la, NEW sl, Threads(l, ts, so, la, sl), Calm(l, la),
           NEW r \in RestartsOf(l), ts[r].pc = "look", NEW s \in RestartsOf(l)
    PROVE  (ts[s].i = ts[r].i /\ ts[s].pc # "top") \/ ts[s].i > ts[r].i
<1>1. PICK k \in Grid(l) : InLook(l, ts, so, la, k) \/ InGather(l, ts, sl, k) \/ InEmit(l, ts, k)
  BY Together
<1>2. k \in Int /\ l.step \in Nat /\ l.iters \in Nat /\ l.step > 0
  BY GridNext
<1>3. InLook(l, ts, so, la, k) /\ ts[r].i = k /\ k < l.iters
  BY <1>1 DEF InLook, InGather, InEmit, Looks, Deposits, Gathers, Decides, Left, Goes, IsCheckpoint
<1>4. \/ Looks(ts[s], k) \/ Deposits(l, ts[s], k) \/ Decides(ts[s], k) \/ Left(l, ts[s], k) \/ Goes(l, ts[s], k)
  BY <1>3 DEF InLook
<1> QED BY <1>2, <1>3, <1>4 DEF Looks, Deposits, Decides, Left, Goes

\* The barrier of a snapshot has all at one checkpoint.
LEMMA DepositedTogether ==
    ASSUME NEW l, Sane(l), NEW ts, NEW so, NEW la, NEW sl, Threads(l, ts, so, la, sl), Calm(l, la),
           \A s \in RestartsOf(l) : ts[s].pc \in Waits, ts[0].pc = "wait_deposit", NEW r \in RestartsOf(l)
    PROVE  ts[r].pc = "wait_deposit" /\ ts[r].i = ts[0].i
<1>1. PICK k \in Grid(l) : InLook(l, ts, so, la, k) \/ InGather(l, ts, sl, k) \/ InEmit(l, ts, k)
  BY Together
<1>2. k \in Int /\ l.step \in Nat /\ l.iters \in Nat /\ l.step > 0 /\ 0 \in RestartsOf(l)
  BY GridNext DEF Sane
<1>3. InLook(l, ts, so, la, k) /\ Deposits(l, ts[0], k)
  BY <1>1, <1>2 DEF InLook, InGather, InEmit, Looks, Deposits, Gathers, Decides, Left, Goes
<1>4. IsBeat(l, k) \/ la
  BY <1>2, <1>3 DEF Deposits, Threads, Stage
<1>5. Looks(ts[r], k) \/ Deposits(l, ts[r], k)
  BY <1>3, <1>4 DEF InLook
<1> QED BY <1>3, <1>5 DEF Looks, Deposits, Waits

\* While restart 0 writes the snapshot, all are at it.
LEMMA GathersTogether ==
    ASSUME NEW l, Sane(l), NEW ts, NEW so, NEW la, NEW sl, Threads(l, ts, so, la, sl), Calm(l, la),
           ts[0].pc = "gather", NEW r \in RestartsOf(l)
    PROVE  Gathers(ts[r], ts[0].i)
<1>1. PICK k \in Grid(l) : InLook(l, ts, so, la, k) \/ InGather(l, ts, sl, k) \/ InEmit(l, ts, k)
  BY Together
<1>2. 0 \in RestartsOf(l)
  BY DEF Sane
<1> QED BY <1>1, <1>2 DEF InLook, InGather, InEmit, Looks, Deposits, Gathers, Decides, Left, Goes

-----------------------------------------------------------------------------
(***************************************************************************)
(* Every step of a restart keeps it where the lock-step is.                *)
(***************************************************************************)
\* The restart of the lock-step that a restart follows.
TopAt(l, t, i) == AtTop(l, t) /\ t.i = i
LEMMA Follows ==
    ASSUME NEW x \in DOMAIN Ladders, NEW l, l = Ladders[x], NEW m, Start(l, m),
           NEW i \in 0 .. l.iters, Running(l, m, i), NEW r \in RestartsOf(l), NEW p, p = LockStep(l, m)[i][r]
    PROVE  /\ TopAt(l, p, i) /\ TopAt(l, Sampled(l, m, p), i)
           /\ Sampled(l, m, p).rng = p.rng /\ Sampled(l, m, p).cur = p.cur
<1> DEFINE s == Sampled(l, m, p)
<1>1. TopAt(l, p, i)
  BY PathType DEF Running, TopAt
<1>2. m.frontier \in Nat
  BY DEF Start, MainType
<1>3. /\ s \in RestartType(l) /\ s.pc = p.pc /\ s.i = p.i /\ s.rng = p.rng /\ s.cur = p.cur
      /\ s.stash = p.stash /\ s.done = p.done /\ s.stopping = p.stopping
  BY <1>1, <1>2, SampledRest DEF TopAt, AtTop
<1> HIDE DEF s
<1>4. TopAt(l, s, i)
  BY <1>1, <1>3 DEF TopAt, AtTop
<1> QED BY <1>1, <1>3, <1>4 DEF s

\* Two restarts that agree on every other field differ in where they are.
LEMMA SameRestart ==
    ASSUME NEW l, NEW t \in RestartType(l), NEW u \in RestartType(l),
           t.i = u.i, t.rng = u.rng, t.cur = u.cur, t.best = u.best,
           t.stash = u.stash, t.done = u.done, t.stopping = u.stopping
    PROVE  t = [u EXCEPT !.pc = t.pc]
  BY DEF RestartType

LEMMA BlockTraced ==
    ASSUME NEW x \in DOMAIN Ladders, NEW l, l = Ladders[x], NEW m, Start(l, m), NEW r \in RestartsOf(l),
           NEW t \in RestartType(l), NEW so, Traced(l, m, t, r, so), t.pc = "top", IsCheckpoint(l, t.i),
           NEW u, u = [Sampled(l, m, t) EXCEPT !.stash = t.best, !.pc = IF r = 0 THEN "latch" ELSE "wait_block"],
           NEW so2
    PROVE  /\ Heard(l, m, u, r, so2) => Traced(l, m, u, r, so2)
           /\ SolvesAt(l, m, u.i, r) <=> ~Compresses(l) /\ Solves(l, u.best.prog, m.frontier)
<1>1. t.i \in 0 .. l.iters /\ Running(l, m, t.i) /\ t = LockStep(l, m)[t.i][r]
  BY DEF Announces, Heard, Traced, RestartType
<1> DEFINE s == Sampled(l, m, t)
<1>2. s \in RestartType(l) /\ s.i = t.i /\ s.rng = t.rng /\ s.cur = t.cur
  <2>1. m.frontier \in Nat
    BY DEF Start, MainType
  <2> QED BY <2>1, SampledRest
<1>3. s = Sampled(l, m, LockStep(l, m)[t.i][r])
  BY <1>1
<1>4. /\ u.i = t.i /\ u.rng = t.rng /\ u.cur = t.cur /\ u.best = s.best /\ u.stash = t.best
      /\ u.pc \in {"latch", "wait_block"}
  <2>1. u = [s EXCEPT !.stash = t.best, !.pc = IF r = 0 THEN "latch" ELSE "wait_block"]
    OBVIOUS
  <2> HIDE DEF s
  <2> QED BY <1>2, <2>1 DEF RestartType
<1> HIDE DEF s
<1>5. SolvesAt(l, m, u.i, r) <=> ~Compresses(l) /\ Solves(l, u.best.prog, m.frontier)
  BY <1>3, <1>4 DEF SolvesAt
<1>6. Heard(l, m, u, r, so2) => Traced(l, m, u, r, so2)
  BY <1>1, <1>3, <1>4 DEF Heard, Traced, Looked, AtCheckpoint
<1> QED BY <1>5, <1>6

\* Nothing but where it is, and what it has read of the flags, changes.
LEMMA WaitTraced ==
    ASSUME NEW l, NEW m, NEW r, NEW t \in RestartType(l), NEW so, Traced(l, m, t, r, so),
           t.pc \in AtCheckpoint, NEW u, u.pc \in AtCheckpoint,
           u.i = t.i, u.rng = t.rng, u.cur = t.cur, u.best = t.best, u.stash = t.stash,
           u.pc \in Looked /\ ~u.done => ~OverAt(l, m, t.i)
    PROVE  Traced(l, m, u, r, so)
<1>1. u.pc \notin {"top", "move", "end", "ended"} /\ t.pc # "top"
  BY DEF AtCheckpoint, Looked
<1> QED BY <1>1 DEF Announces, Heard, Traced

LEMMA DecideTraced ==
    ASSUME NEW x \in DOMAIN Ladders, NEW l, l = Ladders[x], NEW m, Start(l, m), NEW r \in RestartsOf(l),
           NEW t \in RestartType(l), NEW so, Traced(l, m, t, r, so), t.pc = "decide",
           NEW u \in RestartType(l), u.pc = IF t.done \/ t.stopping THEN "end" ELSE "move",
           u.i = t.i, u.rng = t.rng, u.cur = t.cur, u.best = t.best,
           u.stash = NoSnap, u.done = FALSE, u.stopping = FALSE
    PROVE  Traced(l, m, u, r, so)
<1>1. t.i \in 0 .. l.iters /\ Running(l, m, t.i)
  BY DEF Announces, Heard, Traced, RestartType
<1> DEFINE p == LockStep(l, m)[t.i][r]
           s == Sampled(l, m, p)
<1>2. TopAt(l, s, t.i) /\ s.rng = p.rng /\ s.cur = p.cur
  BY <1>1, Follows
<1>3. t.rng = p.rng /\ t.cur = p.cur /\ t.best = s.best
  BY DEF Announces, Heard, Traced, Looked, AtCheckpoint
<1>4. u.pc \in {"move", "end"} /\ (u.pc = "move" => ~t.done)
  OBVIOUS
<1>5. u = [s EXCEPT !.pc = u.pc]
  <2> HIDE DEF s, p
  <2>1. /\ s \in RestartType(l) /\ u.i = s.i /\ u.rng = s.rng /\ u.cur = s.cur /\ u.best = s.best
        /\ u.stash = s.stash /\ u.done = s.done /\ u.stopping = s.stopping
    BY <1>2, <1>3 DEF TopAt, AtTop
  <2> QED BY <2>1, SameRestart
<1>6. u.pc = "move" => ~OverAt(l, m, t.i)
  BY <1>4 DEF Announces, Heard, Traced, Looked
<1>7. t.i < l.iters /\ SolvesAt(l, m, t.i, r) => so
  BY DEF Announces, Heard, Traced
<1> QED BY <1>1, <1>4, <1>5, <1>6, <1>7 DEF Announces, Heard, Traced, Looked, AtCheckpoint

LEMMA MoveTraced ==
    ASSUME NEW x \in DOMAIN Ladders, NEW l, l = Ladders[x], NEW m, Start(l, m), NEW r \in RestartsOf(l),
           NEW t \in RestartType(l), NEW so, Traced(l, m, t, r, so), t.i < l.iters,
           (t.pc = "move" /\ IsCheckpoint(l, t.i)) \/ (t.pc = "top" /\ ~IsCheckpoint(l, t.i)),
           NEW u, u = Moved(l, m, t)
    PROVE  Traced(l, m, u, r, so)
<1>1. t.i \in 0 .. l.iters /\ Running(l, m, t.i) /\ ~OverAt(l, m, t.i)
  BY DEF Announces, Heard, Traced, RestartType, OverAt
<1> DEFINE p == LockStep(l, m)[t.i][r]
           s == Sampled(l, m, p)
<1>2. p \in RestartType(l) /\ s \in RestartType(l)
  BY <1>1, Follows DEF TopAt, AtTop
<1>3. u = Moved(l, m, Seen(l, m, p, t.i))
  <2>1. CASE t.pc = "top" /\ ~IsCheckpoint(l, t.i)
    BY <2>1 DEF Announces, Heard, Traced, Seen
  <2>2. CASE t.pc = "move" /\ IsCheckpoint(l, t.i)
    <3>1. t = [s EXCEPT !.pc = t.pc]
      BY <2>2 DEF Announces, Heard, Traced
    <3>2. Seen(l, m, p, t.i) = s
      BY <2>2 DEF Seen
    <3> HIDE DEF s, p
    <3> QED BY <1>2, <3>1, <3>2, MovedSame
  <2> QED BY <2>1, <2>2
<1>4. LockStep(l, m)[t.i + 1] = Advanced(l, m, LockStep(l, m)[t.i], t.i) /\ Running(l, m, t.i + 1)
  BY <1>1, PathStep
<1>5. u = LockStep(l, m)[t.i + 1][r]
  BY <1>3, <1>4 DEF Advanced
<1>6. u.pc = "top" /\ u.i = t.i + 1
  BY MovedType DEF Start, MainType
<1> QED BY <1>4, <1>5, <1>6 DEF Announces, Heard, Traced, Looked, AtCheckpoint

LEMMA EndTraced ==
    ASSUME NEW x \in DOMAIN Ladders, NEW l, l = Ladders[x], NEW m, Start(l, m), NEW r \in RestartsOf(l),
           NEW t \in RestartType(l), NEW so, Traced(l, m, t, r, so),
           (t.pc = "end" /\ IsCheckpoint(l, t.i)) \/ (t.pc = "top" /\ t.i = l.iters),
           NEW u, u = [Sampled(l, m, t) EXCEPT !.pc = "ended"]
    PROVE  Traced(l, m, u, r, so)
<1>1. t.i \in 0 .. l.iters /\ Running(l, m, t.i) /\ l.iters \in Nat
  BY LaddersSane DEF Announces, Heard, Traced, RestartType, Sane
<1> DEFINE p == LockStep(l, m)[t.i][r]
           s == Sampled(l, m, p)
<1>2. p \in RestartType(l) /\ s \in RestartType(l)
  BY <1>1, Follows DEF TopAt, AtTop
<1>3. u.pc = "ended" /\ u.i = t.i /\ u.best = Sampled(l, m, t).best
  <2>1. m.frontier \in Nat
    BY DEF Start, MainType
  <2>2. Sampled(l, m, t) \in RestartType(l) /\ Sampled(l, m, t).i = t.i
    BY <2>1, SampledRest
  <2> QED BY <2>2 DEF RestartType
<1>4. CASE t.pc = "end" /\ IsCheckpoint(l, t.i)
  <2>1. t = [s EXCEPT !.pc = t.pc] /\ t.i < l.iters
    BY <1>4 DEF Announces, Heard, Traced, IsCheckpoint
  <2>2. t.cur = s.cur /\ t.best = s.best
    <3> HIDE DEF s
    <3> QED BY <1>2, <2>1 DEF RestartType
  <2>3. Sampled(l, m, t).best = Sampled(l, m, s).best
    <3> HIDE DEF s
    <3> QED BY <1>2, <2>2, SampledBest
  <2>4. SolvesAt(l, m, t.i, r) => so
    BY <1>4, <2>1 DEF Announces, Heard, Traced
  <2> QED BY <1>1, <1>3, <2>1, <2>3, <2>4 DEF Announces, Heard, Traced, Looked, AtCheckpoint
<1>5. CASE t.pc = "top" /\ t.i = l.iters
  <2>1. t = p /\ ~(t.i < l.iters)
    BY <1>1, <1>5 DEF Announces, Heard, Traced
  <2> QED BY <1>1, <1>3, <2>1 DEF Announces, Heard, Traced, Looked, AtCheckpoint
<1> QED BY <1>4, <1>5

\* The others stay where they are.
LEMMA OneTraced ==
    ASSUME NEW l, Sane(l), NEW m, NEW ts \in [RestartsOf(l) -> RestartType(l)], NEW so, NEW sl,
           InLockStep(l, m, ts, so, sl), NEW r \in RestartsOf(l), NEW t \in RestartType(l),
           NEW so2, Rises(so, so2), Traced(l, m, t, r, so2),
           Announces(l, m, ts[r], r) => Announces(l, m, t, r), so2 => so \/ Announces(l, m, t, r),
           NEW sl2, \A s \in RestartsOf(l) \ {r} : ts[s].pc = "wait_deposit" => sl2[s] = sl[s],
           t.pc = "wait_deposit" => sl2[r] = PartOf(LockStep(l, m)[t.i][r]),
           t.pc # "gather", ts[0].pc = "gather" /\ r # 0 => sl2 = sl
    PROVE  InLockStep(l, m, [ts EXCEPT ![r] = t], so2, sl2)
<1> DEFINE R == RestartsOf(l)
           us == [ts EXCEPT ![r] = t]
<1>1. us[r] = t /\ \A s \in R \ {r} : us[s] = ts[s]
  BY OneStep
<1> HIDE DEF us
<1>2. so => so2
  BY DEF Rises
<1>3. ASSUME NEW s \in R PROVE Traced(l, m, us[s], s, so2)
  <2>1. CASE s = r
    BY <1>1, <2>1
  <2>2. CASE s # r
    <3>1. Traced(l, m, ts[s], s, so) /\ us[s] = ts[s]
      BY <1>1, <2>2 DEF InLockStep
    <3> QED BY <1>2, <3>1 DEF Heard, Traced
  <2> QED BY <2>1, <2>2
<1>4. Announced(l, m, us, so2)
  <2> SUFFICES ASSUME so2 PROVE \E s \in R : Announces(l, m, us[s], s)
    BY DEF Announced
  <2>1. CASE Announces(l, m, t, r)
    BY <1>1, <2>1
  <2>2. CASE so /\ ~Announces(l, m, t, r)
    <3>1. PICK s \in R : Announces(l, m, ts[s], s)
      BY <2>2 DEF InLockStep, Announced
    <3>2. s # r /\ us[s] = ts[s]
      BY <1>1, <2>2, <3>1
    <3> QED BY <3>1, <3>2
  <2> QED BY <2>1, <2>2
<1>5. Deposited(l, m, us, sl2)
  <2>1. ASSUME NEW s \in R, us[s].pc = "wait_deposit" PROVE sl2[s] = PartOf(LockStep(l, m)[us[s].i][s])
    <3>1. CASE s = r
      BY <1>1, <2>1, <3>1
    <3>2. CASE s # r
      <4>1. us[s] = ts[s] /\ sl2[s] = sl[s]
        BY <1>1, <2>1, <3>2
      <4> QED BY <2>1, <4>1 DEF InLockStep, Deposited
    <3> QED BY <3>1, <3>2
  <2>2. us[0].pc = "gather" => r # 0 /\ us[0] = ts[0] /\ sl2 = sl
    BY <1>1 DEF Sane
  <2>3. ASSUME us[0].pc = "gather" PROVE \A s \in R : sl2[s] = PartOf(LockStep(l, m)[us[0].i][s])
    BY <2>2, <2>3 DEF InLockStep, Deposited
  <2> QED BY <2>1, <2>3 DEF Deposited
<1>6. InLockStep(l, m, us, so2, sl2)
  BY <1>3, <1>4, <1>5 DEF InLockStep
<1> QED BY <1>6 DEF us

\* All meet at the barrier.
LEMMA ReleaseTraced ==
    ASSUME NEW l, Sane(l), NEW m, NEW ts, NEW so, NEW la, NEW sl, Threads(l, ts, so, la, sl), Calm(l, la),
           InLockStep(l, m, ts, so, sl), \A r \in RestartsOf(l) : ts[r].pc \in Waits,
           NEW us, us = [r \in RestartsOf(l) |-> Released(ts[r])]
    PROVE  InLockStep(l, m, us, so, sl)
<1> DEFINE R == RestartsOf(l)
<1>1. ASSUME NEW r \in R
      PROVE  /\ us[r].pc = CASE ts[r].pc = "wait_block" -> "look" [] ts[r].pc = "wait_deposit" -> "gather"
                             [] ts[r].pc = "wait_emit" -> "decide"
             /\ us[r].i = ts[r].i /\ us[r].done = ts[r].done /\ us[r].rng = ts[r].rng /\ us[r].cur = ts[r].cur
             /\ us[r].best = ts[r].best /\ us[r].stash = ts[r].stash
  <2>1. ts[r] \in RestartType(l) /\ us[r] = Released(ts[r])
    BY DEF Threads
  <2>2. CASE ts[r].pc = "wait_block"
    BY <2>1, <2>2 DEF Released, RestartType
  <2>3. CASE ts[r].pc = "wait_deposit"
    BY <2>1, <2>3 DEF Released, RestartType
  <2>4. CASE ts[r].pc = "wait_emit"
    BY <2>1, <2>4 DEF Released, RestartType
  <2> QED BY <2>2, <2>3, <2>4 DEF Waits
<1>2. ASSUME NEW r \in R PROVE Traced(l, m, us[r], r, so) /\ us[r].pc # "wait_deposit"
  <2>1. Traced(l, m, ts[r], r, so) /\ ts[r].pc \in Waits
    BY DEF InLockStep
  <2>2. us[r].pc \in {"look", "gather", "decide"} /\ (us[r].pc = "look" <=> ts[r].pc = "wait_block")
    BY <1>1, <2>1 DEF Waits
  <2>3. us[r].pc \in AtCheckpoint /\ ts[r].pc \in AtCheckpoint /\ (us[r].pc \in Looked => ts[r].pc \in Looked)
    BY <2>1, <2>2 DEF AtCheckpoint, Looked, Waits
  <2>4. us[r].pc \in Looked /\ ~us[r].done => ~OverAt(l, m, ts[r].i)
    BY <1>1, <2>1, <2>3 DEF Heard, Traced
  <2>5. ts[r] \in RestartType(l)
    BY DEF Threads
  <2> HIDE DEF R
  <2>6. Traced(l, m, us[r], r, so)
    BY <1>1, <2>1, <2>3, <2>4, <2>5, WaitTraced
  <2> QED BY <2>2, <2>6
<1>3. Announced(l, m, us, so)
  <2> SUFFICES ASSUME so PROVE \E r \in R : Announces(l, m, us[r], r)
    BY DEF Announced
  <2>1. PICK r \in R : Announces(l, m, ts[r], r)
    BY DEF InLockStep, Announced
  <2>2. us[r].pc # "top" /\ us[r].i = ts[r].i
    BY <1>1, <2>1 DEF Waits
  <2> QED BY <2>1, <2>2 DEF Announces
<1>4. Deposited(l, m, us, sl)
  <2> SUFFICES ASSUME us[0].pc = "gather", NEW r \in R PROVE sl[r] = PartOf(LockStep(l, m)[us[0].i][r])
    BY <1>2 DEF Deposited
  <2>1. 0 \in R
    BY DEF Sane
  <2>2. ts[0].pc = "wait_deposit" /\ us[0].i = ts[0].i
    BY <1>1, <2>1 DEF Waits
  <2>3. ts[r].pc = "wait_deposit" /\ ts[r].i = ts[0].i
    BY <2>2, DepositedTogether
  <2> QED BY <2>2, <2>3 DEF InLockStep, Deposited
<1> QED BY <1>2, <1>3, <1>4 DEF InLockStep

-----------------------------------------------------------------------------
(* The steps of the restarts, as the search takes them.                    *)

LEMMA ArriveTraced ==
    ASSUME Sane(L), NEW r \in Restarts, NEW t, Arrive(r, t),
           NEW so, NEW la, NEW sl, Threads(L, [th EXCEPT ![r] = t], so, la, sl), Calm(L, la),
           NEW m, InLockStep(L, m, [th EXCEPT ![r] = t], so, sl)
    PROVE  InLockStep(L, m, th', so, sl)
<1> DEFINE arrived == [th EXCEPT ![r] = t]
<1>1. th' = IF \A s \in RestartsOf(L) : arrived[s].pc \in Waits
            THEN [s \in RestartsOf(L) |-> Released(arrived[s])] ELSE arrived
  BY DEF Arrive, Restarts
<1> HIDE DEF arrived
<1>2. Threads(L, arrived, so, la, sl) /\ InLockStep(L, m, arrived, so, sl)
  BY DEF arrived
<1>3. CASE \A s \in RestartsOf(L) : arrived[s].pc \in Waits
  <2>1. th' = [s \in RestartsOf(L) |-> Released(arrived[s])]
    BY <1>1, <1>3
  <2> QED BY <1>2, <1>3, <2>1, ReleaseTraced
<1>4. CASE ~\A s \in RestartsOf(L) : arrived[s].pc \in Waits
  BY <1>1, <1>2, <1>4
<1> QED BY <1>3, <1>4

\* A process that is not asked to stop, or whose barrier admits it.
Quiet == Calm(L, stop)

\* What a step of a restart finds.
LEMMA Stepping ==
    ASSUME Inv, LockInv, Quiet, NEW r \in Restarts, main.at = "join"
    PROVE  /\ main \in MainType(L) /\ Sane(L) /\ Threads(L, th, solved, latch, slots) /\ (latch => stop)
           /\ th \in [Restarts -> RestartType(L)] /\ slots \in Slots(L) /\ Restarts = RestartsOf(L)
           /\ Calm(L, latch) /\ Calm(L, stop) /\ Start(L, Alone(main)) /\ InLockStep(L, Alone(main), th, solved, slots)
           /\ th[r] \in RestartType(L) /\ Traced(L, Alone(main), th[r], r, solved) /\ main.frontier \in Nat
           /\ Alone(main).frontier = main.frontier
           /\ Sampled(L, main, th[r]) = Sampled(L, Alone(main), th[r])
           /\ Moved(L, main, th[r]) = Moved(L, Alone(main), th[r])
           /\ \E x \in DOMAIN Ladders : L = Ladders[x]
           /\ {solved, latch, stop, rows} \subseteq BOOLEAN /\ Rises(solved, solved) /\ (Compresses(L) => ~solved)
<1>1. /\ main \in MainType(L) /\ Sane(L) /\ Threads(L, th, solved, latch, slots) /\ (latch => stop)
      /\ th \in [Restarts -> RestartType(L)] /\ slots \in Slots(L) /\ Restarts = RestartsOf(L)
  BY Joining
<1>2. Calm(L, latch) /\ Calm(L, stop)
  BY <1>1 DEF Quiet, Calm
<1>3. Attempting(L, main) /\ main.frontier \in Nat
  BY <1>1 DEF MainType
<1>4. /\ Start(L, Alone(main)) /\ Alone(main).frontier = main.frontier /\ Alone(main).champ = main.champ
      /\ Alone(main).reheat = main.reheat /\ Alone(main).lib = main.lib
  BY <1>1, <1>3, AloneType
<1>5. InLockStep(L, Alone(main), th, solved, slots) /\ Traced(L, Alone(main), th[r], r, solved)
  BY <1>1 DEF LockInv, InLockStep
<1>6. Sampled(L, main, th[r]) = Sampled(L, Alone(main), th[r]) /\ Moved(L, main, th[r]) = Moved(L, Alone(main), th[r])
  BY <1>4, SameMoves
<1>7. \E x \in DOMAIN Ladders : L = Ladders[x]
  BY DEF Inv, L
<1>8. {solved, latch, stop, rows} \subseteq BOOLEAN /\ Rises(solved, solved) /\ (Compresses(L) => ~solved)
  BY <1>1 DEF Inv, Threads, Rises
<1> QED BY <1>1, <1>2, <1>3, <1>4, <1>5, <1>6, <1>7, <1>8

LEMMA BlockLock ==
    ASSUME Inv, LockInv, Quiet, NEW r \in Restarts, Block(r)
    PROVE  InLockStep(L, Alone(main), th', solved', slots')
<1> DEFINE m == Alone(main)
           s == Sampled(L, m, th[r])
           t == [s EXCEPT !.stash = th[r].best, !.pc = IF r = 0 THEN "latch" ELSE "wait_block"]
<1>0. main.at = "join" /\ th[r].pc = "top" /\ IsCheckpoint(L, th[r].i)
  BY DEF Block, Is
<1>1. /\ Sane(L) /\ Threads(L, th, solved, latch, slots)
      /\ th \in [Restarts -> RestartType(L)] /\ Restarts = RestartsOf(L)
      /\ Calm(L, latch) /\ Start(L, m) /\ InLockStep(L, m, th, solved, slots)
      /\ th[r] \in RestartType(L) /\ Traced(L, m, th[r], r, solved) /\ m.frontier \in Nat
      /\ m.frontier = main.frontier /\ Sampled(L, main, th[r]) = s
      /\ \E x \in DOMAIN Ladders : L = Ladders[x]
      /\ {solved, latch, stop, rows} \subseteq BOOLEAN /\ (Compresses(L) => ~solved)
  BY <1>0, Stepping
<1> HIDE DEF m
<1>2. PICK b \in GoodBest(L) : s = [th[r] EXCEPT !.best = b]
  BY <1>1, SampledType
<1>3. /\ t \in RestartType(L) /\ t.i = th[r].i /\ t.stash \in GoodBest(L) /\ t.done = th[r].done
      /\ t.stopping = th[r].stopping /\ t.pc = IF r = 0 THEN "latch" ELSE "wait_block"
  BY <1>1, <1>2 DEF RestartType, Pcs, Waits
<1>4. [[s EXCEPT !.stash = th[r].best] EXCEPT !.pc = IF r = 0 THEN "latch" ELSE "wait_block"] = t
      /\ t.best = [s EXCEPT !.stash = th[r].best].best
  BY <1>1, <1>2 DEF RestartType
<1>5. /\ solved' = (solved \/ (~Compresses(L) /\ Solves(L, t.best.prog, main.frontier)))
      /\ UNCHANGED <<latch, slots>>
  BY <1>1, <1>4 DEF Block
<1>6. IF r = 0 THEN th' = [th EXCEPT ![r] = t] ELSE Arrive(r, t)
  BY <1>1, <1>4 DEF Block
<1>7. Rises(solved, solved') /\ (Compresses(L) => ~solved')
  BY <1>1, <1>5 DEF Rises
<1>8. /\ Heard(L, m, t, r, solved') => Traced(L, m, t, r, solved')
      /\ SolvesAt(L, m, t.i, r) <=> ~Compresses(L) /\ Solves(L, t.best.prog, m.frontier)
  <2>1. t = [Sampled(L, m, th[r]) EXCEPT !.stash = th[r].best, !.pc = IF r = 0 THEN "latch" ELSE "wait_block"]
    OBVIOUS
  <2> HIDE DEF t, s
  <2> QED BY <1>0, <1>1, <2>1, BlockTraced
<1> HIDE DEF t, s
<1>9. t.i < L.iters /\ t.pc \in {"latch", "wait_block"}
  BY <1>0, <1>3 DEF IsCheckpoint
<1>10. Threads(L, [th EXCEPT ![r] = t], solved', latch, slots)
  BY <1>0, <1>1, <1>3, <1>7, BlockAligned
<1>11. InLockStep(L, m, [th EXCEPT ![r] = t], solved', slots)
  <2>1. solved' => solved \/ Announces(L, m, t, r)
    BY <1>1, <1>5, <1>8, <1>9 DEF Announces
  <2>2. ~Announces(L, m, th[r], r)
    BY <1>0 DEF Announces
  <2>3. Heard(L, m, t, r, solved')
    BY <1>1, <1>5, <1>8, <1>9 DEF Announces, Heard
  <2> QED BY <1>1, <1>3, <1>7, <1>8, <1>9, <2>1, <2>2, <2>3, OneTraced
<1>12. InLockStep(L, m, th', solved', slots)
  BY <1>1, <1>6, <1>10, <1>11, ArriveTraced
<1> QED BY <1>5, <1>12 DEF m

\* A restart that stays at its checkpoint.
LEMMA WaitLock ==
    ASSUME NEW l, Sane(l), NEW m, NEW ts \in [RestartsOf(l) -> RestartType(l)], NEW so, Rises(so, so), NEW sl,
           InLockStep(l, m, ts, so, sl), NEW r \in RestartsOf(l), NEW t \in RestartType(l),
           ts[r].pc \in AtCheckpoint, t.pc \in AtCheckpoint \ {"gather"},
           t.i = ts[r].i, t.rng = ts[r].rng, t.cur = ts[r].cur, t.best = ts[r].best, t.stash = ts[r].stash,
           t.pc \in Looked /\ ~t.done => ~OverAt(l, m, t.i),
           NEW sl2, \A s \in RestartsOf(l) \ {r} : ts[s].pc = "wait_deposit" => sl2[s] = sl[s],
           t.pc = "wait_deposit" => sl2[r] = PartOf(LockStep(l, m)[t.i][r]),
           ts[0].pc = "gather" /\ r # 0 => sl2 = sl
    PROVE  InLockStep(l, m, [ts EXCEPT ![r] = t], so, sl2)
<1>1. Traced(l, m, ts[r], r, so) /\ ts[r] \in RestartType(l)
  BY DEF InLockStep
<1>2. Traced(l, m, t, r, so)
  BY <1>1, WaitTraced
<1>3. t.pc # "top" /\ t.pc # "gather"
  BY DEF AtCheckpoint, Looked
<1>4. Announces(l, m, ts[r], r) => Announces(l, m, t, r)
  BY <1>3 DEF Announces
<1> QED BY <1>1, <1>2, <1>3, <1>4, OneTraced

LEMMA LatchLock ==
    ASSUME Inv, LockInv, Quiet, NEW r \in Restarts, Latch(r)
    PROVE  InLockStep(L, Alone(main), th', solved', slots')
<1> DEFINE m == Alone(main)
           t == [th[r] EXCEPT !.pc = "wait_block"]
<1>0. main.at = "join" /\ th[r].pc = "latch"
  BY DEF Latch, Is
<1>1. /\ Sane(L) /\ Threads(L, th, solved, latch, slots) /\ (latch => stop)
      /\ th \in [Restarts -> RestartType(L)] /\ Restarts = RestartsOf(L)
      /\ Calm(L, stop) /\ InLockStep(L, m, th, solved, slots) /\ Traced(L, m, th[r], r, solved)
      /\ th[r] \in RestartType(L) /\ {solved, latch, stop, rows} \subseteq BOOLEAN /\ Rises(solved, solved)
  BY <1>0, Stepping
<1>2. /\ t \in RestartType(L) /\ t.i = th[r].i /\ t.stash = th[r].stash /\ t.done = th[r].done
      /\ t.rng = th[r].rng /\ t.cur = th[r].cur /\ t.best = th[r].best
      /\ t.stopping = th[r].stopping /\ t.pc = "wait_block"
  BY <1>1 DEF RestartType, Pcs, Waits
<1>3. latch' = stop /\ Arrive(r, t) /\ UNCHANGED <<solved, slots>>
  BY DEF Latch
<1> HIDE DEF t, m
<1>4. Threads(L, [th EXCEPT ![r] = t], solved, stop, slots)
  <2>1. Rises(latch, stop)
    BY <1>1 DEF Rises
  <2> QED BY <1>0, <1>1, <1>2, <2>1, LatchAligned
<1>5. InLockStep(L, m, [th EXCEPT ![r] = t], solved, slots)
  <2>1. th[r].pc \in AtCheckpoint /\ t.pc \in AtCheckpoint \ {"gather"} /\ t.pc \notin Looked
    BY <1>0, <1>2 DEF AtCheckpoint, Looked
  <2> QED BY <1>1, <1>2, <2>1, WaitLock
<1> QED BY <1>1, <1>3, <1>4, <1>5, ArriveTraced DEF m

\* Who reads that nobody has solved the rung finds the lock-step going on.
LEMMA LookDoneLock ==
    ASSUME Inv, LockInv, Quiet, NEW r \in Restarts, LookDone(r)
    PROVE  InLockStep(L, Alone(main), th', solved', slots')
<1> DEFINE m == Alone(main)
           t == [th[r] EXCEPT !.pc = "look_stop", !.done = solved]
<1>0. main.at = "join" /\ th[r].pc = "look"
  BY DEF LookDone, Is
<1>1. /\ Sane(L) /\ Threads(L, th, solved, latch, slots) /\ Calm(L, latch) /\ Start(L, m)
      /\ th \in [Restarts -> RestartType(L)] /\ Restarts = RestartsOf(L)
      /\ InLockStep(L, m, th, solved, slots) /\ Traced(L, m, th[r], r, solved)
      /\ th[r] \in RestartType(L) /\ {solved, latch, stop, rows} \subseteq BOOLEAN /\ Rises(solved, solved)
      /\ \E x \in DOMAIN Ladders : L = Ladders[x]
  BY <1>0, Stepping
<1>2. /\ t \in RestartType(L) /\ t.i = th[r].i /\ t.stash = th[r].stash /\ t.done = solved
      /\ t.rng = th[r].rng /\ t.cur = th[r].cur /\ t.best = th[r].best /\ t.pc = "look_stop"
  BY <1>1 DEF RestartType, Pcs, Waits
<1>3. th' = [th EXCEPT ![r] = t] /\ UNCHANGED <<solved, slots>>
  BY <1>1 DEF LookDone
<1> HIDE DEF t, m
<1>4. ASSUME ~solved, OverAt(L, m, th[r].i) PROVE FALSE
  <2>1. PICK s \in RestartsOf(L) : SolvesAt(L, m, th[r].i, s)
    BY <1>4 DEF OverAt
  <2>2. /\ th[s] \in RestartType(L) /\ Traced(L, m, th[s], s, solved) /\ th[s].i \in 0 .. L.iters /\ th[r].i \in 0 .. L.iters
        /\ Running(L, m, th[s].i) /\ Running(L, m, th[r].i) /\ th[r].i < L.iters
    BY <1>1, <1>4 DEF InLockStep, RestartType, Traced, OverAt, IsCheckpoint
  <2>3. CASE th[s].i = th[r].i /\ th[s].pc # "top"
    BY <1>4, <2>1, <2>2, <2>3 DEF Traced, Heard, Announces
  <2>4. CASE th[s].i > th[r].i
    <3>1. th[r].i < th[s].i
      BY <2>2, <2>4
    <3> QED BY <1>1, <1>4, <2>2, <3>1, PathOver
  <2> QED BY <1>0, <1>1, <2>3, <2>4, LooksTogether
<1>5. InLockStep(L, m, [th EXCEPT ![r] = t], solved, slots)
  <2>1. th[r].pc \in AtCheckpoint /\ t.pc \in AtCheckpoint \ {"gather"} /\ t.pc # "wait_deposit"
    BY <1>0, <1>2 DEF AtCheckpoint, Looked
  <2>2. ~t.done => ~OverAt(L, m, t.i)
    BY <1>2, <1>4
  <2> QED BY <1>1, <1>2, <2>1, <2>2, WaitLock
<1> QED BY <1>3, <1>5 DEF m

LEMMA LookStopLock ==
    ASSUME Inv, LockInv, Quiet, NEW r \in Restarts, LookStop(r)
    PROVE  InLockStep(L, Alone(main), th', solved', slots')
<1> DEFINE m == Alone(main)
           t == [th[r] EXCEPT !.pc = IF latch \/ IsBeat(L, th[r].i) THEN "deposit" ELSE "decide", !.stopping = latch]
<1>0. main.at = "join" /\ th[r].pc = "look_stop"
  BY DEF LookStop, Is
<1>1. /\ Sane(L) /\ th \in [Restarts -> RestartType(L)] /\ Restarts = RestartsOf(L)
      /\ InLockStep(L, m, th, solved, slots) /\ Traced(L, m, th[r], r, solved)
      /\ th[r] \in RestartType(L) /\ {solved, latch, stop, rows} \subseteq BOOLEAN /\ Rises(solved, solved)
  BY <1>0, Stepping
<1>2. /\ t \in RestartType(L) /\ t.i = th[r].i /\ t.stash = th[r].stash /\ t.done = th[r].done
      /\ t.rng = th[r].rng /\ t.cur = th[r].cur /\ t.best = th[r].best /\ t.pc \in {"deposit", "decide"}
  BY <1>1 DEF RestartType, Pcs, Waits
<1>3. th' = [th EXCEPT ![r] = t] /\ UNCHANGED <<solved, slots>>
  BY <1>1 DEF LookStop
<1> HIDE DEF t, m
<1>4. InLockStep(L, m, [th EXCEPT ![r] = t], solved, slots)
  <2>1. th[r].pc \in AtCheckpoint /\ th[r].pc \in Looked /\ t.pc \in AtCheckpoint \ {"gather"} /\ t.pc # "wait_deposit"
    BY <1>0, <1>2 DEF AtCheckpoint, Looked
  <2>2. ~t.done => ~OverAt(L, m, t.i)
    BY <1>1, <1>2, <2>1 DEF Traced
  <2> QED BY <1>1, <1>2, <2>1, <2>2, WaitLock
<1> QED BY <1>3, <1>4 DEF m

LEMMA DepositLock ==
    ASSUME Inv, LockInv, Quiet, NEW r \in Restarts, Deposit(r)
    PROVE  InLockStep(L, Alone(main), th', solved', slots')
<1> DEFINE m == Alone(main)
           t == [th[r] EXCEPT !.pc = "wait_deposit"]
<1>0. main.at = "join" /\ th[r].pc = "deposit"
  BY DEF Deposit, Is
<1>1. /\ Sane(L) /\ Threads(L, th, solved, latch, slots) /\ slots \in Slots(L) /\ Calm(L, latch)
      /\ th \in [Restarts -> RestartType(L)] /\ Restarts = RestartsOf(L)
      /\ InLockStep(L, m, th, solved, slots) /\ Traced(L, m, th[r], r, solved)
      /\ th[r] \in RestartType(L) /\ {solved, latch, stop, rows} \subseteq BOOLEAN /\ Rises(solved, solved)
  BY <1>0, Stepping
<1>2. /\ t \in RestartType(L) /\ t.i = th[r].i /\ t.stash = th[r].stash /\ t.done = th[r].done
      /\ t.rng = th[r].rng /\ t.cur = th[r].cur /\ t.best = th[r].best
      /\ t.stopping = th[r].stopping /\ t.pc = "wait_deposit"
  BY <1>1 DEF RestartType, Pcs, Waits
<1>3. slots' = [slots EXCEPT ![r] = SnapOf(th[r])] /\ Arrive(r, t) /\ UNCHANGED <<solved, latch>>
  BY DEF Deposit
<1> HIDE DEF t, m
<1>4. SnapOf(th[r]) \in PartType(L) /\ SnapOf(th[r]) = PartOf(LockStep(L, m)[t.i][r])
  <2>1. SnapOf(th[r]) = PartOf(LockStep(L, m)[th[r].i][r])
    BY <1>0, <1>1 DEF Traced, AtCheckpoint, Looked, SnapOf, PartOf
  <2>2. SnapOf(th[r]) \in PartType(L)
    BY <1>0, <1>1 DEF SnapOf, PartType, RestartType, Threads, Stage
  <2> QED BY <1>2, <2>1, <2>2
<1>5. /\ slots' \in Slots(L) /\ slots'[r] = SnapOf(th[r]) /\ Filled(L, slots'[r])
      /\ \A s \in RestartsOf(L) \ {r} : slots'[s] = slots[s]
  BY <1>1, <1>3, <1>4 DEF Slots, Filled
<1>6. Threads(L, [th EXCEPT ![r] = t], solved, latch, slots')
  BY ZenonT(40), <1>0, <1>1, <1>2, <1>5, DepositAligned
<1>7. ~(th[0].pc = "gather")
  BY <1>0, <1>1, GathersTogether DEF Gathers
<1>8. InLockStep(L, m, [th EXCEPT ![r] = t], solved, slots')
  <2>1. th[r].pc \in AtCheckpoint /\ th[r].pc \in Looked /\ t.pc \in AtCheckpoint \ {"gather"}
    BY <1>0, <1>2 DEF AtCheckpoint, Looked
  <2>2. ~t.done => ~OverAt(L, m, t.i)
    BY <1>1, <1>2, <2>1 DEF Traced
  <2>3. slots'[r] = PartOf(LockStep(L, m)[t.i][r])
    BY <1>4, <1>5
  <2>4. \A s \in RestartsOf(L) \ {r} : th[s].pc = "wait_deposit" => slots'[s] = slots[s]
    BY <1>5
  <2> QED BY ZenonT(40), <1>1, <1>2, <1>7, <2>1, <2>2, <2>3, <2>4, WaitLock
<1> QED BY <1>1, <1>3, <1>6, <1>8, ArriveTraced DEF m

\* The snapshot that restart 0 writes is the lock-step at its checkpoint.
LEMMA GatherLock ==
    ASSUME Inv, LockInv, Quiet, NEW r \in Restarts, Gather(r)
    PROVE  InLockStep(L, Alone(main), th', solved', slots')
<1> DEFINE m == Alone(main)
           t == [th[r] EXCEPT !.pc = "wait_emit"]
<1>0. main.at = "join" /\ th[r].pc = "gather"
  BY DEF Gather, Is
<1>1. /\ Sane(L) /\ Threads(L, th, solved, latch, slots) /\ slots \in Slots(L) /\ Calm(L, latch)
      /\ th \in [Restarts -> RestartType(L)] /\ Restarts = RestartsOf(L)
      /\ InLockStep(L, m, th, solved, slots) /\ Traced(L, m, th[r], r, solved)
      /\ th[r] \in RestartType(L) /\ {solved, latch, stop, rows} \subseteq BOOLEAN /\ Rises(solved, solved)
  BY <1>0, Stepping
<1>2. /\ t \in RestartType(L) /\ t.i = th[r].i /\ t.stash = th[r].stash /\ t.done = th[r].done
      /\ t.rng = th[r].rng /\ t.cur = th[r].cur /\ t.best = th[r].best
      /\ t.stopping = th[r].stopping /\ t.pc = "wait_emit"
  BY <1>1 DEF RestartType, Pcs, Waits
<1>3. Arrive(r, t) /\ UNCHANGED <<solved, latch>>
  BY DEF Gather
<1> HIDE DEF t, m
<1>4. slots' \in Slots(L) /\ (r # 0 => slots' = slots)
  BY <1>1 DEF Gather, Slots
<1>5. Threads(L, [th EXCEPT ![r] = t], solved, latch, slots')
  BY <1>0, <1>1, <1>2, <1>3, <1>4, GatherAligned
<1>6. \A s \in RestartsOf(L) \ {r} : th[s].pc = "wait_deposit" => slots'[s] = slots[s]
  <2>1. CASE r = 0
    BY <1>0, <1>1, <2>1, GathersTogether DEF Gathers
  <2>2. CASE r # 0
    BY <1>4, <2>2
  <2> QED BY <2>1, <2>2
<1>7. InLockStep(L, m, [th EXCEPT ![r] = t], solved, slots')
  <2>1. th[r].pc \in AtCheckpoint /\ th[r].pc \in Looked /\ t.pc \in AtCheckpoint \ {"gather"} /\ t.pc # "wait_deposit"
    BY <1>0, <1>2 DEF AtCheckpoint, Looked
  <2>2. ~t.done => ~OverAt(L, m, t.i)
    BY <1>1, <1>2, <2>1 DEF Traced
  <2> QED BY ZenonT(40), <1>1, <1>2, <1>4, <1>6, <2>1, <2>2, WaitLock
<1> QED BY <1>1, <1>3, <1>5, <1>7, ArriveTraced DEF m

LEMMA DecideLock ==
    ASSUME Inv, LockInv, Quiet, NEW r \in Restarts, Decide(r)
    PROVE  InLockStep(L, Alone(main), th', solved', slots')
<1> DEFINE m == Alone(main)
           t == [th[r] EXCEPT !.pc = IF th[r].done \/ th[r].stopping THEN "end" ELSE "move",
                              !.stash = NoSnap, !.done = FALSE, !.stopping = FALSE]
<1>0. main.at = "join" /\ th[r].pc = "decide"
  BY DEF Decide, Is
<1>1. /\ Sane(L) /\ Start(L, m) /\ th \in [Restarts -> RestartType(L)] /\ Restarts = RestartsOf(L)
      /\ InLockStep(L, m, th, solved, slots) /\ Traced(L, m, th[r], r, solved)
      /\ th[r] \in RestartType(L) /\ {solved, latch, stop, rows} \subseteq BOOLEAN /\ Rises(solved, solved)
      /\ \E x \in DOMAIN Ladders : L = Ladders[x]
  BY <1>0, Stepping
<1>2. /\ t \in RestartType(L) /\ t.i = th[r].i /\ t.rng = th[r].rng /\ t.cur = th[r].cur /\ t.best = th[r].best
      /\ t.stash = NoSnap /\ t.done = FALSE /\ t.stopping = FALSE
      /\ t.pc = IF th[r].done \/ th[r].stopping THEN "end" ELSE "move"
  BY <1>1 DEF RestartType, Pcs, Waits
<1>3. th' = [th EXCEPT ![r] = t] /\ UNCHANGED <<solved, slots>>
  BY <1>1 DEF Decide
<1> HIDE DEF t, m
<1>4. Traced(L, m, t, r, solved)
  BY <1>0, <1>1, <1>2, DecideTraced
<1>5. Announces(L, m, th[r], r) => Announces(L, m, t, r)
  BY <1>2 DEF Announces
<1>6. InLockStep(L, m, [th EXCEPT ![r] = t], solved, slots)
  <2>1. t.pc # "gather" /\ t.pc # "wait_deposit"
    BY <1>2
  <2> QED BY <1>1, <1>2, <1>4, <1>5, <2>1, OneTraced
<1> QED BY <1>3, <1>6 DEF m

LEMMA MoveLock ==
    ASSUME Inv, LockInv, Quiet, NEW r \in Restarts, Move(r)
    PROVE  InLockStep(L, Alone(main), th', solved', slots')
<1> DEFINE m == Alone(main)
           t == Moved(L, m, th[r])
<1>0. main.at = "join" /\ th[r].pc \in {"move", "top"}
  BY DEF Move, Is
<1>1. /\ Sane(L) /\ Threads(L, th, solved, latch, slots) /\ Start(L, m)
      /\ th \in [Restarts -> RestartType(L)] /\ Restarts = RestartsOf(L)
      /\ InLockStep(L, m, th, solved, slots) /\ Traced(L, m, th[r], r, solved) /\ Moved(L, main, th[r]) = t
      /\ th[r] \in RestartType(L) /\ {solved, latch, stop, rows} \subseteq BOOLEAN /\ Rises(solved, solved)
      /\ \E x \in DOMAIN Ladders : L = Ladders[x]
  BY <1>0, Stepping
<1>2. /\ th[r].i < L.iters
      /\ (th[r].pc = "move" /\ IsCheckpoint(L, th[r].i)) \/ (th[r].pc = "top" /\ ~IsCheckpoint(L, th[r].i))
  BY <1>1 DEF Move, Is, Threads, Stage, IsCheckpoint
<1>3. th' = [th EXCEPT ![r] = t] /\ UNCHANGED <<solved, slots>>
  BY <1>1 DEF Move
<1> HIDE DEF m
<1>4. Traced(L, m, t, r, solved)
  BY <1>1, <1>2, MoveTraced
<1>5. t \in RestartType(L) /\ t.pc = "top"
  <2>1. m.frontier \in Nat /\ m.lib \in Libraries
    BY <1>1 DEF Start, MainType
  <2> QED BY <1>1, <1>2, <2>1, MovedType
<1> HIDE DEF t
<1>6. ~Announces(L, m, th[r], r)
  <2>1. CASE th[r].pc = "move"
    <3>1. ~OverAt(L, m, th[r].i) /\ IsCheckpoint(L, th[r].i)
      BY <1>1, <1>2, <2>1 DEF Traced
    <3> QED BY <1>1, <3>1 DEF Announces, OverAt
  <2>2. CASE th[r].pc = "top"
    BY <2>2 DEF Announces
  <2> QED BY <1>2, <2>1, <2>2
<1>7. InLockStep(L, m, [th EXCEPT ![r] = t], solved, slots)
  BY <1>1, <1>4, <1>5, <1>6, OneTraced
<1> QED BY <1>3, <1>7 DEF m

LEMMA EndLock ==
    ASSUME Inv, LockInv, Quiet, NEW r \in Restarts, End(r)
    PROVE  InLockStep(L, Alone(main), th', solved', slots')
<1> DEFINE m == Alone(main)
           s == Sampled(L, m, th[r])
           t == [s EXCEPT !.pc = "ended"]
<1>0. main.at = "join" /\ ((th[r].pc = "end") \/ (th[r].pc = "top" /\ th[r].i = L.iters))
  BY DEF End, Is
<1>1. /\ Sane(L) /\ Threads(L, th, solved, latch, slots) /\ Start(L, m) /\ m.frontier \in Nat
      /\ th \in [Restarts -> RestartType(L)] /\ Restarts = RestartsOf(L)
      /\ InLockStep(L, m, th, solved, slots) /\ Traced(L, m, th[r], r, solved) /\ Sampled(L, main, th[r]) = s
      /\ th[r] \in RestartType(L) /\ {solved, latch, stop, rows} \subseteq BOOLEAN /\ Rises(solved, solved)
      /\ \E x \in DOMAIN Ladders : L = Ladders[x]
  BY <1>0, Stepping
<1>2. (th[r].pc = "end" /\ IsCheckpoint(L, th[r].i)) \/ (th[r].pc = "top" /\ th[r].i = L.iters)
  BY <1>0, <1>1 DEF Threads, Stage
<1>3. th' = [th EXCEPT ![r] = t] /\ UNCHANGED <<solved, slots>>
  BY <1>1 DEF End
<1> HIDE DEF m
<1>4. Traced(L, m, t, r, solved)
  BY <1>1, <1>2, EndTraced
<1>5. t \in RestartType(L) /\ t.pc = "ended" /\ t.i = th[r].i
  <2>1. s \in RestartType(L) /\ s.i = th[r].i
    BY <1>1, SampledRest
  <2> HIDE DEF s
  <2> QED BY <2>1 DEF RestartType, Pcs
<1> HIDE DEF t, s
<1>6. Announces(L, m, th[r], r) => Announces(L, m, t, r)
  BY <1>5 DEF Announces
<1>7. InLockStep(L, m, [th EXCEPT ![r] = t], solved, slots)
  BY <1>1, <1>4, <1>5, <1>6, OneTraced
<1> QED BY <1>3, <1>7 DEF m

-----------------------------------------------------------------------------
(***************************************************************************)
(* The climb: how long it takes, and what an attempt hands to it.          *)
(***************************************************************************)
\* When a state of the main thread is reached: a rung takes a step to be entered,
\* and one for each attempt.
InTime(l, m, n) ==
    /\ m.at = "rung" => n <= m.frontier * (l.retries + 2)
    /\ m.at = "attempt" => n <= m.frontier * (l.retries + 2) + m.attempt + 1

OnClimb(l, m, n) ==
    m \in MainType(l) /\ m.mid = NoSnap /\ m.at \in {"rung", "attempt", "finished"} /\ InTime(l, m, n)

LEMMA ProductGrows ==
    ASSUME NEW a \in Nat, NEW b \in Nat, NEW c \in Nat, a <= b
    PROVE  /\ a * c \in Nat /\ b * c \in Nat /\ a * c <= b * c
           /\ (a + 1) * c = a * c + c
<1>1. PICK d \in Nat : b = a + d
  <2>1. b - a \in Nat /\ b = a + (b - a)
    OBVIOUS
  <2> QED BY <2>1
<1>2. (a + d) * c = a * c + d * c /\ d * c \in Nat /\ a * c \in Nat /\ (a + 1) * c = a * c + c
  OBVIOUS
<1> QED BY <1>1, <1>2

LEMMA HeightsType ==
    ASSUME NEW x \in DOMAIN Ladders, NEW l, l = Ladders[x]
    PROVE  Heights(l) \in Nat
  BY LadderFacts DEF Heights

\* A step of the climb.
LEMMA ClimbedType ==
    ASSUME NEW x \in DOMAIN Ladders, NEW l, l = Ladders[x], NEW n \in Nat, NEW m, OnClimb(l, m, n)
    PROVE  OnClimb(l, Climbed(l, m), n + 1)
<1> DEFINE R == l.retries + 2
<1>1. l.retries \in Nat /\ l.rungs \in Nat /\ R \in Nat /\ l.iters \in Nat
  BY LadderFacts
<1>2. m \in MainType(l) /\ m.mid = NoSnap /\ m.frontier \in Nat /\ m.attempt \in 0 .. l.retries
  BY DEF OnClimb, MainType
<1>3. m.frontier * R \in Nat /\ (m.frontier + 1) * R = m.frontier * R + R
  BY <1>1, <1>2, ProductGrows
<1> DEFINE before == m.frontier * R
           after == (m.frontier + 1) * R
<1> HIDE DEF R, before, after
<1>4. CASE m.at = "finished"
  BY <1>4 DEF Climbed, OnClimb, InTime
<1>5. CASE m.at = "rung"
  <2>1. Climbed(l, m) = Entered(l, m)
    BY <1>5 DEF Climbed
  <2>2. Entered(l, m) \in MainType(l)
    BY <1>2, <1>5, EnteredType
  <2>3. n <= before
    BY <1>5 DEF OnClimb, InTime, before, R
  <2>4. CASE m.frontier = l.rungs
    <3>1. Entered(l, m).at = "finished" /\ Entered(l, m).mid = NoSnap
      BY <1>2, <2>4 DEF Entered, MainType
    <3> QED BY <2>1, <2>2, <3>1 DEF OnClimb, InTime
  <2>5. CASE m.frontier # l.rungs /\ ~Compresses(l) /\ m.champ # NoProgram /\ Solves(l, m.champ, m.frontier)
    <3>1. Entered(l, m).at = "rung" /\ Entered(l, m).mid = NoSnap /\ Entered(l, m).frontier = m.frontier + 1
      BY <1>2, <1>5, <2>5 DEF Entered, MainType
    <3>2. n + 1 <= after
      BY <1>1, <1>3, <2>3 DEF before, after, R
    <3>3. InTime(l, Entered(l, m), n + 1)
      BY <3>1, <3>2 DEF InTime, after, R
    <3> QED BY <2>1, <2>2, <3>1, <3>3 DEF OnClimb
  <2>6. CASE m.frontier # l.rungs /\ ~(~Compresses(l) /\ m.champ # NoProgram /\ Solves(l, m.champ, m.frontier))
    <3>1. /\ Entered(l, m).at = "attempt" /\ Entered(l, m).mid = NoSnap
          /\ Entered(l, m).frontier = m.frontier /\ Entered(l, m).attempt = 0
      BY <1>2, <1>5, <2>6 DEF Entered, MainType
    <3>2. n + 1 <= before + 0 + 1
      BY <1>3, <2>3 DEF before
    <3>3. InTime(l, Entered(l, m), n + 1)
      BY <3>1, <3>2 DEF InTime, before, R
    <3> QED BY <2>1, <2>2, <3>1, <3>3 DEF OnClimb
  <2> QED BY <2>4, <2>5, <2>6
<1>6. CASE m.at = "attempt"
  <2> DEFINE bests == [r \in RestartsOf(l) |-> Sampled(l, m, LockStep(l, m)[l.iters][r]).best]
             s == Selected(l, m, bests)
  <2>1. Climbed(l, m) = s
    BY <1>6 DEF Climbed
  <2>2. Start(l, m)
    BY <1>2, <1>6 DEF Start, MainType
  <2>3. ASSUME NEW r \in RestartsOf(l) PROVE bests[r] \in GoodBest(l)
    <3> DEFINE p == LockStep(l, m)[l.iters][r]
    <3>1. p \in RestartType(l)
      <4>1. l.iters \in 0 .. l.iters
        BY <1>1
      <4>2. AtTop(l, p)
        BY <2>2, <4>1, PathType
      <4> QED BY <4>2 DEF AtTop
    <3> HIDE DEF p
    <3>2. Sampled(l, m, p) \in RestartType(l)
      BY <1>2, <3>1, SampledRest
    <3> QED BY <3>2 DEF RestartType, p
  <2> HIDE DEF bests
  <2>4. s \in MainType(l) /\ s.mid = NoSnap
    BY <1>2, <1>6, <2>3, SelectedType
  <2>5. n <= before + m.attempt + 1
    BY <1>6 DEF OnClimb, InTime, before, R
  <2>6. \/ s.at = "rung" /\ s.frontier = m.frontier + 1
        \/ s.at = "attempt" /\ s.frontier = m.frontier /\ s.attempt = m.attempt + 1
        \/ s.at = "finished"
    BY <1>2 DEF Selected, Escalated, MainType
  <2> HIDE DEF s
  <2>7. InTime(l, s, n + 1)
    <3>1. n + 1 <= after
      BY <1>1, <1>2, <1>3, <2>5 DEF before, after, R
    <3>2. n + 1 <= before + (m.attempt + 1) + 1
      BY <1>2, <1>3, <2>5 DEF before
    <3> QED BY <2>6, <3>1, <3>2 DEF InTime, before, after, R
  <2> QED BY <2>1, <2>4, <2>6, <2>7 DEF OnClimb
<1> QED BY <1>4, <1>5, <1>6 DEF OnClimb

LEMMA ClimbType ==
    ASSUME NEW x \in DOMAIN Ladders, NEW l, l = Ladders[x], NEW n \in 0 .. Heights(l)
    PROVE  OnClimb(l, Climb(l)[n], n)
<1> DEFINE C == Climb(l)
           T == {k \in 0 .. Heights(l) : OnClimb(l, C[k], k)}
<1>1. Heights(l) \in Nat
  BY HeightsType
<1>2. C = [k \in 0 .. Heights(l) |-> IF k = 0 THEN Fresher(l) ELSE Climbed(l, C[k - 1])]
  BY <1>1, ClimbPath
<1> HIDE DEF C
<1>3. 0 \in T
  <2>1. C[0] = Fresher(l)
    BY <1>1, <1>2
  <2>2. /\ l.rungs \in Nat /\ l.retries \in Nat /\ l.size \in [Programs -> Nat]
        /\ Compresses(l) => l.start \in Programs /\ l.certified[l.start] /\ l.size[l.start] \in Nat
    BY LadderFacts
  <2>3. {} \in Libraries
    BY MoveAssumption
  <2>4. Fresher(l) \in MainType(l)
    BY <2>2, <2>3 DEF Fresher, MainType, Certified
  <2>5. 0 <= 0 * (l.retries + 2)
    BY <2>2
  <2>6. OnClimb(l, Fresher(l), 0)
    BY <2>4, <2>5 DEF OnClimb, InTime, Fresher
  <2> QED BY <1>1, <2>1, <2>6
<1>4. ASSUME NEW k \in T, k < Heights(l) PROVE k + 1 \in T
  <2>1. k \in Nat /\ k + 1 \in 0 .. Heights(l) /\ k + 1 # 0 /\ (k + 1) - 1 = k /\ OnClimb(l, C[k], k)
    BY <1>1, <1>4
  <2>2. C[k + 1] = Climbed(l, C[k])
    BY <1>2, <2>1
  <2>3. OnClimb(l, Climbed(l, C[k]), k + 1)
    BY <2>1, ClimbedType
  <2> QED BY <2>1, <2>2, <2>3
<1>5. T = 0 .. Heights(l)
  <2>1. T \in SUBSET (0 .. Heights(l))
    OBVIOUS
  <2> HIDE DEF T
  <2> QED BY <1>1, <1>3, <1>4, <2>1, IntervalSet
<1>6. n \in T
  BY <1>5
<1> QED BY <1>6 DEF C

LEMMA ClimbNext ==
    ASSUME NEW x \in DOMAIN Ladders, NEW l, l = Ladders[x], NEW n \in 0 .. Heights(l), n < Heights(l)
    PROVE  Climb(l)[n + 1] = Climbed(l, Climb(l)[n])
<1> DEFINE C == Climb(l)
<1>1. Heights(l) \in Nat
  BY HeightsType
<1>2. C = [k \in 0 .. Heights(l) |-> IF k = 0 THEN Fresher(l) ELSE Climbed(l, C[k - 1])]
  BY <1>1, ClimbPath
<1>3. n + 1 \in 0 .. Heights(l) /\ n + 1 # 0 /\ (n + 1) - 1 = n
  BY <1>1
<1> HIDE DEF C
<1>4. C[n + 1] = Climbed(l, C[n])
  BY <1>2, <1>3
<1> QED BY <1>4 DEF C

\* A climb that is not finished has time left.
LEMMA ClimbOnward ==
    ASSUME NEW x \in DOMAIN Ladders, NEW l, l = Ladders[x], NEW m, Reached(l, m), m.at # "finished"
    PROVE  Reached(l, Climbed(l, m))
<1>1. PICK n \in 0 .. Heights(l) : Climb(l)[n] = m
  BY DEF Reached
<1>2. OnClimb(l, m, n)
  BY <1>1, ClimbType
<1>3. l.retries \in Nat /\ l.rungs \in Nat /\ l.retries + 2 \in Nat /\ Heights(l) \in Nat /\ n \in Nat
  BY LadderFacts, HeightsType
<1>4. m.frontier \in 0 .. l.rungs /\ m.attempt \in 0 .. l.retries
  BY <1>2 DEF OnClimb, MainType
<1> DEFINE before == m.frontier * (l.retries + 2)
           top == l.rungs * (l.retries + 2)
<1>5. before \in Nat /\ top \in Nat /\ before <= top /\ Heights(l) = top + (l.retries + 2)
  <2>1. m.frontier \in Nat /\ m.frontier <= l.rungs
    BY <1>3, <1>4
  <2> QED BY <1>3, <2>1, ProductGrows DEF Heights
<1>6. n <= before + m.attempt + 1
  <2>1. CASE m.at = "rung"
    <3>1. n <= before
      BY <1>2, <2>1 DEF OnClimb, InTime
    <3> HIDE DEF before
    <3> QED BY <1>3, <1>4, <1>5, <3>1
  <2>2. CASE m.at = "attempt"
    BY <1>2, <2>2 DEF OnClimb, InTime
  <2> QED BY <1>2, <2>1, <2>2 DEF OnClimb
<1> HIDE DEF before, top
<1>7. n < Heights(l)
  BY <1>3, <1>4, <1>5, <1>6
<1>8. Climb(l)[n + 1] = Climbed(l, m) /\ n + 1 \in 0 .. Heights(l)
  BY <1>1, <1>3, <1>7, ClimbNext
<1> QED BY <1>8 DEF Reached

\* A climb that is finished stays there.
LEMMA ClimbEnd ==
    ASSUME NEW x \in DOMAIN Ladders, NEW l, l = Ladders[x], NEW m, Reached(l, m), m.at = "finished"
    PROVE  Climb(l)[Heights(l)] = m
<1>1. PICK n \in 0 .. Heights(l) : Climb(l)[n] = m
  BY DEF Reached
<1> DEFINE d == Heights(l) - n
           T == {k \in 0 .. d : Climb(l)[n + k] = m}
<1>2. Heights(l) \in Nat /\ n \in Nat /\ d \in Nat /\ n + d = Heights(l)
  BY HeightsType
<1> HIDE DEF d
<1>3. 0 \in T
  <2>1. n + 0 = n
    BY <1>2
  <2> QED BY <1>1, <1>2, <2>1
<1>4. ASSUME NEW k \in T, k < d PROVE k + 1 \in T
  <2>1. k \in Nat /\ Climb(l)[n + k] = m /\ k + 1 \in 0 .. d
    BY <1>2, <1>4
  <2>2. n + k \in 0 .. Heights(l) /\ n + k < Heights(l) /\ n + (k + 1) = (n + k) + 1
    BY <1>2, <1>4, <2>1
  <2>3. Climb(l)[(n + k) + 1] = Climbed(l, m)
    BY <2>1, <2>2, ClimbNext
  <2>4. Climbed(l, m) = m
    BY DEF Climbed
  <2> QED BY <2>1, <2>2, <2>3, <2>4
<1>5. T = 0 .. d
  <2>1. T \in SUBSET (0 .. d)
    OBVIOUS
  <2> HIDE DEF T
  <2> QED BY <1>2, <1>3, <1>4, <2>1, IntervalSet
<1>6. d \in T
  BY <1>2, <1>5
<1> QED BY <1>2, <1>6

\* What the main thread finds when all have ended, and nobody was stopped.
LEMMA EndedBests ==
    ASSUME NEW x \in DOMAIN Ladders, NEW l, l = Ladders[x], NEW m, Start(l, m),
           NEW ts, NEW so, NEW la, NEW sl, Threads(l, ts, so, la, sl), ~la, InLockStep(l, m, ts, so, sl),
           \A s \in RestartsOf(l) : ts[s].pc = "ended", NEW r \in RestartsOf(l)
    PROVE  ts[r].best = Sampled(l, m, LockStep(l, m)[l.iters][r]).best
<1>1. Sane(l) /\ Calm(l, la) /\ l.iters \in Nat
  BY LaddersSane DEF Calm, Sane
<1>2. \A s \in RestartsOf(l) : /\ ts[s].i \in 0 .. l.iters /\ Running(l, m, ts[s].i) /\ Traced(l, m, ts[s], s, so)
                               /\ Stage(l, ts[s], so, la, sl[s])
  BY DEF Threads, InLockStep, RestartType, Traced
<1>3. CASE ts[r].i = l.iters
  <2>1. ~(ts[r].i < l.iters)
    BY <1>1, <1>3
  <2>2. ts[r].best = Sampled(l, m, LockStep(l, m)[ts[r].i][r]).best
    BY <1>2, <2>1 DEF Traced
  <2> QED BY <1>3, <2>2
<1>4. CASE ts[r].i < l.iters
  <2>1. so /\ ts[r].i \in 0 .. l.iters
    BY <1>2, <1>4 DEF Stage
  <2>2. PICK w \in RestartsOf(l) : Announces(l, m, ts[w], w)
    BY <2>1 DEF InLockStep, Announced
  <2>3. /\ ts[w].i < l.iters /\ OverAt(l, m, ts[w].i) /\ Running(l, m, ts[w].i) /\ ts[w].i \in 0 .. l.iters
    BY <1>2, <2>2 DEF Announces, OverAt, Stage
  <2>4. ts[r].i = ts[w].i
    <3>1. PICK k \in Grid(l) : InLook(l, ts, so, la, k) \/ InGather(l, ts, sl, k) \/ InEmit(l, ts, k)
      BY <1>1, Together
    <3>2. \A s \in RestartsOf(l) : ts[s].i < l.iters => ts[s].i = k
      BY <1>1, <3>1 DEF InLook, InGather, InEmit, Looks, Deposits, Gathers, Decides, Left, Goes
    <3> QED BY <1>4, <2>3, <3>2
  <2>5. LockStep(l, m)[l.iters] = Halted(l, m, LockStep(l, m)[ts[w].i])
    BY <1>1, <2>3, PathOver
  <2>6. LockStep(l, m)[l.iters][r] = Sampled(l, m, LockStep(l, m)[ts[r].i][r])
    BY <2>4, <2>5 DEF Halted
  <2>7. ts[r].best = Sampled(l, m, Sampled(l, m, LockStep(l, m)[ts[r].i][r])).best
    BY <1>2, <1>4 DEF Traced
  <2> QED BY <2>6, <2>7
<1> QED BY <1>1, <1>2, <1>3, <1>4

-----------------------------------------------------------------------------
(***************************************************************************)
(* The whole search.                                                       *)
(***************************************************************************)
MainRecord(l) ==
    [at : {"rung", "attempt", "join", "finished"}, frontier : 0 .. l.rungs, attempt : 0 .. l.retries,
     solved : Nat, reheat : Nat, champ : Programs \cup {NoProgram}, pool : Seq(Programs),
     lib : Libraries, minima : Seq(GoodBest(l)), mid : {NoSnap} \cup [iter : 0 .. l.iters, restarts : Parts(l)]]

\* Two states of the main thread that agree on every field are the same.
LEMMA SameMain ==
    ASSUME NEW l, NEW m \in MainRecord(l), NEW n \in MainRecord(l), m.at = n.at,
           m.frontier = n.frontier, m.attempt = n.attempt, m.champ = n.champ, m.solved = n.solved,
           m.reheat = n.reheat, m.pool = n.pool, m.lib = n.lib, m.minima = n.minima, m.mid = n.mid
    PROVE  m = n
  BY DEF MainRecord

\* Resuming a snapshot is being in the middle of the attempt that wrote it.
LEMMA SnapshotResumes ==
    ASSUME main \in MainType(L), NEW iter, NEW parts
    PROVE  /\ Alone(Restored(Snapshot(iter, parts))) = Alone(main)
           /\ Snapshot(iter, parts).iter = iter /\ Snapshot(iter, parts).restarts = parts
<1> DEFINE s == Snapshot(iter, parts)
           a == Alone(Restored(s))
           b == Alone(main)
<1>1. /\ s.frontier = main.frontier /\ s.attempt = main.attempt /\ s.champ = main.champ
      /\ s.solved = main.solved /\ s.reheat = main.reheat /\ s.pool = main.pool /\ s.lib = main.lib
      /\ s.minima = main.minima /\ s.iter = iter /\ s.restarts = parts
  BY DEF Snapshot
<1>2. main \in MainRecord(L)
  BY DEF MainType, MainRecord
<1> HIDE DEF s
<1>3. /\ a.at = "attempt" /\ a.frontier = s.frontier /\ a.attempt = s.attempt /\ a.champ = s.champ
      /\ a.solved = s.solved /\ a.reheat = s.reheat /\ a.pool = s.pool /\ a.lib = s.lib
      /\ a.minima = s.minima /\ a.mid = NoSnap
  BY DEF Alone, Restored
<1>4. a \in MainRecord(L)
  BY <1>1, <1>2 DEF MainRecord, Alone, Restored
<1>5. /\ b \in MainRecord(L) /\ b.at = "attempt" /\ b.frontier = main.frontier /\ b.attempt = main.attempt
      /\ b.champ = main.champ /\ b.solved = main.solved /\ b.reheat = main.reheat /\ b.pool = main.pool
      /\ b.lib = main.lib /\ b.minima = main.minima /\ b.mid = NoSnap
  BY <1>2 DEF Alone, MainRecord
<1> HIDE DEF a, b
<1>6. a = b
  BY <1>1, <1>3, <1>4, <1>5, SameMain
<1> QED BY <1>1, <1>6 DEF s, a, b

LEMMA StepLock ==
    ASSUME Inv, LockInv, Quiet, NEW r \in Restarts, Step(r)
    PROVE  LockInv'
<1>1. main.at = "join" /\ UNCHANGED <<name, main, stop, result>> /\ L' = L
  BY DEF Step, Block, Latch, LookDone, LookStop, Deposit, Gather, Decide, Move, End, Is, Still, L
<1>2. InLockStep(L, Alone(main), th', solved', slots')
  BY BlockLock, LatchLock, LookDoneLock, LookStopLock, DepositLock, GatherLock, DecideLock, MoveLock, EndLock DEF Step
<1>3. Reached(L, Alone(main)) /\ LadderIsUninterrupted
  BY <1>1 DEF LockInv
<1>4. Resumable' => OnPath(L, Alone(Restored(disk'.snap)), disk'.snap.iter, disk'.snap.restarts)
  <2>1. CASE disk' = disk
    BY <2>1 DEF LockInv, Resumable
  <2>2. CASE Gather(r) /\ r = 0
    <3>1. /\ Sane(L) /\ Threads(L, th, solved, latch, slots) /\ main \in MainType(L)
          /\ InLockStep(L, Alone(main), th, solved, slots) /\ Traced(L, Alone(main), th[r], r, solved)
      BY <1>1, Stepping
    <3>2. th[0].pc = "gather" /\ disk'.snap = Snapshot(th[0].i, slots)
      <4>1. disk \in DiskType(L)
        BY DEF Inv
      <4> QED BY <2>2, <4>1 DEF Gather, Is, DiskType
    <3>3. OnPath(L, Alone(main), th[0].i, slots)
      BY <1>3, <2>2, <3>1, <3>2 DEF OnPath, InLockStep, Deposited, Traced
    <3> QED BY <3>1, <3>2, <3>3, SnapshotResumes
  <2>3. CASE ~(Gather(r) /\ r = 0)
    <3>1. disk' = disk
      BY <2>3 DEF Step, Block, Latch, LookDone, LookStop, Deposit, Gather, Decide, Move, End
    <3> QED BY <2>1, <3>1
  <2> QED BY <2>2, <2>3
<1>5. LadderIsUninterrupted'
  BY <1>1, <1>3 DEF LadderIsUninterrupted
<1> QED BY <1>1, <1>2, <1>3, <1>4, <1>5 DEF LockInv

\* The main thread is elsewhere, and nothing else of the search has changed.
LEMMA MainFrame ==
    ASSUME LockInv, UNCHANGED <<name, result>>, main'.at # "join",
           disk' = disk \/ ~Resumable', main'.at = "opened" => disk'.snap = NoSnap,
           main'.at \in {"rung", "attempt", "finished"} =>
               IF main'.mid = NoSnap THEN Reached(L, main')
               ELSE OnPath(L, Alone(main'), main'.mid.iter, main'.mid.restarts) /\ main'.at # "finished"
    PROVE  LockInv'
<1>1. L' = L
  BY DEF L
<1>2. LadderIsUninterrupted'
  BY <1>1 DEF LockInv, LadderIsUninterrupted
<1>3. Resumable' => OnPath(L, Alone(Restored(disk'.snap)), disk'.snap.iter, disk'.snap.restarts)
  BY DEF LockInv, Resumable
<1> QED BY <1>1, <1>2, <1>3 DEF LockInv

LEMMA FlushedFrame == Flushed => disk' = disk \/ ~Resumable'
<1> SUFFICES ASSUME Flushed, disk' # disk PROVE ~Resumable'
  OBVIOUS
<1>1. disk' = [disk EXCEPT !.snap = Garbled, !.ended = TRUE]
  BY DEF Flushed, WithRows
<1>2. CASE disk'.snap = Garbled
  BY <1>2 DEF Resumable
<1> QED BY <1>1, <1>2 DEF Resumable

LEMMA SelectedAlone ==
    ASSUME NEW l, NEW m \in MainType(l), NEW bests
    PROVE  Selected(l, m, bests) = Selected(l, Alone(m), bests)
<1> DEFINE n == Alone(m)
<1>1. /\ n.frontier = m.frontier /\ n.attempt = m.attempt /\ n.minima = m.minima /\ n.champ = m.champ
      /\ n.reheat = m.reheat
  BY DEF Alone, MainType
<1> DEFINE solvers == {r \in RestartsOf(l) : Solves(l, bests[r].prog, m.frontier)}
           rc == bests[Least(bests, IF ~Compresses(l) /\ solvers # {} THEN solvers ELSE RestartsOf(l))]
           Outcome(next) ==
             IF Compresses(l)
             THEN [next EXCEPT !.at = "rung", !.frontier = @ + 1,
                               !.champ = IF rc.sel < l.size[@] THEN rc.prog ELSE @]
             ELSE IF solvers # {}
             THEN [next EXCEPT !.at = "rung", !.frontier = @ + 1, !.champ = rc.prog, !.solved = m.frontier + 1]
             ELSE IF m.attempt < l.retries THEN Escalated(l, next, bests)
             ELSE [next EXCEPT !.at = "finished", !.champ = rc.prog]
<1>2. Selected(l, m, bests) = Outcome([m EXCEPT !.mid = NoSnap])
  BY DEF Selected
<1>3. Selected(l, n, bests) = Outcome([n EXCEPT !.mid = NoSnap])
  BY <1>1 DEF Selected
<1>4. [n EXCEPT !.mid = NoSnap] = [[m EXCEPT !.mid = NoSnap] EXCEPT !.at = "attempt"]
  BY DEF Alone, MainType
<1> DEFINE next == [m EXCEPT !.mid = NoSnap]
           moved == [next EXCEPT !.at = "attempt"]
<1>5. next.minima = moved.minima /\ next \in [at : {"rung", "attempt", "join", "finished"}, frontier : 0 .. l.rungs, attempt : 0 .. l.retries,
                  solved : Nat, reheat : Nat, champ : Programs \cup {NoProgram}, pool : Seq(Programs),
                  lib : Libraries, minima : Seq(GoodBest(l)),
                  mid : {NoSnap} \cup [iter : 0 .. l.iters, restarts : Parts(l)]]
  BY DEF MainType
<1> HIDE DEF solvers, rc, next, n
<1>6. Outcome(next) = Outcome(moved)
  <2>1. Escalated(l, next, bests) = Escalated(l, moved, bests)
    <3> DEFINE minima == next.minima \o [k \in 1 .. l.restarts |-> bests[k - 1]]
               distinct == Distinct(minima)
               lib == Mined(Range(distinct))
               pool == SubSeq(distinct, 1, IF Len(distinct) < l.pool_max THEN Len(distinct) ELSE l.pool_max)
               Up1(v) == [v EXCEPT !.at = "attempt", !.attempt = @ + 1, !.reheat = @ + 1, !.minima = minima,
                                   !.lib = lib, !.pool = pool]
    <3>1. Escalated(l, next, bests) = Up1(next)
      BY DEF Escalated
    <3>2. Escalated(l, moved, bests) = Up1(moved)
      BY <1>5 DEF Escalated
    <3> HIDE DEF minima, lib, pool
    <3>3. Up1(next) = Up1(moved)
      BY <1>5
    <3> QED BY <3>1, <3>2, <3>3
  <2> QED BY <1>5, <2>1
<1> HIDE DEF Outcome
<1> QED BY <1>2, <1>3, <1>4, <1>6 DEF n, next

\* What the properties call the undisturbed search is the climb.
LEMMA ReferenceClimbs ==
    ASSUME NEW x \in DOMAIN Ladders, NEW k \in 0 .. Heights(Ladders[x])
    PROVE  /\ DOMAIN Reference[x] = 0 .. Heights(Ladders[x])
           /\ Reference[x][k].main = Climb(Ladders[x])[k]
           /\ Climb(Ladders[x])[k].at = "attempt" =>
                Reference[x][k].restarts = LockStep(Ladders[x], Climb(Ladders[x])[k])
<1> DEFINE Of(n) == [j \in 0 .. Heights(Ladders[n]) |->
                       LET m == Climb(Ladders[n])[j]
                       IN  [main |-> m, restarts |-> IF m.at = "attempt" THEN LockStep(Ladders[n], m) ELSE << >>]]
<1>1. Reference = [n \in DOMAIN Ladders |-> Of(n)]
  BY DEF Reference
<1> HIDE DEF Of
<1>2. Reference[x] = Of(x)
  BY <1>1
<1>3. DOMAIN Of(x) = 0 .. Heights(Ladders[x])
  BY DEF Of
<1>4. Of(x)[k] = [main |-> Climb(Ladders[x])[k],
                  restarts |-> IF Climb(Ladders[x])[k].at = "attempt"
                               THEN LockStep(Ladders[x], Climb(Ladders[x])[k]) ELSE << >>]
  BY DEF Of
<1> QED BY <1>2, <1>3, <1>4

LEMMA MainLock ==
    ASSUME Inv, LockInv, Quiet, Main
    PROVE  LockInv'
<1>1. /\ L' = L /\ name' = name /\ Down.at = "down" /\ [at |-> "opened"].at = "opened"
      /\ disk \in DiskType(L) /\ \E x \in DOMAIN Ladders : L = Ladders[x]
  BY DEF Main, Open, WriteHeader, Enter, Spawn, Select, Interrupted, Finish, L, Inv, Down
<1>2. main.at \in {"rung", "attempt", "join", "finished"} => main \in MainType(L)
  BY <1>1 DEF Inv
<1>3. CASE Open
  <2>1. CASE Resumable
    <3> DEFINE s == disk.snap
               m == Restored(s)
    <3>1. main' = m /\ disk' = disk /\ UNCHANGED <<name, result>>
      BY <1>3, <2>1 DEF Open
    <3>2. s \in SnapshotType(L) /\ OnPath(L, Alone(m), s.iter, s.restarts)
      BY <1>1, <2>1 DEF LockInv, Resumable, DiskType
    <3>3. m.at = "rung" /\ m.mid = [iter |-> s.iter, restarts |-> s.restarts]
      BY DEF Restored
    <3>4. m.mid # NoSnap
      <4>1. s.iter \in 0 .. L.iters /\ s.restarts \in Parts(L) /\ L.iters \in Nat
        BY <1>1, <3>2, LadderFacts DEF SnapshotType
      <4>2. s.restarts \in [RestartsOf(L) -> SnapType]
        BY <4>1 DEF Parts, PartType, GoodBest, SnapType
      <4> HIDE DEF s, m
      <4>3. m.mid \in [iter : Nat, restarts : [RestartsOf(L) -> SnapType]]
        BY <3>3, <4>1, <4>2
      <4> QED BY <1>1, <4>3, SentinelAssumption
    <3> HIDE DEF s, m
    <3>5. m.mid.iter = s.iter /\ m.mid.restarts = s.restarts
      BY <3>3
    <3> QED BY <3>1, <3>2, <3>3, <3>4, <3>5, <1>1, MainFrame
  <2>2. CASE ~Resumable
    <3>1. main' = [at |-> "opened"] /\ disk' = NoFile /\ UNCHANGED <<name, result>>
      BY <1>3, <2>2 DEF Open
    <3>2. ~Resumable' /\ disk'.snap = NoSnap
      BY <3>1 DEF Resumable, NoFile
    <3> QED BY <1>1, <3>1, <3>2, MainFrame
  <2> QED BY <2>1, <2>2
<1>4. CASE WriteHeader
  <2>1. main' = Fresher(L) /\ UNCHANGED <<name, result>> /\ disk' = [disk EXCEPT !.header = TRUE]
    BY <1>4 DEF WriteHeader
  <2>2. Fresher(L).at = "rung" /\ Fresher(L).mid = NoSnap
    BY DEF Fresher
  <2>3. Reached(L, Fresher(L))
    <3>1. Heights(L) \in Nat
      BY <1>1, HeightsType
    <3>2. Climb(L)[0] = Fresher(L) /\ 0 \in 0 .. Heights(L)
      BY <3>1, ClimbPath
    <3> QED BY <3>2 DEF Reached
  <2>4. disk.snap = NoSnap
    BY <1>4 DEF LockInv, WriteHeader
  <2>5. disk'.snap = NoSnap
    BY <1>1, <2>1, <2>4 DEF DiskType
  <2>6. ~Resumable'
    BY <2>5 DEF Resumable
  <2> QED BY <1>1, <2>1, <2>2, <2>3, <2>6, MainFrame
<1>5. CASE Enter
  <2>1. main \in MainType(L) /\ main.at = "rung" /\ main' = Entered(L, main) /\ UNCHANGED <<name, result, disk>>
    BY <1>2, <1>5 DEF Enter, fileVars
  <2>2. CASE main.mid = NoSnap
    <3>1. Reached(L, main)
      BY <2>1, <2>2 DEF LockInv
    <3>2. Climbed(L, main) = Entered(L, main)
      BY <2>1 DEF Climbed
    <3>3. Reached(L, Entered(L, main))
      BY <1>1, <2>1, <3>1, <3>2, ClimbOnward
    <3>4. Entered(L, main).mid = NoSnap /\ Entered(L, main).at \notin {"join", "opened"}
      BY <2>1, <2>2 DEF Entered, MainType
    <3> QED BY <1>1, <2>1, <3>3, <3>4, MainFrame
  <2>3. CASE main.mid # NoSnap
    <3>1. Attempting(L, main) /\ OnPath(L, Alone(main), main.mid.iter, main.mid.restarts)
      BY <2>1, <2>3 DEF LockInv, MainType
    <3>2. Entered(L, main) = [main EXCEPT !.at = "attempt"]
      <4>1. main.frontier # L.rungs
        BY <1>1, <3>1, LadderFacts DEF Attempting
      <4> QED BY <2>1, <2>3, <3>1, <4>1 DEF Entered, Attempting, Passed
    <3>3. /\ Entered(L, main).at = "attempt" /\ Entered(L, main).mid = main.mid
          /\ Alone(Entered(L, main)) = Alone(main)
      BY <2>1, <3>2 DEF Alone, MainType
    <3> QED BY <1>1, <2>1, <2>3, <3>1, <3>3, MainFrame
  <2> QED BY <2>2, <2>3
<1>6. CASE Spawn
  <2>1. /\ main \in MainType(L) /\ main.at = "attempt" /\ main' = [main EXCEPT !.at = "join"]
        /\ th' = [r \in RestartsOf(L) |-> Begun(L, main, r)] /\ solved' = FALSE
        /\ slots' = [r \in RestartsOf(L) |-> NoSnap] /\ UNCHANGED <<name, result, disk>>
    BY <1>2, <1>6 DEF Spawn, Idle, Restarts, fileVars
  <2> DEFINE m == Alone(main)
  <2>2. main'.at = "join" /\ Alone(main') = m /\ Attempting(L, main)
    BY <2>1 DEF Alone, MainType
  <2>3. Start(L, m)
    BY <2>1, <2>2, AloneType
  <2>4. L.iters \in Nat /\ Sane(L)
    BY <1>1, LaddersSane DEF Sane
  <2>5. /\ Reached(L, m)
        /\ \A r \in RestartsOf(L) : th'[r].i \in 0 .. L.iters /\ Running(L, m, th'[r].i)
                                    /\ th'[r] = LockStep(L, m)[th'[r].i][r]
    <3>1. CASE main.mid = NoSnap
      <4>1. m = main
        BY <2>1, <3>1 DEF Alone, MainType
      <4>2. Reached(L, m)
        BY <2>1, <3>1, <4>1 DEF LockInv
      <4>3. LockStep(L, m)[0] = [r \in RestartsOf(L) |-> Begun(L, m, r)]
        BY <2>4, LockStepPath
      <4>4. ASSUME NEW r \in RestartsOf(L) PROVE Begun(L, m, r).i = 0
        <5>1. Begun(L, main, r).i = 0
          BY ZenonT(40), <1>1, <2>1, <2>2, <3>1, BegunType
        <5> QED BY <4>1, <5>1
      <4>5. Running(L, m, 0)
        BY <4>3, <4>4 DEF Running
      <4> HIDE DEF m
      <4>6. \A r \in RestartsOf(L) : th'[r] = LockStep(L, m)[0][r] /\ th'[r].i = 0
        BY <2>1, <4>1, <4>3, <4>4
      <4> QED BY <2>4, <4>2, <4>5, <4>6
    <3>2. CASE main.mid # NoSnap
      <4> DEFINE i == main.mid.iter
      <4>1. OnPath(L, m, i, main.mid.restarts)
        BY <2>1, <3>2 DEF LockInv
      <4>2. i \in 0 .. L.iters
        BY <2>1, <3>2 DEF MainType
      <4> HIDE DEF m, i
      <4>3. ASSUME NEW r \in RestartsOf(L) PROVE th'[r] = LockStep(L, m)[i][r] /\ th'[r].i = i
        <5> DEFINE p == LockStep(L, m)[i][r]
        <5>1. th'[r] = Restart(i, main.mid.restarts[r].rng, main.mid.restarts[r].cur, main.mid.restarts[r].best)
          BY <2>1, <3>2 DEF Begun, i
        <5>2. main.mid.restarts[r] = PartOf(p)
          BY <4>1 DEF OnPath
        <5>3. TopAt(L, p, i)
          BY <1>1, <2>3, <4>1, <4>2, Follows DEF OnPath
        <5> HIDE DEF p
        <5>4. th'[r] = Restart(i, p.rng, p.cur, p.best)
          BY <5>1, <5>2 DEF PartOf
        <5>5. p = Restart(i, p.rng, p.cur, p.best)
          BY <5>3 DEF TopAt, AtTop, RestartType, Restart
        <5>6. th'[r] = p /\ p.i = i
          BY <5>3, <5>4, <5>5 DEF TopAt
        <5> QED BY <5>6 DEF p
      <4>4. Reached(L, m) /\ Running(L, m, i)
        BY <4>1 DEF OnPath
      <4> QED BY <4>2, <4>3, <4>4
    <3> QED BY <3>1, <3>2
  <2> HIDE DEF m
  <2>6. ASSUME NEW r \in RestartsOf(L) PROVE Traced(L, m, th'[r], r, FALSE) /\ th'[r].pc = "top"
    <3>1. th'[r].pc = "top"
      BY <1>1, <2>1, <2>2, BegunType
    <3> QED BY <2>5, <3>1 DEF Traced, Heard, Announces, Looked, AtCheckpoint
  <2>7. InLockStep(L, m, th', solved', slots')
    <3>1. 0 \in RestartsOf(L)
      BY <2>4 DEF Sane
    <3> QED BY <2>1, <2>6, <3>1 DEF InLockStep, Announced, Deposited
  <2>8. LadderIsUninterrupted' /\ (Resumable' => OnPath(L, Alone(Restored(disk'.snap)), disk'.snap.iter, disk'.snap.restarts))
    BY <1>1, <2>1 DEF LockInv, LadderIsUninterrupted, Resumable
  <2> QED BY <1>1, <2>2, <2>5, <2>7, <2>8 DEF LockInv, m
<1>7. CASE Select
  <2>1. main.at = "join" /\ ~stop /\ \A s \in Restarts : th[s].pc = "ended"
    BY <1>7 DEF Select, AllEnded
  <2>2. /\ main \in MainType(L) /\ Sane(L) /\ Threads(L, th, solved, latch, slots) /\ (latch => stop)
        /\ th \in [Restarts -> RestartType(L)] /\ Restarts = RestartsOf(L)
    BY <2>1, Joining
  <2> DEFINE m == Alone(main)
             bests == [r \in RestartsOf(L) |-> th[r].best]
             ends == [r \in RestartsOf(L) |-> Sampled(L, m, LockStep(L, m)[L.iters][r]).best]
  <2>3. Start(L, m) /\ InLockStep(L, m, th, solved, slots) /\ Reached(L, m) /\ m.at = "attempt"
    BY <2>1, <2>2, AloneType DEF LockInv, MainType
  <2>4. bests = ends
    <3> HIDE DEF m
    <3> QED BY <1>1, <2>1, <2>2, <2>3, EndedBests
  <2>5. main' = Selected(L, main, bests) /\ UNCHANGED <<name, result, disk>>
    BY <1>7, <2>2 DEF Select
  <2> HIDE DEF bests
  <2>6. Selected(L, main, bests) = Selected(L, m, bests)
    BY <2>2, SelectedAlone
  <2>7. Climbed(L, m) = Selected(L, m, ends)
    BY <2>3 DEF Climbed
  <2> HIDE DEF m, ends
  <2>8. main' = Climbed(L, m)
    BY <2>4, <2>5, <2>6, <2>7
  <2>9. Reached(L, main')
    BY <1>1, <2>3, <2>8, ClimbOnward
  <2>10. main'.mid = NoSnap /\ main'.at \notin {"join", "opened"}
    <3>1. PICK n \in 0 .. Heights(L) : Climb(L)[n] = main'
      BY <2>9 DEF Reached
    <3> QED BY <1>1, <3>1, ClimbType DEF OnClimb
  <2> QED BY <2>5, <2>9, <2>10, MainFrame
<1>8. CASE Interrupted
  <2>1. main' = Down /\ Flushed /\ UNCHANGED <<name, result>>
    BY <1>8 DEF Interrupted
  <2> QED BY <1>1, <2>1, FlushedFrame, MainFrame
<1>9. CASE Finish
  <2>1. /\ main.at = "finished" /\ main \in MainType(L) /\ main' = Down /\ Flushed
        /\ result' = [champ |-> main.champ, solved |-> main.solved]
    BY <1>2, <1>9 DEF Finish
  <2>2. Reached(L, main)
    BY <2>1 DEF LockInv
  <2>3. Climb(L)[Heights(L)] = main
    BY <1>1, <2>1, <2>2, ClimbEnd
  <2>4. LadderIsUninterrupted'
    <3>1. Reference[name][Heights(L)].main = main
      <4>1. name \in DOMAIN Ladders /\ L = Ladders[name]
        BY DEF Inv, L
      <4>2. Heights(L) \in 0 .. Heights(L)
        BY <4>1, HeightsType
      <4>3. Reference[name][Heights(L)].main = Climb(L)[Heights(L)]
        BY <4>1, <4>2, ReferenceClimbs
      <4> QED BY <2>3, <4>3
    <3> QED BY <1>1, <2>1, <3>1 DEF LadderIsUninterrupted
  <2>5. Resumable' => OnPath(L, Alone(Restored(disk'.snap)), disk'.snap.iter, disk'.snap.restarts)
    BY <2>1, FlushedFrame DEF LockInv, Resumable
  <2> QED BY <1>1, <2>1, <2>4, <2>5 DEF LockInv
<1> QED BY <1>3, <1>4, <1>5, <1>6, <1>7, <1>8, <1>9 DEF Main

LEMMA FaultLock ==
    ASSUME Inv, LockInv, Quiet, CtrlC \/ Kill \/ KillAmidSnapshot
    PROVE  LockInv'
<1>1. L' = L /\ name' = name /\ result' = result
  BY DEF CtrlC, Kill, KillAmidSnapshot, Dies, L, fileVars
<1>2. Down.at = "down" /\ disk \in DiskType(L)
  BY DEF Inv, Down
<1>3. CASE CtrlC
  BY <1>1, <1>3 DEF CtrlC, restartVars, fileVars, LockInv, LadderIsUninterrupted, Resumable
<1>4. CASE Kill
  <2>1. main' = Down /\ (disk' = disk \/ disk' = [disk EXCEPT !.snap = Garbled, !.ended = TRUE])
    BY <1>4 DEF Kill, Dies, WithRows
  <2>2. disk' = disk \/ disk'.snap = Garbled
    BY <1>2, <2>1 DEF DiskType
  <2>3. disk' = disk \/ ~Resumable'
    BY <2>2 DEF Resumable
  <2> QED BY <1>1, <1>2, <2>1, <2>3, MainFrame
<1>5. CASE KillAmidSnapshot
  <2>1. main' = Down /\ main.at = "join" /\ th[0].pc = "gather"
    BY <1>5 DEF KillAmidSnapshot, Dies, Is
  <2>2. disk'.snap = Snapshot(th[0].i, slots) \/ disk'.snap = Garbled
    BY <1>1, <1>5 DEF KillAmidSnapshot, DiskType
  <2>3. 0 \in Restarts
    BY <2>1, Joining DEF Sane
  <2>4. /\ InLockStep(L, Alone(main), th, solved, slots) /\ Traced(L, Alone(main), th[0], 0, solved)
        /\ main \in MainType(L)
    BY <2>1, <2>3, Stepping
  <2>5. OnPath(L, Alone(main), th[0].i, slots)
    BY <2>1, <2>4 DEF OnPath, LockInv, InLockStep, Deposited, Traced
  <2>6. Resumable' => OnPath(L, Alone(Restored(disk'.snap)), disk'.snap.iter, disk'.snap.restarts)
    BY <2>2, <2>4, <2>5, SnapshotResumes DEF Resumable
  <2> QED BY <1>1, <1>2, <2>1, <2>6 DEF LockInv, LadderIsUninterrupted
<1> QED BY <1>3, <1>4, <1>5

LEMMA InitLock == Init => LockInv
  BY DEF Init, LockInv, Down, NoFile, Resumable, LadderIsUninterrupted

LEMMA NextLock == Inv /\ LockInv /\ Quiet /\ [Next]_vars => LockInv'
<1> SUFFICES ASSUME Inv, LockInv, Quiet, [Next]_vars PROVE LockInv'
  OBVIOUS
<1>1. CASE UNCHANGED vars
  BY <1>1 DEF vars, restartVars, fileVars, LockInv, L, LadderIsUninterrupted, Resumable
<1>2. CASE \E r \in Restarts : Step(r)
  BY <1>2, StepLock
<1> QED BY <1>1, <1>2, MainLock, FaultLock DEF Next, Over

-----------------------------------------------------------------------------
(***************************************************************************)
(* The theorems.                                                           *)
(***************************************************************************)
LEMMA LockStepSnapshots ==
    ASSUME Inv, LockInv PROVE SnapshotsAreLockStep
<1> DEFINE Holds(k) ==
             LET m == Reference[name][k].main s == disk.snap IN
             /\ m.at = "attempt"
             /\ [m EXCEPT !.mid = [iter |-> s.iter, restarts |-> s.restarts], !.at = "rung"] = Restored(s)
             /\ \A r \in Restarts :
                 LET t == Reference[name][k].restarts[s.iter][r]
                 IN  t.i = s.iter /\ s.restarts[r] = [rng |-> t.rng, cur |-> t.cur, best |-> t.best]
<1> SUFFICES ASSUME Resumable PROVE \E k \in DOMAIN Reference[name] : Holds(k)
  BY DEF SnapshotsAreLockStep
<1> HIDE DEF Holds
<1> DEFINE s == disk.snap
           v == Restored(s)
           m == Alone(v)
           mid == [iter |-> s.iter, restarts |-> s.restarts]
           back == [m EXCEPT !.mid = mid, !.at = "rung"]
<1>1. name \in DOMAIN Ladders /\ L = Ladders[name] /\ Restarts = RestartsOf(L)
  BY DEF Inv, L, Restarts
<1>2. s \in SnapshotType(L) /\ OnPath(L, m, s.iter, s.restarts)
  BY DEF Inv, LockInv, Resumable, DiskType
<1>3. PICK n \in 0 .. Heights(L) : Climb(L)[n] = m
  BY <1>2 DEF OnPath, Reached
<1> HIDE DEF s
<1>4. /\ v.at = "rung" /\ v.frontier = s.frontier /\ v.attempt = s.attempt /\ v.champ = s.champ
      /\ v.solved = s.solved /\ v.reheat = s.reheat /\ v.pool = s.pool /\ v.lib = s.lib
      /\ v.minima = s.minima /\ v.mid = mid
  BY DEF Restored
<1>5. v \in MainRecord(L)
  BY <1>2 DEF MainRecord, SnapshotType, Restored
<1> HIDE DEF v, mid
<1>6. m.at = "attempt" /\ m \in MainRecord(L)
  BY <1>5 DEF Alone, MainRecord
<1>7. /\ back.frontier = v.frontier /\ back.attempt = v.attempt /\ back.champ = v.champ
      /\ back.solved = v.solved /\ back.reheat = v.reheat /\ back.pool = v.pool /\ back.lib = v.lib
      /\ back.minima = v.minima /\ back.at = "rung" /\ back.mid = mid /\ back \in MainRecord(L)
  BY <1>4, <1>5 DEF Alone, MainRecord
<1>8. back = v
  <2> HIDE DEF back
  <2> QED BY <1>4, <1>5, <1>7, SameMain
<1>9. Start(L, m)
  <2>1. OnClimb(L, m, n)
    BY <1>1, <1>3, ClimbType
  <2> QED BY <1>6, <2>1 DEF OnClimb, Start, MainType
<1> HIDE DEF back, m
<1>10. /\ n \in DOMAIN Reference[name] /\ Reference[name][n].main = m
       /\ Reference[name][n].restarts = LockStep(L, m)
  BY <1>1, <1>3, <1>6, ReferenceClimbs
<1>11. ASSUME NEW r \in Restarts
       PROVE  /\ LockStep(L, m)[s.iter][r].i = s.iter
              /\ s.restarts[r] = PartOf(LockStep(L, m)[s.iter][r])
  BY <1>1, <1>2, <1>11 DEF OnPath, Running
<1>12. [m EXCEPT !.mid = [iter |-> s.iter, restarts |-> s.restarts], !.at = "rung"] = Restored(s)
  BY <1>8 DEF back, mid, v
<1>13. Holds(n)
  BY <1>6, <1>10, <1>11, <1>12 DEF Holds, PartOf, s
<1> QED BY <1>10, <1>13

KilledInv == Inv /\ LockInv /\ ~stop

LEMMA KilledInvariant == KilledSpec => []KilledInv
<1>1. Init => KilledInv
  BY InitInv, InitLock DEF Init, KilledInv
<1>2. KilledInv /\ [Next /\ ~CtrlC]_vars => KilledInv'
  <2> SUFFICES ASSUME KilledInv, [Next /\ ~CtrlC]_vars PROVE KilledInv'
    OBVIOUS
  <2>1. [Next]_vars
    OBVIOUS
  <2>2. ~stop'
    BY DEF KilledInv, vars, Next, Main, Open, WriteHeader, Enter, Spawn, Select, Interrupted, Finish,
           Kill, KillAmidSnapshot, Dies, Over, Still, Step, Block, Latch, LookDone, LookStop, Deposit,
           Gather, Decide, Move, End
  <2> QED BY <2>1, <2>2, NextInv, NextLock DEF KilledInv, Quiet, Calm
<1> QED BY <1>1, <1>2, PTL DEF KilledSpec

\* A search that is killed any number of times, at any moment, and started again,
\* but never asked to stop: every snapshot it can resume from is a state of the
\* undisturbed search, with every restart at the same iteration.
THEOREM KilledSnapshotsAreLockStep == KilledSpec => []SnapshotsAreLockStep
<1>1. KilledInv => SnapshotsAreLockStep
  BY LockStepSnapshots DEF KilledInv
<1> QED BY <1>1, KilledInvariant, PTL

\* What such a search finds in the end is what the undisturbed search finds.
THEOREM KilledIsUninterrupted == KilledSpec => []LadderIsUninterrupted
<1>1. KilledInv => LadderIsUninterrupted
  BY DEF KilledInv, LockInv
<1> QED BY <1>1, KilledInvariant, PTL

PacedInv == Inv /\ (Paced(L) => LockInv)

LEMMA PacedInvariant == Spec => []PacedInv
<1>1. Init => PacedInv
  BY InitInv, InitLock DEF PacedInv
<1>2. PacedInv /\ [Next]_vars => PacedInv'
  <2> SUFFICES ASSUME PacedInv, [Next]_vars PROVE PacedInv'
    OBVIOUS
  <2>1. L' = L
    BY DEF L, vars, Next, Main, Open, WriteHeader, Enter, Spawn, Select, Interrupted, Finish, CtrlC,
           Kill, KillAmidSnapshot, Dies, Over, Still, Step, Block, Latch, LookDone, LookStop, Deposit,
           Gather, Decide, Move, End
  <2>2. Paced(L) => LockInv'
    BY NextLock DEF PacedInv, Quiet, Calm
  <2> QED BY <2>1, <2>2, NextInv DEF PacedInv
<1> QED BY <1>1, <1>2, PTL DEF Spec

\* A search with one restart, or no checkpoint between its snapshots, may be asked
\* to stop as well: its snapshots are states of the undisturbed search too.
THEOREM PacedSnapshotsAreLockStep == Spec => [](Paced(L) => SnapshotsAreLockStep)
<1>1. PacedInv => (Paced(L) => SnapshotsAreLockStep)
  BY LockStepSnapshots DEF PacedInv
<1> QED BY <1>1, PacedInvariant, PTL

\* And so is its result, whenever it was stopped or killed.
THEOREM PacedIsUninterrupted == Spec => [](Paced(L) => LadderIsUninterrupted)
<1>1. PacedInv => (Paced(L) => LadderIsUninterrupted)
  BY DEF PacedInv, LockInv
<1> QED BY <1>1, PacedInvariant, PTL
=============================================================================
