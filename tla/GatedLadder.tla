---------------------------- MODULE GatedLadder ----------------------------
(***************************************************************************)
(* The resumable annealing searches: synthesize_curriculum_gated (a ladder *)
(* of rungs, each retried on a stall) and synthesize_compress (cycles that *)
(* shrink a certified program), under `superopt ladder` and `compress`.    *)
(*                                                                         *)
(*  - The main thread enters a rung, spawns one thread per restart, joins  *)
(*    them, and selects: the champion climbs, or the rung is retried with  *)
(*    what the failed attempts left behind.                                *)
(*  - A restart anneals.  Every `step` iterations all of them meet at a    *)
(*    barrier, to agree on stopping early (one has solved the rung) or on  *)
(*    request (Ctrl-C, sampled by restart 0), and at every `beat`-th such  *)
(*    checkpoint to deposit the parts of a snapshot of the whole search.   *)
(*  - The trace takes rows through a buffer and snapshots through a flush. *)
(*    A search that is started again continues at the last snapshot.       *)
(*                                                                         *)
(* Randomness is a generator with a state; what it decides is given by the *)
(* operators below, and temperatures by what they depend on.  A panic of a *)
(* restart is left out.                                                    *)
(***************************************************************************)
EXTENDS Integers, FiniteSets, SequencesExt, TLC

CONSTANTS Ladders,          \* the searches, by name
          Programs,
          Generators,       \* the states of the random generator
          Libraries,        \* sets of idioms
          Mutated(_, _, _), \* mutate_lib: a program, a library, a generator
          Lucky(_, _, _),   \* is a worse candidate taken?  generator, loss, heat
          Fresh(_),         \* random_program
          Seed(_, _, _),    \* the generator of a rung, an attempt, a restart
          Draw(_),          \* a generator after one draw
          Structure(_),     \* structure_key
          Mined(_),         \* mine_macros: the idioms of a set of programs
          NoProgram, NoSnap, Garbled,
          MaxFaults         \* bound: kills and Ctrl-C

ASSUME LadderAssumption ==
    /\ MaxFaults \in Nat
    /\ IsFiniteSet(Programs)
    /\ NoProgram \notin Programs
    /\ \A n \in DOMAIN Ladders :
        LET l == Ladders[n] IN
        /\ {l.groups, l.rungs, l.iters, l.pool_max, l.w, l.anchor, l.handoff} \subseteq Nat
        /\ l.mode # "compress" => l.rungs <= l.groups
        /\ l.restarts \in Nat \ {0}
        /\ l.step \in Nat \ {0}    \* rung_iters / 256, at least 1
        /\ l.beat \in Nat \ {0}    \* 32
        /\ l.retries \in Nat       \* 2
        /\ l.size \in [Programs -> Nat]
        /\ \A p \in Programs, g \in 1 .. l.groups : l.err[p][g] \in Nat
        \* assert!(certify(&champ)): what compression starts from is certified
        /\ l.mode = "compress" => l.start \in Programs /\ l.certified[l.start]

\* What the moves and the generator yield.
ASSUME MoveAssumption ==
    /\ {} \in Libraries
    /\ \A progs \in SUBSET Programs : Mined(progs) \in Libraries
    /\ \A rng \in Generators :
        /\ Draw(rng) \in Generators
        /\ Fresh(rng) \in Programs
        /\ \A p \in Programs, lib \in Libraries : Mutated(p, lib, rng) \in Programs
    /\ \A n \in DOMAIN Ladders :
        \A g \in 0 .. Ladders[n].rungs, a \in 0 .. Ladders[n].retries, r \in 0 .. Ladders[n].restarts - 1 :
            Seed(g, a, r) \in Generators

VARIABLES
    name,    \* which search this is
    main,    \* the main thread: where it is, and the state of the rung
    th,      \* the restarts
    solved,  \* solved_flag: has one of them solved the rung?
    latch,   \* stop_latch: what restart 0 last saw of the stop flag
    slots,   \* snap_slots: the parts of a snapshot
    stop,    \* STOP, set by the first Ctrl-C
    disk,    \* the trace on disk
    rows,    \* are there rows in the buffer of the sink?
    result,  \* the result file
    faults

restartVars == <<th, solved, latch, slots>>
fileVars == <<disk, rows, result>>
vars == <<name, main, restartVars, stop, fileVars, faults>>

Compresses(l) == l.mode = "compress"
RestartsOf(l) == 0 .. l.restarts - 1

-----------------------------------------------------------------------------
(***************************************************************************)
(* What programs cost, on rung m.frontier.                                 *)
(***************************************************************************)
Err(l, p, g) == l.err[p][g + 1]
Solves(l, p, g) == Err(l, p, g) = 0
\* Over the first n groups.
Errs(l, p, n) == LET sum[k \in 0 .. n] == IF k = 0 THEN 0 ELSE sum[k - 1] + Err(l, p, k - 1) IN sum[n]

\* The metric that ranks: every active group and one beyond.
Sel(l, m, p) ==
    IF Compresses(l) THEN l.size[p]
    ELSE l.w * Errs(l, p, IF m.frontier + 2 < l.groups THEN m.frontier + 2 ELSE l.groups) + l.size[p]

\* The metric that is annealed, times `handoff`: the weights of the last
\* checkpoint, where the frontier of a promoted rung is still being eased in.
Ramp(l, m, i) == IF m.champ = NoProgram \/ i > l.handoff THEN l.handoff ELSE i
Weighted(l, m, p, i) ==
    LET held == IF Compresses(l) THEN Errs(l, p, l.groups) ELSE l.anchor * Errs(l, p, m.frontier)
        front == IF Compresses(l) THEN 0 ELSE Ramp(l, m, i) * Err(l, p, m.frontier)
    IN  l.w * (l.handoff * held + front) + l.handoff * l.size[p]

\* Temperatures depend on the kind of rung, its reheat, and the iteration.
Heat(m, i) == <<m.champ = NoProgram, m.reheat, i>>

Scored(l, m, p) == [prog |-> p, sel |-> Sel(l, m, p)]
\* Mutant: the gate of compression is forgotten.
Better_Loose(l, m, p, best) == Sel(l, m, p) < best.sel
Better(l, m, p, best) == Sel(l, m, p) < best.sel /\ (Compresses(l) => l.certified[p])

-----------------------------------------------------------------------------
(***************************************************************************)
(* A restart.                                                              *)
(***************************************************************************)
\* On a retry odd restarts start from a random program, the others fan out
\* over the pool of earlier minima.
WarmStart(l, m, r) ==
    IF m.pool = << >> \/ (m.attempt > 0 /\ r % 2 = 1) THEN NoProgram
    ELSE m.pool[((r \div 2) % Len(m.pool)) + 1]

Restart(i, rng, cur, best) ==
    [pc |-> "top", i |-> i, rng |-> rng, cur |-> cur, best |-> best,
     stash |-> NoSnap, done |-> FALSE, stopping |-> FALSE]

\* Mutant: the generator of a resumed restart is advanced by its set-up.
Begun_Redrawn(l, m, r) ==
    LET seed == Seed(m.frontier, m.attempt, r)
        warm == WarmStart(l, m, r)
        drawn == Fresh(seed)
    IN  IF m.mid # NoSnap
        THEN Restart(m.mid.iter, Draw(m.mid.restarts[r].rng), m.mid.restarts[r].cur, m.mid.restarts[r].best)
        ELSE IF warm = NoProgram
        THEN Restart(0, Draw(seed), drawn, Scored(l, m, drawn))
        ELSE Restart(0, seed, warm, Scored(l, m, warm))

Begun(l, m, r) ==
    LET seed == Seed(m.frontier, m.attempt, r)
        warm == WarmStart(l, m, r)
        drawn == Fresh(seed)
    IN  IF m.mid # NoSnap
        THEN Restart(m.mid.iter, m.mid.restarts[r].rng, m.mid.restarts[r].cur, m.mid.restarts[r].best)
        ELSE IF warm = NoProgram
        THEN Restart(0, Draw(seed), drawn, Scored(l, m, drawn))
        ELSE Restart(0, seed, warm, Scored(l, m, warm))

\* The ladder looks at its current program at checkpoints and at the end.
Sampled(l, m, t) ==
    IF ~Compresses(l) /\ Better(l, m, t.cur, t.best)
    THEN [t EXCEPT !.best = Scored(l, m, t.cur)] ELSE t

\* One candidate: accepted if it costs no more, or by luck, and kept as the
\* best if its cost says it may have no errors.
Moved(l, m, t) ==
    LET cand == Mutated(t.cur, m.lib, t.rng)
        at == t.i - (t.i % l.step)
        cost == Weighted(l, m, cand, at)
        loss == cost - Weighted(l, m, t.cur, at)
        drawn == Draw(t.rng)
        accepted == loss <= 0 \/ Lucky(drawn, loss, Heat(m, t.i))
        kept == accepted /\ cost < l.w * l.handoff /\ Better(l, m, cand, t.best)
    IN  [t EXCEPT !.pc = "top", !.i = @ + 1,
                  !.rng = IF loss <= 0 THEN drawn ELSE Draw(drawn),
                  !.cur = IF accepted THEN cand ELSE @,
                  !.best = IF kept THEN Scored(l, m, cand) ELSE @]

IsCheckpoint(l, i) == i < l.iters /\ i % l.step = 0
IsBeat(l, i) == (i \div l.step) % l.beat = 0

-----------------------------------------------------------------------------
(***************************************************************************)
(* The main thread.                                                        *)
(***************************************************************************)
Fresher(l) == [at |-> "rung", frontier |-> 0, attempt |-> 0, solved |-> 0, reheat |-> 0,
            champ |-> IF Compresses(l) THEN l.start ELSE NoProgram,
            pool |-> << >>, lib |-> {}, minima |-> << >>, mid |-> NoSnap]

\* A new rung forgets what the last one collected; a resumed one has it from
\* its snapshot; a rung the champion already solves is passed at once.
Entered(l, m) ==
    IF m.frontier = l.rungs THEN [m EXCEPT !.at = "finished"]
    ELSE IF ~Compresses(l) /\ m.champ # NoProgram /\ Solves(l, m.champ, m.frontier)
    THEN [m EXCEPT !.frontier = @ + 1, !.solved = m.frontier + 1]
    ELSE IF m.mid # NoSnap THEN [m EXCEPT !.at = "attempt"]
    ELSE [m EXCEPT !.at = "attempt", !.attempt = 0, !.reheat = 0, !.lib = {}, !.minima = << >>,
                   !.pool = IF m.champ = NoProgram THEN << >> ELSE <<m.champ>>]

\* The first of the smallest.
Least(bests, among) ==
    CHOOSE r \in among : \A s \in among :
        bests[r].sel < bests[s].sel \/ (bests[r].sel = bests[s].sel /\ r <= s)

Ahead(minima, a, b) ==
    minima[a].sel < minima[b].sel \/ (minima[a].sel = minima[b].sel /\ a < b)

\* One program per structure, the best first.
Distinct(minima) ==
    LET first == {a \in DOMAIN minima : \A b \in DOMAIN minima :
                    Ahead(minima, b, a) => Structure(minima[b].prog) # Structure(minima[a].prog)}
        place(k) == CHOOSE a \in first : Cardinality({b \in first : Ahead(minima, b, a)}) = k - 1
    IN  [k \in 1 .. Cardinality(first) |-> minima[place(k)].prog]

\* A failed attempt: everything found so far becomes the next one's pool and
\* its library of idioms.
Escalated(l, m, bests) ==
    LET minima == m.minima \o [k \in 1 .. l.restarts |-> bests[k - 1]]
        distinct == Distinct(minima)
    IN  [m EXCEPT !.at = "attempt", !.attempt = @ + 1, !.reheat = @ + 1, !.minima = minima,
                  !.lib = Mined(Range(distinct)), !.pool = SubSeq(distinct, 1, IF Len(distinct) < l.pool_max THEN Len(distinct) ELSE l.pool_max)]

Selected(l, m, bests) ==
    LET solvers == {r \in RestartsOf(l) : Solves(l, bests[r].prog, m.frontier)}
        rc == bests[Least(bests, IF ~Compresses(l) /\ solvers # {} THEN solvers ELSE RestartsOf(l))]
        next == [m EXCEPT !.mid = NoSnap]
    IN  IF Compresses(l)
        THEN [next EXCEPT !.at = "rung", !.frontier = @ + 1,
                          !.champ = IF rc.sel < l.size[@] THEN rc.prog ELSE @]
        ELSE IF solvers # {}
        THEN [next EXCEPT !.at = "rung", !.frontier = @ + 1, !.champ = rc.prog, !.solved = m.frontier + 1]
        ELSE IF m.attempt < l.retries THEN Escalated(l, next, bests)
        ELSE [next EXCEPT !.at = "finished", !.champ = rc.prog]

L == Ladders[name]
Restarts == RestartsOf(L)
SnapOf(t) == [rng |-> t.rng, cur |-> t.cur, best |-> t.stash]

\* A snapshot has the state of the rung and of every restart.
Snapshot(iter, parts) ==
    [frontier |-> main.frontier, attempt |-> main.attempt, champ |-> main.champ, solved |-> main.solved,
     reheat |-> main.reheat, pool |-> main.pool, lib |-> main.lib, minima |-> main.minima,
     iter |-> iter, restarts |-> parts]

\* Mutant: the pool of a retried rung is not restored.
Restored_NoPool(s) ==
    [at |-> "rung", frontier |-> s.frontier, attempt |-> s.attempt, champ |-> s.champ, solved |-> s.solved,
     reheat |-> s.reheat, pool |-> << >>, lib |-> s.lib, minima |-> s.minima,
     mid |-> [iter |-> s.iter, restarts |-> s.restarts]]
Restored(s) ==
    [at |-> "rung", frontier |-> s.frontier, attempt |-> s.attempt, champ |-> s.champ, solved |-> s.solved,
     reheat |-> s.reheat, pool |-> s.pool, lib |-> s.lib, minima |-> s.minima,
     mid |-> [iter |-> s.iter, restarts |-> s.restarts]]

Down == [at |-> "down"]
Up == main.at \in {"opened", "rung", "attempt", "join", "finished"}

-----------------------------------------------------------------------------
(***************************************************************************)
(* The trace.  `snap` is its last snapshot line, `ended` says whether that *)
(* line has its newline: if not, the next row completes it to garbage.     *)
(***************************************************************************)
NoFile == [header |-> FALSE, snap |-> NoSnap, ended |-> TRUE]
WithRows(d) == IF d.ended THEN d ELSE [d EXCEPT !.snap = Garbled, !.ended = TRUE]
Flushed == disk' = (IF rows THEN WithRows(disk) ELSE disk) /\ rows' = FALSE
Resumable == disk.header /\ disk.snap \notin {NoSnap, Garbled}

(***************************************************************************)
(* The barrier: the last to arrive releases everybody, wherever they wait. *)
(***************************************************************************)
Waits == {"wait_block", "wait_deposit", "wait_emit"}
Released(t) ==
    CASE t.pc = "wait_block" -> [t EXCEPT !.pc = "look"]
      [] t.pc = "wait_deposit" -> [t EXCEPT !.pc = "gather"]
      [] t.pc = "wait_emit" -> [t EXCEPT !.pc = "decide"]
Arrive(r, t) ==
    LET arrived == [th EXCEPT ![r] = t]
    IN  th' = IF \A s \in Restarts : arrived[s].pc \in Waits
              THEN [s \in Restarts |-> Released(arrived[s])] ELSE arrived

Is(r, pc) == main.at = "join" /\ th[r].pc = pc
Still == UNCHANGED <<name, main, stop, result, faults>>

\* Mutant: nothing is stashed.
Block_NoStash(r) ==
    /\ Is(r, "top") /\ IsCheckpoint(L, th[r].i)
    /\ LET t == Sampled(L, main, th[r]) IN
        /\ solved' = (solved \/ (~Compresses(L) /\ Solves(L, t.best.prog, main.frontier)))
        /\ IF r = 0 THEN th' = [th EXCEPT ![r] = [t EXCEPT !.pc = "latch"]]
                    ELSE Arrive(r, [t EXCEPT !.pc = "wait_block"])
    /\ rows' = TRUE
    /\ UNCHANGED <<latch, slots, disk>> /\ Still

\* The top of the loop, at a checkpoint: the state is stashed, the best brought
\* up to date, and a solved rung announced.
Block(r) ==
    /\ Is(r, "top") /\ IsCheckpoint(L, th[r].i)
    /\ LET t == [Sampled(L, main, th[r]) EXCEPT !.stash = th[r].best] IN
        /\ solved' = (solved \/ (~Compresses(L) /\ Solves(L, t.best.prog, main.frontier)))
        /\ IF r = 0 THEN th' = [th EXCEPT ![r] = [t EXCEPT !.pc = "latch"]]
                    ELSE Arrive(r, [t EXCEPT !.pc = "wait_block"])
    /\ rows' = TRUE
    /\ UNCHANGED <<latch, slots, disk>> /\ Still

\* Restart 0 alone samples the stop flag.
Latch(r) ==
    /\ Is(r, "latch")
    /\ latch' = stop
    /\ Arrive(r, [th[r] EXCEPT !.pc = "wait_block"])
    /\ UNCHANGED <<solved, slots, disk, rows>> /\ Still

\* Behind the barrier, each reads one flag and then the other.
LookDone(r) ==
    /\ Is(r, "look")
    /\ th' = [th EXCEPT ![r].pc = "look_stop", ![r].done = solved]
    /\ UNCHANGED <<solved, latch, slots, disk, rows>> /\ Still

\* Mutant: each restart reads the stop flag itself.
LookStop_Direct(r) ==
    /\ Is(r, "look_stop")
    /\ th' = [th EXCEPT ![r].pc = IF stop \/ IsBeat(L, th[r].i) THEN "deposit" ELSE "decide",
                        ![r].stopping = stop]
    /\ UNCHANGED <<solved, latch, slots, disk, rows>> /\ Still
LookStop(r) ==
    /\ Is(r, "look_stop")
    /\ th' = [th EXCEPT ![r].pc = IF latch \/ IsBeat(L, th[r].i) THEN "deposit" ELSE "decide",
                        ![r].stopping = latch]
    /\ UNCHANGED <<solved, latch, slots, disk, rows>> /\ Still

Deposit(r) ==
    /\ Is(r, "deposit")
    /\ slots' = [slots EXCEPT ![r] = SnapOf(th[r])]
    /\ Arrive(r, [th[r] EXCEPT !.pc = "wait_deposit"])
    /\ UNCHANGED <<solved, latch, disk, rows>> /\ Still

\* Mutant: the wait for the snapshot is inside the branch of restart 0.
Gather_OthersGoOn(r) ==
    /\ Is(r, "gather")
    /\ IF r = 0
       THEN /\ disk' = [disk EXCEPT !.snap = Snapshot(th[r].i, slots), !.ended = TRUE]
            /\ rows' = FALSE
            /\ slots' = [s \in Restarts |-> NoSnap]
            /\ Arrive(r, [th[r] EXCEPT !.pc = "wait_emit"])
       ELSE /\ th' = [th EXCEPT ![r].pc = "decide"]
            /\ UNCHANGED <<disk, rows, slots>>
    /\ UNCHANGED <<solved, latch>> /\ Still

\* When all have deposited, restart 0 writes the snapshot and flushes.
Gather(r) ==
    /\ Is(r, "gather")
    /\ IF r = 0
       THEN /\ disk' = [disk EXCEPT !.snap = Snapshot(th[r].i, slots), !.ended = TRUE]
            /\ rows' = FALSE
            /\ slots' = [s \in Restarts |-> NoSnap]
       ELSE UNCHANGED <<disk, rows, slots>>
    /\ Arrive(r, [th[r] EXCEPT !.pc = "wait_emit"])
    /\ UNCHANGED <<solved, latch>> /\ Still

Decide(r) ==
    /\ Is(r, "decide")
    /\ th' = [th EXCEPT ![r].pc = IF th[r].done \/ th[r].stopping THEN "end" ELSE "move",
                        ![r].stash = NoSnap, ![r].done = FALSE, ![r].stopping = FALSE]
    /\ UNCHANGED <<solved, latch, slots, disk, rows>> /\ Still

Move(r) ==
    /\ \/ Is(r, "move")
       \/ Is(r, "top") /\ th[r].i < L.iters /\ ~IsCheckpoint(L, th[r].i)
    /\ th' = [th EXCEPT ![r] = Moved(L, main, th[r])]
    /\ UNCHANGED <<solved, latch, slots, disk, rows>> /\ Still

\* The loop is over, or was left; the last program still counts.
End(r) ==
    /\ \/ Is(r, "end")
       \/ Is(r, "top") /\ th[r].i = L.iters
    /\ th' = [th EXCEPT ![r] = [Sampled(L, main, th[r]) EXCEPT !.pc = "ended"]]
    /\ rows' = TRUE
    /\ UNCHANGED <<solved, latch, slots, disk>> /\ Still

Step(r) ==
    \/ Block(r) \/ Latch(r) \/ LookDone(r) \/ LookStop(r) \/ Deposit(r)
    \/ Gather(r) \/ Decide(r) \/ Move(r) \/ End(r)

-----------------------------------------------------------------------------
(***************************************************************************)
(* The process.                                                            *)
(***************************************************************************)
Idle == [r \in Restarts |-> NoSnap]
NoRestarts == th' = Idle /\ solved' = FALSE /\ latch' = FALSE /\ slots' = Idle

\* The trace is resumed, or (there is none, or it cannot be read and the user
\* follows the advice to pass --fresh) begun.
Open ==
    /\ main = Down /\ result = NoSnap
    /\ stop' = FALSE
    /\ IF Resumable THEN main' = Restored(disk.snap) /\ UNCHANGED disk
                    ELSE main' = [at |-> "opened"] /\ disk' = NoFile
    /\ rows' = FALSE
    /\ UNCHANGED <<name, restartVars, result, faults>>

WriteHeader ==
    /\ main.at = "opened"
    /\ disk' = [disk EXCEPT !.header = TRUE]
    /\ main' = Fresher(L)
    /\ UNCHANGED <<name, restartVars, stop, rows, result, faults>>

Enter ==
    /\ main.at = "rung"
    /\ main' = Entered(L, main)
    /\ UNCHANGED <<name, restartVars, stop, fileVars, faults>>

Spawn ==
    /\ main.at = "attempt"
    /\ main' = [main EXCEPT !.at = "join"]
    /\ th' = [r \in Restarts |-> Begun(L, main, r)]
    /\ solved' = FALSE /\ latch' = FALSE /\ slots' = Idle
    /\ UNCHANGED <<name, stop, fileVars, faults>>

AllEnded == main.at = "join" /\ \A r \in Restarts : th[r].pc = "ended"

\* All joined: the attempt counts only if no stop was asked for meanwhile.
Select ==
    /\ AllEnded /\ ~stop
    /\ main' = Selected(L, main, [r \in Restarts |-> th[r].best])
    /\ rows' = TRUE
    /\ NoRestarts
    /\ UNCHANGED <<name, stop, disk, result, faults>>

Interrupted ==
    /\ stop /\ (AllEnded \/ main.at = "finished")
    /\ main' = Down
    /\ Flushed
    /\ NoRestarts
    /\ UNCHANGED <<name, stop, result, faults>>

Finish ==
    /\ main.at = "finished" /\ ~stop
    /\ result' = [champ |-> main.champ, solved |-> main.solved]
    /\ main' = Down
    /\ Flushed
    /\ UNCHANGED <<name, restartVars, stop, faults>>

-----------------------------------------------------------------------------
(***************************************************************************)
(* What may happen to it.  A killed process leaves whatever had reached    *)
(* the file: some of the rows, a part of the snapshot it was writing.      *)
(***************************************************************************)
Fault == faults < MaxFaults /\ faults' = faults + 1

Dies ==
    /\ main' = Down /\ rows' = FALSE
    /\ NoRestarts
    /\ UNCHANGED <<name, stop, result>>

CtrlC ==
    /\ Fault /\ Up /\ ~stop
    /\ stop' = TRUE
    /\ UNCHANGED <<name, main, restartVars, fileVars>>

Kill ==
    /\ Fault /\ Up /\ Dies
    /\ \/ UNCHANGED disk
       \/ rows /\ disk' = WithRows(disk)

KillAmidSnapshot ==
    /\ Fault /\ Up /\ Is(0, "gather") /\ Dies
    /\ \E line \in {Snapshot(th[0].i, slots), Garbled} :
        disk' = [disk EXCEPT !.snap = line, !.ended = FALSE]

Init ==
    /\ name \in DOMAIN Ladders
    /\ main = Down
    /\ th = Idle /\ solved = FALSE /\ latch = FALSE /\ slots = Idle
    /\ stop = FALSE
    /\ disk = NoFile /\ rows = FALSE
    /\ result = NoSnap
    /\ faults = 0

Over == result # NoSnap /\ UNCHANGED vars

Main == Open \/ WriteHeader \/ Enter \/ Spawn \/ Select \/ Interrupted \/ Finish

Next ==
    \/ Main
    \/ \E r \in Restarts : Step(r)
    \/ CtrlC \/ Kill \/ KillAmidSnapshot
    \/ Over

Spec == Init /\ [][Next]_vars

\* A search that may be killed, but is never asked to stop.
KilledSpec == Init /\ [][Next /\ ~CtrlC]_vars

\* The user starts an unfinished search again; threads are scheduled.
MaxRestarts == CHOOSE n \in {Ladders[k].restarts : k \in DOMAIN Ladders} :
                   \A k \in DOMAIN Ladders : Ladders[k].restarts <= n
FairSpec ==
    /\ Spec /\ WF_vars(Main)
    /\ \A r \in 0 .. MaxRestarts - 1 : WF_vars(r \in Restarts /\ Step(r))

-----------------------------------------------------------------------------
(***************************************************************************)
(* What an uninterrupted search does: all restarts in lock step, a rung at *)
(* a time.  It has no threads, no barrier, no trace.                       *)
(***************************************************************************)
\* The restarts at the top of every iteration, until a checkpoint stops them.
InStep(l, m, ts, i) ==
    LET sampled == [r \in RestartsOf(l) |-> IF IsCheckpoint(l, i) THEN Sampled(l, m, ts[r]) ELSE ts[r]]
        over == /\ ~Compresses(l) /\ IsCheckpoint(l, i)
                /\ \E r \in RestartsOf(l) : Solves(l, sampled[r].best.prog, m.frontier)
    IN  IF ts[0].i < i THEN ts
        ELSE IF over THEN sampled
        ELSE [r \in RestartsOf(l) |-> Moved(l, m, sampled[r])]
LockStep(l, m) ==
    LET path[i \in 0 .. l.iters] ==
            IF i = 0 THEN [r \in RestartsOf(l) |-> Begun(l, m, r)] ELSE InStep(l, m, path[i - 1], i - 1)
    IN  path

\* The main thread, until it is finished.
Climbed(l, m) ==
    CASE m.at = "rung" -> Entered(l, m)
      [] m.at = "attempt" ->
            Selected(l, m, [r \in RestartsOf(l) |-> Sampled(l, m, LockStep(l, m)[l.iters][r]).best])
      [] OTHER -> m
\* Rungs, the last one to end the ladder, times attempts, one more to enter the rung.
Heights(l) == (l.rungs + 1) * (l.retries + 2)
Climb(l) ==
    LET path[n \in 0 .. Heights(l)] == IF n = 0 THEN Fresher(l) ELSE Climbed(l, path[n - 1]) IN path
Reference == [n \in DOMAIN Ladders |->
    [k \in 0 .. Heights(Ladders[n]) |->
        LET m == Climb(Ladders[n])[k]
        IN  [main |-> m, restarts |-> IF m.at = "attempt" THEN LockStep(Ladders[n], m) ELSE << >>]]]

-----------------------------------------------------------------------------
BestType == [prog : Programs, sel : Nat]
SnapType == [rng : Generators, cur : Programs, best : BestType]

\* NoSnap is no snapshot.
ASSUME SentinelAssumption ==
    \A n \in DOMAIN Ladders : NoSnap \notin [iter : Nat, restarts : [RestartsOf(Ladders[n]) -> SnapType]]

TypeOK ==
    /\ name \in DOMAIN Ladders
    /\ main.at \in {"down", "opened", "rung", "attempt", "join", "finished"}
    /\ main.at = "join" => \A r \in Restarts :
        /\ th[r].pc \in Waits \cup {"top", "latch", "look", "look_stop", "deposit", "gather", "decide", "move", "end", "ended"}
        /\ th[r].i \in 0 .. L.iters
        /\ th[r].rng \in Generators /\ th[r].cur \in Programs /\ th[r].best \in BestType
        /\ th[r].stash \in BestType \cup {NoSnap}
        /\ slots[r] \in SnapType \cup {NoSnap}
    /\ {solved, latch, stop, rows, disk.header, disk.ended} \subseteq BOOLEAN
    /\ Resumable => \A r \in Restarts : disk.snap.restarts[r] \in SnapType

\* Whatever was killed, stopped and resumed, the result is that of a search
\* nobody disturbed (superopt.rs:22: byte-identical to never having stopped).
LadderIsUninterrupted ==
    result # NoSnap =>
        LET m == Reference[name][Heights(L)].main IN result = [champ |-> m.champ, solved |-> m.solved]

\* Every snapshot that can be resumed from is a state the undisturbed search
\* is in: the same rung, and every restart as it is at that checkpoint.
SnapshotsAreLockStep ==
    Resumable =>
        \E k \in DOMAIN Reference[name] :
            LET m == Reference[name][k].main s == disk.snap IN
            /\ m.at = "attempt"
            /\ [m EXCEPT !.mid = [iter |-> s.iter, restarts |-> s.restarts], !.at = "rung"] = Restored(s)
            /\ \A r \in Restarts :
                LET t == Reference[name][k].restarts[s.iter][r]
                IN  t.i = s.iter /\ s.restarts[r] = [rng |-> t.rng, cur |-> t.cur, best |-> t.best]

\* All restarts break together: none is left waiting for one that has ended.
NobodyLeftWaiting ==
    main.at = "join" =>
        \A r, s \in Restarts : th[r].pc = "ended" => th[s].pc \notin Waits

\* Only certified programs are kept while compressing, and nothing larger than
\* what compression started from.
ShrinksCertified ==
    Compresses(L) =>
        /\ main.at \in {"rung", "attempt", "join", "finished"} =>
            L.certified[main.champ] /\ L.size[main.champ] <= L.size[L.start]
        /\ main.at = "join" => \A r \in Restarts : L.certified[th[r].best.prog]

\* A search that is started again whenever it dies has a result.
LadderFinishes == <>(result # NoSnap)
=============================================================================
