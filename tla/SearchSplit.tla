----------------------------- MODULE SearchSplit -----------------------------
(***************************************************************************)
(* The split driver of the narrowing engine (split_units, search_unit and  *)
(* search_split): the trace is first searched on a prefix; the champions   *)
(* of the prefix, with what they left undecided, are the work units, and   *)
(* each unit is searched over the whole trace as a seed.  The prefix grows *)
(* until there are enough units.  Units do not interact - each has its own *)
(* memo - so the threads that share them are one thread here.              *)
(***************************************************************************)
EXTENDS NarrowSearch

VARIABLES phase,      \* "plan", "frontier", "units", "unit", "whole", "panic" or "done"
          prefix,     \* cycles of the frontier
          fallback,   \* the champions of the previous prefix
          units,      \* seeds, in order
          settled     \* what the units found, in order

splitVars == <<phase, prefix, fallback, units, settled>>
vars == <<searchVars, splitVars>>

Outcome == [champions |-> champions, cap_hit |-> cap_hit]
NoFrontier == << >>

(***************************************************************************)
(* A champion of the prefix as a seed: the slots it decided something of,  *)
(* and its constraints.  One that stands for its mirror image as well      *)
(* becomes two, for a seed fixes the spelling.                             *)
(***************************************************************************)
Searched(words) == [i \in 0 .. P.slots - 1 |->
                       [f \in DOMAIN words[i] \ (IF HasSide THEN {} ELSE {"side"}) |-> words[i][f]]]
\* Mutant of SeedOf: what the fields were narrowed to is forgotten.
SeedOf_NoConstraints(c) == [words |-> Searched(c.words), constraints |-> << >>]

SeedOf(c) == [words |-> Searched(c.words), constraints |-> c.constraints]
MirrorSeed(s) == [s EXCEPT !.words = [i \in DOMAIN @ |-> MirrorWord(@[i])]]

Expanded(c) == IF c.free /\ MirrorSeed(SeedOf(c)) # SeedOf(c)
               THEN <<SeedOf(c), MirrorSeed(SeedOf(c))>> ELSE <<SeedOf(c)>>
UnitsOf(frontier) == Seqs!FlattenSeq([i \in DOMAIN frontier |-> Expanded(frontier[i])])

\* Mutant of Wider: by half only.
Wider_Half(c) == c + c \div 2

\* The prefix grows by half, and by one cycle at least.
Wider(c) == c + IF c \div 2 > 1 THEN c \div 2 ELSE 1

Init ==
    /\ name \in DOMAIN Problems /\ problem = Problems[name]
    /\ phase = "plan" /\ prefix = 1 /\ fallback = NoFrontier /\ units = << >> /\ settled = << >>
    /\ horizon = 0 /\ seed = problem.seed /\ cap = 0
    /\ stack = << >> /\ run = NoRun /\ champions = << >> /\ cap_hit = FALSE
    /\ memo = << >> /\ bar = 0 /\ frames = << >> /\ items = 0

\* No prefix had units enough: one search of the whole trace.
SearchWhole == /\ phase = "plan" /\ prefix >= P.cycles
               /\ Begins(P.cycles, P.seed, P.champion_cap)
               /\ phase' = "whole" /\ UNCHANGED <<prefix, fallback, units, settled>>

SearchPrefix == /\ phase = "plan" /\ prefix < P.cycles
                /\ Begins(prefix, P.seed, P.frontier_cap)
                /\ phase' = "frontier" /\ UNCHANGED <<prefix, fallback, units, settled>>

Explore == phase \in {"frontier", "whole", "unit"} /\ SearchStep /\ UNCHANGED splitVars

\* A frontier that overflowed is not a cover: the previous one is.
PlanUnits ==
    /\ phase = "frontier" /\ Finished
    /\ cap_hit \/ Len(champions) >= P.target
    /\ units' = UnitsOf(IF cap_hit THEN fallback ELSE champions)
    /\ phase' = IF cap_hit /\ fallback = NoFrontier THEN "panic" ELSE "units"
    /\ UNCHANGED <<searchVars, prefix, fallback, settled>>

Widen ==
    /\ phase = "frontier" /\ Finished
    /\ ~cap_hit /\ champions # << >> /\ Len(champions) < P.target
    /\ fallback' = champions /\ prefix' = Wider(prefix) /\ phase' = "plan"
    /\ UNCHANGED <<searchVars, units, settled>>

\* The prefix alone is impossible.
RefuteAll == /\ phase = "frontier" /\ Finished
             /\ ~cap_hit /\ champions = << >>
             /\ phase' = "done" /\ UNCHANGED <<searchVars, prefix, fallback, units, settled>>

SearchUnit == /\ phase = "units" /\ Len(settled) < Len(units)
              /\ Begins(P.cycles, units[Len(settled) + 1], P.champion_cap)
              /\ phase' = "unit" /\ UNCHANGED <<prefix, fallback, units, settled>>

SettleUnit == /\ phase = "unit" /\ Finished
              /\ settled' = Append(settled, Outcome)
              /\ phase' = "units" /\ UNCHANGED <<searchVars, prefix, fallback, units>>

\* The outcomes are merged in unit order, and cut to the cap.
Merge ==
    /\ phase = "units" /\ Len(settled) = Len(units)
    /\ LET all == Seqs!FlattenSeq([i \in DOMAIN settled |-> settled[i].champions])
       IN  /\ champions' = First(all, P.champion_cap)
           /\ cap_hit' = (Len(all) > P.champion_cap \/ \E i \in DOMAIN settled : settled[i].cap_hit)
    /\ phase' = "done"
    /\ UNCHANGED <<fixed, stack, run, memo, bar, frames, items, prefix, fallback, units, settled>>

Conclude == /\ phase = "whole" /\ Finished
            /\ phase' = "done" /\ UNCHANGED <<searchVars, prefix, fallback, units, settled>>

Returned == phase \in {"done", "panic"}
Rest == Returned /\ UNCHANGED vars

Next == \/ SearchWhole \/ SearchPrefix \/ Explore \/ PlanUnits \/ Widen \/ RefuteAll
        \/ SearchUnit \/ SettleUnit \/ Merge \/ Conclude \/ Rest

\* The threads keep running until the driver returns: weak fairness of Next, spelled out (Next is
\* enabled until then, or the run deadlocks).
Spec == Init /\ [][Next]_vars /\ ([]<><<Next>>_vars \/ <>[]Returned)

(***************************************************************************)
(* What the search is for.  The programs of a problem are those spelled    *)
(* from its alphabet and admitted by its seed; the solutions reproduce the *)
(* trace without leaving the footprint.                                    *)
(***************************************************************************)
Spelled(p, op) ==
    LET choices(f) == CASE f = "side" -> IF p.side = << >> THEN {NoWord} ELSE Seqs!ToSet(p.side)
                        [] f = "delay" -> 0 .. p.max_delay
                        [] f = "target" -> 0 .. p.slots - 1
                        [] f = "index" -> Seqs!ToSet(p.index)
                        [] OTHER -> Seqs!ToSet(p.operands[op][f])
        with(ws, f) == {Decide(w, f, v) : w \in ws, v \in choices(f)}
        o == Operands(op)
        one == with(with(with([{"op"} -> {op}], "side"), "delay"), o[1])
    IN  CASE Len(o) = 1 -> one
          [] Len(o) = 2 -> with(one, o[2])
          [] Len(o) = 3 -> with(with(one, o[2]), o[3])
\* (Chosen out of a set of one, a function is a table that TLC fills in once.)
Tabled(f) == CHOOSE g \in {f} : g = f
Alphabets(ps) == [n \in DOMAIN ps |-> UNION {Spelled(ps[n], op) : op \in Seqs!ToSet(ps[n].ops)}]
Alphabet == Tabled(Alphabets(Problems))

AdmitsWord(words, constraints, slot, w) ==
    /\ \A f \in DOMAIN words[slot] : Decided(w, f) /\ w[f] = words[slot][f]
    /\ \A i \in DOMAIN constraints :
         constraints[i].slot = slot => Decided(w, constraints[i].field) /\ w[constraints[i].field] \in constraints[i].allowed
Admits(words, constraints, program) == \A slot \in DOMAIN program : AdmitsWord(words, constraints, slot, program[slot])
Products(of) == {q \in [DOMAIN of -> UNION {of[slot] : slot \in DOMAIN of}] : \A slot \in DOMAIN of : q[slot] \in of[slot]}
Spellings(n, words, constraints) ==
    Products(Tabled([slot \in DOMAIN words |-> {w \in Alphabet[n] : AdmitsWord(words, constraints, slot, w)}]))
MirrorProgram(program) == [i \in DOMAIN program |-> MirrorWord(program[i])]

Reproduces(p, program) ==
    LET past == RunSpec(p, program) IN \A c \in 1 .. p.cycles : ~past[c].oob /\ past[c].shown = p.expected[c]
\* What a program does in every cycle, however it is spelled: all but the slot and the delay that
\* it is at, and up to the names of the scratch registers.
Does(s) == [x |-> s.m.x, y |-> s.m.y, isr |-> s.m.isr, osr |-> s.m.osr, isr_count |-> s.m.isr_count,
            osr_count |-> s.m.osr_count, irq |-> s.m.irq_flags, out |-> s.m.out_latch, dir |-> s.m.dir_latch,
            rx |-> s.m.rx, tx |-> s.tx]
Swap(d) == [d EXCEPT !.x = d.y, !.y = d.x]
UpToNames(doing) == {doing, [c \in DOMAIN doing |-> Swap(doing[c])]}
Behaviour(p, q) == LET past == RunSpec(p, q) IN UpToNames([c \in 1 .. p.cycles |-> Does(past[c].s)])
\* The solutions, those that do the same together.
Solved(n, p) == {[program |-> q, does |-> Behaviour(p, q)] :
                    q \in {r \in Spellings(n, p.seed.words, p.seed.constraints) : Reproduces(p, r)}}
Alike(solved) == {{a.program : a \in {b \in solved : b.does = d}} : d \in {a.does : a \in solved}}
KindsOf(ps) == [n \in DOMAIN ps |-> Alike(Solved(n, ps[n]))]
Kinds == Tabled(KindsOf(Problems))

(***************************************************************************)
(* Properties.                                                             *)
(***************************************************************************)
Stands1(c, free, q) == Admits(c.words, c.constraints, q) \/ (free /\ Admits(c.words, c.constraints, MirrorProgram(q)))
InSearch(q) == \/ \E i \in DOMAIN stack : Stands1(stack[i], stack[i].unbound, q)
               \/ Running /\ Stands1(run.it, run.it.unbound, q)
               \/ \E i \in DOMAIN champions : Stands1(champions[i], champions[i].free, q)
InUnits(q) == \/ \E i \in DOMAIN units : i > Len(settled) /\ Admits(units[i].words, units[i].constraints, q)
              \/ \E i \in DOMAIN settled : \E j \in DOMAIN settled[i].champions :
                    Stands1(settled[i].champions[j], settled[i].champions[j].free, q)

\* Every behaviour that solves the problem is still to be found, in some spelling, or has been
\* found: no prune, no memo record and no split loses the last program of a kind, whatever was
\* consulted, skipped or cut before - unless the caller's cap on champions was reached, which it
\* is told (search_impl, split_units and search_split; "exhaustive", engine.rs:4551).
NothingLost ==
    \A kind \in Kinds[name] : \E q \in kind :
        CASE phase = "plan" -> TRUE
          [] phase \in {"frontier", "whole", "done"} -> cap_hit \/ InSearch(q)
          [] phase = "units" -> InUnits(q) \/ \E i \in DOMAIN settled : settled[i].cap_hit
          [] phase = "unit" -> InUnits(q) \/ InSearch(q) \/ cap_hit \/ \E i \in DOMAIN settled : settled[i].cap_hit
          [] OTHER -> TRUE

\* Every program that a champion stands for reproduces the whole trace without leaving the
\* footprint: what a champion left undecided makes no difference, and neither do the register
\* names of one that is free of them (Champion, engine.rs:184-230).
ChampionsReproduce ==
    phase \in {"whole", "unit", "done"} /\ ~Running /\ champions # << >> =>
        LET c == champions[Len(champions)]
        IN  \A q \in Spellings(name, Searched(c.words), c.constraints) :
                \A r \in {q} \cup (IF c.free THEN {MirrorProgram(q)} ELSE {}) : Reproduces(P, r)

\* Spellings that start with Y are kept: after JMP X!=Y, which names both registers at once, or when
\* the caller's seed names one or may (the P1 prune and `named', engine.rs:5401-5408, 4603-4608).
KeepsBothNames(unit) ==
    Root(0, P.seed).named \/ \E slot \in DOMAIN unit.words : Get(unit.words[slot], "cond", "always") = "x!=y"

\* No program belongs to two units: their searches repeat nothing of one another, which is what the
\* constraints are carried along for (UnitSeed, engine.rs:6245-6252) - except where both spellings
\* are kept while each item still stands for its mirror image, which is sound, "only less pruned".
UnitsDisjoint ==
    phase = "units" /\ settled = << >> => \A i, j \in DOMAIN units : i < j /\ ~KeepsBothNames(units[i]) =>
        \A q \in Spellings(name, units[i].words, units[i].constraints) : ~Admits(units[j].words, units[j].constraints, q)

\* No unit is refused as a seed: what the frontier decided and narrowed is what a search can start
\* from (validate_seed, engine.rs:1438-1571, which panics in the worker otherwise).
UnitsAreValidSeeds == phase = "units" => \A i \in DOMAIN units : ValidSeed(P, units[i])

\* A register that carries a tag is that of an undecided immediate, and the program and its mirror
\* image are told apart by values only: no tag is left when they part (engine.rs:5819-5921).
TagsAreOpen ==
    Running => /\ \A r \in Tagged(It.tags) : It.words[It.tags[r]].op = "set" /\ ~Decided(It.words[It.tags[r]], "data")
               /\ Tagged(It.tags) # {} => Edge(It, Stepped(It)) # "bind"

\* A table of less than eight records has no eighth to free: once the bar is above zero it may come to
\* hold one record more than its cap.
SpareRecords(p) == IF p.memo_cap < 8 /\ p.first_bar > 0 THEN 1 ELSE 0

TypeOK ==
    /\ problem = Problems[name]
    /\ phase \in {"plan", "frontier", "units", "unit", "whole", "panic", "done"}
    /\ prefix \in 1 .. P.cycles + P.cycles \div 2
    /\ Len(settled) <= Len(units)
    /\ Len(champions) <= cap \/ phase = "done"
    /\ Len(memo) <= P.memo_cap + SpareRecords(P)
    /\ stack # << >> /\ Remembers => frames # << >>

\* The search of every problem ends (the engine gives no other bound).
Terminates == <>Returned
=============================================================================
