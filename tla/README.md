# A verification development for mlx-pio

The repository synthesises and shrinks programs for the RP2350's programmable I/O (PIO) state
machines. Its long computations run for hours to days, are spread over threads and machines, and are
killed and resumed all the time; its short ones (a cycle-exact evaluator, a narrowing search) must
be exhaustive, because the results that matter are impossibility proofs: *no program of three
instructions does this*. A lost shard, a unit searched under the wrong engine or a subspace pruned
without cause silently turns such a proof into a false statement. That is what these modules are
about.

All paths below are relative to the repository; `coord.rs`, `superopt.rs` and so on are under
`pio_superopt/src/` (`superopt.rs` under `pio_superopt/src/bin/`).

## Inventory

| component | state it keeps | operations | what is hard |
|---|---|---|---|
| Lease table (`coord.rs`, `Coordinator`) | `done`, `leases` | new + mark_done, lease, complete, release | leases expire while their holder works; whose lease a release clears |
| Fleet server (`coord.rs` `serve`/`handle`, `serve_cmd`) | the table, the result files | /status, /lease, /done, /release | crash between rename and done mark, retried and late posts, restart on another campaign |
| Fleet worker (`work_cmd`) | a thread's loop position, the shard it holds, DRAIN/ABORT | lease, run, post, release, signals | retry against a server that comes and goes, three-stage shutdown, exits under other threads |
| Local sweep (`enumerate_cmd`) | a queue, the result files | pop, run, write + rename, aggregate | the same files, several threads, ESTOP |
| Shard enumeration (`enumerate.rs`) | an odometer | next structure, next delay tuple | exhaustiveness; the claim that the pattern screen does not depend on delays |
| Trace of narrow-split (`superopt.rs`, `NarrowSink`, `scan_narrow_trace`) | header, unit lines, an unfinished tail | append, sync, scan, drop the tail | lines cut by kills, power losses, failed writes |
| narrow-split runner (`narrow_split_cmd`) | settled units, todo counter, results, lock, signal flag | open/resume, claim, search, append, merge, publish | resume at any point, panics and a poisoned lock, the signal handler racing the pool, engine revision against tree revision |
| Narrowing engine (`narrow/engine.rs`, `search_impl`) | a stack of partially decided programs with their states, constraints, frames, memo | run a cycle, fork on an undecided field, bind register names, look ahead, prune, memoise | soundness of every pruning rule and of their combination |
| Split driver (`narrow/engine.rs`, `split_units`, `search_unit`, `search_split`) | a prefix, its champions, the units and their outcomes | widen, plan units, search a unit, merge | units must cover the space once; caps and fallbacks |
| Narrow evaluator (`narrow/mod.rs`) | registers, shift counters, FIFO, pc, delay, pins | one cycle | order of side-set, delay, autopull and stall; 5/32-bit widths |
| Ladder and compression (`search.rs`, `trace.rs`, `run_ladder`, `run_compress`) | rung, champion, pool, library, a generator and two programs per restart, the trace | anneal, meet at a barrier, snapshot, gate, promote, retry, resume | flags around a barrier, parts of a snapshot from many threads, resume must continue the same run |
| Gene search (`gene.rs`, `gene_search.rs`) | an elite per stage, a migration board between chains | anneal and polish chains, keep the elite, sharpen | chains that read a board race; nothing is persisted |
| IR, encode, decode, assemble (`ir.rs`, `encode.rs`, `decode.rs`, `program.rs`) | none | conversions | delay and side-set share five bits; round trip |
| Cost and certifier (`cost.rs`, `spec_cost.rs`, `certify.rs`) | none | banded distance, decode and certify | band edges, zero lengths |
| Runner (`run.rs`) | FIFO contents | preload or stream | FIFO of depth 4 |
| SMT (`smt/`) | counterexample set | equivalence, CEGIS loop | termination, cap on rounds |
| Fixtures, problems, rng, measurement binaries, harness, vendored emulator | data | | not modelled |

Interaction: `serve` and `work` talk HTTP; `serve`, and `enumerate` on the same directory, share the
result files; `narrow-split` calls `split_units` and `search_unit` of the engine, the engine steps
the evaluator; the annealers call the vendored emulator through `run.rs`; traces connect a run with
its resumption.

For each component, what makes it correct:

- *fleet*: a recorded result stays, whole and of its own shard; what a worker was told is recorded
  is recorded; recorded work is not lent out again; a campaign finishes whatever dies; a host told
  to stop stops;
- *narrow-split*: the trace can always be read back; a unit is settled once and stays; the published
  result is that of an uninterrupted run, from one engine; a run ends, and a signal ends it;
- *engine*: everything that solves the problem is, in some spelling, a champion or still to be
  searched; a champion reproduces the trace whatever it left undecided; units cover the space once,
  and each can be started from; the search ends;
- *evaluator*: delays, divider, stalls and FIFO refills move effects in time and change nothing
  else; a stall ends exactly when its instruction can complete;
- *ladder*: a snapshot is a state of the undisturbed search, and resumption at one is invisible in
  the result; restarts that leave, leave together; compression keeps certified programs only;
- *conversions*: `decode(encode(p)) = p` on the valid programs; *cost*: the banded distance equals
  the full one whenever that is within the band; *CEGIS*: an answer satisfies all inputs.

## Modules

| module | models | correspondence |
|---|---|---|
| `ShardLedger` | abstract: what a campaign promises | a ledger with one entry per shard; blank, then one whole result, for ever |
| `Coordinator` | `struct Coordinator` | one action per method on `done`, `leases`; a lease is its age in ticks, `Age` is the clock |
| `Fleet` | `serve`, `handle`, `serve_cmd`, `work_cmd`, `retry_transport` | see below; `Ledger` is the refinement mapping to `ShardLedger` |
| `MCFleet` | | instances for TLC |
| `Fleet_proof` | | theorems about `Fleet` |
| `TraceFile` | the trace of narrow-split, `NarrowSink`, `scan_narrow_trace` | the scan keeps the unit lines in a map, so they are a set; the last line may be unfinished |
| `NarrowSplit` | `narrow_split_cmd`, `narrow_split_finish` | see below |
| `MCNarrowSplit` | | instances for TLC |
| `NarrowSplit_proof` | | theorems about `NarrowSplit` |
| `PioIsa` | `exec_op`, the fetch and the side-set of `step`, `Fifo`, `NState`, `NCfg` | pure operators on a record `m` (`NState` without the TX FIFO, delay counter and clock accumulator); one operator per arm of `exec_op` |
| `PioProgram` | abstract: what a program computes, time aside | one action, `Instruction`, over an unbounded queue |
| `Evaluator` | `run_with_stim`, `clock_tick`, `step`, `still_stalled`; padding and streaming of `run.rs` | one action per outcome of a system clock; `Program` is the refinement mapping to `PioProgram` |
| `MCEvaluator` | | instances for TLC |
| `PioIsa_proof` | | theorems about `PioIsa` and the tables of `WordTables`: types of every instruction, what stalls, the two scratch registers |
| `Evaluator_proof` | | theorems about `Evaluator` |
| `WordTables` | what the engine knows of instructions: mirror image, liveness, commuting, `word_canon` | pure tables, entry by entry |
| `HoleWords` | words of which some fields are decided: demand, candidates, outcome groups | a word is a function from the names of its decided fields |
| `SpecRun` | `EngineSpec` and `run_spec_oob`: one program under the engine's driver | pure operators over `PioIsa` |
| `FailureMemo` | segments, consulted conditions, memo records | pure operators |
| `NarrowSearch` | `search_impl` | one action per way in which an iteration of its cycle loop ends |
| `SearchSplit` | `split_units`, `search_unit`, `search_split` | one action per step of the driver; contains `NarrowSearch` |
| `MCSearch` | | the 29 problems and the loop problem for TLC |
| `SearchSplit_proof` | | theorems about `SearchSplit`, and so about the engine |
| `GatedLadder` | `synthesize_curriculum_gated`, `synthesize_compress`, `run_ladder`, `run_compress`, `scan_for_resume` | see below |
| `MCLadder` | | instances for TLC |
| `Induction` | | induction over numbers, for proofs about recursive functions |
| `GatedLadder_proof` | | theorems about `GatedLadder`: types, certified compression, restarts that leave together |
| `LadderLockStep_proof` | | theorems about `GatedLadder`: snapshots and results are those of the undisturbed search |

Definitions whose comment begins "Mutant of" are plausible bugs of the definition that follows them.
No specification uses them: they show that the properties notice such bugs.

### Fleet

The server is single threaded, so a request is one action, except /done: writing the temporary file,
renaming it and marking the shard done are three steps (`BeginWrite`, `Rename`, `Commit`) that a
crash can separate; `pc` says where it is and `handling` is the request. `disk` has an entry per
campaign and shard. A campaign is a `--len` with its own `--out` directory, the thing a restarted
server may change.

A worker thread is in a `phase` of the loop of `work_cmd` (superopt.rs:836-885) and reads `signals`
of its host where the code reads DRAIN and ABORT: at the top of the loop, and inside `run_shard`. A
request is a record in `net`, an answer sits in `inbox` until the thread reads it. When a connection
breaks, the sender sends again (`retry_transport`), and the first copy may still be in the server's
queue: such copies carry a nonzero `orphan` label and nobody hears their answers. /release is sent
once.

`acked` and `lessee` are history variables: they are read by properties only.

### NarrowSplit

The main thread (`main`), the pool (`thread`, `unit`, `remaining`, `results`) and the signal handler
(`handler`) share the lock of the sink; its holder is the one that is writing. A line is written in
two steps (`BeginLine`, `EndLine`), between which the process can die. A panic ends a thread only; a
panic with the lock held poisons it. `Counted` is the `done` counter.

The trace holds what each unit's search returned. What it returned is a function of the unit, the
arguments and the engine (`Finds`), because the search is deterministic; a line therefore names its
unit and the engine that searched it. `head` is the revision of the working tree, which
`git_rev_dirty` asks for when a run starts, and `engine` the one the installed binary was built
from. `Runtree` says whether the operator moves both together, as `docs/architecture.md` advises.

### Evaluator

`PioIsa` is the machine without time. A register is a function from bit numbers to bits, `W` of them
(32 in the code, which also has 32 pins); `x--` borrows, shifts and pin writes move bits as the
code's masks and rotations do. Instructions are decoded: `Do` is the set of what `exec_op` tells
apart, reserved codes included under the operation they fall through to. `side` and the delay are
what `split_side_delay` returns. An instruction sees the TX FIFO only through `word`, the word at
its head or `NoWord`; `Pops` says whether it takes it. The EXEC family writes an arbitrary word into
`pending_exec`; `Decoded` is the instruction it stands for.

`in_count`, `status_sel` and `status_n` are zero in every configuration the code builds
(`NCfg::from_program`), so `MOV .., PINS` is not masked and `MOV .., STATUS` reads zero: no FIFO
level is below zero.

`Evaluator` adds time. A system clock is one of four actions: the divider skips it (`Skip`), a delay
counts down (`CountDown`), a stall is re-checked and holds (`StayStalled`), or the machine executes
(`Run`). Each includes the refill of the FIFO that precedes it (`Fed` is the FIFO and `Left` the
input after it). A FIFO that was joined away has depth 0 and is never full: `Left` is then empty,
because the loop throws the whole input into it. What the outside asserts on the stimulated pins is
the sequence `exts`, whose last value holds (`Stim::at`).

`ticks` and `by_force` are history variables. The packing of captured pins into a sample is left
out: it is a function of the state.

`RunsTheProgram` maps a timed machine to the untimed one by forgetting its stall and joining the
FIFO with the input not yet fed. With no stimulated pins the untimed program is deterministic, so
two choices of delays, or a preloaded and a streamed input, execute the same instructions with the
same effects, each up to where its time runs out: the premise of the two-stage screen of
`enumerate.rs`, and of streaming in `run.rs`. The property is stronger than that premise: it needs
no restriction to instructions that do not stall.

Model and specification share `Execute` here, and `engine` steps the same machine in its reference
cover: these properties are about time, feeding, search and split. A mistake inside the arm of an
instruction, or in what a forced instruction leaves behind, would be in both and is not seen.

### The narrowing engine

`WordTables` to `SearchSplit` are layers, each extending the one below; `PioIsa` is at the bottom,
so the engine steps the same machine that `Evaluator` times. `Problems` gives the searches to run by
name (`EngineSpec` with its alphabet, caps, seed and expected trace); `name` and `problem` never
change.

`stack` holds the items still to be run: a partial program (`words`), its machine state and position
in the trace, its constraints, whether it still stands for its mirror image (`unbound`), and the
tags of registers that hold an immediate nobody has decided (`tags`). `run` is the item being run,
with the segment of execution since its last fork (what it has read and consulted). `frames` is the
path from the root, with what the subtree below each fork has consulted; when a frame closes without
a champion it becomes a memo record, and `Serves` says when a record lets an item be dropped. An
iteration of the cycle loop is one step: `Pop` or `MemoHit` takes an item up, and of one being run
`Edge` says which event comes first in the code's order: it left the footprint, it mismatches the
trace, it is a champion, an immediate is needed (`CollapseTag`), a field is needed (`ForkField`,
`ForkTarget`, `PartitionSide`, `PartitionWait`), register names have to be told apart (`Bind`), the
junk walk shows that nothing it can do matters, a delay is chosen, or the cycle just passes. The
children of a fork are built with all the prunes of the code: classes with one outcome are merged
into a constraint, symmetric ones are searched once.

What the search is for is defined apart from it: `Spelled` enumerates the alphabet, `Reproduces`
runs a whole program by `SpecRun`, and `Kinds` are the solutions of a problem, grouped by what they
do in every cycle up to the names of the scratch registers. `NothingLost` compares the search with
that.

The threads that share the units are one thread, in unit order: units do not interact. What only
observes (hit dumps, the probe log, the family probe, the dead-demand census; engine.rs:2766-4186)
is left out.

### GatedLadder

`main` is the main thread with the state of the rung; `th` the restarts, each with a place in the
loop (`pc`), its iteration, generator, current and best program. The barrier is one
`std::sync::Barrier` used at three places: the last restart to arrive releases everybody, wherever
they wait (`Arrive`). `solved`, `latch` and `slots` are the shared cells the code keeps beside it; every load and store of them is a step of its own (`Latch`,
`LookDone`, `LookStop`, `Deposit`, `Gather`, `Decide`), because the races are there; the iterations
between two checkpoints touch nothing shared (`Move`). `disk` is what of the trace can be seen by
the next process: header, the last snapshot line (whole, `Garbled` or none) and whether its newline
is there. Rows in the buffer (`rows`) may reach the file or not. A kill may fall inside a snapshot
line.

Randomness is a generator with a state and what is drawn from it is a table (`Mutated`, `Lucky`,
`Fresh`, ...), as are errors, sizes and certification: the model follows who draws when and from
which state, which is what resumption has to get right. `Reference` is the whole undisturbed search,
without threads, barriers or trace, as two recursions: `LockStep` takes all restarts of an attempt
through its iterations together, `Climb` takes the main thread from rung to rung. `KilledSpec` is
`Spec` without Ctrl-C.

## Runs

| run | instance | shows |
|---|---|---|
| `fleet` | 1 shard, 2 hosts of one thread, 1 campaign, 2 disturbances, fairness | done and acknowledged results are durable; the files implement `ShardLedger`; the campaign finishes, a signalled host stops |
| `fleet_campaigns` | 2 shards, 1 host of 2 threads, 2 campaigns, 1 disturbance | the same when the server moves between campaigns; recorded work is not lent again; files do not change; the 409 exit |
| `fleet_foreign` | as `fleet_campaigns` | violated: a result is filed under another campaign |
| `fleet_release` | 2 shards, 2 hosts of one thread, 1 campaign, 2 disturbances | violated: a late /release clears another worker's lease |
| `narrow_resume` | 2 revisions with 3 and 2 units, 2 threads, cap 2, 2 disturbances, tree and binary free to move apart, fairness | the trace stays readable, no work is repeated, settled units stay; while tree and binary move together the result is that of an uninterrupted run, from one engine; a run finishes unless a unit's search panics; a signal ends the process |
| `narrow_engine` | as `narrow_resume`, 3 disturbances | violated: two lines of one trace are by two engines |
| `evaluator` | two bits, two slots: all 529 programs over 23 instructions, 2 configurations, 2 divisors, TX depths 0 and 2, inputs of 1 and 3 words, with and without a pin that rises in the fourth cycle; 10 cycles | the run refines its program, is never starved, retries stalls exactly and without a trace, and the divider is exact |
| `engine` | 29 problems of two and three slots, width 3, 4 to 6 cycles, memos of 1, 2 and 4 records, unit targets of 4, 9 and 99 | no solution is lost by the search or its split, champions reproduce the trace, units are disjoint (but for `KeepsBothNames`) and can be started from, undecided immediates stay open, the search ends |
| `engine_loop` | one problem of three slots, a loop that comes back to a NOP | violated: the space is reported empty although it holds a solution |
| `ladder` | 7 searches (5 ladders, 2 compressions) of one and two restarts, two and three rungs, 4 or 5 iterations, 3 disturbances, fairness | result and snapshots are those of the undisturbed search, restarts leave together, compression keeps certified programs, an interrupted search ends once it is started again |
| `ladder_race` | one ladder, two restarts, three checkpoints between snapshots, no disturbance | violated: one restart leaves while the other waits at the barrier |
| `ladder_mixed` | the same, a Ctrl-C and a kill | violated: a snapshot mixes two checkpoints, and the resumed search ends with another result |

Bounds. `MaxFaults` is the only bound on behaviour: it counts crashes, broken connections, failed
writes, signals (only the first one to a host: the second and third are free), power losses, moves
of the tree and unforced `--fresh`, the events nobody has to cause. The hazards listed for these
components need at most two of them (an answer lost and a restart; a torn line and a second kill; a
lease that expires and a late release), three where the tree has to move there and back. Nothing
else is bounded: requests, retries, expiries and restarts are unlimited. Two shards are needed to
see one being lent while another is recorded (`fleet_campaigns`, `fleet_release`; `fleet` has one,
for the liveness, and the theorems any number), two threads to see a race. `LeaseTTL` is one tick:
only "expired or not" is ever compared. In `narrow_resume` the champions of the first unit and the
third one together exceed the cap, so the cut shows, and the second unit has none. Two disturbances
are a kill and a move of the tree, or a failed write and a signal; `narrow_engine` has one more.
Symmetry is over worker threads, and only in runs without liveness properties.

In `evaluator`, two bits are enough for every shift to have bits that stay and bits that fall out,
for thresholds to be below and at the width, and for pins to rotate; the input of three words is
longer than both `Preload` and the FIFO, so it is streamed, and the other one is preloaded. The
alphabet has instructions of every arm of `exec_op`, every kind of stall except WAIT GPIO (which
differs from WAIT PIN by its base only), taken and untaken jumps, MOV PC, and both EXEC
destinations; the theorems cover the rest. Ten cycles let a delay of two, a stall and its end, and a
refill follow one another. The run stops after `Cycles`, so it is checked without deadlock
detection; the divisor 416 is 1.625.

In `engine`, each problem is after one part of the engine: registers and undecided immediates,
jumps, forced words, PULL of an empty FIFO, WAIT over pins, side-set groups, MOV PC, autopull and
streaming, interrupts, seeds with decided fields, a frontier that overflows its cap, a champion cap
that is reached, traces no program has. Its alphabet is closed under the mirror X <-> Y and holds
the NOP and every delay: the prunes keep one spelling of each kind, and that spelling must exist.
The code's caps are constants (`CountCap`, `ListCap`, `ConstraintCap`, `WalkCap`, the size of the
memo) and are small enough to be reached. Problems with the divider at 2 or more are left to the
code's own tests where the junk walk would apply (see the known limits).

In `ladder`, `beat` (32 in the code) is 2 and the number of checkpoints (256) that of the iterations
or half of it. With two restarts only one checkpoint lies between two snapshots: with more, and
without a `Paced` search (see Proofs), `NobodyLeftWaiting` is false for the reason `ladder_race`
shows, and after a Ctrl-C the rest for the reason `ladder_mixed` shows. A kill may come at any step,
three times. `ladder_race` and `ladder_mixed` are checked without deadlock detection: the hang is a
deadlock.

Fairness. `Fleet!FairSpec`: every thread and the server loop take the steps they can; time passes;
the server is started again after a crash and `work` again after it exited (docs/fleet.md,
"Restarting later is just running the same `work` command again"); the server's queue is first-in
first-out, so handling a given thread's requests is strongly fair; `run_shard` ends. No disturbance
is fair. `NarrowSplit!FairSpec`: every thread takes the steps it can; whoever waits for the sink's
lock gets it (strong fairness: it is held for one line, and workers come minutes apart, telemetry a
minute apart); the command is run again when a run has died. Telemetry is not fair as such, but main
does run into a poisoned lock at its next telemetry line. `SearchSplit!Spec`: the engine keeps
running until it returns. This is weak fairness of `Next`, written as `[]<><<Next>>_vars \/
<>[]Returned` because TLC would otherwise evaluate the whole of `Next` again to know whether it is
enabled; `Next` is enabled until the driver has returned, or the run would report a deadlock.
`GatedLadder!FairSpec`: each restart and the main thread are scheduled, and a user starts an
unfinished search again; kills and Ctrl-C are not fair.

## Findings

- A result for one campaign is recorded as a shard of another (`fleet_foreign`): /done does not
  compare len and alphabet, only /lease does.
- /release is not tied to the holder of the lease (`fleet_release`).
- The revision in a trace header is the tree's, not the binary's (`narrow_engine`): a run whose tree
  was moved there and back, with a build in between, is resumed by another engine.
  `docs/architecture.md` describes the consequence and a workaround; the comment of
  `narrow_split_cmd` promises more.
- The rule that one spelling of a delay spread over NOPs is enough (engine.rs:6072) is wrong when a
  loop comes back to the second NOP (`engine_loop`): with wrap 1..2, `NOP [0]; NOP [1]; OUT PINS
  [1]` has no equal among the programs that are searched, and the space is reported empty. The delay
  of the first NOP is paid once, that of the second in every round. It takes three slots and an
  instruction after the NOPs that already has the largest delay; otherwise another program makes up
  for the lost one.
- A restart of the ladder can be left waiting (`ladder_race`): the flags that all restarts are to
  agree on are read behind the barrier (search.rs:1700), where a peer that is one checkpoint ahead
  may already have set them for the next one. Snapshots have a second barrier, plain checkpoints
  have not.
- The same race spoils a snapshot (`ladder_mixed`). Restart 0 samples a Ctrl-C at the checkpoint
  after the one where its peer has yet to read `stop_latch` (search.rs:1701). The peer then
  deposits for its own checkpoint and waits for the others to do so; restart 0 waits where the next
  checkpoint begins, at the same barrier object; they release each other, and restart 0 emits a
  snapshot with its own state of one checkpoint and the peer's of the one before. Then it hangs. The
  user kills it, the snapshot looks complete, and the resumed search returns another champion.
  Nothing in a part says which checkpoint it is of. Without Ctrl-C this cannot happen
  (`KilledSnapshotsAreLockStep`), nor when every checkpoint but the last writes a snapshot.

Known limits seen while modelling, without a run of their own:

- The junk walk (engine.rs:4339) adds PIO cycles to a horizon counted in system clocks. With a
  divider of 2 it gives up a space that holds a solution: a variant of `engine` with divisor 512
  violates `NothingLost`, and no longer does when the walk scales its shift. The problems of the run
  stay where the two agree.
- Units overlap after `JMP X!=Y`: it names both registers at once (engine.rs:848), so the P1 prune
  keeps what comes next in either spelling, while the item still stands for its mirror image too, and
  the split searches each spelling twice (problem `regs6`: without `KeepsBothNames`, `UnitsDisjoint`
  is violated). The same holds under a seed that names a register without telling the two apart, a
  PULL. Nothing is lost; work is repeated, and programs may be reported by two units.
- Only the last snapshot line is tried (trace.rs:100-118): one torn by a kill makes the trace
  unreadable, although the snapshots before it were each made durable (superopt.rs:318-319). The
  ladder then starts over, with the same result.
- A restart that panics leaves its peers at the barrier (search.rs:1825).
- The result file of narrow-split is written in place (superopt.rs:1472): a kill leaves a short one.
  Two local sweeps on one directory share the name of the temporary file (superopt.rs:649).
- `total - done - leased` (coord.rs:109) would underflow if a shard number at or above the total
  were recorded; the comparison with the body's own shard does not exclude it, but no worker of this
  repository sends one.
- The branch of the tag collapse that rewrites a decided immediate in place (engine.rs:5625-5642) is
  never taken: `TagsAreOpen` says that a tagged immediate is undecided.

Smaller things: the second signal of `narrow-split` never reaches `process::exit`
(superopt.rs:1215): the thread that runs the handler is inside it, and does not return. The comment
"partial unit lines are never written" (superopt.rs:914) does not hold for a signal that falls
between the handler's unlock and its exit, nor for a line longer than the buffer; the next scan
copes with both. The comment in `step`, "re-executes the stalled slot" (narrow/mod.rs:333), does not
hold for a forced instruction: `take()` has used it up, and `code[pc]` is executed under the forced
one's stall condition. docs/evaluator-spec.md:128 says so and keeps it, so `StallsAreExact` leaves
forced instructions out (`by_force`). `IRQ WAIT` raises its flag again when it is executed again, so
a single state machine never gets past one.

## Proofs

`Fleet_proof` proves, for any number of shards, hosts, threads, campaigns and disturbances, from the
named assumptions in `Coordinator` and `Fleet` (types of the constants, sentinels that are none of
the values they stand beside):

- `TypeCorrect`, `DoneDurable`, `RecordedNotLeasable`: invariants of `Spec`;
- `ResultsFinal`: no step changes a recorded result;
- `AckedDurable` and `FleetImplementsLedger`: under the assumption that there is one campaign. With
  more the first is a true statement about durability that the mislabelled files of `fleet_foreign`
  make useless, and the second is false: a result enters the ledger at an entry that is not its own.

The inductive invariant `IInv` is the conjunction of the type invariant with: the server's memory
agrees with the directory it serves except inside a /done (`ServerInv`), no entry is torn
(`NothingTorn`), requests and threads that must name a shard do (`PostsNameShards`,
`HoldersHoldShards`), a thread with an open connection is waiting for something (`Waiting`), an
answer fits the phase of its hearer (`Heard`), and live requests come from waiting threads (`Live`).
None of the stated properties is inductive alone: `DoneIsDurable`, for one, needs to know that the
request being committed names the shard whose file was just renamed. `AckedDurable` adds that a 200
on its way to a poster (`AckedInv`) implies the file.

`Evaluator_proof` proves all six properties of the run `evaluator` for any word width, number of
slots, program, configuration, delays, divisor, input, stimulus and length of run, from
`IsaAssumption` and `EvaluatorAssumption` (types; divisors are at least 1; a preloaded input fits in
a FIFO that has not been joined away, which is what the code's two `TX_FIFO_DEPTH` say):

- `TypeCorrect`: one lemma per instruction, `ExecuteType` for all, then one step per action;
- `RunsItsProgram`: a step of `Next` is an `Instruction` or a stutter of the abstract program. `Run`
  maps to `Instruction` because execution does not look at the remembered stall (`StallForgotten`)
  and a refill changes neither the queue nor its head (`QueueFed`). The operators of `PioIsa`
  reached through the instance are proved equal to its own bottom-up (`SameBits` to
  `SameExecution`);
- `NoEffectOfStalls`, `NeverStarves`, `RetriesAreExact`: `WhyStalls` says when each instruction
  stalls and on what; `ExecuteStall` shows that it is right, and that a stalling execution changes
  nothing else. The strengthening for `IRQ WAIT` is `FlagRaised`;
- `ClockIsExact`: the invariant `ClockInv` is `ticks * divisor + clk_acc = 256 * cycle` with
  `clk_acc` below the divisor.

`NarrowSplit_proof` proves, for any number of units, threads, arguments, revisions and disturbances
and any cap, from `SplitAssumption` (types; the sentinel is no header):

- `TypeCorrect`, `ScannableAlways`, `WorkOnce`: the trace can always be read back and no unit is
  searched twice, wherever the run was cut, even when tree and binary move apart;
- `OneEngineByConvention`, `ResultUninterrupted`: while they move together, the lines of a
  trace are by one engine, the one its header names, and what is published is what an uninterrupted run publishes;
- `SettledStays`: only a start with another header takes a synced line away.

The invariant has a part for each question. That no line is garbled needs to know who may leave one
unfinished: only the holder of the lock or one who poisoned it (`OneHolder`, `TailHeld`). That no
unit has two lines needs to know where each unit is (`UnitsApart`: settled, computed, unclaimed or
with one thread) and where each line comes from (`LinesKnown`). The result needs arithmetic: the
main thread only compares two numbers, so `CountedMeansAll` shows that settled and computed units,
being disjoint, are all the units once there are as many (`CountByUnit` counts records by their
units), and `MergeOfAll` that sorting the records of all units by unit gives back the enumeration.
`ClosedWhenAll` carries the comparison from the `done` line to the result file, and `Together` that
the lines of earlier processes are of the same engine. `LeastExists` gives `Min` a meaning for any
nonempty set of numbers.

`GatedLadder_proof` proves, for any searches, programs, costs, moves, generators and disturbances,
from `LadderAssumption`, `MoveAssumption` and `SentinelAssumption` (types; a compression starts from
a certified program; what is no snapshot is not the state of one):

- `TypeCorrect`: in particular nothing is read from a stash or a slot before it is there, so the
  `expect` of search.rs:1721 holds;
- `CompressionIsCertified`: certified programs only, none larger than the one given;
- `NobodyIsLeftWaiting`: restarts leave together if the search is `Paced` (it has one restart, or
  every checkpoint that another one follows writes a snapshot), or if it is a compression and the
  stop flag is down. The shipped parameters (32 restarts, 256 checkpoints, a snapshot at every 32nd)
  are not `Paced`, which is what `ladder_race` is about: the theorem says that the second barrier of
  a snapshot is all it takes.

The types need to know where the restarts are: `Aligned` says that at any time one checkpoint can be
named at which all of them look at the flags, take a snapshot, or leave or go on from; or else that
they are in one of the two stages of the race that follows a Ctrl-C. Every step of a restart has its
own lemma (`BlockAligned` to `EndAligned`), the barrier another (`ReleaseAligned`).

`LadderLockStep_proof` proves that resumption is invisible, for any number of restarts, iterations,
rungs, retries and disturbances:

- `KilledSnapshotsAreLockStep`, `KilledIsUninterrupted`: a search that is killed at any moment, any
  number of times, and never asked to stop: every snapshot is a state of the undisturbed search and
  the result is its result. No condition on the distance of snapshots: when the race makes a restart
  leave early, it has already done all that the undisturbed search does in that attempt;
- `PacedSnapshotsAreLockStep`, `PacedIsUninterrupted`: the same for a `Paced` search that may be
  asked to stop as well. `ladder_mixed` shows why both conditions cannot be dropped together.

The invariant `LockInv` puts the main thread on the climb (`Reached`) and every restart on the
lock-step of its attempt at its own iteration, up to what the checkpoint it stands at has done so
far (`Traced`). Neither is inductive without two facts about the shared cells: the flag that the
rung is solved is only ever set by a restart that stays at the checkpoint where it solved it
(`Announced`), and the parts of a snapshot are of the iteration at which the depositors wait
(`Deposited`). Those who hear of a solved rung early end with what the lock-step ends with because
an attempt that is over stays as it is (`PathOver`). The climb is bounded: `InTime` counts its steps
by rung and attempt, and `ClimbOnward` concludes that `Heights` steps are enough to end it. What a
snapshot restores is the very state of the climb (`SnapshotResumes`, `SameMain`), and a restart that
resumes is the one of the lock-step (`Follows`).

Proofs about the recursive functions (`Errs`, `LockStep`, `Climb`) use induction. The induction
theorems of the library take an operator as a parameter, which none of the installed provers can
instantiate; `Induction` states them about sets of numbers instead (`NatSet`, `IntervalSet`), and
each proof names the set of numbers for which its claim holds. `ErrsIsSum`, `LockStepPath` and
`ClimbPath` show that the functions these recursions define exist.

`SearchSplit_proof` proves, for any problems, word width, slots, trace, caps and bars, from
`SearchAssumption`, `MemoAssumption` and those of `PioIsa` (the problems are `ProblemOK`: what
`EngineSpec` asks of its caller, with a seed that `validate_seed` lets pass):

- `SearchesPrograms`: what the engine holds at any time - items on the stack, the item that runs,
  champions, the previous frontier, units and what they found - is a program over the problem's
  alphabet (`ItemOK`): its words are partial words, a field is decided only when its opcode is, its
  constraints lie on fields that are undecided and can still be asked for, no field has two, a set
  is a proper one of at least two values, and the state it has reached is one of the machine;
- `TagsStayOpen`: a tag names a SET whose immediate nobody has decided, in all registers at once, so
  the rewrite in place of engine.rs:5625-5642 is dead code; and no item carries a tag when its
  mirror image parts from it, because `TagsNeeded` collapses all tags that an instruction which
  tells registers apart could see (`PartUntagged`, one case per instruction);
- `UnitsAreSeeds`: a frontier's champions, and their mirror images, pass `validate_seed`: the worker
  that searches a unit cannot panic on it;
- `SearchTypeOK`: the memo never outgrows its cap (by one record in a table of less than eight, see
  `SpareRecords`) through insertion, absorption, purge and the propagation of closed frames; no
  search keeps more champions than it may; no unit settles that was not planned; the prefix stays
  below one and a half traces; an item is never taken with no frame to charge it to;
- `UnitsApart`: no program belongs to two units, but where both spellings are kept.

The first four are facets of two invariants. `SearchOK` holds the programs: `ItemOK` of every child has a
lemma per fork (field, tag, target, side-set class, WAIT class, delay, mirror image), and one for
the cycle that passes (`AdvancedOK`), which needs the types of all instructions of `PioIsa_proof`
once more. `TypeInv` adds the books: frames and memo are sequences of what they should be, the bar
is within its range, and each purge ends (`Purge` doubles the bar, and what it keeps is at most
seven eighths of the room, or it empties the table). Nothing in `TypeOK` is inductive without the
other: a purge needs the bar, the bar needs the benefits, a benefit the count of items.

`UnitsApart` rests on a third. What an item or a champion stands for is its card; `Clear` says of two
cards that no program is had by both, and, where one of them still stands for mirror images, that
neither has the mirror image of a program of the other. `Frontier` says that all items of the stack,
the one that runs and the champions keep clear of one another, and so do the champions that are kept
from the previous prefix, and the units. A fork preserves it because a child has only programs of
its item, or is its bound mirror image (`ChildFrom`), and because any two children differ in a field
that is decided in both, or confined to disjoint sets (`SiblingsClear`) - for which a value that was
filtered out of a sequence of distinct values must not come twice, and no two outcome classes may
share a value. That the mirror images are clear as well needs what `named` stands for (`NamedOK`):
an item that is not `named` holds no register name at all, and both registers hold the same
(`Alike1`), so that it is its own mirror image and never parts from it (`TwinAlike`); an item that
is `named` holds a name of one register, which its mirror image does not, or `JMP X!=Y`, the case
that `Clear` and `KeepsBothNames` leave out. Units then inherit from champions (`UnitsFrom`,
`SpellingsClear`). TLC checked the invariant on the problems of `engine` before it was proved.

`PioIsa_proof` proves the two entries of `WordTables` on which the engine's laziness rests, for every
instruction, machine and width:

- `RegistersPass`: an instruction whose `NeedsValue` names no register that differs between two machines
  does the same to both, and carries the registers along (left alone, copied by MOV, or overwritten).
  This is why a SET may run before its immediate is decided;
- `MirrorIsExact`: the mirror image of an instruction does, with the registers exchanged, what the
  instruction does, unless `ReadsPhysicalX` (a PULL on an empty FIFO that copies the physical X).

`BlindEffect` and `MirrorEffect` lift both to what executing does to a machine, side-set included;
`SetEffect`, `LatchAfter` and `WriteAgain` say the same of another immediate and of a side-set pin that the
instruction does not write.

Where an operator runs along a sequence (`Keeping`, `Purge`, the propagation of `Closed`) it is a
recursive function, which `Iterates`, or an induction in place, shows to exist.

Model-checked only: the liveness properties of the fleet, of narrow-split and of the ladder and the
termination of the engine (liveness under fairness is out of the prover's reach); and of the engine
`NothingLost` and `ChampionsReproduce`. These two compare the search of partial programs with the
runs of all programs they stand for: they rest on the soundness of every prune and on the agreement
of a lazy execution with an eager one. Of that the theorems prove the typing, the bookkeeping and the
agreement of single instructions (`PioIsa_proof`), not yet that of whole runs. `NothingLost` is not even true of all problems (`engine_loop`, and the junk walk
under a divider).

## Not modelled

Within the modelled components: answers 400 and 404 (no worker of this repository earns them), a
connection that breaks inside the body of a 200 answer to /lease (the thread panics on it; its lease
waits for the TTL, like that of a host that died), two processes on one trace or one temporary file,
phase 1 of narrow-split refuting the whole space (the run then ends without units), the dirty-tree
flag, whose use the code itself declares unsafe; `force_exec`, which nothing calls; the engine's
diagnostics and the threads of `search_split`; the retired open-loop anneals of `search.rs`, and a
restart that panics.

Whole components:

- *Shard enumeration*: pure odometers and screens, with exhaustive tests of their own in
  `enumerate.rs`; the local sweep repeats the claim-and-record protocol of the fleet without its
  network.
- *IR, encode, decode, assemble, cost, certifier*: pure conversions and a banded distance; the
  models take instructions decoded, and costs and certification as tables.
- *Gene search*: random chains that are joined stage by stage, with nothing persisted and no promise
  but that the best of what was seen is returned; the board over which chains may exchange genomes
  is declared nondeterministic by the code itself.
- *SMT*: one thread around a solver; the bit-vector encodings are out of TLC's reach.
- *Fixtures, generator, measurement binaries, harness, probe, tools, the vendored emulator*: data,
  reports, and third-party code.

Next, if this is taken further: the odometers of `enumerate.rs` with the local sweep as a second
implementation of `ShardLedger`, the banded distance against the full one, and `ChampionsReproduce`
as a theorem: that a word whose undecided fields were never asked for does what each of its
completions does, cycle by cycle.
