---------------------------- MODULE NarrowSplit ----------------------------
(***************************************************************************)
(* `superopt narrow-split`: an exhaustive search cut into units that are   *)
(* searched independently by a pool of threads, with one trace line per    *)
(* settled unit so that a run can be killed and resumed.                   *)
(*                                                                         *)
(*  - The main thread opens the trace (fresh or resumed), enumerates the   *)
(*    units, starts the workers, counts until all are settled, appends a   *)
(*    `done` line and writes the result file.                              *)
(*  - A worker claims the next unit, searches it (deterministic in the     *)
(*    unit and in the engine that searches), appends its line under the    *)
(*    lock of the sink, pushes the result and counts it.                   *)
(*  - The signal handler, a thread of its own, takes the same lock to sync *)
(*    and then exits the process under everybody else.                     *)
(*  - A panic kills its thread only.  One that holds the lock poisons it,  *)
(*    and every later lock().unwrap() panics in turn.                      *)
(*                                                                         *)
(* The header of the trace carries the arguments of the run and the git    *)
(* revision of the working tree.  `engine` is the revision the installed   *)
(* binary was built from: nothing ties it to `head`, the revision that     *)
(* git_rev_dirty asks for when the run starts, except that operators are   *)
(* told to move both together (docs/architecture.md, "Runtree              *)
(* convention"); Runtree says whether they do.                             *)
(***************************************************************************)
EXTENDS TraceFile, SequencesExt

CONSTANTS Args,        \* what else the header pins: spec, shape, --target
          Revs,        \* engine revisions
          Finds,       \* args -> revision -> unit -> its champions, in order
          Cap,         \* --champion-cap
          Workers,     \* worker threads
          Runtree,     \* do the binary and the tree only move together?
          MayPanic,    \* can the search of a unit panic?
          NoResult,    \* the result file does not exist
          Cut,         \* it was cut short
          MaxFaults    \* bound: kills, signals, failed writes, panics, moves of
                       \* the tree, unforced --fresh

ASSUME SplitAssumption ==
    /\ Cap \in Nat
    /\ MaxFaults \in Nat
    /\ Runtree \in BOOLEAN /\ MayPanic \in BOOLEAN
    /\ NoHeader \notin [args : Args, rev : Revs]
    /\ \A a \in Args, e \in Revs : Finds[a][e] \in Seq(Seq(Nat)) \ {<< >>}

VARIABLES
    head,       \* the revision of the working tree
    engine,     \* the revision of the installed binary
    apart,      \* has one of the two ever moved without the other?
    main,       \* the main thread
    run,        \* the header of this process: its arguments, its git_rev
    bin,        \* the engine it runs
    settled,    \* unit results it read from the trace
    remaining,  \* units nobody has claimed
    results,    \* units it computed, and pushed
    thread,     \* the worker threads
    unit,       \* the unit each of them is on
    poisoned,   \* is the lock of the sink poisoned?
    handler,    \* the signal handler
    result,     \* the result file
    faults      \* disturbances so far

treeVars == <<head, engine, apart>>
runVars == <<run, bin, settled>>
poolVars == <<remaining, results, thread, unit>>
procVars == <<main, runVars, poolVars, poisoned, handler>>
vars == <<fileVars, treeVars, procVars, result, faults>>

Headers == [args : Args, rev : Revs]

\* split_units: as many units as there are entries, numbered from 1.
UnitsOf(a, e) == 1 .. Len(Finds[a][e])
AllUnits == UNION {UnitsOf(a, e) : a \in Args, e \in Revs}
Records == [unit : AllUnits, by : Revs]
MyUnits == UnitsOf(run.args, bin)
Computed == [unit : results, by : {bin}]

\* The `done` counter: it starts at the number of settled units.
Counted == Cardinality(settled) + Cardinality(results)

AtMost(n, seq) == SubSeq(seq, 1, Min({n, Len(seq)}))

\* The champions of the settled units in unit order (the i-th record is the one with i - 1
\* before it), cut at the cap.
Merge(a, recs) ==
    LET before(r) == {q \in recs : q.unit < r.unit}
        nth(i) == CHOOSE r \in recs : Cardinality(before(r)) = i - 1
    IN AtMost(Cap, FlattenSeq([i \in 1 .. Cardinality(recs) |-> Finds[a][nth(i).by][nth(i).unit]]))

\* All that a merge can come to.
RecordsOf(a) == {r \in Records : r.unit \in UnitsOf(a, r.by)}
OneEach(recs) == \A p, q \in recs : p.unit = q.unit => p = q
Reports == UNION {{Merge(a, recs) : recs \in {r \in SUBSET RecordsOf(a) : OneEach(r)}} : a \in Args}

TypeOK ==
    /\ header \in Headers \cup {NoHeader}
    /\ lines \in SUBSET Records /\ unsynced \in SUBSET lines
    /\ doubled \in BOOLEAN /\ garbled \in BOOLEAN
    /\ tail \in {"none", "torn", "open"}
    /\ head \in Revs /\ engine \in Revs /\ apart \in BOOLEAN
    /\ main \in {"off", "header", "run", "telem", "panic", "closing", "closed", "publish"}
    /\ run \in Headers /\ bin \in Revs
    /\ settled \in SUBSET Records
    /\ remaining \in SUBSET AllUnits /\ results \in SUBSET AllUnits
    /\ thread \in [Workers -> {"idle", "search", "write", "push", "gone"}]
    /\ unit \in [Workers -> AllUnits \cup {0}]
    /\ poisoned \in BOOLEAN
    /\ handler \in {"none", "waiting", "synced"}
    /\ result \in [args : Args, rev : Revs, found : Reports] \cup {NoResult, Cut}
    /\ faults \in 0 .. MaxFaults

Init ==
    /\ header = NoHeader /\ lines = {} /\ unsynced = {}
    /\ doubled = FALSE /\ garbled = FALSE /\ tail = "none"
    /\ head \in Revs /\ engine = head /\ apart = FALSE
    /\ main = "off" /\ handler = "none" /\ poisoned = FALSE
    /\ run \in [args : Args, rev : {head}] /\ bin = engine
    /\ settled = {} /\ remaining = {} /\ results = {}
    /\ thread = [w \in Workers |-> "gone"]
    /\ unit = [w \in Workers |-> 0]
    /\ result = NoResult
    /\ faults = 0

\* The process is gone, and with it all it had in memory.
Exit ==
    /\ main' = "off" /\ handler' = "none" /\ poisoned' = FALSE
    /\ settled' = {} /\ remaining' = {} /\ results' = {}
    /\ thread' = [w \in Workers |-> "gone"]
    /\ unit' = [w \in Workers |-> 0]
    /\ UNCHANGED <<run, bin>>

Fault == faults < MaxFaults /\ faults' = faults + 1

-----------------------------------------------------------------------------
(* Starting a run                                                          *)

\* Mutant of Open: the settled units are searched again.
Open_All(a, recovered) ==
    /\ run' = [args |-> a, rev |-> head] /\ bin' = engine
    /\ settled' = recovered
    /\ remaining' = UnitsOf(a, engine)
    /\ results' = {}
    /\ thread' = [w \in Workers |-> "idle"]
    /\ UNCHANGED unit

\* Phase 1 enumerates the units; those already in the trace are not run.
Open(a, recovered) ==
    /\ run' = [args |-> a, rev |-> head] /\ bin' = engine
    /\ settled' = recovered
    /\ remaining' = UnitsOf(a, engine) \ {r.unit : r \in recovered}
    /\ results' = {}
    /\ thread' = [w \in Workers |-> "idle"]
    /\ UNCHANGED unit

\* Units the enumeration does not know: "engine drift?".
Drifted(a) == \E l \in lines : l.unit \notin UnitsOf(a, engine)

\* Mutant of Resumable: the header is not compared.
Resumable_AnyHeader(a) == Scannable

\* The trace can be read and belongs to this very run.
Resumable(a) == Scannable /\ header = [args |-> a, rev |-> head]

\* Truncate the file and start its header line.  A trace that could be
\* resumed is discarded only by an operator who insists on --fresh.
StartFresh(a) ==
    /\ main = "off"
    /\ IF Resumable(a) /\ ~Drifted(a) THEN Fault ELSE UNCHANGED faults
    /\ Truncate
    /\ tail' = "torn"
    /\ main' = "header"
    /\ Open(a, {})
    /\ UNCHANGED <<treeVars, poisoned, handler, result>>

WriteHeader ==
    /\ main = "header"
    /\ header' = run
    /\ tail' = "none"
    /\ main' = "run"
    /\ UNCHANGED <<lines, unsynced, doubled, garbled, treeVars, runVars, poolVars, poisoned,
                   handler, result, faults>>

\* The header matches: drop the unfinished line, skip what is settled.
Resume(a) ==
    /\ main = "off"
    /\ Resumable(a)
    /\ ~Drifted(a)
    /\ DropTail
    /\ main' = "run"
    /\ Open(a, lines)
    /\ UNCHANGED <<treeVars, poisoned, handler, result, faults>>

\* It matches, and phase 1 contradicts the trace: refuse, after the drop.
RefuseDrift(a) ==
    /\ main = "off"
    /\ Resumable(a)
    /\ Drifted(a)
    /\ tail # "none"
    /\ DropTail
    /\ UNCHANGED <<treeVars, procVars, result, faults>>

-----------------------------------------------------------------------------
(* The worker threads                                                      *)

SetThread(w, p) == thread' = [thread EXCEPT ![w] = p]

\* Who holds the lock of the sink is seen from what they do.
Locked == main \in {"telem", "closing"} \/ \E w \in Workers : thread[w] = "write"
LockFree == ~Locked /\ ~poisoned

\* fetch_add on an index into the ascending todo list.
Claim(w) ==
    /\ thread[w] = "idle" /\ main # "header"
    /\ remaining # {}
    /\ unit' = [unit EXCEPT ![w] = Min(remaining)]
    /\ remaining' = remaining \ {Min(remaining)}
    /\ SetThread(w, "search")
    /\ UNCHANGED <<fileVars, treeVars, runVars, results, main, poisoned, handler, result, faults>>

NoneLeft(w) ==
    /\ thread[w] = "idle" /\ main # "header"
    /\ remaining = {}
    /\ SetThread(w, "gone")
    /\ UNCHANGED <<fileVars, treeVars, runVars, remaining, unit, results, main, poisoned,
                   handler, result, faults>>

\* The unit is searched; take the lock and start its line.
BeginUnitLine(w) ==
    /\ thread[w] = "search"
    /\ LockFree
    /\ BeginLine
    /\ SetThread(w, "write")
    /\ UNCHANGED <<treeVars, runVars, remaining, unit, results, main, poisoned, handler, result,
                   faults>>

\* The line is flushed, and synced if the last sync is 5 s ago.
EndUnitLine(w) ==
    /\ thread[w] = "write"
    /\ \E synced \in BOOLEAN : EndLine({[unit |-> unit[w], by |-> bin]}, synced)
    /\ SetThread(w, "push")
    /\ UNCHANGED <<treeVars, runVars, remaining, unit, results, main, poisoned, handler, result,
                   faults>>

Push(w) ==
    /\ thread[w] = "push"
    /\ results' = results \cup {unit[w]}
    /\ unit' = [unit EXCEPT ![w] = 0]
    /\ SetThread(w, "idle")
    /\ UNCHANGED <<fileVars, treeVars, runVars, remaining, main, poisoned, handler, result, faults>>

\* lock().unwrap() on a poisoned lock.
PanicAtLock(w) ==
    /\ thread[w] = "search"
    /\ poisoned
    /\ SetThread(w, "gone")
    /\ UNCHANGED <<fileVars, treeVars, runVars, remaining, unit, results, main, poisoned,
                   handler, result, faults>>

\* The search itself panics: the unit is lost to this process.
UnitPanics(w) ==
    /\ MayPanic
    /\ thread[w] = "search"
    /\ Fault
    /\ SetThread(w, "gone")
    /\ UNCHANGED <<fileVars, treeVars, runVars, remaining, unit, results, main, poisoned,
                   handler, result>>

-----------------------------------------------------------------------------
(* The main thread                                                         *)

Counting == main = "run" /\ Counted < Cardinality(MyUnits)
AllGone == \A w \in Workers : thread[w] = "gone"

\* A telemetry line, now and then.
BeginTelemetry ==
    /\ Counting
    /\ LockFree
    /\ BeginLine
    /\ main' = "telem"
    /\ UNCHANGED <<treeVars, runVars, poolVars, poisoned, handler, result, faults>>

EndTelemetry ==
    /\ main = "telem"
    /\ \E synced \in BOOLEAN : EndLine({}, synced)
    /\ main' = "run"
    /\ UNCHANGED <<treeVars, runVars, poolVars, poisoned, handler, result, faults>>

\* Mutant of PanicAtTelemetry: a poisoned lock is let pass.
PanicAtTelemetry_Never ==
    /\ Counting
    /\ poisoned
    /\ UNCHANGED vars

\* The next telemetry line panics when some worker poisoned the lock.
PanicAtTelemetry ==
    /\ Counting
    /\ poisoned
    /\ main' = "panic"
    /\ UNCHANGED <<fileVars, treeVars, runVars, poolVars, poisoned, handler, result, faults>>

\* thread::scope joins the workers before the panic ends the process.
Unwind ==
    /\ main = "panic"
    /\ AllGone
    /\ Exit
    /\ UNCHANGED <<fileVars, treeVars, result, faults>>

\* Everything is counted and every worker has left: the `done` line.
BeginDone ==
    /\ main = "run"
    /\ ~Counting
    /\ AllGone
    /\ LockFree
    /\ BeginLine
    /\ main' = "closing"
    /\ UNCHANGED <<treeVars, runVars, poolVars, poisoned, handler, result, faults>>

EndDone ==
    /\ main = "closing"
    /\ EndLine({}, TRUE)
    /\ main' = "closed"
    /\ UNCHANGED <<treeVars, runVars, poolVars, poisoned, handler, result, faults>>

\* The result file is written in place.
BeginResult ==
    /\ main = "closed"
    /\ result' = Cut
    /\ main' = "publish"
    /\ UNCHANGED <<fileVars, treeVars, runVars, poolVars, poisoned, handler, faults>>

\* Mutant of EndResult: the units settled by earlier processes are left out.
EndResult_Own ==
    /\ main = "publish"
    /\ result' = [args |-> run.args, rev |-> run.rev, found |-> Merge(run.args, Computed)]
    /\ Exit
    /\ UNCHANGED <<fileVars, treeVars, faults>>

EndResult ==
    /\ main = "publish"
    /\ result' = [args |-> run.args, rev |-> run.rev,
                  found |-> Merge(run.args, settled \cup Computed)]
    /\ Exit
    /\ UNCHANGED <<fileVars, treeVars, faults>>

-----------------------------------------------------------------------------
(* Signals, failures, and the tree                                         *)

\* A signal wakes the handler.  The thread that runs it does not return
\* from it, so a second signal finds nobody.
Signal ==
    /\ main \notin {"off", "header"}
    /\ handler = "none"
    /\ Fault
    /\ handler' = "waiting"
    /\ UNCHANGED <<fileVars, treeVars, main, runVars, poolVars, poisoned, result>>

\* The handler syncs under the lock, or does without on a poisoned one.
HandlerSync ==
    /\ handler = "waiting"
    /\ \/ LockFree /\ Sync
       \/ poisoned /\ UNCHANGED fileVars
    /\ handler' = "synced"
    /\ UNCHANGED <<treeVars, main, runVars, poolVars, poisoned, result, faults>>

\* Mutant of HandlerExit: it returns.
HandlerExit_Returns ==
    /\ handler = "synced"
    /\ handler' = "none"
    /\ UNCHANGED <<fileVars, treeVars, main, runVars, poolVars, poisoned, result, faults>>

\* It has given the lock back: the exit may fall into another line.
HandlerExit ==
    /\ handler = "synced"
    /\ Exit
    /\ UNCHANGED <<fileVars, treeVars, result, faults>>

\* A write of the lock's holder fails: it panics, holding the lock.
WriteFails ==
    /\ Locked
    /\ Fault
    /\ poisoned' = TRUE
    /\ IF main \in {"telem", "closing"}
       THEN main' = "panic" /\ UNCHANGED thread
       ELSE /\ thread' = [w \in Workers |-> IF thread[w] = "write" THEN "gone" ELSE thread[w]]
            /\ UNCHANGED main
    /\ UNCHANGED <<fileVars, treeVars, runVars, remaining, unit, results, handler, result>>

Kill ==
    /\ main # "off"
    /\ Fault
    /\ Exit
    /\ UNCHANGED <<fileVars, treeVars, result>>

PowerLoss ==
    /\ Fault
    /\ Decay
    /\ Exit
    /\ UNCHANGED <<treeVars, result>>

\* Work on the engine: check out a revision, build one.
MoveTree(r) ==
    /\ r # head
    /\ Fault
    /\ head' = r
    /\ \/ engine' = r /\ UNCHANGED apart
       \/ ~Runtree /\ apart' = TRUE /\ UNCHANGED engine
    /\ UNCHANGED <<fileVars, procVars, result>>

Build ==
    /\ engine # head
    /\ engine' = head
    /\ UNCHANGED <<fileVars, head, apart, procVars, result, faults>>

-----------------------------------------------------------------------------

Start == \E a \in Args : StartFresh(a) \/ Resume(a)
Work(w) == \/ Claim(w) \/ NoneLeft(w) \/ BeginUnitLine(w) \/ EndUnitLine(w) \/ Push(w)
           \/ PanicAtLock(w)
Main == \/ WriteHeader \/ EndTelemetry \/ PanicAtTelemetry \/ Unwind
        \/ BeginDone \/ EndDone \/ BeginResult \/ EndResult
Handle == HandlerSync \/ HandlerExit
Disturb == \/ Signal \/ WriteFails \/ Kill \/ PowerLoss \/ Build
           \/ \E r \in Revs : MoveTree(r)
           \/ \E w \in Workers : UnitPanics(w)
           \/ \E a \in Args : RefuseDrift(a)

Next == Start \/ Main \/ BeginTelemetry \/ Handle \/ Disturb \/ \E w \in Workers : Work(w)

Spec == Init /\ [][Next]_vars

(***************************************************************************)
(* Fairness.  Every thread runs whenever it can.  The lock is taken for    *)
(* one line at a time, minutes apart for a worker and sixty seconds apart  *)
(* for the main thread, so nobody waits for it for ever (strong fairness). *)
(* Telemetry is nothing anybody waits for.  The operator runs the command  *)
(* again when a run ended without a result.                                *)
(***************************************************************************)
FairSpec ==
    /\ Spec
    /\ WF_vars(Start) /\ SF_vars(Main) /\ SF_vars(Handle)
    /\ \A w \in Workers : SF_vars(Work(w))

-----------------------------------------------------------------------------
(* Properties                                                              *)

\* Whatever cuts a line short (a kill, the exit of the signal handler, a
\* failed write, a power loss), the trace can be read back: a torn line is
\* only ever the last one, and no unit is settled twice
\* (scan_narrow_trace: "torn interior lines or duplicate unit ids are
\* errors").
TraceScannable == ~garbled /\ ~doubled

\* What an uninterrupted run reports: all the champions there are.
Uninterrupted(a, e) == AtMost(Cap, FlattenSeq(Finds[a][e]))

\* A published result is that of an uninterrupted run of the engine its
\* header names, however often the run was killed and resumed, as long as
\* binary and tree move together
\* (superopt.rs: "byte-identical to an uninterrupted run").
ResultIsUninterrupted ==
    ~apart /\ result \notin {NoResult, Cut} => result.found = Uninterrupted(result.args, result.rev)

\* Verdicts of different engine revisions are never mixed in one trace: any
\* two of its lines are by the same engine (narrow_split_cmd: "unit verdicts
\* from different engine revisions must never be mixed").
OneEngine == \A k, l \in lines : k.by = l.by

\* Under the runtree convention they are not, over all resumptions of a
\* trace, and the one engine is that which the header names.
ConventionKeepsOneEngine == ~apart => OneEngine /\ \A l \in lines : l.by = header.rev

\* No unit is searched twice at a time, nor once it is in the trace.
NoWorkRepeated ==
    \A w \in Workers : thread[w] = "search" =>
        /\ \A l \in lines : l.unit # unit[w]
        /\ unit[w] \notin remaining
        /\ \A v \in Workers \ {w} : unit[v] # unit[w]

\* A settled unit stays in the trace until the file is started over; a
\* power loss takes only lines that were not synced yet.
SettledStay ==
    [][header' = header =>
          /\ lines \ unsynced \subseteq lines'
          /\ lines \subseteq lines' \/ main' = "off"]_vars

\* The search of a unit panicked: its thread is gone, the unit is lost, and
\* `done` never reaches the number of units.
Hung ==
    /\ main \in {"run", "telem"} /\ ~poisoned
    /\ \E w \in Workers : thread[w] = "gone" /\ unit[w] # 0

\* A run that is started again when it dies ends with a whole result, after
\* finitely many kills, signals, failed writes and moves of the tree; only
\* a panic in the search of a unit can keep it waiting for ever, or a binary
\* that does not know the units of the trace.
RunFinishes == <>(result \notin {NoResult, Cut} \/ apart) \/ <>[]Hung

\* A signal ends the process, whoever holds or poisoned the lock, and even
\* when the run hangs.
SignalEnds == handler # "none" ~> main = "off"
=============================================================================
