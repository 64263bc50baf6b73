------------------------- MODULE NarrowSplit_proof -------------------------
(***************************************************************************)
(* Theorems about the resumable runner, for every number of units, threads *)
(* and disturbances, every cap, and every engine revision.                 *)
(*                                                                         *)
(* That no line of the trace is garbled needs to know who may leave one    *)
(* unfinished (OneHolder, TailHeld); that no unit has two lines, where     *)
(* every unit of the run is (UnitsApart) and what each line is from        *)
(* (LinesKnown).  That the published list is that of an uninterrupted run  *)
(* needs, besides, that the count of settled and computed units reaches    *)
(* their number only when they are all there (ClosedWhenAll), and that the *)
(* lines of earlier processes are of the same engine (Together).           *)
(***************************************************************************)
EXTENDS NarrowSplit, FiniteSetTheorems, FunctionTheorems, TLAPS

\* A process that has written its header.
Begun == main \notin {"off", "header"}

\* A process leaves nothing in memory, and does nothing before its header is written.
NothingLeft ==
    /\ main = "off" => /\ settled = {} /\ results = {} /\ remaining = {} /\ ~poisoned
                       /\ \A w \in Workers : thread[w] = "gone" /\ unit[w] = 0
    /\ main = "header" => ~poisoned /\ \A w \in Workers : thread[w] = "idle"

\* The lock of the sink has one holder, and none once it is poisoned.
OneHolder ==
    /\ \A v, w \in Workers : thread[v] = "write" /\ thread[w] = "write" => v = w
    /\ main \in {"telem", "closing"} => \A w \in Workers : thread[w] # "write"
    /\ poisoned => ~Locked

\* Only who holds the lock, or poisoned it, leaves a line unfinished.
TailHeld ==
    /\ ~garbled
    /\ Begun /\ tail # "none" => Locked \/ poisoned

\* A file without a header is empty; the header of a running process is its own.
HeaderIsMine ==
    /\ header = NoHeader => lines = {}
    /\ main = "header" => header = NoHeader
    /\ Begun => header = run

\* A unit is in one place: settled, computed, unclaimed, or with one thread.
UnitsApart ==
    /\ remaining \subseteq MyUnits /\ results \subseteq MyUnits \ remaining
    /\ \A r \in settled : r.unit \in MyUnits \ (remaining \cup results)
    /\ \A w \in Workers : thread[w] \in {"search", "write", "push"} => unit[w] # 0
    /\ \A w \in Workers : thread[w] = "idle" => unit[w] = 0
    /\ \A w \in Workers : unit[w] # 0 =>
          /\ unit[w] \in MyUnits \ (remaining \cup results)
          /\ \A r \in settled : r.unit # unit[w]
          /\ \A v \in Workers \ {w} : unit[v] # unit[w]

\* A line of the trace was there when the process started, or is of a unit it computed.
LinesKnown ==
    /\ ~doubled
    /\ \A l, m \in lines : l.unit = m.unit => l = m
    /\ \A l \in lines : l \in RecordsOf(header.args)
    /\ main # "off" =>
          /\ settled \subseteq lines
          /\ \A l \in lines : \/ l \in settled
                              \/ l.unit \in results
                              \/ \E w \in Workers : thread[w] = "push" /\ unit[w] = l.unit

\* The result is written when everything is counted and the workers have left.
ClosedWhenAll == main \in {"closing", "closed", "publish"} => AllGone /\ ~(Counted < Cardinality(MyUnits))

\* While binary and tree move together, so do the revisions of engine, run and lines.
Together ==
    ~apart => /\ engine = head
              /\ main # "off" => run.rev = bin
              /\ \A l \in lines : l.by = header.rev

IInv == /\ TypeOK /\ NothingLeft /\ OneHolder /\ TailHeld /\ HeaderIsMine
        /\ UnitsApart /\ LinesKnown /\ ClosedWhenAll /\ Together /\ ResultIsUninterrupted

\* SettledStay, of one step.
SettledStep ==
    header' = header => /\ lines \ unsynced \subseteq lines'
                        /\ lines \subseteq lines' \/ main' = "off"

-----------------------------------------------------------------------------

\* A nonempty set of numbers has a least element: the intervals below its members are finite
\* sets, and the inclusion of finite sets is well founded.
LEMMA LeastExists ==
  ASSUME NEW S \in SUBSET Nat, S # {}
  PROVE  /\ Min(S) \in S
         /\ \A n \in S : Min(S) <= n
<1> DEFINE below == {0 .. n : n \in S}
<1>1. below \subseteq FiniteSubsetsOf(Nat) /\ below # {}
  <2>1. \A n \in S : 0 .. n \in FiniteSubsetsOf(Nat)
    <3> TAKE n \in S
    <3>1. IsFiniteSet(0 .. n) /\ 0 .. n \subseteq Nat
      BY FS_Interval
    <3> QED BY <3>1 DEF FiniteSubsetsOf
  <2> QED BY <2>1
<1>2. PICK b \in below : \A a \in below : ~ (<<a, b>> \in StrictSubsetOrdering(Nat))
  <2> HIDE DEF below
  <2> QED BY <1>1, FS_StrictSubsetOrderingWellFounded, WFMin
<1>3. PICK m \in S : b = 0 .. m
  OBVIOUS
<1>4. ASSUME NEW n \in S PROVE m <= n
  <2>1. SUFFICES ASSUME n < m PROVE FALSE
    OBVIOUS
  <2>2. 0 .. n \subseteq 0 .. m /\ m \notin 0 .. n /\ m \in 0 .. m
    BY <2>1
  <2>3. 0 .. n \in SUBSET Nat /\ b \in SUBSET Nat /\ 0 .. n \subseteq b /\ 0 .. n # b
    BY <1>3, <2>2
  <2>4. <<0 .. n, b>> \in StrictSubsetOrdering(Nat)
    BY <2>3 DEF StrictSubsetOrdering
  <2> QED BY <1>2, <2>4
<1> QED BY <1>4 DEF Min

\* The units of an enumeration.
LEMMA UnitsKnown ==
  /\ AllUnits \subseteq Nat \ {0}
  /\ \A a \in Args, e \in Revs : UnitsOf(a, e) \subseteq AllUnits
<1>1. \A a \in Args, e \in Revs : Len(Finds[a][e]) \in Nat
  BY SplitAssumption
<1>2. \A a \in Args, e \in Revs : UnitsOf(a, e) \subseteq Nat \ {0}
  BY <1>1 DEF UnitsOf
<1>3. \A a \in Args, e \in Revs : UnitsOf(a, e) \subseteq AllUnits
  BY DEF AllUnits
<1>4. ASSUME NEW u \in AllUnits PROVE u \in Nat \ {0}
  <2>1. PICK a \in Args, e \in Revs : u \in UnitsOf(a, e)
    BY DEF AllUnits
  <2> QED BY <1>2, <2>1
<1> QED BY <1>3, <1>4

\* The bound on disturbances.
LEMMA FaultCounts ==
  ASSUME TypeOK, Fault PROVE faults' \in 0 .. MaxFaults
<1>1. MaxFaults \in Nat
  BY SplitAssumption
<1> QED BY <1>1 DEF TypeOK, Fault

\* A claim takes a unit that was unclaimed.
LEMMA ClaimsOne ==
  ASSUME TypeOK, remaining # {} PROVE Min(remaining) \in remaining
<1>1. remaining \in SUBSET Nat
  BY UnitsKnown DEF TypeOK
<1> QED BY <1>1, LeastExists

\* What is merged is known, so what is published is a report.
LEMMA MergesKnown ==
  ASSUME TypeOK, HeaderIsMine, UnitsApart, LinesKnown, Begun
  PROVE  /\ settled \cup Computed \in SUBSET RecordsOf(run.args)
         /\ OneEach(settled \cup Computed)
         /\ Merge(run.args, settled \cup Computed) \in Reports
<1>1. run.args \in Args /\ bin \in Revs
  BY DEF TypeOK, Headers
<1>2. settled \subseteq RecordsOf(run.args)
  BY DEF LinesKnown, HeaderIsMine, Begun
<1>3. Computed \subseteq RecordsOf(run.args)
  <2> SUFFICES ASSUME NEW u \in results PROVE [unit |-> u, by |-> bin] \in RecordsOf(run.args)
    BY DEF Computed
  <2>1. u \in UnitsOf(run.args, bin)
    BY DEF UnitsApart, MyUnits
  <2> QED BY <1>1, <2>1, UnitsKnown DEF RecordsOf, Records
<1>4. settled \cup Computed \in SUBSET RecordsOf(run.args)
  BY <1>2, <1>3
<1>5. OneEach(settled \cup Computed)
  <2>1. OneEach(settled)
    BY DEF LinesKnown, Begun, OneEach
  <2>2. \A r \in settled, c \in Computed : r.unit # c.unit
    BY DEF UnitsApart, Computed
  <2>3. \A c, d \in Computed : c.unit = d.unit => c = d
    BY DEF Computed
  <2> QED BY <2>1, <2>2, <2>3 DEF OneEach
<1>6. Merge(run.args, settled \cup Computed) \in Reports
  <2> DEFINE of(a) == {Merge(a, recs) : recs \in {r \in SUBSET RecordsOf(a) : OneEach(r)}}
  <2>1. Merge(run.args, settled \cup Computed) \in of(run.args)
    BY <1>4, <1>5
  <2> HIDE DEF of
  <2>2. Merge(run.args, settled \cup Computed) \in UNION {of(a) : a \in Args}
    BY <1>1, <2>1
  <2> QED BY <2>2 DEF Reports, of
<1> QED BY <1>4, <1>5, <1>6

\* The line of a unit that is being searched or written is not in the trace.
LEMMA FreshUnit ==
  ASSUME TypeOK, NothingLeft, UnitsApart, LinesKnown, NEW w \in Workers, thread[w] \in {"search", "write"}
  PROVE  \A l \in lines : l.unit # unit[w]
<1> SUFFICES ASSUME NEW l \in lines, l.unit = unit[w] PROVE FALSE
  OBVIOUS
<1>1. unit[w] # 0 /\ main # "off"
  BY DEF UnitsApart, NothingLeft
<1>2. l \notin settled /\ unit[w] \notin results
  BY <1>1 DEF UnitsApart
<1>3. PICK v \in Workers : thread[v] = "push" /\ unit[v] = l.unit
  BY <1>1, <1>2 DEF LinesKnown
<1>4. v # w
  BY <1>3
<1> QED BY <1>1, <1>3, <1>4 DEF UnitsApart

\* A set of records is as large as the set of their units when no two are of one unit.
LEMMA CountByUnit ==
  ASSUME NEW U, NEW R, IsFiniteSet(U), OneEach(R),
         \A r \in R : r.unit \in U, \A u \in U : \E r \in R : r.unit = u
  PROVE  IsFiniteSet(R) /\ Cardinality(R) = Cardinality(U)
<1> DEFINE f == [u \in U |-> CHOOSE r \in R : r.unit = u]
<1>1. \A u \in U : f[u] \in R /\ f[u].unit = u
  OBVIOUS
<1>2. f \in [U -> R]
  BY <1>1
<1>3. \A u, v \in U : f[u] = f[v] => u = v
  BY <1>1
<1>4. \A r \in R : \E u \in U : f[u] = r
  BY <1>1 DEF OneEach
<1>5. f \in Bijection(U, R)
  <2> HIDE DEF f
  <2> QED BY <1>2, <1>3, <1>4, Fun_IsBij
<1>6. ExistsBijection(U, R)
  BY <1>5 DEF ExistsBijection
<1> QED BY <1>6, FS_Bijection

\* The records of the units 1 .. n of one engine are n.
LEMMA RecordsCount ==
  ASSUME NEW e, NEW n \in Nat
  PROVE  Cardinality({[unit |-> u, by |-> e] : u \in 1 .. n}) = n
<1> DEFINE recs == {[unit |-> u, by |-> e] : u \in 1 .. n}
<1>1. IsFiniteSet(1 .. n) /\ Cardinality(1 .. n) = n
  BY FS_Interval
<1>2. /\ OneEach(recs)
      /\ \A r \in recs : r.unit \in 1 .. n
      /\ \A u \in 1 .. n : \E r \in recs : r.unit = u
  <2>1. \A r \in recs : r = [unit |-> r.unit, by |-> e] /\ r.unit \in 1 .. n
    OBVIOUS
  <2>2. \A u \in 1 .. n : [unit |-> u, by |-> e] \in recs /\ [unit |-> u, by |-> e].unit = u
    OBVIOUS
  <2> HIDE DEF recs
  <2>3. \A p, q \in recs : p.unit = q.unit => p = q
    BY <2>1
  <2> QED BY <2>1, <2>2, <2>3 DEF OneEach
<1> HIDE DEF recs
<1>3. Cardinality(recs) = n
  BY <1>1, <1>2, CountByUnit
<1> QED BY <1>3 DEF recs

\* Merging the records of all units of one engine gives what an uninterrupted run reports.
LEMMA MergeOfAll ==
  ASSUME NEW a \in Args, NEW e \in Revs
  PROVE  Merge(a, {[unit |-> u, by |-> e] : u \in UnitsOf(a, e)}) = Uninterrupted(a, e)
<1> DEFINE n == Len(Finds[a][e])
           rec(u) == [unit |-> u, by |-> e]
           recs == {rec(u) : u \in 1 .. n}
           before(r) == {q \in recs : q.unit < r.unit}
           nth(i) == CHOOSE r \in recs : Cardinality(before(r)) = i - 1
           list == [i \in 1 .. Cardinality(recs) |-> Finds[a][nth(i).by][nth(i).unit]]
<1>1. Finds[a][e] \in Seq(Seq(Nat)) /\ n \in Nat
  BY SplitAssumption
<1>2. Cardinality(recs) = n
  BY <1>1, RecordsCount
<1>3. \A k \in 1 .. n : Cardinality(before(rec(k))) = k - 1
  <2> TAKE k \in 1 .. n
  <2>1. k - 1 \in Nat
    BY <1>1
  <2>2. before(rec(k)) = {rec(u) : u \in 1 .. (k - 1)}
    BY <1>1
  <2>3. Cardinality({rec(u) : u \in 1 .. (k - 1)}) = k - 1
    BY <2>1, RecordsCount
  <2> QED BY <2>2, <2>3
<1>4. \A i \in 1 .. n : nth(i) = rec(i)
  <2> TAKE i \in 1 .. n
  <2>1. rec(i) \in recs /\ Cardinality(before(rec(i))) = i - 1
    BY <1>3
  <2>2. ASSUME NEW r \in recs, Cardinality(before(r)) = i - 1 PROVE r = rec(i)
    <3>1. PICK k \in 1 .. n : r = rec(k)
      OBVIOUS
    <3>2. k - 1 = i - 1
      BY <1>3, <2>2, <3>1
    <3>3. k = i
      BY <1>1, <3>2
    <3> QED BY <3>1, <3>3
  <2> HIDE DEF recs, before, rec
  <2> QED BY <2>1, <2>2
<1>5. list = Finds[a][e]
  <2> HIDE DEF nth, recs
  <2>1. \A i \in 1 .. n : nth(i).by = e /\ nth(i).unit = i
    BY <1>4
  <2>2. list = [i \in 1 .. n |-> Finds[a][e][i]]
    BY <1>2, <2>1
  <2>3. Finds[a][e] = [i \in 1 .. n |-> Finds[a][e][i]]
    BY <1>1
  <2> QED BY <2>2, <2>3
<1>6. Merge(a, recs) = AtMost(Cap, FlattenSeq(list))
  BY DEF Merge
<1>7. Merge(a, recs) = Uninterrupted(a, e)
  <2> HIDE DEF list, recs
  <2> QED BY <1>5, <1>6 DEF Uninterrupted
<1> QED BY <1>7 DEF UnitsOf

\* When everything is counted, every unit of this run has a record, by its engine.
LEMMA CountedMeansAll ==
  ASSUME TypeOK, HeaderIsMine, UnitsApart, LinesKnown, Together, ClosedWhenAll,
         ~apart, main = "publish"
  PROVE  /\ run.rev = bin
         /\ settled \cup Computed = {[unit |-> u, by |-> bin] : u \in MyUnits}
<1> DEFINE S == {r.unit : r \in settled}
<1>1. run.rev = bin /\ header = run /\ settled \subseteq lines
  BY DEF Together, HeaderIsMine, Begun, LinesKnown
<1>2. \A r \in settled : r = [unit |-> r.unit, by |-> bin]
  BY <1>1 DEF Together, TypeOK, Records
<1>3. S \subseteq MyUnits /\ results \subseteq MyUnits /\ S \cap results = {}
  BY DEF UnitsApart
<1>4. IsFiniteSet(MyUnits)
  <2>1. Len(Finds[run.args][bin]) \in Nat
    BY SplitAssumption DEF TypeOK, Headers
  <2> QED BY <2>1, FS_Interval DEF MyUnits, UnitsOf
<1>5. IsFiniteSet(S) /\ IsFiniteSet(results)
  <2> HIDE DEF S
  <2> QED BY <1>3, <1>4, FS_Subset
<1>6. Cardinality(settled) = Cardinality(S)
  <2>1. /\ OneEach(settled)
        /\ \A r \in settled : r.unit \in S
        /\ \A u \in S : \E r \in settled : r.unit = u
    BY <1>1 DEF LinesKnown, OneEach
  <2> HIDE DEF S
  <2> QED BY <1>5, <2>1, CountByUnit
<1> HIDE DEF S
<1>7. Cardinality(S \cup results) = Counted
  <2>1. Cardinality(S) \in Nat /\ Cardinality(results) \in Nat
    BY <1>5, FS_CardinalityType
  <2>2. Cardinality(S \cup results) = Cardinality(S) + Cardinality(results) - Cardinality(S \cap results)
    BY <1>5, FS_Union
  <2>3. Cardinality(S \cap results) = 0
    BY <1>3, FS_EmptySet
  <2> QED BY <1>6, <2>1, <2>2, <2>3 DEF Counted
<1>8. S \cup results = MyUnits
  <2>1. S \cup results \in SUBSET MyUnits
    BY <1>3
  <2>2. /\ IsFiniteSet(S \cup results)
        /\ Cardinality(S \cup results) <= Cardinality(MyUnits)
        /\ Cardinality(MyUnits) = Cardinality(S \cup results) => MyUnits = S \cup results
    BY <1>4, <2>1, FS_Subset
  <2>3. Cardinality(S \cup results) \in Nat /\ Cardinality(MyUnits) \in Nat
    BY <1>4, <2>2, FS_CardinalityType
  <2>4. ~(Cardinality(S \cup results) < Cardinality(MyUnits))
    BY <1>7 DEF ClosedWhenAll
  <2> QED BY <2>2, <2>3, <2>4
<1>9. settled \cup Computed = {[unit |-> u, by |-> bin] : u \in S \cup results}
  BY <1>2 DEF Computed, S
<1> QED BY <1>1, <1>8, <1>9

-----------------------------------------------------------------------------
(* One lemma for each part of the invariant.                              *)

\* Every step keeps the types.
LEMMA NextTypeOK ==
  ASSUME IInv, [Next]_vars PROVE TypeOK'
<1>a. TypeOK /\ HeaderIsMine /\ UnitsApart /\ LinesKnown
  BY DEF IInv
<1> USE DEF treeVars, runVars, poolVars, procVars, fileVars
<1>1. ASSUME NEW a \in Args, StartFresh(a) PROVE TypeOK'
  <2>1. faults' \in 0 .. MaxFaults
    BY <1>a, <1>1, FaultCounts DEF StartFresh, TypeOK
  <2>2. run' \in Headers /\ bin' \in Revs /\ remaining' \in SUBSET AllUnits
    BY <1>a, <1>1, UnitsKnown DEF StartFresh, Open, TypeOK, Headers
  <2> QED BY <1>a, <1>1, <2>1, <2>2 DEF StartFresh, Truncate, Open, TypeOK
<1>2. ASSUME NEW a \in Args, Resume(a) PROVE TypeOK'
  <2>2. run' \in Headers /\ bin' \in Revs /\ remaining' \in SUBSET AllUnits
    BY <1>a, <1>2, UnitsKnown DEF Resume, Open, TypeOK, Headers
  <2> QED BY <1>a, <1>2, <2>2 DEF Resume, DropTail, Open, TypeOK
<1>3. ASSUME NEW a \in Args, RefuseDrift(a) PROVE TypeOK'
  BY <1>a, <1>3 DEF RefuseDrift, DropTail, TypeOK
<1>4. ASSUME WriteHeader PROVE TypeOK'
  BY <1>a, <1>4 DEF WriteHeader, TypeOK
<1>5. ASSUME BeginTelemetry PROVE TypeOK'
  BY <1>a, <1>5 DEF BeginTelemetry, BeginLine, TypeOK
<1>6. ASSUME EndTelemetry PROVE TypeOK'
  BY <1>a, <1>6 DEF EndTelemetry, EndLine, TypeOK
<1>7. ASSUME PanicAtTelemetry PROVE TypeOK'
  BY <1>a, <1>7 DEF PanicAtTelemetry, TypeOK
<1>8. ASSUME BeginDone PROVE TypeOK'
  BY <1>a, <1>8 DEF BeginDone, BeginLine, TypeOK
<1>9. ASSUME EndDone PROVE TypeOK'
  BY <1>a, <1>9 DEF EndDone, EndLine, TypeOK
<1>10. ASSUME BeginResult PROVE TypeOK'
  BY <1>a, <1>10 DEF BeginResult, TypeOK
<1>11. ASSUME EndResult PROVE TypeOK'
  <2>1. Merge(run.args, settled \cup Computed) \in Reports
    BY <1>a, <1>11, MergesKnown DEF EndResult, Begun
  <2>2. result' \in [args : Args, rev : Revs, found : Reports]
    BY <1>a, <1>11, <2>1 DEF EndResult, TypeOK, Headers
  <2> QED BY <1>a, <1>11, <2>2 DEF EndResult, Exit, TypeOK
<1>12. ASSUME Unwind PROVE TypeOK'
  BY <1>a, <1>12 DEF Unwind, Exit, TypeOK
<1>13. ASSUME HandlerSync PROVE TypeOK'
  BY <1>a, <1>13 DEF HandlerSync, Sync, TypeOK
<1>14. ASSUME HandlerExit PROVE TypeOK'
  BY <1>a, <1>14 DEF HandlerExit, Exit, TypeOK
<1>15. ASSUME Signal PROVE TypeOK'
  <2>1. faults' \in 0 .. MaxFaults
    BY <1>a, <1>15, FaultCounts DEF Signal
  <2> QED BY <1>a, <1>15, <2>1 DEF Signal, TypeOK
<1>16. ASSUME WriteFails PROVE TypeOK'
  <2>1. faults' \in 0 .. MaxFaults
    BY <1>a, <1>16, FaultCounts DEF WriteFails
  <2>2. thread' \in [Workers -> {"idle", "search", "write", "push", "gone"}]
    BY <1>a, <1>16 DEF WriteFails, TypeOK
  <2>3. main' \in {main, "panic"}
    BY <1>16 DEF WriteFails
  <2> QED BY <1>a, <1>16, <2>1, <2>2, <2>3 DEF WriteFails, TypeOK
<1>17. ASSUME Kill PROVE TypeOK'
  <2>1. faults' \in 0 .. MaxFaults
    BY <1>a, <1>17, FaultCounts DEF Kill
  <2> QED BY <1>a, <1>17, <2>1 DEF Kill, Exit, TypeOK
<1>18. ASSUME PowerLoss PROVE TypeOK'
  <2>1. faults' \in 0 .. MaxFaults
    BY <1>a, <1>18, FaultCounts DEF PowerLoss
  <2> QED BY <1>a, <1>18, <2>1 DEF PowerLoss, Decay, Exit, TypeOK
<1>19. ASSUME Build PROVE TypeOK'
  BY <1>a, <1>19 DEF Build, TypeOK
<1>20. ASSUME NEW r \in Revs, MoveTree(r) PROVE TypeOK'
  <2>1. faults' \in 0 .. MaxFaults
    BY <1>a, <1>20, FaultCounts DEF MoveTree
  <2>2. head' \in Revs /\ engine' \in Revs /\ apart' \in BOOLEAN
    BY <1>a, <1>20 DEF MoveTree, TypeOK
  <2>3. UNCHANGED <<fileVars, procVars, result>>
    BY <1>20 DEF MoveTree
  <2> QED BY <1>a, <2>1, <2>2, <2>3 DEF TypeOK
<1>21. ASSUME NEW w \in Workers, UnitPanics(w) PROVE TypeOK'
  <2>1. faults' \in 0 .. MaxFaults
    BY <1>a, <1>21, FaultCounts DEF UnitPanics
  <2> QED BY <1>a, <1>21, <2>1 DEF UnitPanics, SetThread, TypeOK
<1>22. ASSUME NEW w \in Workers, Claim(w) PROVE TypeOK'
  <2>1. Min(remaining) \in AllUnits
    BY <1>a, <1>22, ClaimsOne DEF Claim, TypeOK
  <2>2. unit' \in [Workers -> AllUnits \cup {0}] /\ remaining' \in SUBSET AllUnits
    BY <1>a, <1>22, <2>1 DEF Claim, TypeOK
  <2> QED BY <1>a, <1>22, <2>2 DEF Claim, SetThread, TypeOK
<1>23. ASSUME NEW w \in Workers, NoneLeft(w) PROVE TypeOK'
  BY <1>a, <1>23 DEF NoneLeft, SetThread, TypeOK
<1>24. ASSUME NEW w \in Workers, BeginUnitLine(w) PROVE TypeOK'
  BY <1>a, <1>24 DEF BeginUnitLine, BeginLine, SetThread, TypeOK
<1>25. ASSUME NEW w \in Workers, EndUnitLine(w) PROVE TypeOK'
  <2>1. unit[w] \in AllUnits
    BY <1>a, <1>25 DEF EndUnitLine, UnitsApart, TypeOK
  <2>2. [unit |-> unit[w], by |-> bin] \in Records
    BY <1>a, <2>1 DEF TypeOK, Records
  <2>3. lines' \in SUBSET Records /\ unsynced' \in SUBSET lines'
    BY <1>a, <1>25, <2>2 DEF EndUnitLine, EndLine, TypeOK
  <2>4. doubled' \in BOOLEAN
    BY <1>25 DEF EndUnitLine, EndLine
  <2> QED BY <1>a, <1>25, <2>3, <2>4 DEF EndUnitLine, EndLine, SetThread, TypeOK
<1>26. ASSUME NEW w \in Workers, Push(w) PROVE TypeOK'
  <2>1. unit[w] \in AllUnits
    BY <1>a, <1>26 DEF Push, UnitsApart, TypeOK
  <2> QED BY <1>a, <1>26, <2>1 DEF Push, SetThread, TypeOK
<1>27. ASSUME NEW w \in Workers, PanicAtLock(w) PROVE TypeOK'
  BY <1>a, <1>27 DEF PanicAtLock, SetThread, TypeOK
<1>28. CASE UNCHANGED vars
  BY <1>a, <1>28 DEF vars, TypeOK
<1> QED
  BY <1>1, <1>2, <1>3, <1>4, <1>5, <1>6, <1>7, <1>8, <1>9, <1>10, <1>11, <1>12, <1>13, <1>14, <1>15,
     <1>16, <1>17, <1>18, <1>19, <1>20, <1>21, <1>22, <1>23, <1>24, <1>25, <1>26, <1>27, <1>28
  DEF Next, Start, Main, Handle, Disturb, Work

\* A process that is gone left nothing, and one that has not written its header has not begun.
LEMMA NextNothingLeft ==
  ASSUME IInv, [Next]_vars PROVE NothingLeft'
<1>a. NothingLeft /\ TypeOK
  BY DEF IInv
<1> USE DEF treeVars, runVars, poolVars, procVars, fileVars
<1>1. ASSUME NEW a \in Args, StartFresh(a) PROVE NothingLeft'
  BY <1>a, <1>1 DEF StartFresh, Truncate, Open, NothingLeft
<1>2. ASSUME NEW a \in Args, Resume(a) PROVE NothingLeft'
  BY <1>2 DEF Resume, Resumable, Drifted, DropTail, Open, NothingLeft
<1>3. ASSUME NEW a \in Args, RefuseDrift(a) PROVE NothingLeft'
  BY <1>a, <1>3 DEF RefuseDrift, DropTail, NothingLeft
<1>4. ASSUME WriteHeader PROVE NothingLeft'
  BY <1>4 DEF WriteHeader, NothingLeft
<1>5. ASSUME BeginTelemetry PROVE NothingLeft'
  BY <1>5 DEF BeginTelemetry, BeginLine, NothingLeft
<1>6. ASSUME EndTelemetry PROVE NothingLeft'
  BY <1>6 DEF EndTelemetry, EndLine, NothingLeft
<1>7. ASSUME PanicAtTelemetry PROVE NothingLeft'
  BY <1>7 DEF PanicAtTelemetry, NothingLeft
<1>8. ASSUME BeginDone PROVE NothingLeft'
  BY <1>8 DEF BeginDone, BeginLine, NothingLeft
<1>9. ASSUME EndDone PROVE NothingLeft'
  BY <1>9 DEF EndDone, EndLine, NothingLeft
<1>10. ASSUME BeginResult PROVE NothingLeft'
  BY <1>10 DEF BeginResult, NothingLeft
<1>11. ASSUME EndResult PROVE NothingLeft'
  BY <1>11 DEF EndResult, Exit, NothingLeft
<1>12. ASSUME Unwind PROVE NothingLeft'
  BY <1>12 DEF Unwind, Exit, NothingLeft
<1>13. ASSUME HandlerSync PROVE NothingLeft'
  BY <1>a, <1>13 DEF HandlerSync, Sync, NothingLeft
<1>14. ASSUME HandlerExit PROVE NothingLeft'
  BY <1>14 DEF HandlerExit, Exit, NothingLeft
<1>15. ASSUME Signal PROVE NothingLeft'
  BY <1>15 DEF Signal, NothingLeft
<1>16. ASSUME WriteFails PROVE NothingLeft'
  <2>1. main \notin {"off", "header"}
    BY <1>a, <1>16 DEF WriteFails, Locked, NothingLeft, TypeOK
  <2>2. main' \notin {"off", "header"}
    BY <1>16, <2>1 DEF WriteFails
  <2> QED BY <2>2 DEF NothingLeft
<1>17. ASSUME Kill PROVE NothingLeft'
  BY <1>17 DEF Kill, Exit, NothingLeft
<1>18. ASSUME PowerLoss PROVE NothingLeft'
  BY <1>18 DEF PowerLoss, Decay, Exit, NothingLeft
<1>19. ASSUME Build PROVE NothingLeft'
  BY <1>a, <1>19 DEF Build, NothingLeft
<1>20. ASSUME NEW r \in Revs, MoveTree(r) PROVE NothingLeft'
  BY <1>a, <1>20 DEF MoveTree, NothingLeft
<1>21. ASSUME NEW w \in Workers, UnitPanics(w) PROVE NothingLeft'
  BY <1>a, <1>21 DEF UnitPanics, SetThread, NothingLeft
<1>22. ASSUME NEW w \in Workers, Claim(w) PROVE NothingLeft'
  BY <1>a, <1>22 DEF Claim, SetThread, NothingLeft
<1>23. ASSUME NEW w \in Workers, NoneLeft(w) PROVE NothingLeft'
  BY <1>a, <1>23 DEF NoneLeft, SetThread, NothingLeft
<1>24. ASSUME NEW w \in Workers, BeginUnitLine(w) PROVE NothingLeft'
  BY <1>a, <1>24 DEF BeginUnitLine, BeginLine, SetThread, NothingLeft
<1>25. ASSUME NEW w \in Workers, EndUnitLine(w) PROVE NothingLeft'
  BY <1>a, <1>25 DEF EndUnitLine, EndLine, SetThread, NothingLeft
<1>26. ASSUME NEW w \in Workers, Push(w) PROVE NothingLeft'
  BY <1>a, <1>26 DEF Push, SetThread, NothingLeft
<1>27. ASSUME NEW w \in Workers, PanicAtLock(w) PROVE NothingLeft'
  BY <1>a, <1>27 DEF PanicAtLock, SetThread, NothingLeft
<1>28. CASE UNCHANGED vars
  BY <1>a, <1>28 DEF vars, NothingLeft
<1> QED
  BY <1>1, <1>2, <1>3, <1>4, <1>5, <1>6, <1>7, <1>8, <1>9, <1>10, <1>11, <1>12, <1>13, <1>14, <1>15,
     <1>16, <1>17, <1>18, <1>19, <1>20, <1>21, <1>22, <1>23, <1>24, <1>25, <1>26, <1>27, <1>28
  DEF Next, Start, Main, Handle, Disturb, Work

\* Every step takes the lock only when it is free, and a failed write gives it up poisoned.
LEMMA NextOneHolder ==
  ASSUME IInv, [Next]_vars PROVE OneHolder'
<1>a. OneHolder /\ TypeOK /\ NothingLeft
  BY DEF IInv
<1> USE DEF treeVars, runVars, poolVars, procVars, fileVars
<1>1. ASSUME NEW a \in Args, StartFresh(a) PROVE OneHolder'
  BY <1>a, <1>1 DEF StartFresh, Truncate, Open, OneHolder, NothingLeft
<1>2. ASSUME NEW a \in Args, Resume(a) PROVE OneHolder'
  BY <1>a, <1>2 DEF Resume, Resumable, Drifted, DropTail, Open, OneHolder, NothingLeft
<1>3. ASSUME NEW a \in Args, RefuseDrift(a) PROVE OneHolder'
  BY <1>a, <1>3 DEF RefuseDrift, DropTail, OneHolder, NothingLeft
<1>4. ASSUME WriteHeader PROVE OneHolder'
  BY <1>a, <1>4 DEF WriteHeader, OneHolder, NothingLeft
<1>5. ASSUME BeginTelemetry PROVE OneHolder'
  BY <1>a, <1>5 DEF BeginTelemetry, BeginLine, OneHolder, Locked, LockFree
<1>6. ASSUME EndTelemetry PROVE OneHolder'
  BY <1>a, <1>6 DEF EndTelemetry, EndLine, OneHolder, Locked
<1>7. ASSUME PanicAtTelemetry PROVE OneHolder'
  BY <1>a, <1>7 DEF PanicAtTelemetry, OneHolder, Locked
<1>8. ASSUME BeginDone PROVE OneHolder'
  BY <1>a, <1>8 DEF BeginDone, BeginLine, OneHolder, Locked, LockFree
<1>9. ASSUME EndDone PROVE OneHolder'
  BY <1>a, <1>9 DEF EndDone, EndLine, OneHolder, Locked
<1>10. ASSUME BeginResult PROVE OneHolder'
  BY <1>a, <1>10 DEF BeginResult, OneHolder, Locked
<1>11. ASSUME EndResult PROVE OneHolder'
  BY <1>11 DEF EndResult, Exit, OneHolder
<1>12. ASSUME Unwind PROVE OneHolder'
  BY <1>12 DEF Unwind, Exit, OneHolder
<1>13. ASSUME HandlerSync PROVE OneHolder'
  BY <1>a, <1>13 DEF HandlerSync, Sync, OneHolder, Locked
<1>14. ASSUME HandlerExit PROVE OneHolder'
  BY <1>14 DEF HandlerExit, Exit, OneHolder
<1>15. ASSUME Signal PROVE OneHolder'
  BY <1>a, <1>15 DEF Signal, OneHolder, Locked
<1>16. ASSUME WriteFails PROVE OneHolder'
  BY <1>a, <1>16 DEF WriteFails, OneHolder, Locked
<1>17. ASSUME Kill PROVE OneHolder'
  BY <1>17 DEF Kill, Exit, OneHolder
<1>18. ASSUME PowerLoss PROVE OneHolder'
  BY <1>18 DEF PowerLoss, Decay, Exit, OneHolder
<1>19. ASSUME Build PROVE OneHolder'
  BY <1>a, <1>19 DEF Build, OneHolder, Locked
<1>20. ASSUME NEW r \in Revs, MoveTree(r) PROVE OneHolder'
  BY <1>a, <1>20 DEF MoveTree, OneHolder, Locked
<1>21. ASSUME NEW w \in Workers, UnitPanics(w) PROVE OneHolder'
  BY <1>a, <1>21 DEF UnitPanics, SetThread, OneHolder, Locked
<1>22. ASSUME NEW w \in Workers, Claim(w) PROVE OneHolder'
  BY <1>a, <1>22 DEF Claim, SetThread, OneHolder, Locked
<1>23. ASSUME NEW w \in Workers, NoneLeft(w) PROVE OneHolder'
  BY <1>a, <1>23 DEF NoneLeft, SetThread, OneHolder, Locked
<1>24. ASSUME NEW w \in Workers, BeginUnitLine(w) PROVE OneHolder'
  BY <1>a, <1>24 DEF BeginUnitLine, BeginLine, SetThread, OneHolder, Locked, LockFree
<1>25. ASSUME NEW w \in Workers, EndUnitLine(w) PROVE OneHolder'
  BY <1>a, <1>25 DEF EndUnitLine, EndLine, SetThread, OneHolder, Locked
<1>26. ASSUME NEW w \in Workers, Push(w) PROVE OneHolder'
  BY <1>a, <1>26 DEF Push, SetThread, OneHolder, Locked
<1>27. ASSUME NEW w \in Workers, PanicAtLock(w) PROVE OneHolder'
  BY <1>a, <1>27 DEF PanicAtLock, SetThread, OneHolder, Locked
<1>28. CASE UNCHANGED vars
  BY <1>a, <1>28 DEF vars, OneHolder, Locked
<1> QED
  BY <1>1, <1>2, <1>3, <1>4, <1>5, <1>6, <1>7, <1>8, <1>9, <1>10, <1>11, <1>12, <1>13, <1>14, <1>15,
     <1>16, <1>17, <1>18, <1>19, <1>20, <1>21, <1>22, <1>23, <1>24, <1>25, <1>26, <1>27, <1>28
  DEF Next, Start, Main, Handle, Disturb, Work

\* A line is begun where the file ends with a whole one.
LEMMA NextTailHeld ==
  ASSUME IInv, [Next]_vars PROVE TailHeld'
<1>a. TailHeld /\ OneHolder /\ TypeOK /\ NothingLeft /\ HeaderIsMine
  BY DEF IInv
<1> USE DEF treeVars, runVars, poolVars, procVars, fileVars
<1>1. ASSUME NEW a \in Args, StartFresh(a) PROVE TailHeld'
  BY <1>a, <1>1 DEF StartFresh, Truncate, Open, TailHeld, Begun
<1>2. ASSUME NEW a \in Args, Resume(a) PROVE TailHeld'
  BY <1>a, <1>2 DEF Resume, Resumable, Drifted, DropTail, Open, TailHeld
<1>3. ASSUME NEW a \in Args, RefuseDrift(a) PROVE TailHeld'
  BY <1>a, <1>3 DEF RefuseDrift, DropTail, TailHeld
<1>4. ASSUME WriteHeader PROVE TailHeld'
  BY <1>a, <1>4 DEF WriteHeader, TailHeld
<1>5. ASSUME BeginTelemetry PROVE TailHeld'
  <2>1. LockFree /\ ~garbled /\ (Begun => tail = "none")
    BY <1>a, <1>5 DEF BeginTelemetry, TailHeld, LockFree
  <2>2. Begun
    BY <1>a, <1>5 DEF BeginTelemetry, Counting, Begun, NothingLeft, TypeOK
  <2>3. ~garbled'
    BY <1>5, <2>1, <2>2 DEF BeginTelemetry, BeginLine
  <2>4. Locked'
    BY <1>a, <1>5 DEF BeginTelemetry, SetThread, Locked, TypeOK
  <2> QED BY <2>3, <2>4 DEF TailHeld
<1>6. ASSUME EndTelemetry PROVE TailHeld'
  BY <1>a, <1>6 DEF EndTelemetry, EndLine, TailHeld
<1>7. ASSUME PanicAtTelemetry PROVE TailHeld'
  BY <1>a, <1>7 DEF PanicAtTelemetry, TailHeld
<1>8. ASSUME BeginDone PROVE TailHeld'
  <2>1. LockFree /\ ~garbled /\ (Begun => tail = "none")
    BY <1>a, <1>8 DEF BeginDone, TailHeld, LockFree
  <2>2. Begun
    BY <1>a, <1>8 DEF BeginDone, Begun, NothingLeft, TypeOK
  <2>3. ~garbled'
    BY <1>8, <2>1, <2>2 DEF BeginDone, BeginLine
  <2>4. Locked'
    BY <1>a, <1>8 DEF BeginDone, SetThread, Locked, TypeOK
  <2> QED BY <2>3, <2>4 DEF TailHeld
<1>9. ASSUME EndDone PROVE TailHeld'
  BY <1>a, <1>9 DEF EndDone, EndLine, TailHeld
<1>10. ASSUME BeginResult PROVE TailHeld'
  BY <1>a, <1>10 DEF BeginResult, TailHeld, Locked, Begun
<1>11. ASSUME EndResult PROVE TailHeld'
  BY <1>a, <1>11 DEF EndResult, Exit, TailHeld, Begun
<1>12. ASSUME Unwind PROVE TailHeld'
  BY <1>a, <1>12 DEF Unwind, Exit, TailHeld, Begun
<1>13. ASSUME HandlerSync PROVE TailHeld'
  BY <1>a, <1>13 DEF HandlerSync, Sync, TailHeld, OneHolder, Locked, Begun
<1>14. ASSUME HandlerExit PROVE TailHeld'
  BY <1>a, <1>14 DEF HandlerExit, Exit, TailHeld, Begun
<1>15. ASSUME Signal PROVE TailHeld'
  BY <1>a, <1>15 DEF Signal, TailHeld, Locked, Begun
<1>16. ASSUME WriteFails PROVE TailHeld'
  BY <1>a, <1>16 DEF WriteFails, TailHeld
<1>17. ASSUME Kill PROVE TailHeld'
  BY <1>a, <1>17 DEF Kill, Exit, TailHeld, Begun
<1>18. ASSUME PowerLoss PROVE TailHeld'
  BY <1>a, <1>18 DEF PowerLoss, Decay, Exit, TailHeld, Begun
<1>19. ASSUME Build PROVE TailHeld'
  BY <1>a, <1>19 DEF Build, TailHeld, Locked, Begun
<1>20. ASSUME NEW r \in Revs, MoveTree(r) PROVE TailHeld'
  BY <1>a, <1>20 DEF MoveTree, TailHeld, Locked, Begun
<1>21. ASSUME NEW w \in Workers, UnitPanics(w) PROVE TailHeld'
  BY <1>a, <1>21 DEF UnitPanics, SetThread, TailHeld, Locked, Begun
<1>22. ASSUME NEW w \in Workers, Claim(w) PROVE TailHeld'
  BY <1>a, <1>22 DEF Claim, SetThread, TailHeld, Locked, Begun
<1>23. ASSUME NEW w \in Workers, NoneLeft(w) PROVE TailHeld'
  BY <1>a, <1>23 DEF NoneLeft, SetThread, TailHeld, Locked, Begun
<1>24. ASSUME NEW w \in Workers, BeginUnitLine(w) PROVE TailHeld'
  <2>1. LockFree /\ ~garbled /\ (Begun => tail = "none")
    BY <1>a, <1>24 DEF BeginUnitLine, TailHeld, LockFree
  <2>2. Begun
    BY <1>a, <1>24 DEF BeginUnitLine, Begun, NothingLeft, TypeOK
  <2>3. ~garbled'
    BY <1>24, <2>1, <2>2 DEF BeginUnitLine, BeginLine
  <2>4. Locked'
    BY <1>a, <1>24 DEF BeginUnitLine, SetThread, Locked, TypeOK
  <2> QED BY <2>3, <2>4 DEF TailHeld
<1>25. ASSUME NEW w \in Workers, EndUnitLine(w) PROVE TailHeld'
  BY <1>a, <1>25 DEF EndUnitLine, EndLine, SetThread, TailHeld
<1>26. ASSUME NEW w \in Workers, Push(w) PROVE TailHeld'
  BY <1>a, <1>26 DEF Push, SetThread, TailHeld, Locked, Begun
<1>27. ASSUME NEW w \in Workers, PanicAtLock(w) PROVE TailHeld'
  BY <1>a, <1>27 DEF PanicAtLock, SetThread, TailHeld
<1>28. CASE UNCHANGED vars
  BY <1>a, <1>28 DEF vars, TailHeld, Locked, Begun
<1> QED
  BY <1>1, <1>2, <1>3, <1>4, <1>5, <1>6, <1>7, <1>8, <1>9, <1>10, <1>11, <1>12, <1>13, <1>14, <1>15,
     <1>16, <1>17, <1>18, <1>19, <1>20, <1>21, <1>22, <1>23, <1>24, <1>25, <1>26, <1>27, <1>28
  DEF Next, Start, Main, Handle, Disturb, Work

\* Only a new process gives the file another header, and it empties the file first.
LEMMA NextHeaderIsMine ==
  ASSUME IInv, [Next]_vars PROVE HeaderIsMine'
<1>a. HeaderIsMine /\ TypeOK /\ NothingLeft
  BY DEF IInv
<1> USE DEF treeVars, runVars, poolVars, procVars, fileVars
<1>1. ASSUME NEW a \in Args, StartFresh(a) PROVE HeaderIsMine'
  BY <1>a, <1>1 DEF StartFresh, Truncate, Open, HeaderIsMine, Begun
<1>2. ASSUME NEW a \in Args, Resume(a) PROVE HeaderIsMine'
  BY <1>a, <1>2 DEF Resume, Resumable, Drifted, DropTail, Open, HeaderIsMine
<1>3. ASSUME NEW a \in Args, RefuseDrift(a) PROVE HeaderIsMine'
  BY <1>a, <1>3 DEF RefuseDrift, DropTail, HeaderIsMine, Begun
<1>4. ASSUME WriteHeader PROVE HeaderIsMine'
  BY <1>a, <1>4 DEF WriteHeader, HeaderIsMine
<1>5. ASSUME BeginTelemetry PROVE HeaderIsMine'
  BY <1>a, <1>5 DEF BeginTelemetry, Counting, BeginLine, HeaderIsMine, Begun
<1>6. ASSUME EndTelemetry PROVE HeaderIsMine'
  BY <1>a, <1>6 DEF EndTelemetry, EndLine, HeaderIsMine, Begun
<1>7. ASSUME PanicAtTelemetry PROVE HeaderIsMine'
  BY <1>a, <1>7 DEF PanicAtTelemetry, Counting, HeaderIsMine, Begun
<1>8. ASSUME BeginDone PROVE HeaderIsMine'
  BY <1>a, <1>8 DEF BeginDone, BeginLine, HeaderIsMine, Begun
<1>9. ASSUME EndDone PROVE HeaderIsMine'
  BY <1>a, <1>9 DEF EndDone, EndLine, HeaderIsMine, Begun
<1>10. ASSUME BeginResult PROVE HeaderIsMine'
  BY <1>a, <1>10 DEF BeginResult, HeaderIsMine, Begun
<1>11. ASSUME EndResult PROVE HeaderIsMine'
  BY <1>a, <1>11 DEF EndResult, Exit, HeaderIsMine, Begun
<1>12. ASSUME Unwind PROVE HeaderIsMine'
  BY <1>a, <1>12 DEF Unwind, Exit, HeaderIsMine, Begun
<1>13. ASSUME HandlerSync PROVE HeaderIsMine'
  BY <1>a, <1>13 DEF HandlerSync, Sync, HeaderIsMine, Begun
<1>14. ASSUME HandlerExit PROVE HeaderIsMine'
  BY <1>a, <1>14 DEF HandlerExit, Exit, HeaderIsMine, Begun
<1>15. ASSUME Signal PROVE HeaderIsMine'
  BY <1>a, <1>15 DEF Signal, HeaderIsMine, Begun
<1>16. ASSUME WriteFails PROVE HeaderIsMine'
  BY <1>a, <1>16 DEF WriteFails, HeaderIsMine, Begun
<1>17. ASSUME Kill PROVE HeaderIsMine'
  BY <1>a, <1>17 DEF Kill, Exit, HeaderIsMine, Begun
<1>18. ASSUME PowerLoss PROVE HeaderIsMine'
  BY <1>a, <1>18 DEF PowerLoss, Decay, Exit, HeaderIsMine, Begun
<1>19. ASSUME Build PROVE HeaderIsMine'
  BY <1>a, <1>19 DEF Build, HeaderIsMine, Begun
<1>20. ASSUME NEW r \in Revs, MoveTree(r) PROVE HeaderIsMine'
  BY <1>a, <1>20 DEF MoveTree, HeaderIsMine, Begun
<1>21. ASSUME NEW w \in Workers, UnitPanics(w) PROVE HeaderIsMine'
  BY <1>a, <1>21 DEF UnitPanics, HeaderIsMine, Begun
<1>22. ASSUME NEW w \in Workers, Claim(w) PROVE HeaderIsMine'
  BY <1>a, <1>22 DEF Claim, HeaderIsMine, Begun
<1>23. ASSUME NEW w \in Workers, NoneLeft(w) PROVE HeaderIsMine'
  BY <1>a, <1>23 DEF NoneLeft, HeaderIsMine, Begun
<1>24. ASSUME NEW w \in Workers, BeginUnitLine(w) PROVE HeaderIsMine'
  BY <1>a, <1>24 DEF BeginUnitLine, BeginLine, HeaderIsMine, Begun
<1>25. ASSUME NEW w \in Workers, EndUnitLine(w) PROVE HeaderIsMine'
  <2>1. main \notin {"off", "header"}
    BY <1>a, <1>25 DEF EndUnitLine, NothingLeft, TypeOK
  <2>2. header # NoHeader
    BY <1>a, <2>1, SplitAssumption DEF HeaderIsMine, Begun, TypeOK, Headers
  <2> QED BY <1>a, <1>25, <2>1, <2>2 DEF EndUnitLine, HeaderIsMine, Begun, EndLine
<1>26. ASSUME NEW w \in Workers, Push(w) PROVE HeaderIsMine'
  BY <1>a, <1>26 DEF Push, HeaderIsMine, Begun
<1>27. ASSUME NEW w \in Workers, PanicAtLock(w) PROVE HeaderIsMine'
  BY <1>a, <1>27 DEF PanicAtLock, HeaderIsMine, Begun
<1>28. CASE UNCHANGED vars
  BY <1>a, <1>28 DEF vars, HeaderIsMine, Begun
<1> QED
  BY <1>1, <1>2, <1>3, <1>4, <1>5, <1>6, <1>7, <1>8, <1>9, <1>10, <1>11, <1>12, <1>13, <1>14, <1>15,
     <1>16, <1>17, <1>18, <1>19, <1>20, <1>21, <1>22, <1>23, <1>24, <1>25, <1>26, <1>27, <1>28
  DEF Next, Start, Main, Handle, Disturb, Work

\* A unit moves from unclaimed to its thread to computed, and is in one of them at a time.
LEMMA NextUnitsApart ==
  ASSUME IInv, [Next]_vars PROVE UnitsApart'
<1>a. UnitsApart /\ TypeOK /\ NothingLeft
  BY DEF IInv
<1> USE DEF treeVars, runVars, poolVars, procVars, fileVars
<1>1. ASSUME NEW a \in Args, StartFresh(a) PROVE UnitsApart'
  BY <1>a, <1>1 DEF StartFresh, Truncate, Open, UnitsApart, MyUnits, NothingLeft
<1>2. ASSUME NEW a \in Args, Resume(a) PROVE UnitsApart'
  BY <1>a, <1>2 DEF Resume, Resumable, Drifted, DropTail, Open, UnitsApart, MyUnits, NothingLeft
<1>3. ASSUME NEW a \in Args, RefuseDrift(a) PROVE UnitsApart'
  BY <1>a, <1>3 DEF RefuseDrift, DropTail, UnitsApart, MyUnits
<1>4. ASSUME WriteHeader PROVE UnitsApart'
  BY <1>a, <1>4 DEF WriteHeader, UnitsApart, MyUnits
<1>5. ASSUME BeginTelemetry PROVE UnitsApart'
  BY <1>a, <1>5 DEF BeginTelemetry, BeginLine, UnitsApart, MyUnits
<1>6. ASSUME EndTelemetry PROVE UnitsApart'
  BY <1>a, <1>6 DEF EndTelemetry, EndLine, UnitsApart, MyUnits
<1>7. ASSUME PanicAtTelemetry PROVE UnitsApart'
  BY <1>a, <1>7 DEF PanicAtTelemetry, UnitsApart, MyUnits
<1>8. ASSUME BeginDone PROVE UnitsApart'
  BY <1>a, <1>8 DEF BeginDone, BeginLine, UnitsApart, MyUnits
<1>9. ASSUME EndDone PROVE UnitsApart'
  BY <1>a, <1>9 DEF EndDone, EndLine, UnitsApart, MyUnits
<1>10. ASSUME BeginResult PROVE UnitsApart'
  BY <1>a, <1>10 DEF BeginResult, UnitsApart, MyUnits
<1>11. ASSUME EndResult PROVE UnitsApart'
  BY <1>11 DEF EndResult, Exit, UnitsApart
<1>12. ASSUME Unwind PROVE UnitsApart'
  BY <1>12 DEF Unwind, Exit, UnitsApart
<1>13. ASSUME HandlerSync PROVE UnitsApart'
  BY <1>a, <1>13 DEF HandlerSync, Sync, UnitsApart, MyUnits
<1>14. ASSUME HandlerExit PROVE UnitsApart'
  BY <1>14 DEF HandlerExit, Exit, UnitsApart
<1>15. ASSUME Signal PROVE UnitsApart'
  BY <1>a, <1>15 DEF Signal, UnitsApart, MyUnits
<1>16. ASSUME WriteFails PROVE UnitsApart'
  BY <1>a, <1>16 DEF WriteFails, UnitsApart, MyUnits
<1>17. ASSUME Kill PROVE UnitsApart'
  BY <1>17 DEF Kill, Exit, UnitsApart
<1>18. ASSUME PowerLoss PROVE UnitsApart'
  BY <1>18 DEF PowerLoss, Decay, Exit, UnitsApart
<1>19. ASSUME Build PROVE UnitsApart'
  BY <1>a, <1>19 DEF Build, UnitsApart, MyUnits
<1>20. ASSUME NEW r \in Revs, MoveTree(r) PROVE UnitsApart'
  BY <1>a, <1>20 DEF MoveTree, UnitsApart, MyUnits
<1>21. ASSUME NEW w \in Workers, UnitPanics(w) PROVE UnitsApart'
  BY <1>a, <1>21 DEF UnitPanics, SetThread, UnitsApart, MyUnits
<1>22. ASSUME NEW w \in Workers, Claim(w) PROVE UnitsApart'
  <2>1. Min(remaining) \in remaining /\ Min(remaining) \in MyUnits /\ Min(remaining) # 0
    BY <1>a, <1>22, ClaimsOne, UnitsKnown DEF Claim, UnitsApart, TypeOK
  <2> DEFINE u == Min(remaining)
  <2> HIDE DEF u
  <2>2. /\ u \in remaining /\ u \in MyUnits /\ u # 0
        /\ unit' = [unit EXCEPT ![w] = u] /\ remaining' = remaining \ {u}
        /\ thread' = [thread EXCEPT ![w] = "search"] /\ MyUnits' = MyUnits
        /\ settled' = settled /\ results' = results
    BY <1>22, <2>1 DEF Claim, SetThread, MyUnits, u
  <2>3. unit[w] = 0 /\ \A v \in Workers : unit[v] # u
    BY <1>a, <1>22, <2>2 DEF Claim, UnitsApart
  <2> QED BY <1>a, <2>2, <2>3 DEF UnitsApart, TypeOK
<1>23. ASSUME NEW w \in Workers, NoneLeft(w) PROVE UnitsApart'
  BY <1>a, <1>23 DEF NoneLeft, SetThread, UnitsApart, MyUnits
<1>24. ASSUME NEW w \in Workers, BeginUnitLine(w) PROVE UnitsApart'
  BY <1>a, <1>24 DEF BeginUnitLine, BeginLine, SetThread, UnitsApart, MyUnits
<1>25. ASSUME NEW w \in Workers, EndUnitLine(w) PROVE UnitsApart'
  BY <1>a, <1>25 DEF EndUnitLine, EndLine, SetThread, UnitsApart, MyUnits
<1>26. ASSUME NEW w \in Workers, Push(w) PROVE UnitsApart'
  BY <1>a, <1>26 DEF Push, SetThread, UnitsApart, MyUnits, TypeOK
<1>27. ASSUME NEW w \in Workers, PanicAtLock(w) PROVE UnitsApart'
  BY <1>a, <1>27 DEF PanicAtLock, SetThread, UnitsApart, MyUnits
<1>28. CASE UNCHANGED vars
  BY <1>a, <1>28 DEF vars, UnitsApart, MyUnits
<1> QED
  BY <1>1, <1>2, <1>3, <1>4, <1>5, <1>6, <1>7, <1>8, <1>9, <1>10, <1>11, <1>12, <1>13, <1>14, <1>15,
     <1>16, <1>17, <1>18, <1>19, <1>20, <1>21, <1>22, <1>23, <1>24, <1>25, <1>26, <1>27, <1>28
  DEF Next, Start, Main, Handle, Disturb, Work

\* A line added is of a unit no line is of.
LEMMA NextLinesKnown ==
  ASSUME IInv, [Next]_vars PROVE LinesKnown'
<1>a. LinesKnown /\ UnitsApart /\ TypeOK /\ NothingLeft /\ HeaderIsMine
  BY DEF IInv
<1> USE DEF treeVars, runVars, poolVars, procVars, fileVars
<1>1. ASSUME NEW a \in Args, StartFresh(a) PROVE LinesKnown'
  BY <1>1 DEF StartFresh, Truncate, Open, LinesKnown
<1>2. ASSUME NEW a \in Args, Resume(a) PROVE LinesKnown'
  BY <1>a, <1>2 DEF Resume, Resumable, Drifted, DropTail, Open, LinesKnown
<1>3. ASSUME NEW a \in Args, RefuseDrift(a) PROVE LinesKnown'
  BY <1>a, <1>3 DEF RefuseDrift, DropTail, LinesKnown
<1>4. ASSUME WriteHeader PROVE LinesKnown'
  <2>1. lines = {} /\ lines' = {} /\ settled' = settled
    BY <1>a, <1>4 DEF WriteHeader, HeaderIsMine
  <2> QED BY <1>a, <1>4, <2>1 DEF WriteHeader, LinesKnown
<1>5. ASSUME BeginTelemetry PROVE LinesKnown'
  BY <1>a, <1>5 DEF BeginTelemetry, Counting, BeginLine, LinesKnown
<1>6. ASSUME EndTelemetry PROVE LinesKnown'
  BY <1>a, <1>6 DEF EndTelemetry, EndLine, LinesKnown
<1>7. ASSUME PanicAtTelemetry PROVE LinesKnown'
  BY <1>a, <1>7 DEF PanicAtTelemetry, Counting, LinesKnown
<1>8. ASSUME BeginDone PROVE LinesKnown'
  BY <1>a, <1>8 DEF BeginDone, BeginLine, LinesKnown
<1>9. ASSUME EndDone PROVE LinesKnown'
  BY <1>a, <1>9 DEF EndDone, EndLine, LinesKnown
<1>10. ASSUME BeginResult PROVE LinesKnown'
  BY <1>a, <1>10 DEF BeginResult, LinesKnown
<1>11. ASSUME EndResult PROVE LinesKnown'
  BY <1>a, <1>11 DEF EndResult, Exit, LinesKnown
<1>12. ASSUME Unwind PROVE LinesKnown'
  BY <1>a, <1>12 DEF Unwind, Exit, LinesKnown
<1>13. ASSUME HandlerSync PROVE LinesKnown'
  BY <1>a, <1>13 DEF HandlerSync, Sync, LinesKnown
<1>14. ASSUME HandlerExit PROVE LinesKnown'
  BY <1>a, <1>14 DEF HandlerExit, Exit, LinesKnown
<1>15. ASSUME Signal PROVE LinesKnown'
  BY <1>a, <1>15 DEF Signal, LinesKnown
<1>16. ASSUME WriteFails PROVE LinesKnown'
  BY <1>a, <1>16 DEF WriteFails, LinesKnown
<1>17. ASSUME Kill PROVE LinesKnown'
  BY <1>a, <1>17 DEF Kill, Exit, LinesKnown
<1>18. ASSUME PowerLoss PROVE LinesKnown'
  BY <1>a, <1>18 DEF PowerLoss, Decay, Exit, LinesKnown
<1>19. ASSUME Build PROVE LinesKnown'
  BY <1>a, <1>19 DEF Build, LinesKnown
<1>20. ASSUME NEW r \in Revs, MoveTree(r) PROVE LinesKnown'
  BY <1>a, <1>20 DEF MoveTree, LinesKnown
<1>21. ASSUME NEW w \in Workers, UnitPanics(w) PROVE LinesKnown'
  BY <1>a, <1>21 DEF UnitPanics, SetThread, LinesKnown
<1>22. ASSUME NEW w \in Workers, Claim(w) PROVE LinesKnown'
  BY <1>a, <1>22 DEF Claim, SetThread, LinesKnown
<1>23. ASSUME NEW w \in Workers, NoneLeft(w) PROVE LinesKnown'
  BY <1>a, <1>23 DEF NoneLeft, SetThread, LinesKnown
<1>24. ASSUME NEW w \in Workers, BeginUnitLine(w) PROVE LinesKnown'
  BY <1>a, <1>24 DEF BeginUnitLine, BeginLine, SetThread, LinesKnown
<1>25. ASSUME NEW w \in Workers, EndUnitLine(w) PROVE LinesKnown'
  <2> DEFINE new == [unit |-> unit[w], by |-> bin]
  <2>1. main \notin {"off", "header"} /\ header = run /\ header' = header /\ settled' = settled /\ results' = results
    BY <1>a, <1>25 DEF EndUnitLine, EndLine, NothingLeft, TypeOK, HeaderIsMine, Begun
  <2>2. lines' = lines \cup {new} /\ doubled' = (doubled \/ \E l \in lines, m \in {new} : l.unit = m.unit)
    BY <1>25 DEF EndUnitLine, EndLine
  <2>3. \A l \in lines : l.unit # new.unit
    BY <1>a, <1>25, FreshUnit DEF EndUnitLine
  <2>4. ~doubled'
    BY <1>a, <2>2, <2>3 DEF LinesKnown
  <2>5. \A l, m \in lines' : l.unit = m.unit => l = m
    BY <1>a, <2>2, <2>3 DEF LinesKnown
  <2>6. new \in RecordsOf(header'.args)
    <3>1. unit[w] \in UnitsOf(run.args, bin) /\ run.args \in Args /\ bin \in Revs
      BY <1>a, <1>25 DEF EndUnitLine, UnitsApart, MyUnits, TypeOK, Headers
    <3> QED BY <2>1, <3>1, UnitsKnown DEF RecordsOf, Records
  <2>7. thread' = [thread EXCEPT ![w] = "push"] /\ unit' = unit /\ thread[w] = "write"
    BY <1>25 DEF EndUnitLine, SetThread
  <2>8. \A l \in lines' : \/ l \in settled'
                           \/ l.unit \in results'
                           \/ \E v \in Workers : thread'[v] = "push" /\ unit'[v] = l.unit
    <3>1. \A l \in lines : \/ l \in settled
                            \/ l.unit \in results
                            \/ \E v \in Workers \ {w} : thread[v] = "push" /\ unit[v] = l.unit
      BY <1>a, <2>1, <2>7 DEF LinesKnown
    <3> QED BY <1>a, <2>1, <2>2, <2>7, <3>1 DEF TypeOK
  <2> QED BY <1>a, <2>1, <2>2, <2>4, <2>5, <2>6, <2>8 DEF LinesKnown
<1>26. ASSUME NEW w \in Workers, Push(w) PROVE LinesKnown'
  BY <1>a, <1>26 DEF Push, SetThread, LinesKnown
<1>27. ASSUME NEW w \in Workers, PanicAtLock(w) PROVE LinesKnown'
  BY <1>a, <1>27 DEF PanicAtLock, SetThread, LinesKnown
<1>28. CASE UNCHANGED vars
  BY <1>a, <1>28 DEF vars, LinesKnown
<1> QED
  BY <1>1, <1>2, <1>3, <1>4, <1>5, <1>6, <1>7, <1>8, <1>9, <1>10, <1>11, <1>12, <1>13, <1>14, <1>15,
     <1>16, <1>17, <1>18, <1>19, <1>20, <1>21, <1>22, <1>23, <1>24, <1>25, <1>26, <1>27, <1>28
  DEF Next, Start, Main, Handle, Disturb, Work

\* Under the convention, binary, tree and header keep one revision.
LEMMA NextTogether ==
  ASSUME IInv, [Next]_vars PROVE Together'
<1>a. Together /\ LinesKnown /\ TypeOK /\ NothingLeft /\ HeaderIsMine
  BY DEF IInv
<1> USE DEF treeVars, runVars, poolVars, procVars, fileVars
<1>1. ASSUME NEW a \in Args, StartFresh(a) PROVE Together'
  BY <1>a, <1>1 DEF StartFresh, Truncate, Open, Together
<1>2. ASSUME NEW a \in Args, Resume(a) PROVE Together'
  BY <1>a, <1>2 DEF Resume, Resumable, Drifted, DropTail, Open, Together
<1>3. ASSUME NEW a \in Args, RefuseDrift(a) PROVE Together'
  BY <1>a, <1>3 DEF RefuseDrift, DropTail, Together
<1>4. ASSUME WriteHeader PROVE Together'
  <2>1. lines' = {}
    BY <1>a, <1>4 DEF WriteHeader, HeaderIsMine
  <2> QED BY <1>a, <1>4, <2>1 DEF WriteHeader, Together
<1>5. ASSUME BeginTelemetry PROVE Together'
  BY <1>a, <1>5 DEF BeginTelemetry, Counting, BeginLine, Together
<1>6. ASSUME EndTelemetry PROVE Together'
  BY <1>a, <1>6 DEF EndTelemetry, EndLine, Together
<1>7. ASSUME PanicAtTelemetry PROVE Together'
  BY <1>a, <1>7 DEF PanicAtTelemetry, Counting, Together
<1>8. ASSUME BeginDone PROVE Together'
  BY <1>a, <1>8 DEF BeginDone, BeginLine, Together
<1>9. ASSUME EndDone PROVE Together'
  BY <1>a, <1>9 DEF EndDone, EndLine, Together
<1>10. ASSUME BeginResult PROVE Together'
  BY <1>a, <1>10 DEF BeginResult, Together
<1>11. ASSUME EndResult PROVE Together'
  BY <1>a, <1>11 DEF EndResult, Exit, Together
<1>12. ASSUME Unwind PROVE Together'
  BY <1>a, <1>12 DEF Unwind, Exit, Together
<1>13. ASSUME HandlerSync PROVE Together'
  BY <1>a, <1>13 DEF HandlerSync, Sync, Together
<1>14. ASSUME HandlerExit PROVE Together'
  BY <1>a, <1>14 DEF HandlerExit, Exit, Together
<1>15. ASSUME Signal PROVE Together'
  BY <1>a, <1>15 DEF Signal, Together
<1>16. ASSUME WriteFails PROVE Together'
  BY <1>a, <1>16 DEF WriteFails, Together
<1>17. ASSUME Kill PROVE Together'
  BY <1>a, <1>17 DEF Kill, Exit, Together
<1>18. ASSUME PowerLoss PROVE Together'
  BY <1>a, <1>18 DEF PowerLoss, Decay, Exit, Together
<1>19. ASSUME Build PROVE Together'
  BY <1>a, <1>19 DEF Build, Together
<1>20. ASSUME NEW r \in Revs, MoveTree(r) PROVE Together'
  BY <1>a, <1>20 DEF MoveTree, Together
<1>21. ASSUME NEW w \in Workers, UnitPanics(w) PROVE Together'
  BY <1>a, <1>21 DEF UnitPanics, SetThread, Together
<1>22. ASSUME NEW w \in Workers, Claim(w) PROVE Together'
  BY <1>a, <1>22 DEF Claim, SetThread, Together
<1>23. ASSUME NEW w \in Workers, NoneLeft(w) PROVE Together'
  BY <1>a, <1>23 DEF NoneLeft, SetThread, Together
<1>24. ASSUME NEW w \in Workers, BeginUnitLine(w) PROVE Together'
  BY <1>a, <1>24 DEF BeginUnitLine, BeginLine, SetThread, Together
<1>25. ASSUME NEW w \in Workers, EndUnitLine(w) PROVE Together'
  <2>1. main \notin {"off", "header"} /\ header = run
    BY <1>a, <1>25 DEF EndUnitLine, NothingLeft, TypeOK, HeaderIsMine, Begun
  <2>2. lines' = lines \cup {[unit |-> unit[w], by |-> bin]}
    BY <1>25 DEF EndUnitLine, EndLine
  <2> QED BY <1>a, <1>25, <2>1, <2>2 DEF EndUnitLine, EndLine, Together
<1>26. ASSUME NEW w \in Workers, Push(w) PROVE Together'
  BY <1>a, <1>26 DEF Push, SetThread, Together
<1>27. ASSUME NEW w \in Workers, PanicAtLock(w) PROVE Together'
  BY <1>a, <1>27 DEF PanicAtLock, SetThread, Together
<1>28. CASE UNCHANGED vars
  BY <1>a, <1>28 DEF vars, Together
<1> QED
  BY <1>1, <1>2, <1>3, <1>4, <1>5, <1>6, <1>7, <1>8, <1>9, <1>10, <1>11, <1>12, <1>13, <1>14, <1>15,
     <1>16, <1>17, <1>18, <1>19, <1>20, <1>21, <1>22, <1>23, <1>24, <1>25, <1>26, <1>27, <1>28
  DEF Next, Start, Main, Handle, Disturb, Work

\* The `done` line is written after everything is counted, and nothing is computed after it.
LEMMA NextClosedWhenAll ==
  ASSUME IInv, [Next]_vars PROVE ClosedWhenAll'
<1>a. ClosedWhenAll /\ TypeOK /\ NothingLeft
  BY DEF IInv
<1> USE DEF treeVars, runVars, poolVars, procVars, fileVars
<1>1. ASSUME NEW a \in Args, StartFresh(a) PROVE ClosedWhenAll'
  BY <1>1 DEF StartFresh, Truncate, Open, ClosedWhenAll
<1>2. ASSUME NEW a \in Args, Resume(a) PROVE ClosedWhenAll'
  BY <1>2 DEF Resume, Resumable, Drifted, DropTail, Open, ClosedWhenAll
<1>3. ASSUME NEW a \in Args, RefuseDrift(a) PROVE ClosedWhenAll'
  BY <1>3 DEF RefuseDrift, DropTail, ClosedWhenAll
<1>4. ASSUME WriteHeader PROVE ClosedWhenAll'
  BY <1>4 DEF WriteHeader, ClosedWhenAll
<1>5. ASSUME BeginTelemetry PROVE ClosedWhenAll'
  BY <1>5 DEF BeginTelemetry, BeginLine, ClosedWhenAll
<1>6. ASSUME EndTelemetry PROVE ClosedWhenAll'
  BY <1>6 DEF EndTelemetry, EndLine, ClosedWhenAll
<1>7. ASSUME PanicAtTelemetry PROVE ClosedWhenAll'
  BY <1>7 DEF PanicAtTelemetry, ClosedWhenAll
<1>8. ASSUME BeginDone PROVE ClosedWhenAll'
  <2>1. AllGone /\ ~(Counted < Cardinality(MyUnits))
    BY <1>8 DEF BeginDone, Counting
  <2>2. settled' = settled /\ results' = results /\ thread' = thread /\ run' = run /\ bin' = bin
    BY <1>8 DEF BeginDone
  <2>3. AllGone' /\ Counted' = Counted /\ MyUnits' = MyUnits
    BY <2>1, <2>2 DEF AllGone, Counted, MyUnits
  <2> QED BY <2>1, <2>3 DEF ClosedWhenAll
<1>9. ASSUME EndDone PROVE ClosedWhenAll'
  BY <1>a, <1>9 DEF EndDone, EndLine, ClosedWhenAll, AllGone, Counted, MyUnits
<1>10. ASSUME BeginResult PROVE ClosedWhenAll'
  BY <1>a, <1>10 DEF BeginResult, ClosedWhenAll, AllGone, Counted, MyUnits
<1>11. ASSUME EndResult PROVE ClosedWhenAll'
  BY <1>11 DEF EndResult, Exit, ClosedWhenAll
<1>12. ASSUME Unwind PROVE ClosedWhenAll'
  BY <1>12 DEF Unwind, Exit, ClosedWhenAll
<1>13. ASSUME HandlerSync PROVE ClosedWhenAll'
  BY <1>a, <1>13 DEF HandlerSync, Sync, ClosedWhenAll, AllGone, Counted, MyUnits
<1>14. ASSUME HandlerExit PROVE ClosedWhenAll'
  BY <1>14 DEF HandlerExit, Exit, ClosedWhenAll
<1>15. ASSUME Signal PROVE ClosedWhenAll'
  BY <1>a, <1>15 DEF Signal, ClosedWhenAll, AllGone, Counted, MyUnits
<1>16. ASSUME WriteFails PROVE ClosedWhenAll'
  BY <1>a, <1>16 DEF WriteFails, ClosedWhenAll, AllGone, Counted, MyUnits
<1>17. ASSUME Kill PROVE ClosedWhenAll'
  BY <1>17 DEF Kill, Exit, ClosedWhenAll
<1>18. ASSUME PowerLoss PROVE ClosedWhenAll'
  BY <1>18 DEF PowerLoss, Decay, Exit, ClosedWhenAll
<1>19. ASSUME Build PROVE ClosedWhenAll'
  BY <1>a, <1>19 DEF Build, ClosedWhenAll, AllGone, Counted, MyUnits
<1>20. ASSUME NEW r \in Revs, MoveTree(r) PROVE ClosedWhenAll'
  BY <1>a, <1>20 DEF MoveTree, ClosedWhenAll, AllGone, Counted, MyUnits
<1>21. ASSUME NEW w \in Workers, UnitPanics(w) PROVE ClosedWhenAll'
  BY <1>a, <1>21 DEF UnitPanics, SetThread, ClosedWhenAll, AllGone
<1>22. ASSUME NEW w \in Workers, Claim(w) PROVE ClosedWhenAll'
  BY <1>a, <1>22 DEF Claim, SetThread, ClosedWhenAll, AllGone
<1>23. ASSUME NEW w \in Workers, NoneLeft(w) PROVE ClosedWhenAll'
  BY <1>a, <1>23 DEF NoneLeft, SetThread, ClosedWhenAll, AllGone
<1>24. ASSUME NEW w \in Workers, BeginUnitLine(w) PROVE ClosedWhenAll'
  BY <1>a, <1>24 DEF BeginUnitLine, BeginLine, SetThread, ClosedWhenAll, AllGone
<1>25. ASSUME NEW w \in Workers, EndUnitLine(w) PROVE ClosedWhenAll'
  BY <1>a, <1>25 DEF EndUnitLine, EndLine, SetThread, ClosedWhenAll, AllGone
<1>26. ASSUME NEW w \in Workers, Push(w) PROVE ClosedWhenAll'
  BY <1>a, <1>26 DEF Push, SetThread, ClosedWhenAll, AllGone
<1>27. ASSUME NEW w \in Workers, PanicAtLock(w) PROVE ClosedWhenAll'
  BY <1>a, <1>27 DEF PanicAtLock, SetThread, ClosedWhenAll, AllGone
<1>28. CASE UNCHANGED vars
  BY <1>a, <1>28 DEF vars, ClosedWhenAll, AllGone, Counted, MyUnits
<1> QED
  BY <1>1, <1>2, <1>3, <1>4, <1>5, <1>6, <1>7, <1>8, <1>9, <1>10, <1>11, <1>12, <1>13, <1>14, <1>15,
     <1>16, <1>17, <1>18, <1>19, <1>20, <1>21, <1>22, <1>23, <1>24, <1>25, <1>26, <1>27, <1>28
  DEF Next, Start, Main, Handle, Disturb, Work

\* What is published is the merge of the records of all units.
LEMMA NextResult ==
  ASSUME IInv, [Next]_vars PROVE ResultIsUninterrupted'
<1>a. TypeOK /\ HeaderIsMine /\ UnitsApart /\ LinesKnown /\ Together /\ ClosedWhenAll /\ ResultIsUninterrupted
  BY DEF IInv
<1> USE DEF treeVars, runVars, poolVars, procVars, fileVars
<1>1. ASSUME NEW a \in Args, StartFresh(a) PROVE ResultIsUninterrupted'
  BY <1>a, <1>1 DEF StartFresh, ResultIsUninterrupted
<1>2. ASSUME NEW a \in Args, Resume(a) PROVE ResultIsUninterrupted'
  BY <1>a, <1>2 DEF Resume, ResultIsUninterrupted
<1>3. ASSUME NEW a \in Args, RefuseDrift(a) PROVE ResultIsUninterrupted'
  BY <1>a, <1>3 DEF RefuseDrift, ResultIsUninterrupted
<1>4. ASSUME WriteHeader PROVE ResultIsUninterrupted'
  BY <1>a, <1>4 DEF WriteHeader, ResultIsUninterrupted
<1>5. ASSUME BeginTelemetry PROVE ResultIsUninterrupted'
  BY <1>a, <1>5 DEF BeginTelemetry, BeginLine, ResultIsUninterrupted
<1>6. ASSUME EndTelemetry PROVE ResultIsUninterrupted'
  BY <1>a, <1>6 DEF EndTelemetry, EndLine, ResultIsUninterrupted
<1>7. ASSUME PanicAtTelemetry PROVE ResultIsUninterrupted'
  BY <1>a, <1>7 DEF PanicAtTelemetry, ResultIsUninterrupted
<1>8. ASSUME BeginDone PROVE ResultIsUninterrupted'
  BY <1>a, <1>8 DEF BeginDone, BeginLine, ResultIsUninterrupted
<1>9. ASSUME EndDone PROVE ResultIsUninterrupted'
  BY <1>a, <1>9 DEF EndDone, EndLine, ResultIsUninterrupted
<1>10. ASSUME BeginResult PROVE ResultIsUninterrupted'
  BY <1>10 DEF BeginResult, ResultIsUninterrupted
<1>11. ASSUME EndResult PROVE ResultIsUninterrupted'
  <2> SUFFICES ASSUME ~apart PROVE ResultIsUninterrupted'
    BY <1>11 DEF EndResult, ResultIsUninterrupted
  <2>1. main = "publish" /\ run.args \in Args /\ bin \in Revs
    BY <1>a, <1>11 DEF EndResult, TypeOK, Headers
  <2>2. /\ run.rev = bin
        /\ settled \cup Computed = {[unit |-> u, by |-> bin] : u \in UnitsOf(run.args, bin)}
    BY <1>a, <2>1, CountedMeansAll DEF MyUnits
  <2>3. Merge(run.args, settled \cup Computed) = Uninterrupted(run.args, run.rev)
    BY <2>1, <2>2, MergeOfAll
  <2> QED BY <1>11, <2>3 DEF EndResult, ResultIsUninterrupted
<1>12. ASSUME Unwind PROVE ResultIsUninterrupted'
  BY <1>a, <1>12 DEF Unwind, Exit, ResultIsUninterrupted
<1>13. ASSUME HandlerSync PROVE ResultIsUninterrupted'
  BY <1>a, <1>13 DEF HandlerSync, Sync, ResultIsUninterrupted
<1>14. ASSUME HandlerExit PROVE ResultIsUninterrupted'
  BY <1>a, <1>14 DEF HandlerExit, Exit, ResultIsUninterrupted
<1>15. ASSUME Signal PROVE ResultIsUninterrupted'
  BY <1>a, <1>15 DEF Signal, ResultIsUninterrupted
<1>16. ASSUME WriteFails PROVE ResultIsUninterrupted'
  BY <1>a, <1>16 DEF WriteFails, ResultIsUninterrupted
<1>17. ASSUME Kill PROVE ResultIsUninterrupted'
  BY <1>a, <1>17 DEF Kill, Exit, ResultIsUninterrupted
<1>18. ASSUME PowerLoss PROVE ResultIsUninterrupted'
  BY <1>a, <1>18 DEF PowerLoss, Decay, Exit, ResultIsUninterrupted
<1>19. ASSUME Build PROVE ResultIsUninterrupted'
  BY <1>a, <1>19 DEF Build, ResultIsUninterrupted
<1>20. ASSUME NEW r \in Revs, MoveTree(r) PROVE ResultIsUninterrupted'
  BY <1>a, <1>20 DEF MoveTree, ResultIsUninterrupted
<1>21. ASSUME NEW w \in Workers, UnitPanics(w) PROVE ResultIsUninterrupted'
  BY <1>a, <1>21 DEF UnitPanics, SetThread, ResultIsUninterrupted
<1>22. ASSUME NEW w \in Workers, Claim(w) PROVE ResultIsUninterrupted'
  BY <1>a, <1>22 DEF Claim, SetThread, ResultIsUninterrupted
<1>23. ASSUME NEW w \in Workers, NoneLeft(w) PROVE ResultIsUninterrupted'
  BY <1>a, <1>23 DEF NoneLeft, SetThread, ResultIsUninterrupted
<1>24. ASSUME NEW w \in Workers, BeginUnitLine(w) PROVE ResultIsUninterrupted'
  BY <1>a, <1>24 DEF BeginUnitLine, BeginLine, SetThread, ResultIsUninterrupted
<1>25. ASSUME NEW w \in Workers, EndUnitLine(w) PROVE ResultIsUninterrupted'
  BY <1>a, <1>25 DEF EndUnitLine, EndLine, SetThread, ResultIsUninterrupted
<1>26. ASSUME NEW w \in Workers, Push(w) PROVE ResultIsUninterrupted'
  BY <1>a, <1>26 DEF Push, SetThread, ResultIsUninterrupted
<1>27. ASSUME NEW w \in Workers, PanicAtLock(w) PROVE ResultIsUninterrupted'
  BY <1>a, <1>27 DEF PanicAtLock, SetThread, ResultIsUninterrupted
<1>28. CASE UNCHANGED vars
  BY <1>a, <1>28 DEF vars, ResultIsUninterrupted
<1> QED
  BY <1>1, <1>2, <1>3, <1>4, <1>5, <1>6, <1>7, <1>8, <1>9, <1>10, <1>11, <1>12, <1>13, <1>14, <1>15,
     <1>16, <1>17, <1>18, <1>19, <1>20, <1>21, <1>22, <1>23, <1>24, <1>25, <1>26, <1>27, <1>28
  DEF Next, Start, Main, Handle, Disturb, Work

\* Only a start with another header takes a synced line out of the trace.
LEMMA NextSettled ==
  ASSUME IInv, [Next]_vars PROVE SettledStep
<1>a. TypeOK /\ HeaderIsMine /\ NothingLeft
  BY DEF IInv
<1> USE DEF treeVars, runVars, poolVars, procVars, fileVars
<1>1. ASSUME NEW a \in Args, StartFresh(a) PROVE SettledStep
  <2>1. header' = header => lines = {}
    BY <1>a, <1>1 DEF StartFresh, Truncate, HeaderIsMine
  <2> QED BY <2>1 DEF SettledStep
<1>2. ASSUME NEW a \in Args, Resume(a) PROVE SettledStep
  BY <1>2 DEF Resume, Resumable, Drifted, DropTail, Open, SettledStep
<1>3. ASSUME NEW a \in Args, RefuseDrift(a) PROVE SettledStep
  BY <1>3 DEF RefuseDrift, DropTail, SettledStep
<1>4. ASSUME WriteHeader PROVE SettledStep
  BY <1>4 DEF WriteHeader, SettledStep
<1>5. ASSUME BeginTelemetry PROVE SettledStep
  BY <1>5 DEF BeginTelemetry, BeginLine, SettledStep
<1>6. ASSUME EndTelemetry PROVE SettledStep
  BY <1>6 DEF EndTelemetry, EndLine, SettledStep
<1>7. ASSUME PanicAtTelemetry PROVE SettledStep
  BY <1>7 DEF PanicAtTelemetry, SettledStep
<1>8. ASSUME BeginDone PROVE SettledStep
  BY <1>8 DEF BeginDone, BeginLine, SettledStep
<1>9. ASSUME EndDone PROVE SettledStep
  BY <1>9 DEF EndDone, EndLine, SettledStep
<1>10. ASSUME BeginResult PROVE SettledStep
  BY <1>10 DEF BeginResult, SettledStep
<1>11. ASSUME EndResult PROVE SettledStep
  BY <1>11 DEF EndResult, Exit, SettledStep
<1>12. ASSUME Unwind PROVE SettledStep
  BY <1>12 DEF Unwind, Exit, SettledStep
<1>13. ASSUME HandlerSync PROVE SettledStep
  BY <1>13 DEF HandlerSync, Sync, SettledStep
<1>14. ASSUME HandlerExit PROVE SettledStep
  BY <1>14 DEF HandlerExit, Exit, SettledStep
<1>15. ASSUME Signal PROVE SettledStep
  BY <1>15 DEF Signal, SettledStep
<1>16. ASSUME WriteFails PROVE SettledStep
  BY <1>16 DEF WriteFails, SettledStep
<1>17. ASSUME Kill PROVE SettledStep
  BY <1>17 DEF Kill, Exit, SettledStep
<1>18. ASSUME PowerLoss PROVE SettledStep
  BY <1>18 DEF PowerLoss, Decay, Exit, SettledStep
<1>19. ASSUME Build PROVE SettledStep
  BY <1>19 DEF Build, SettledStep
<1>20. ASSUME NEW r \in Revs, MoveTree(r) PROVE SettledStep
  BY <1>20 DEF MoveTree, SettledStep
<1>21. ASSUME NEW w \in Workers, UnitPanics(w) PROVE SettledStep
  BY <1>21 DEF UnitPanics, SetThread, SettledStep
<1>22. ASSUME NEW w \in Workers, Claim(w) PROVE SettledStep
  BY <1>22 DEF Claim, SetThread, SettledStep
<1>23. ASSUME NEW w \in Workers, NoneLeft(w) PROVE SettledStep
  BY <1>23 DEF NoneLeft, SetThread, SettledStep
<1>24. ASSUME NEW w \in Workers, BeginUnitLine(w) PROVE SettledStep
  BY <1>24 DEF BeginUnitLine, BeginLine, SetThread, SettledStep
<1>25. ASSUME NEW w \in Workers, EndUnitLine(w) PROVE SettledStep
  BY <1>25 DEF EndUnitLine, EndLine, SetThread, SettledStep
<1>26. ASSUME NEW w \in Workers, Push(w) PROVE SettledStep
  BY <1>26 DEF Push, SetThread, SettledStep
<1>27. ASSUME NEW w \in Workers, PanicAtLock(w) PROVE SettledStep
  BY <1>27 DEF PanicAtLock, SetThread, SettledStep
<1>28. CASE UNCHANGED vars
  BY <1>28 DEF vars, SettledStep
<1> QED
  BY <1>1, <1>2, <1>3, <1>4, <1>5, <1>6, <1>7, <1>8, <1>9, <1>10, <1>11, <1>12, <1>13, <1>14, <1>15,
     <1>16, <1>17, <1>18, <1>19, <1>20, <1>21, <1>22, <1>23, <1>24, <1>25, <1>26, <1>27, <1>28
  DEF Next, Start, Main, Handle, Disturb, Work

-----------------------------------------------------------------------------
(* The theorems                                                            *)

\* The invariant holds at first.
LEMMA InitIInv == ASSUME Init PROVE IInv
<1>1. MaxFaults \in Nat /\ head \in Revs /\ run \in Headers /\ run.rev = head
  BY SplitAssumption DEF Init, Headers
<1>2. TypeOK
  <2>1. faults \in 0 .. MaxFaults /\ engine \in Revs /\ bin \in Revs
    BY <1>1 DEF Init
  <2>2. /\ thread \in [Workers -> {"idle", "search", "write", "push", "gone"}]
        /\ unit \in [Workers -> AllUnits \cup {0}]
    BY DEF Init
  <2> QED BY <1>1, <2>1, <2>2 DEF Init, TypeOK
<1>3. NothingLeft /\ OneHolder /\ TailHeld /\ HeaderIsMine
  BY DEF Init, NothingLeft, OneHolder, TailHeld, HeaderIsMine, Begun, Locked
<1>4. UnitsApart
  BY DEF Init, UnitsApart
<1>5. LinesKnown /\ ClosedWhenAll
  BY DEF Init, LinesKnown, ClosedWhenAll
<1>6. Together /\ ResultIsUninterrupted
  BY <1>1 DEF Init, Together, ResultIsUninterrupted
<1> QED BY <1>2, <1>3, <1>4, <1>5, <1>6 DEF IInv

\* Every step keeps the invariant.
LEMMA NextIInv == ASSUME IInv, [Next]_vars PROVE IInv'
BY NextTypeOK, NextNothingLeft, NextOneHolder, NextTailHeld, NextHeaderIsMine, NextUnitsApart,
   NextLinesKnown, NextTogether, NextClosedWhenAll, NextResult
DEF IInv

\* The inductive invariant.
THEOREM Invariant == Spec => []IInv
<1>1. Init => IInv
  BY InitIInv
<1>2. IInv /\ [Next]_vars => IInv'
  BY NextIInv
<1> QED BY <1>1, <1>2, PTL DEF Spec

\* The variables keep their types; what is published is always a merge of units of one run.
THEOREM TypeCorrect == Spec => []TypeOK
<1>1. IInv => TypeOK
  BY DEF IInv
<1> QED BY <1>1, Invariant, PTL

\* Whatever cuts a line short, the trace can be scanned when the run is started again: no torn
\* line is followed by another, and no unit has two lines.
THEOREM ScannableAlways == Spec => []TraceScannable
<1>1. IInv => TraceScannable
  BY DEF IInv, TailHeld, LinesKnown, TraceScannable
<1> QED BY <1>1, Invariant, PTL

\* No unit is searched by two threads at a time, nor while it waits to be claimed, nor once it
\* is in the trace, over all resumptions.
THEOREM WorkOnce == Spec => []NoWorkRepeated
<1>1. IInv => NoWorkRepeated
  <2> SUFFICES ASSUME IInv, NEW w \in Workers, thread[w] = "search"
               PROVE  /\ \A l \in lines : l.unit # unit[w]
                      /\ unit[w] \notin remaining
                      /\ \A v \in Workers \ {w} : unit[v] # unit[w]
    BY DEF NoWorkRepeated
  <2>1. \A l \in lines : l.unit # unit[w]
    BY FreshUnit DEF IInv
  <2>2. unit[w] # 0 /\ UnitsApart
    BY DEF IInv, UnitsApart
  <2> QED BY <2>1, <2>2 DEF UnitsApart
<1> QED BY <1>1, Invariant, PTL

\* As long as binary and tree move together, all lines of a trace are of the engine its header
\* names.
THEOREM OneEngineByConvention == Spec => []ConventionKeepsOneEngine
<1>1. IInv => ConventionKeepsOneEngine
  BY DEF IInv, Together, ConventionKeepsOneEngine, OneEngine
<1> QED BY <1>1, Invariant, PTL

\* As long as binary and tree move together, a published result is that of an uninterrupted
\* run, however often the run was killed and resumed, and by however many threads.
THEOREM ResultUninterrupted == Spec => []ResultIsUninterrupted
<1>1. IInv => ResultIsUninterrupted
  BY DEF IInv
<1> QED BY <1>1, Invariant, PTL

\* A settled unit stays in the trace until the file is started over; a power loss takes only
\* lines that were not synced yet.
THEOREM SettledStays == Spec => SettledStay
<1>1. IInv /\ [Next]_vars => [SettledStep]_vars
  BY NextSettled
<1>2. [][SettledStep]_vars <=> SettledStay
  BY PTL DEF SettledStep, SettledStay
<1> QED BY <1>1, <1>2, Invariant, PTL DEF Spec
=============================================================================
