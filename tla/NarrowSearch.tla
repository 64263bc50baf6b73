---------------------------- MODULE NarrowSearch ----------------------------
(***************************************************************************)
(* One search of the narrowing engine (search_impl): a depth-first walk    *)
(* over hole programs.  An item is a partial program with the state it has *)
(* reached; it runs until it needs something that is not decided, and is   *)
(* replaced by one child per value.  Symmetries, outcome classes, a        *)
(* look-ahead and the failure memo keep most children from being searched. *)
(* One action per way in which one iteration of the cycle loop can end.    *)
(***************************************************************************)
EXTENDS FailureMemo

CONSTANTS Problems,        \* the searches to run, by name
          ConstraintCap,   \* CONSTRAINT_CAP
          WalkCap          \* JUNK_WALK_CAP

\* A word of which some fields are decided: those of its instruction, once its opcode is.
Partial(w) ==
    /\ DOMAIN w \subseteq {"side", "op", "delay"} \cup (IF Decided(w, "op") THEN Seqs!ToSet(Operands(w.op)) ELSE {})
    /\ Decided(w, "side") => w.side \in Word \cup {NoWord}
    /\ Decided(w, "delay") => w.delay \in Nat
    /\ Decided(w, "op") => w.op \in Opcodes
    /\ \A f \in DOMAIN w \ {"side", "op", "delay"} : w[f] \in Domain(w.op, f)

WholeOf(p) == [side |-> Seqs!ToSet(p.side), index |-> Seqs!ToSet(p.index)]

\* What a search asserts of its seed before it starts.  (A field is decided or not: the code's
\* masks could also cut one in two.)
ValidSeed(p, s) ==
    /\ \A slot \in DOMAIN s.words : Partial(s.words[slot])
    /\ Len(s.constraints) <= ConstraintCap
    /\ \A i \in DOMAIN s.constraints :
         LET e == s.constraints[i]
             w == s.words[e.slot]
         IN  /\ e.slot \in DOMAIN s.words
             /\ CASE e.field = "index" -> WaitGroupable(w) [] e.field = "side" -> SideGroupable(w, p)
             /\ e.allowed \subseteq WholeOf(p)[e.field] /\ Cardinality(e.allowed) >= 2 /\ e.allowed # WholeOf(p)[e.field]
             /\ \A j \in DOMAIN s.constraints : j # i => s.constraints[j].slot # e.slot \/ s.constraints[j].field # e.field

\* What the caller sees to.  The alphabet has values for the operands of every opcode in use, each
\* once, and the caller's seed is one that a search lets pass: its words are tables of what they
\* decide.
ProblemOK(p) ==
    /\ p.config \in Config /\ p.slots \in 1 .. N /\ p.optional_side \in BOOLEAN /\ p.max_delay \in Nat
    /\ p.cycles \in Nat \ {0} /\ p.divisor \in Nat /\ p.tx_depth \in Nat /\ p.preload \in BOOLEAN
    /\ p.inputs \in Seq(Word) /\ p.outputs \in Word /\ p.capture \subseteq Bits /\ p.mask \in Word
    /\ p.exts \in Seq(Word) /\ p.irq_sets \in Seq(SUBSET Flags)
    /\ p.ops \in Seq(DOMAIN p.operands) /\ DOMAIN p.operands \subseteq Opcodes
    /\ Seqs!IsInjective(p.ops)
    /\ p.side \in Seq(Word \cup {NoWord}) /\ Seqs!IsInjective(p.side)
    /\ p.index \in Seq(0 .. 31) /\ Seqs!IsInjective(p.index) /\ ("wait" \in DOMAIN p.operands => p.index # << >>)
    /\ \A op \in DOMAIN p.operands : \A f \in Seqs!ToSet(Operands(op)) \ {"target", "index"} :
          p.operands[op][f] \in Seq(Domain(op, f)) /\ Seqs!IsInjective(p.operands[op][f])
    /\ DOMAIN p.seed.words = 0 .. p.slots - 1 /\ p.seed.constraints \in Seq(Entry) /\ ValidSeed(p, p.seed)
    /\ \A slot \in DOMAIN p.seed.words : Decided(p.seed.words[slot], "op") => p.seed.words[slot].op \in DOMAIN p.operands
    /\ \A slot \in DOMAIN p.seed.words : p.seed.words[slot] = [f \in DOMAIN p.seed.words[slot] |-> p.seed.words[slot][f]]
    /\ p.memo_cap \in Nat /\ p.first_bar \in 0 .. TopBar
    /\ p.target \in Nat /\ p.frontier_cap \in Nat /\ p.champion_cap \in Nat

ASSUME SearchAssumption ==
    /\ \A n \in DOMAIN Problems : ProblemOK(Problems[n])
    /\ ForcedDelay \in [Word -> Nat]
    /\ ConstraintCap \in Nat \ {0}

VARIABLES name,       \* of the problem
          problem,    \* Problems[name]; never changes
          horizon,    \* cycles of the trace that are searched
          seed,       \* decided fields and constraints of the root
          cap,        \* champions that are kept
          stack, run, champions, cap_hit, memo, bar, frames, items

searchVars == <<name, problem, horizon, seed, cap, stack, run, champions, cap_hit, memo, bar, frames, items>>
fixed == <<name, problem, horizon, seed, cap>>

P == problem
NoRun == << >>
Remembers == P.memo_cap > 0

HasSide == P.side # << >>
Whole == WholeOf(P)
Seeded(slot) == seed.words[slot] # Blank

(***************************************************************************)
(* The root, and the frame under it.                                       *)
(***************************************************************************)
Padded(w) == IF HasSide THEN w ELSE Decide(w, "side", NoWord)
Root(h, s) ==
    [words |-> Filled(P, [i \in 0 .. P.slots - 1 |-> Padded(s.words[i])]),
     s |-> Powered(P), cycle |-> 0, next |-> FirstInput(P),
     named |-> \E i \in DOMAIN s.words : /\ s.words[i] # Blank
                                         /\ ~Decided(s.words[i], "op") \/ TouchesRegisters(Meaning(s.words[i])),
     nop_submax |-> FALSE, unbound |-> TRUE, tags |-> NoTags, constraints |-> s.constraints]

FrameOf(it, children, consulted, reads, bound, recordable) ==
    [it |-> it, left |-> children, consulted |-> consulted, reads |-> reads, champion |-> FALSE,
     recordable |-> recordable, bound |-> bound, opened |-> items]

Begins(h, s, c) ==
    /\ horizon' = h /\ seed' = s /\ cap' = c /\ UNCHANGED <<name, problem>>
    /\ stack' = <<Root(h, s)>> /\ run' = NoRun /\ champions' = << >> /\ cap_hit' = FALSE
    /\ memo' = << >> /\ bar' = P.first_bar /\ items' = 0
    /\ frames' = <<[FrameOf(Root(h, s), 1, << >>, {}, FALSE, FALSE) EXCEPT !.opened = 0]>>

(***************************************************************************)
(* An item in its cycle.                                                   *)
(***************************************************************************)
Ready(it) == IF it.cycle < horizon
             THEN [it EXCEPT !.s = Driven(P, it.s, it.cycle, it.next), !.next = NextInput(P, it.s, it.next)]
             ELSE it

Pc(it) == it.s.m.pc
Here(it) == it.words[Pc(it)]
Gpio(it) == GpioAt(P, it.s, it.cycle)
Active(it) == Ticks(P, it.s) /\ it.s.delay = 0
Fetching(it) == Ticks(P, it.s) /\ WillFetch(P, it.s, Gpio(it))
Executed(it) == IF Forced(it.s.m) THEN Decoded[it.s.m.pending_exec].do ELSE Meaning(Here(it))

\* The outcome classes of what is fetched, and whether they need a fork.
SideAsked(it) == Fetching(it) /\ SideGroupable(Here(it), P)
SideAllowed(it) == Allowed(it.constraints, Pc(it), "side", Whole.side)
SideSame(it) == Unchanging(SideAllowed(it), it.s.m, P.config)
SideHeld(it) == SideAsked(it) /\ SideSame(it) = SideAllowed(it)

WaitAsked(it) == Fetching(it) /\ (Decided(Here(it), "side") \/ SideHeld(it)) /\ WaitGroupable(Here(it))
WaitAllowed(it) == Allowed(it.constraints, Pc(it), "index", Whole.index)
WaitMet(it) == MetNow(WaitAllowed(it), Here(it), it.s.m, P.config, Gpio(it))
WaitHeld(it) == WaitAsked(it) /\ WaitMet(it) = WaitAllowed(it)

\* The word as it is executed: a class that is held stands in for the field.
AnyOf(values, all) == all[CHOOSE i \in DOMAIN all : all[i] \in values /\ \A j \in 1 .. i - 1 : all[j] \notin values]
Executable(it) ==
    LET w == Here(it)
        s == IF SideHeld(it) THEN Decide(w, "side", AnyOf(SideSame(it), P.side)) ELSE w
    IN  [it.words EXCEPT ![Pc(it)] = IF WaitHeld(it) THEN Decide(s, "index", AnyOf(WaitMet(it), P.index)) ELSE s]
Loaded(it) == Loading(P, Executable(it))

Wanted(it) == IF WaitHeld(it) THEN "none"
              ELSE Demand(IF SideHeld(it) THEN Decide(Here(it), "side", NoWord) ELSE Here(it))

\* Mutant of TagsNeeded: forced words are not looked at.
TagsNeeded_NoForced(it) ==
    {r \in Tagged(it.tags) : NeedsValue(Executed(it), r, it.s.m, P.config, NextWord(it.s.tx))}

\* Registers whose tag cannot be carried through what is executed.
TagsNeeded(it) ==
    {r \in Tagged(it.tags) : \/ NeedsValue(Executed(it), r, it.s.m, P.config, NextWord(it.s.tx))
                             \/ it.unbound /\ Forced(it.s.m) /\ TouchesRegisters(Executed(it))}

Jumps(it) == Fetching(it) /\ Meaning(Here(it)).op = "jmp" /\ Taken(it.s.m, P.config, Gpio(it), Meaning(Here(it)))

TellsTwinsApart(it) ==
    /\ it.unbound /\ Ticks(P, it.s) /\ WillExecute(P, it.s, Gpio(it))
    /\ Asymmetric(it.s.m, Loaded(it), NextWord(it.s.tx))

Stepped(it) == Clocked(P, it.s, Executable(it), Gpio(it))
Agrees(s, cycle) == Capture(P, s, cycle) = P.expected[cycle + 1]
Completes(it, after) == Active(it) /\ after.m.stall = NotStalled

\* What the cycle has to decide first, or how it ends.  Here and below, `after' is the state that
\* the cycle leads to, Stepped(it).
Edge(it, after) ==
    IF it.cycle >= horizon THEN "champion"
    ELSE IF OutOfFootprint(P, it.s, Gpio(it)) THEN "out"
    ELSE IF SideAsked(it) /\ ~SideHeld(it) THEN "side"
    ELSE IF WaitAsked(it) /\ ~WaitHeld(it) THEN "wait"
    ELSE IF Fetching(it) /\ Wanted(it) # "none" THEN "field"
    ELSE IF Active(it) /\ TagsNeeded(it) # {} THEN "tag"
    ELSE IF Jumps(it) /\ ~Decided(Here(it), "target") THEN "target"
    ELSE IF TellsTwinsApart(it) THEN "bind"
    ELSE IF ~Agrees(after, it.cycle) THEN "mismatch"
    ELSE "step"

(***************************************************************************)
(* What the cycle consults, up to the fetch, the execution and its end.    *)
(***************************************************************************)
AtEntry(it, seg) == [seg EXCEPT !.reads = @ \cup StallReads(it.s.m.stall)]
AtFetch(it, seg) ==
    LET fields == (IF Fetching(it) THEN Footprint(Here(it)) ELSE {})
                  \cup (IF SideAsked(it) THEN {"side"} ELSE {}) \cup (IF WaitAsked(it) THEN {"index"} ELSE {})
    IN  [AtEntry(it, seg) EXCEPT !.fields = @ \cup ({Pc(it)} \X fields)]
AtExecution(it, seg) ==
    LET target == IF Jumps(it) THEN {<<Pc(it), "target">>} ELSE {}
    IN  Consume([AtFetch(it, seg) EXCEPT !.fields = @ \cup target],
                IF Active(it) THEN StateReads(Executed(it), P.config) ELSE {}, it.tags)
AtCompletion(it, seg, after) ==
    IF Completes(it, after)
    THEN Completed(AtExecution(it, seg), Executed(it), Pc(it), Forced(it.s.m), Decided(Here(it), "data"))
    ELSE AtExecution(it, seg)

\* The delay of a fetched instruction is consulted when it completes.
Delays(it, after) == Fetching(it) /\ after.m.stall = NotStalled /\ P.max_delay > 0
AtEnd(it, seg, after) ==
    LET delay == IF Delays(it, after) /\ Decided(Here(it), "delay") THEN {<<Pc(it), "delay">>} ELSE {}
    IN  [AtCompletion(it, seg, after) EXCEPT !.fields = @ \cup delay]

(***************************************************************************)
(* The item after its cycle.                                               *)
(***************************************************************************)
TagsAfter(it) ==
    LET i == Executed(it)
        r == Writes(i)
        tag == CASE i.op = "set" /\ ~Forced(it.s.m) /\ ~Decided(Here(it), "data") -> Pc(it)
                 [] i.op = "mov" /\ i.how = "none" /\ i.src \in {"x", "y"} -> it.tags[i.src]
                 [] OTHER -> None
    IN  IF r = "none" \/ i.op = "jmp" THEN it.tags ELSE [it.tags EXCEPT ![r] = tag]

Advanced(it, after) == [it EXCEPT !.s = after, !.cycle = @ + 1,
                                  !.tags = IF Completes(it, after) THEN TagsAfter(it) ELSE @]

\* A pure NOP, whose delay can be traded with that of a NOP before it.
RunsNop(it, after) == Completes(it, after) /\ Fetching(it) /\ ~HasSide /\ Executed(it) = Nop

(***************************************************************************)
(* The look-ahead before a delay is forked (junk_walk): with no delay at   *)
(* all, and as long as no latch changes, nothing outside is read and       *)
(* nothing is decided, does the program leave the trace?  Then it does for *)
(* every delay.                                                            *)
(***************************************************************************)
WalkStops(it) ==
    \/ Fetching(it) /\ Demand(Here(it)) # "none"
    \/ Active(it) /\ \E r \in Tagged(it.tags) : NeedsValue(Executed(it), r, it.s.m, P.config, NextWord(it.s.tx))
    \/ Jumps(it) /\ ~Decided(Here(it), "target")
    \/ Active(it) /\ ReadsExternal(Executed(it))
    \/ TellsTwinsApart(it)

WalkLeaves(it, shifts) == it.cycle + shifts * P.max_delay < horizon

SameLatches(s, t) == s.m.out_latch = t.m.out_latch /\ s.m.dir_latch = t.m.dir_latch

\* A walk: where it is, what it consulted, the undecided delays that it passed, and how it ended.
WalkOver(walk, refuted, seg) == [walk EXCEPT !.over = TRUE, !.refuted = refuted,
                                             !.seg = IF refuted THEN Flush(seg) ELSE @]
WalkCycle(walk, end, after) ==
    LET it == walk.it
        shift == Delays(it, after) /\ ~Decided(Here(it), "delay")
    IN  IF walk.over THEN walk
        ELSE IF OutOfFootprint(P, it.s, Gpio(it)) THEN WalkOver(walk, WalkLeaves(it, walk.shifts), AtEntry(it, walk.seg))
        ELSE IF WalkStops(it) \/ ~SameLatches(after, it.s) THEN WalkOver(walk, FALSE, walk.seg)
        ELSE IF ~Agrees(after, it.cycle) THEN WalkOver(walk, TRUE, AtExecution(it, walk.seg))
        ELSE [walk EXCEPT !.it = Ready(Advanced(it, after)), !.seg = AtEnd(it, @, after),
                          !.shifts = IF shift THEN @ + 1 ELSE @]
WalkOn(walk, end) == WalkCycle(walk, end, Stepped(walk.it))

\* The walk starts behind the cycle that runs, whose consults it inherits.
WalkFrom(next, seg) ==
    LET end == Smaller(next.cycle + WalkCap, horizon)
        start == [it |-> Ready(next), seg |-> seg, shifts |-> 1, over |-> FALSE, refuted |-> FALSE]
        walked[k \in 0 .. end - next.cycle] ==
            IF k = 0 THEN start ELSE WalkOn(walked[k - 1], end)
    IN  [walked[end - next.cycle] EXCEPT !.seg.fields = @ \cup Flush(seg).fields]

(***************************************************************************)
(* Frames: one per fork above the item that runs.  A frame gathers what    *)
(* its subtree consults, and when the last child is done and none was a    *)
(* champion, leaves a record.                                              *)
(***************************************************************************)
ValuesOf(words, fields) == [k \in fields |-> Get(words[k[1]], k[2], NoWord)]

\* One field decided at the frame, consulted under two spellings: the union describes no program.
Merged(f, consulted, reads) ==
    [f EXCEPT !.recordable = @ /\ \A k \in DOMAIN consulted \cap DOMAIN f.consulted :
                                      Decided(f.it.words[k[1]], k[2]) => consulted[k] = f.consulted[k],
              !.consulted = [k \in DOMAIN consulted \cup DOMAIN @ |->
                                IF k \in DOMAIN consulted THEN consulted[k] ELSE @[k]],
              !.reads = @ \cup reads]
WithTop(fs, f) == [fs EXCEPT ![Len(fs)] = f]
Charged(it, seg) == WithTop(frames, Merged(frames[Len(frames)], ValuesOf(it.words, Flush(seg).fields), seg.reads))

\* Conditions on what was decided, or confined to a set, when the frame opened; the rest was
\* explored in full below it.
Conditions(f) ==
    LET mine == {k \in DOMAIN f.consulted : k[1] < P.slots}
        exact == {k \in mine : Decided(f.it.words[k[1]], k[2])}
        sets == {k \in mine \ exact : Constrained(f.it.constraints, k[1], k[2])}
    IN  [exact |-> [k \in exact |-> f.consulted[k]],
         within |-> [k \in sets |-> Allowed(f.it.constraints, k[1], k[2], {})]]

RecordOf(f) == [core |-> Core(f.it), reads |-> f.reads, parts |-> Project(f.it, f.reads),
                conds |-> Conditions(f), benefit |-> Smaller(items - f.opened, TopBar), bound |-> f.bound]

\* Mutant of Recorded: the table is purged one record late.
Recorded_Late(f, mm, b) ==
    LET worth == ~f.champion /\ f.recordable
        full == Len(mm) > P.memo_cap
        room == IF worth /\ RecordOf(f).benefit >= b /\ full THEN Purge(mm, b, P.memo_cap) ELSE [memo |-> mm, bar |-> b]
    IN  IF worth /\ RecordOf(f).benefit >= room.bar
        THEN [room EXCEPT !.memo = Insert(@, RecordOf(f))] ELSE room

Recorded(f, mm, b) ==
    LET worth == ~f.champion /\ f.recordable
        full == Len(mm) >= P.memo_cap
        room == IF worth /\ RecordOf(f).benefit >= b /\ full THEN Purge(mm, b, P.memo_cap) ELSE [memo |-> mm, bar |-> b]
    IN  IF worth /\ RecordOf(f).benefit >= room.bar
        THEN [room EXCEPT !.memo = Insert(@, RecordOf(f))] ELSE room

Inherits(parent, f) ==
    LET kept == DOMAIN Conditions(f).exact \cup DOMAIN Conditions(f).within
    IN  [Merged(parent, [k \in kept |-> f.consulted[k]], f.reads) EXCEPT
           !.bound = @ \/ f.bound, !.recordable = @ /\ f.recordable]

\* A child of the top frame is done.
ChildDone(f, champion) == [f EXCEPT !.champion = @ \/ champion, !.left = @ - 1]
\* A frame whose last child is done is a child that is done.
Propagated(table) ==
    LET f == table.frames[Len(table.frames)]
        rest == SubSeq(table.frames, 1, Len(table.frames) - 1)
        kept == Recorded(f, table.memo, table.bar)
    IN  IF f.left > 0 \/ Len(table.frames) = 1 THEN table
        ELSE [frames |-> WithTop(rest, ChildDone(Inherits(rest[Len(rest)], f), f.champion)),
              memo |-> kept.memo, bar |-> kept.bar]
Closed(fs, mm, b, champion) ==
    LET closed[k \in 0 .. Len(fs)] ==
            IF k = 0 THEN [frames |-> WithTop(fs, ChildDone(fs[Len(fs)], champion)), memo |-> mm, bar |-> b]
                     ELSE Propagated(closed[k - 1])
    IN  closed[Len(fs)]

(***************************************************************************)
(* The three ways in which an item ends.                                   *)
(***************************************************************************)
Close(fs, champion) ==
    IF Remembers
    THEN \E rest \in {Closed(fs, memo, bar, champion)} :
            frames' = rest.frames /\ memo' = rest.memo /\ bar' = rest.bar
    ELSE UNCHANGED <<frames, memo, bar>>

Running == run # NoRun
Refute(it, seg) == /\ run' = NoRun
                   /\ Close(Charged(it, seg), FALSE)
                   /\ UNCHANGED <<fixed, stack, champions, cap_hit, items>>

\* `children' replace the item; the fork itself consulted `consulted' and `reads' on behalf of them all.
Fork(it, seg, children, consulted, reads, bound) ==
    /\ run' = NoRun
    /\ stack' = stack \o children
    /\ frames' = IF Remembers
                 THEN Append(Charged(it, seg), FrameOf(it, Len(children), consulted, reads, bound \/ ~it.unbound, TRUE))
                 ELSE frames
    /\ UNCHANGED <<fixed, champions, cap_hit, memo, bar, items>>

Split(it, seg, children, consulted, reads) ==
    IF children = << >> THEN Refute(it, seg) ELSE Fork(it, seg, children, consulted, reads, FALSE)

Deciding(it, slot, f, v) == [it EXCEPT !.words[slot] = Decide(@, f, v)]
Settling(it, slot, f, v) == [Deciding(it, slot, f, v) EXCEPT !.constraints = Unconstrain(@, slot, f)]
Each(values, child(_)) == [i \in DOMAIN values |-> child(values[i])]

(***************************************************************************)
(* Taking an item, unless a record shows that its subtree failed already.  *)
(***************************************************************************)
\* Mutant of Serves: the conditions are not looked at.
Serves_AnyProgram(r, it) ==
    LET alike == Part(it, "x") = Part(it, "y")
    IN  /\ r.core = Core(it)
        /\ it.unbound => ~r.bound /\ (alike \/ r.reads \cap {"x", "y"} = {})
        /\ Project(it, r.reads) = r.parts

\* Another item's failure stands for this one's.  An item that still stands for its mirror image
\* too is served only where the two agree.
Serves(r, it) ==
    LET alike == Part(it, "x") = Part(it, "y")
    IN  /\ r.core = Core(it)
        /\ it.unbound => ~r.bound /\ (alike \/ r.reads \cap {"x", "y"} = {})
        /\ Project(it, r.reads) = r.parts
        /\ Fires(r.conds, it.words, it.constraints, Whole)

Popped == Ready(stack[Len(stack)])
Hits == IF Remembers THEN {i \in DOMAIN memo : Serves(memo[i], Popped)} ELSE {}

Take == ~Running /\ stack # << >>
        /\ stack' = SubSeq(stack, 1, Len(stack) - 1)
        /\ items' = items + 1
        /\ UNCHANGED <<fixed, champions, cap_hit>>

Pop == /\ Take /\ Hits = {}
       /\ run' = [it |-> Popped, seg |-> Fresh]
       /\ UNCHANGED <<memo, bar, frames>>

\* The record's conditions become this subtree's.
Adopted(r) == ValuesOf(Popped.words, DOMAIN r.conds.exact \cup DOMAIN r.conds.within)
MemoHit == /\ Take /\ \E i \in Hits :
                Close(WithTop(frames, Merged(frames[Len(frames)], Adopted(memo[i]), memo[i].reads)), FALSE)
           /\ UNCHANGED run

(***************************************************************************)
(* The cycle's edges.                                                      *)
(***************************************************************************)
It == run.it
Seg == run.seg

\* The trace is reproduced.
Finish == /\ run' = NoRun
          /\ LET c == [words |-> It.words, free |-> It.unbound, constraints |-> It.constraints]
             IN  IF Len(champions) < cap
                 THEN champions' = Append(champions, c) /\ UNCHANGED cap_hit
                 ELSE cap_hit' = TRUE /\ UNCHANGED champions
          /\ Close(Charged(It, Seg), TRUE)
          /\ UNCHANGED <<fixed, stack, items>>

LeaveFootprint == Refute(It, AtEntry(It, Seg))
Mismatch == Refute(It, AtExecution(It, Seg))

\* Mutant of Classes: a class of one value is kept as a set.
Classes_NeverDecide(f, allowed, same, all) ==
    LET slot == Pc(It)
        rep == AnyOf(same, all)
        kept == Keeping(all, {v \in allowed : v \in same => v = rep})
        child(v) == IF v \in same THEN [It EXCEPT !.constraints = Constrain(@, slot, f, same)] ELSE Settling(It, slot, f, v)
    IN  Each(kept, child)

\* One child for the values that make no difference now, one for each other value.
Classes(f, allowed, same, all) ==
    LET slot == Pc(It)
        rep == AnyOf(same, all)
        kept == Keeping(all, {v \in allowed : v \in same => v = rep})
        child(v) == IF v \in same /\ Cardinality(same) > 1
                    THEN [It EXCEPT !.constraints = Constrain(@, slot, f, same)]
                    ELSE Settling(It, slot, f, v)
    IN  Each(kept, child)

\* There is no room for one more constraint: the oldest field is decided instead.
Overflows(f, same) == /\ Cardinality(same) > 1 /\ ~Constrained(It.constraints, Pc(It), f)
                      /\ Len(It.constraints) = ConstraintCap
Oldest == LET old == It.constraints[1]
              all == IF old.field = "side" THEN P.side ELSE P.index
          IN  Each(Keeping(all, old.allowed), LAMBDA v : Settling(It, old.slot, old.field, v))

Partition(f, allowed, same, all) ==
    LET full == Overflows(f, same)
    IN  Split(It, AtFetch(It, Seg), IF full THEN Oldest ELSE Classes(f, allowed, same, all),
              ValuesOf(It.words, IF full THEN {} ELSE {<<Pc(It), f>>}), {})
PartitionSide == Partition("side", SideAllowed(It), SideSame(It), P.side)
PartitionWait == Partition("index", WaitAllowed(It), WaitMet(It), P.index)

(***************************************************************************)
(* The fork over a field that the fetch demands, and what thins it out.    *)
(***************************************************************************)
Choices(w, f) == CASE f = "side" -> P.side
                   [] f = "op" -> P.ops
                   [] f = "index" -> P.index
                   [] OTHER -> P.operands[w.op][f]

\* A side-set value that must show a wrong level this cycle.
SideShows(v) ==
    v = NoWord \/ P.config.side_pindir \/
        \A b \in 0 .. P.config.side_bits - 1 :
            LET pin == (P.config.sideset_base + b) % W
                want == P.expected[It.cycle + 1][pin]
            IN  P.mask[pin] = 0 /\ pin \in P.capture /\ want[2] = 1 => want[1] = v[b]

\* The first scratch register a program names is X: the program that starts with Y is a mirror image.
NamesSecond(f, v) == ~It.named /\ It.unbound /\ Names(f, v) = {"y"}

CopiesY(w, f, v) == /\ f = "src" /\ w.op = "mov" /\ w.dst = "y" /\ w.how = "none" /\ v = "y"
                    /\ ~Seeded(Pc(It))

\* An instruction that is complete and writes pins is tried out.
TriedOut(w) == /\ WritesLatch(Meaning(w)) /\ Demand(IF SideHeld(It) THEN Decide(w, "side", NoWord) ELSE w) = "none"
               /\ StateReads(Meaning(w), P.config) \cap Tagged(It.tags) = {}
ShowsWrong(w) == ~Agrees(Clocked(P, It.s, [It.words EXCEPT ![Pc(It)] = w], Gpio(It)), It.cycle)

Reads(w) == StateReads(Meaning(w), P.config)
Considered(w, f) == Keeping(Choices(w, f), {v \in Seqs!ToSet(Choices(w, f)) : f = "side" => SideShows(v)})
Canonical(w, f, all) == Keeping(all, {v \in Seqs!ToSet(all) : ~NamesSecond(f, v) /\ ~CopiesY(w, f, v)})
Unlike(w, f, all) ==
    Keeping(all, {all[i] : i \in {j \in DOMAIN all : \A k \in 1 .. j - 1 : ~SameCompletions(w, f, all[k], all[j], P.config)}})

\* The fork over `distinct', all but those that would show a wrong level; a value that was ruled
\* out by what it would read has read it.
ForkOver(f, seg, distinct, kill) ==
    LET w == Here(It)
        after == [kill EXCEPT !.fields = @ \cup seg.fields, !.reads = @ \cup seg.reads]
        kept == Keeping(distinct, {v \in Seqs!ToSet(distinct) : ~(TriedOut(Decide(w, f, v)) /\ ShowsWrong(Decide(w, f, v)))})
        child(v) == [Deciding(It, Pc(It), f, v) EXCEPT !.named = @ \/ Names(f, v) # {}]
    IN  Split(It, after, Each(kept, child), ValuesOf(It.words, kill.fields), kill.reads)
Killed(w, f, seg, considered, distinct) ==
    LET ruled == {considered[i] : i \in {j \in DOMAIN considered : NamesSecond(f, considered[j])}}
                 \cup {distinct[i] : i \in {j \in DOMAIN distinct : TriedOut(Decide(w, f, distinct[j]))}}
    IN  Consume([seg EXCEPT !.fields = {}, !.reads = {}], UNION {Reads(Decide(w, f, v)) : v \in ruled}, It.tags)
ForkField ==
    LET w == Here(It)
    IN  \E f \in {Wanted(It)}, seg \in {AtFetch(It, Seg)} :
        \E considered \in {Considered(w, f)} :
        \E distinct \in {Unlike(w, f, Canonical(w, f, considered))} :
            ForkOver(f, seg, distinct, Killed(w, f, seg, considered, distinct))

\* A register is read that stands for an undecided immediate.
CollapseTag ==
    LET slot == It.tags[IF "x" \in TagsNeeded(It) THEN "x" ELSE "y"]
        same == {r \in {"x", "y"} : It.tags[r] = slot}
        child(v) == [Deciding(It, slot, "data", v) EXCEPT
                       !.s.m.x = IF "x" \in same THEN v ELSE @, !.s.m.y = IF "y" \in same THEN v ELSE @,
                       !.tags = [r \in {"x", "y"} |-> IF r \in same THEN None ELSE It.tags[r]]]
    IN  Split(It, AtFetch(It, Seg), Each(P.operands["set"]["data"], child), << >>, {})

\* A jump is taken.  Jumping to the next instruction is a NOP, which has its own spelling.
FallsThrough(w, pc) == CASE w.cond \in {"x--", "y--"} \/ Seeded(pc) -> None
                         [] OTHER -> IF pc = P.config.wrap_top THEN P.config.wrap_bottom ELSE (pc + 1) % N
ForkTarget ==
    LET all == [t \in 1 .. P.slots |-> t - 1]
        targets == Keeping(all, Slots \ {FallsThrough(Here(It), Pc(It))})
    IN  Split(It, AtFetch(It, Seg), Each(targets, LAMBDA t : Deciding(It, Pc(It), "target", t)), << >>, {})

\* The program and its mirror image part: each goes on as an item of its own.
Twin(it) == [it EXCEPT !.words = [i \in Slots |-> IF i < P.slots THEN MirrorWord(@[i]) ELSE @[i]],
                       !.s.m = Swapped(@)]
Bind ==
    LET me == [It EXCEPT !.unbound = FALSE]
    IN  Fork(me, AtExecution(It, Seg), IF Twin(me) = me THEN <<me>> ELSE <<me, Twin(me)>>, << >>, {}, TRUE)

(***************************************************************************)
(* A cycle that agrees with the trace.                                     *)
(***************************************************************************)
ForksDelay(it, after) == Delays(it, after) /\ ~Decided(Here(it), "delay") /\ it.cycle + 1 < horizon

JunkRefute(walk) == walk.refuted /\ Refute(It, walk.seg)

\* Cycles spent between two NOPs in a row are spent in the first.
Delayed(next, nop, d) ==
    [Deciding(next, Pc(It), "delay", d) EXCEPT !.s.delay = d, !.nop_submax = nop /\ (@ \/ d < P.max_delay)]
ForkDelay(walk, nop, next, seg) ==
    /\ ~walk.refuted
    /\ LET most == IF nop /\ It.nop_submax THEN 0 ELSE P.max_delay
       IN  Fork(next, seg, [d \in 1 .. most + 1 |-> Delayed(next, nop, d - 1)], << >>, {}, FALSE)

\* The look-ahead, then the fork.
Delay(after) ==
    /\ ForksDelay(It, after)
    /\ \E next \in {Advanced(It, after)}, seg \in {AtCompletion(It, Seg, after)} :
       \E walk \in {WalkFrom(next, seg)} : JunkRefute(walk) \/ ForkDelay(walk, RunsNop(It, after), next, seg)

Step(after) ==
    /\ ~ForksDelay(It, after)
    /\ run' = [it |-> Ready([Advanced(It, after) EXCEPT !.nop_submax = @ /\ ~Completes(It, after)]),
               seg |-> AtEnd(It, Seg, after)]
    /\ UNCHANGED <<fixed, stack, champions, cap_hit, memo, bar, frames, items>>

RunCycle(edge, after) == \/ edge = "champion" /\ Finish
                         \/ edge = "out" /\ LeaveFootprint
                         \/ edge = "side" /\ PartitionSide
                         \/ edge = "wait" /\ PartitionWait
                         \/ edge = "field" /\ ForkField
                         \/ edge = "tag" /\ CollapseTag
                         \/ edge = "target" /\ ForkTarget
                         \/ edge = "bind" /\ Bind
                         \/ edge = "mismatch" /\ Mismatch
                         \/ edge = "step" /\ (Step(after) \/ Delay(after))

SearchStep == Pop \/ MemoHit \/ (Running /\ \E after \in {Stepped(It)} : \E edge \in {Edge(It, after)} : RunCycle(edge, after))
Finished == ~Running /\ stack = << >>
=============================================================================
