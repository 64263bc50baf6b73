---------------------------- MODULE FailureMemo ----------------------------
(***************************************************************************)
(* The narrowing engine's memo: records of subtrees that were searched and *)
(* held no champion, each under the conditions its subtree consulted, and  *)
(* the accounting of what a stretch of execution (a segment) consults.     *)
(* Pure operators.                                                         *)
(***************************************************************************)
EXTENDS SpecRun, FiniteSets

CONSTANTS CountCap,     \* CNT_PROV_CAP: fields that may feed a shift counter
          ListCap,      \* REC_LIST_CAP: records at one key
          TopBar        \* the benefit bar saturates here: u32::MAX

None == -1   \* no slot

ASSUME MemoAssumption == CountCap \in Nat \ {0} /\ ListCap \in Nat \ {0} /\ TopBar \in Nat \ {0}

(***************************************************************************)
(* Items.  A tag says that a register holds the undecided immediate of     *)
(* that slot's SET; what stands in the register meanwhile is a placeholder.*)
(***************************************************************************)
NoTags == [x |-> None, y |-> None]
Tagged(tags) == {r \in {"x", "y"} : tags[r] # None}

\* The key under which subtrees are compared: what every cycle reads ...
Core(it) == [cycle |-> it.cycle, next |-> it.next, pc |-> it.s.m.pc, delay |-> it.s.delay, acc |-> it.s.acc,
             stall |-> it.s.m.stall, pending |-> it.s.m.pending_exec,
             out |-> it.s.m.out_latch, dir |-> it.s.m.dir_latch]

\* ... and the parts that a record's subtree read.  A tagged register is its tag, never the
\* placeholder; of the RX FIFO only the level can be observed.
Part(it, part) ==
    CASE part = "x" -> <<it.tags.x, IF it.tags.x = None THEN it.s.m.x ELSE Zero>>
      [] part = "y" -> <<it.tags.y, IF it.tags.y = None THEN it.s.m.y ELSE Zero>>
      [] part = "irq" -> it.s.m.irq_flags
      [] part = "tx" -> it.s.tx
      [] part = "rx" -> Len(it.s.m.rx)
      [] OTHER -> it.s.m[part]
Project(it, reads) == [part \in reads |-> Part(it, part)]

(***************************************************************************)
(* Constraints: value sets of undecided fields, oldest first.              *)
(***************************************************************************)
Entry == [slot : Slots, field : {"side", "index"}, allowed : (SUBSET (0 .. 31)) \cup (SUBSET (Word \cup {NoWord}))]
Constrained(cs, slot, f) == \E i \in DOMAIN cs : cs[i].slot = slot /\ cs[i].field = f
AllowedBy(cs, slot, f) == (CHOOSE i \in DOMAIN cs : cs[i].slot = slot /\ cs[i].field = f)
Allowed(cs, slot, f, all) == IF Constrained(cs, slot, f) THEN cs[AllowedBy(cs, slot, f)].allowed ELSE all
Constrain(cs, slot, f, allowed) ==
    IF Constrained(cs, slot, f) THEN [cs EXCEPT ![AllowedBy(cs, slot, f)].allowed = allowed]
                                ELSE Append(cs, [slot |-> slot, field |-> f, allowed |-> allowed])
Unconstrain(cs, slot, f) == Keeping(cs, {e \in Seqs!ToSet(cs) : e.slot # slot \/ e.field # f})

(***************************************************************************)
(* Provenance, from the pop of an item to the next fork.  A register holds *)
(* what it held at the pop, the immediate of a slot, or something whose    *)
(* sources are accounted for; a shift counter is fed by its value at the   *)
(* pop and by bit counts.                                                  *)
(***************************************************************************)
AtPop == [from |-> "pop", slot |-> None]
Accounted == [from |-> "accounted", slot |-> None]
Immediate(slot) == [from |-> "field", slot |-> slot]

CountAtPop == [pop |-> TRUE, slots |-> << >>]
CountAccounted == [pop |-> FALSE, slots |-> << >>]

\* A segment: the fields and parts consulted so far, and the provenance of what is not yet.
Fresh == [fields |-> {}, reads |-> {}, x |-> AtPop, y |-> AtPop, isr |-> CountAtPop, osr |-> CountAtPop]

CountField(slot) == <<slot, "n">>
CountFields(prov) == {CountField(prov.slots[i]) : i \in DOMAIN prov.slots}

\* The parts r are read: each is charged to where its value comes from.
Consume(seg, r, tags) ==
    LET regs == r \cap {"x", "y"}
        isr == "isr_count" \in r
        osr == "osr_count" \in r
    IN  [seg EXCEPT
           !.reads = @ \cup (r \ {"x", "y", "isr_count", "osr_count"})
                       \cup {v \in regs : v \in Tagged(tags) \/ seg[v].from = "pop"}
                       \cup (IF isr /\ seg.isr.pop THEN {"isr_count"} ELSE {})
                       \cup (IF osr /\ seg.osr.pop THEN {"osr_count"} ELSE {}),
           !.fields = @ \cup {<<seg[v].slot, "data">> : v \in {u \in regs \ Tagged(tags) : seg[u].from = "field"}}
                        \cup (IF isr THEN CountFields(seg.isr) ELSE {}) \cup (IF osr THEN CountFields(seg.osr) ELSE {}),
           !.isr = IF isr THEN CountAccounted ELSE @,
           !.osr = IF osr THEN CountAccounted ELSE @]

\* A segment ends: whatever is not yet read is charged as if it were (its readers sit below a fork,
\* where the state that is patterned on predates the write).
Flush(seg) ==
    [seg EXCEPT !.fields = @ \cup {<<seg[v].slot, "data">> : v \in {u \in {"x", "y"} : seg[u].from = "field"}}
                             \cup CountFields(seg.isr) \cup CountFields(seg.osr)]

\* One completed instruction i, fetched from `slot' or forced, changes where values come from.
Counted(seg, prov, effect, slot, forced) ==
    CASE effect = "add" /\ ~forced /\ CountField(slot) \notin CountFields(prov) ->
            IF Len(prov.slots) = CountCap THEN [prov EXCEPT !.slots = <<slot>>] ELSE [prov EXCEPT !.slots = Append(@, slot)]
      [] effect = "set" /\ ~forced -> [pop |-> FALSE, slots |-> <<slot>>]
      [] effect = "reset" \/ (effect = "set" /\ forced) -> CountAccounted
      [] OTHER -> prov

\* A counter fed by too many bit counts is charged with them at once.
Spilled(prov, effect, slot, forced) ==
    IF effect = "add" /\ ~forced /\ CountField(slot) \notin CountFields(prov) /\ Len(prov.slots) = CountCap
    THEN CountFields(prov) ELSE {}

Completed(seg, i, slot, forced, immediate) ==
    LET written == IF immediate /\ i.op = "set" /\ ~forced THEN Immediate(slot) ELSE Accounted
    IN  [seg EXCEPT !.x = IF Writes(i) = "x" THEN written ELSE @,
                    !.y = IF Writes(i) = "y" THEN written ELSE @,
                    !.isr = Counted(seg, @, IsrCountEffect(i), slot, forced),
                    !.osr = Counted(seg, @, OsrCountEffect(i), slot, forced),
                    !.fields = @ \cup Spilled(seg.isr, IsrCountEffect(i), slot, forced)
                                 \cup Spilled(seg.osr, OsrCountEffect(i), slot, forced)]

(***************************************************************************)
(* Conditions of a record: fields with the value they must have, and       *)
(* fields with the set that what is known of them must lie in.             *)
(***************************************************************************)
Fires(conds, words, constraints, whole) ==
    /\ \A k \in DOMAIN conds.exact : Decided(words[k[1]], k[2]) /\ words[k[1]][k[2]] = conds.exact[k]
    /\ \A k \in DOMAIN conds.within :
         IF Decided(words[k[1]], k[2]) THEN words[k[1]][k[2]] \in conds.within[k]
         ELSE Allowed(constraints, k[1], k[2], whole[k[2]]) \subseteq conds.within[k]

\* Record conditions a hold wherever b's do.
Subsumes(a, b) ==
    /\ \A k \in DOMAIN a.exact : k \in DOMAIN b.exact /\ b.exact[k] = a.exact[k]
    /\ \A k \in DOMAIN a.within : \/ k \in DOMAIN b.exact /\ b.exact[k] \in a.within[k]
                                  \/ k \in DOMAIN b.within /\ b.within[k] \subseteq a.within[k]

(***************************************************************************)
(* The table.  A record that may rest on one spelling of the registers     *)
(* (bound) serves only items that stand for one spelling.                  *)
(***************************************************************************)
SameKey(r, s) == r.core = s.core /\ r.reads = s.reads /\ r.parts = s.parts
Absorbs(r, s) == SameKey(r, s) /\ (~r.bound \/ s.bound) /\ Subsumes(r.conds, s.conds)
Weaker(r, s) == r.benefit < s.benefit
Insert(memo, r) ==
    LET over == {i \in DOMAIN memo : Absorbs(memo[i], r)}
        under == {i \in DOMAIN memo : Absorbs(r, memo[i])}
        list == {i \in DOMAIN memo : SameKey(memo[i], r)}
        worst == CHOOSE i \in list : \A j \in list : ~Weaker(memo[j], memo[i]) /\ (Weaker(memo[i], memo[j]) \/ i <= j)
        first == CHOOSE i \in over : \A j \in over : i <= j
        best == CHOOSE b \in {r.benefit} \cup {memo[i].benefit : i \in under} :
                    b >= r.benefit /\ \A i \in under : b >= memo[i].benefit
    IN  CASE over # {} -> IF Weaker(memo[first], r) THEN [memo EXCEPT ![first].benefit = r.benefit] ELSE memo
          [] over = {} /\ under = {} /\ Cardinality(list) >= ListCap ->
                IF Weaker(memo[worst], r) THEN Append(Seqs!RemoveAt(memo, worst), r) ELSE memo
          [] OTHER -> Append(Keeping(memo, {s \in Seqs!ToSet(memo) : ~Absorbs(r, s)}), [r EXCEPT !.benefit = best])

\* A full table: the bar on benefits doubles until an eighth of the room is free; at the top it empties.
Kept(memo, bar) == Keeping(memo, {r \in Seqs!ToSet(memo) : r.benefit >= bar})
Purge(memo, bar, cap) ==
    LET doubled[k \in 0 .. TopBar] == IF k = 0 THEN bar ELSE Smaller(2 * doubled[k - 1], TopBar)
        ends(k) == doubled[k] = doubled[k - 1] \/ Len(Kept(memo, doubled[k])) <= cap - (cap \div 8)
        rounds == CHOOSE k \in 1 .. TopBar : ends(k) /\ \A j \in 1 .. k - 1 : ~ends(j)
        to == doubled[rounds]
    IN  [bar |-> to, memo |-> IF to = doubled[rounds - 1] THEN << >> ELSE Kept(memo, to)]
=============================================================================
