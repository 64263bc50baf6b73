----------------------------- MODULE WordTables -----------------------------
(***************************************************************************)
(* What the narrowing engine (narrow/engine.rs) knows about instructions   *)
(* besides how to execute them: their mirror images under X <-> Y, which   *)
(* parts of the machine they read and write, and which are interchangeable.*)
(* The code keeps these as tables "derived line by line from exec_op"; a   *)
(* wrong entry makes the search drop programs silently.                    *)
(***************************************************************************)
EXTENDS PioIsa

(***************************************************************************)
(* The mirror.                                                             *)
(***************************************************************************)
SwapName(r) == CASE r = "x" -> "y" [] r = "y" -> "x" [] OTHER -> r
SwapCond(k) == CASE k = "!x" -> "!y" [] k = "!y" -> "!x" [] k = "x--" -> "y--" [] k = "y--" -> "x--" [] OTHER -> k

Mirror(i) ==
    CASE i.op = "jmp" -> [i EXCEPT !.cond = SwapCond(@)]
      [] i.op = "in" -> [i EXCEPT !.src = SwapName(@)]
      [] i.op \in {"out", "set"} -> [i EXCEPT !.dst = SwapName(@)]
      [] i.op = "mov" -> [i EXCEPT !.dst = SwapName(@), !.src = SwapName(@)]
      [] OTHER -> i

Swapped(m) == [m EXCEPT !.x = m.y, !.y = m.x]

\* The two events that tell an instruction from its mirror image.  PULL without blocking, on an
\* empty FIFO, copies the physical X; a forced word comes from data, which no mirror renames.
ReadsPhysicalX(m, c, i, word) == i.op = "pull" /\ ~Held(m, c, i) /\ word = NoWord /\ ~i.block
TouchesRegisters(i) ==
    CASE i.op = "jmp" -> i.cond \in {"!x", "x--", "!y", "y--", "x!=y"}
      [] i.op = "in" -> i.src \in {"x", "y"}
      [] i.op \in {"out", "set"} -> i.dst \in {"x", "y"}
      [] i.op = "mov" -> i.dst \in {"x", "y"} \/ i.src \in {"x", "y"}
      [] OTHER -> i.op = "pull"

\* Executing i now would tell the mirror images apart.
Asymmetric(m, c, word) ==
    IF Forced(m) THEN TouchesRegisters(Decoded[m.pending_exec].do)
                 ELSE ReadsPhysicalX(m, c, c.code[m.pc].do, word) /\ m.x # m.y

(***************************************************************************)
(* Reads and writes.  The machine's parts that are read by some            *)
(* instructions only; the rest (program counter, latches, stall, forced    *)
(* word) is read in every cycle.                                           *)
(***************************************************************************)
Parts == {"x", "y", "isr", "osr", "isr_count", "osr_count", "irq", "tx", "rx"}

SourceReads(src) == {src} \cap {"x", "y", "isr", "osr"}
StateReads(i, c) ==
    CASE i.op = "jmp" -> CASE i.cond \in {"!x", "x--"} -> {"x"}
                           [] i.cond \in {"!y", "y--"} -> {"y"}
                           [] i.cond = "x!=y" -> {"x", "y"}
                           [] i.cond = "!osre" -> {"osr_count"}
                           [] OTHER -> {}
      [] i.op = "wait" -> IF i.src = "irq" THEN {"irq"} ELSE {}
      [] i.op = "in" -> SourceReads(i.src) \cup {"isr"} \cup IF c.autopush THEN {"isr_count", "rx"} ELSE {}
      [] i.op = "out" -> {"osr"} \cup IF c.autopull THEN {"osr_count", "tx"} ELSE {}
      [] i.op = "pull" -> {"tx", "x", "y"} \cup IF i.guard THEN {"osr_count"} ELSE {}
      [] i.op = "push" -> {"rx", "isr"} \cup IF i.guard THEN {"isr_count"} ELSE {}
      [] i.op = "mov" -> IF i.src = "status" THEN {"tx"} ELSE SourceReads(i.src)
      [] i.op = "irq" -> {"irq"}
      [] i.op = "set" -> {}

StallReads(stall) ==
    CASE stall.why = "pull" -> {"tx"}
      [] stall.why = "push" -> {"rx"}
      [] stall.why \in {"irq", "irqwait"} -> {"irq"}
      [] OTHER -> {}

\* Time and the pins are read by these: they behave differently when they are executed later.
ReadsExternal(i) ==
    CASE i.op = "jmp" -> i.cond = "pin"
      [] i.op \in {"wait", "irq"} -> TRUE
      [] i.op \in {"in", "mov"} -> i.src = "pins"
      [] OTHER -> FALSE

\* The scratch register that completing i writes, or "none".
Writes(i) == CASE i.op = "jmp" -> CASE i.cond = "x--" -> "x" [] i.cond = "y--" -> "y" [] OTHER -> "none"
               [] i.op \in {"out", "mov", "set"} -> IF i.dst \in {"x", "y"} THEN i.dst ELSE "none"
               [] OTHER -> "none"

WritesLatch(i) == i.op \in {"out", "set", "mov"} /\ i.dst \in {"pins", "pindirs"}

\* What completing i does to the two shift counters.
IsrCountEffect(i) ==
    CASE i.op = "in" -> "add"
      [] i.op = "out" /\ i.dst = "isr" -> "set"
      [] i.op = "push" \/ (i.op = "mov" /\ i.dst = "isr") -> "reset"
      [] OTHER -> "none"
OsrCountEffect(i) ==
    CASE i.op = "out" -> "add"
      [] i.op = "pull" \/ (i.op = "mov" /\ i.dst = "osr") -> "reset"
      [] OTHER -> "none"

\* Executing i needs the value of register r, and not only its identity as a copy does.
NeedsValue(i, r, m, c, word) ==
    CASE i.op = "jmp" -> r \in StateReads(i, c)
      [] i.op = "in" -> i.src = r
      [] i.op = "pull" -> ReadsPhysicalX(m, c, i, word)
      [] i.op = "mov" -> i.src = r /\ ~(i.how = "none" /\ i.dst \in {"x", "y"})
      [] OTHER -> FALSE

(***************************************************************************)
(* Interchangeable instructions: word_canon maps each to the spelling that *)
(* stands for its class.                                                   *)
(***************************************************************************)
MovDo(dst, how, src) == [op |-> "mov", dst |-> dst, how |-> how, src |-> src]
Nop == MovDo("x", "none", "x")
NopRep(c) == IF c.out_count = 0 THEN MovDo("pins", "none", "pins") ELSE Nop
OnPins(i) == i.dst \in {"pins", "pindirs"}

CanonMov(i, c) ==
    LET src == IF i.src = "status" THEN "null" ELSE i.src
        how == IF src = "null" /\ i.how = "reverse" THEN "none" ELSE i.how
    IN  CASE OnPins(i) /\ c.out_count = 0 -> NopRep(c)
          [] ~(OnPins(i) /\ c.out_count = 0) /\ i.how = "none" /\ i.dst = i.src /\ i.dst \in {"x", "y"} -> NopRep(c)
          [] i.dst = "pc" /\ src = "null" /\ how = "none" -> [op |-> "jmp", cond |-> "always", target |-> 0]
          [] OTHER -> MovDo(i.dst, how, src)

CanonSet(i, c) ==
    LET data == Low(i.data, c.set_count)
        same == c.set_base = c.out_base /\ c.set_count = c.out_count
    IN  CASE OnPins(i) /\ c.set_count = 0 -> NopRep(c)
          [] OnPins(i) /\ c.set_count > 0 /\ same /\ data \in {Zero, Low(Ones, c.set_count)} ->
                MovDo(i.dst, IF data = Zero THEN "none" ELSE "invert", "null")
          [] i.dst \in {"x", "y"} /\ i.data = Zero -> MovDo(i.dst, "none", "null")
          [] OTHER -> IF OnPins(i) THEN [i EXCEPT !.data = data] ELSE i

Canon(i, c) ==
    CASE i.op = "jmp" -> IF i.cond = "always" /\ i.target = Address(Ones) THEN MovDo("pc", "invert", "null") ELSE i
      [] i.op = "wait" -> IF i.src = "irq" THEN [i EXCEPT !.flag = FlagOf(i, c), !.rel = FALSE] ELSE i
      [] i.op = "out" -> IF OnPins(i) /\ c.out_count = 0 THEN [i EXCEPT !.dst = "null"] ELSE i
      [] i.op = "mov" -> CanonMov(i, c)
      [] i.op = "irq" -> [i EXCEPT !.flag = FlagOf(i, c), !.rel = FALSE, !.wait = @ /\ ~i.clear]
      [] i.op = "set" -> CanonSet(i, c)
      [] OTHER -> i
=============================================================================
