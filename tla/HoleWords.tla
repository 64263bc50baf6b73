----------------------------- MODULE HoleWords -----------------------------
(***************************************************************************)
(* Instruction words of which only some fields are decided: the slots of   *)
(* the narrowing engine's hole programs.  A word maps the names of its     *)
(* decided fields to their values; the code keeps a mask and the bits      *)
(* under it, and an undecided field reads as zero.                         *)
(***************************************************************************)
EXTENDS WordTables

Seqs == INSTANCE SequencesExt

\* The elements of s that are in S, in order.
Keeping(s, S) ==
    LET kept[n \in 0 .. Len(s)] == IF n = 0 THEN << >>
                                   ELSE IF s[n] \in S THEN Append(kept[n - 1], s[n]) ELSE kept[n - 1]
    IN  kept[Len(s)]

Blank == << >>
Decided(w, f) == f \in DOMAIN w
Get(w, f, default) == IF Decided(w, f) THEN w[f] ELSE default
Decide(w, f, v) == [g \in DOMAIN w \cup {f} |-> IF g = f THEN v ELSE w[g]]

(***************************************************************************)
(* The fields of an instruction, in the order in which they are asked for. *)
(* PUSH and PULL are one opcode.  A jump's target is consulted only when   *)
(* the jump is taken, the immediate of a SET to a register only when the   *)
(* register is read, and the delay only when the instruction completes.    *)
(***************************************************************************)
Opcodes == {"jmp", "wait", "in", "out", "fifo", "mov", "irq", "set"}
Operands(op) ==
    CASE op = "jmp" -> <<"cond", "target">>
      [] op = "wait" -> <<"pol", "src", "index">>
      [] op = "in" -> <<"src", "n">>
      [] op = "out" -> <<"dst", "n">>
      [] op = "fifo" -> <<"bits">>
      [] op = "mov" -> <<"dst", "how", "src">>
      [] op = "irq" -> <<"bits", "index">>
      [] op = "set" -> <<"dst", "data">>

Deferred(w, f) == \/ f = "target"
                  \/ f = "data" /\ Get(w, "dst", "pins") \in {"x", "y"}

AskedAtFetch(w) ==
    <<"side", "op">> \o IF Decided(w, "op")
                        THEN Keeping(Operands(w.op), {f \in Seqs!ToSet(Operands(w.op)) : ~Deferred(w, f)}) ELSE << >>

\* The first undecided field that fetching w consults, or "none".
Demand(w) == LET asked == AskedAtFetch(w)
                 open == {i \in DOMAIN asked : ~Decided(w, asked[i])}
             IN  IF open = {} THEN "none" ELSE asked[CHOOSE i \in open : \A j \in open : i <= j]

\* The decided fields that fetching w consults.
Footprint(w) == {f \in DOMAIN w : \E i \in 1 .. Len(AskedAtFetch(w)) : AskedAtFetch(w)[i] = f}

(***************************************************************************)
(* What a word does, zeros standing for what is undecided.  The five-bit   *)
(* index of WAIT and IRQ selects a pin, or a flag and its relative bit.    *)
(***************************************************************************)
Meaning(w) ==
    LET op == Get(w, "op", "jmp")
        index == Get(w, "index", 0)
        fifo == Get(w, "bits", [pull |-> FALSE, guard |-> FALSE, block |-> FALSE])
        irq == Get(w, "bits", [clear |-> FALSE, wait |-> FALSE])
    IN  CASE op = "jmp" -> [op |-> op, cond |-> Get(w, "cond", "always"), target |-> Get(w, "target", 0)]
          [] op = "wait" -> [op |-> op, src |-> Get(w, "src", "gpio"), pol |-> Get(w, "pol", 0),
                             index |-> index % W, flag |-> index % 8, rel |-> index >= 16]
          [] op = "in" -> [op |-> op, src |-> Get(w, "src", "pins"), n |-> Get(w, "n", W)]
          [] op = "out" -> [op |-> op, dst |-> Get(w, "dst", "pins"), n |-> Get(w, "n", W)]
          [] op = "fifo" -> [op |-> IF fifo.pull THEN "pull" ELSE "push", guard |-> fifo.guard, block |-> fifo.block]
          [] op = "mov" -> MovDo(Get(w, "dst", "pins"), Get(w, "how", "none"), Get(w, "src", "pins"))
          [] op = "irq" -> [op |-> op, clear |-> irq.clear, wait |-> irq.wait, flag |-> index % 8, rel |-> index >= 16]
          [] op = "set" -> [op |-> op, dst |-> Get(w, "dst", "pins"), data |-> Get(w, "data", Zero)]

AsInsn(w) == [do |-> Meaning(w), side |-> Get(w, "side", NoWord)]

\* Swapping the register names of what is decided, once the opcode is.
MirrorWord(w) == [f \in DOMAIN w |-> CASE f = "cond" -> SwapCond(w[f])
                                       [] f \in {"dst", "src"} -> SwapName(w[f])
                                       [] OTHER -> w[f]]

\* The scratch registers that deciding f as v names.
Names(f, v) == CASE f = "cond" /\ v \in {"!x", "x--"} -> {"x"}
                 [] f = "cond" /\ v \in {"!y", "y--"} -> {"y"}
                 [] f = "cond" /\ v = "x!=y" -> {"x", "y"}
                 [] f \in {"src", "dst"} -> {v} \cap {"x", "y"}
                 [] OTHER -> {}

(***************************************************************************)
(* The word quotient: siblings v and u of one fork are interchangeable     *)
(* when every completion of the word means the same with either.           *)
(***************************************************************************)
Domain(op, f) ==
    CASE f = "cond" -> {"always", "!x", "x--", "!y", "y--", "x!=y", "pin", "!osre"}
      [] f = "target" -> Slots
      [] f = "pol" -> {0, 1}
      [] f = "src" -> CASE op = "wait" -> {"gpio", "pin", "irq", "jmppin"}
                        [] op = "in" -> {"pins", "x", "y", "null", "isr", "osr"}
                        [] OTHER -> {"pins", "x", "y", "null", "status", "isr", "osr"}
      [] f = "index" -> 0 .. 31
      [] f = "n" -> 1 .. W
      [] f = "dst" -> CASE op = "out" -> {"pins", "x", "y", "null", "pindirs", "pc", "isr", "exec"}
                        [] op = "mov" -> {"pins", "x", "y", "pindirs", "exec", "pc", "isr", "osr"}
                        [] OTHER -> {"pins", "x", "y", "pindirs"}
      [] f = "bits" -> IF op = "fifo" THEN [pull : BOOLEAN, guard : BOOLEAN, block : BOOLEAN]
                                      ELSE [clear : BOOLEAN, wait : BOOLEAN]
      [] f = "how" -> {"none", "invert", "reverse"}
      [] f = "data" -> Word

Open(w) == Keeping(Operands(w.op), Seqs!ToSet(Operands(w.op)) \ DOMAIN w)
Completions(w) ==
    LET o == Open(w)
    IN  CASE Len(o) = 0 -> {w}
          [] Len(o) = 1 -> {Decide(w, o[1], a) : a \in Domain(w.op, o[1])}
          [] Len(o) = 2 -> {Decide(Decide(w, o[1], a), o[2], b) : a \in Domain(w.op, o[1]), b \in Domain(w.op, o[2])}

SameCompletions(w, f, v, u, c) ==
    /\ f \notin {"side", "op"}
    /\ \A rest \in Completions(Decide(w, f, v)) : Canon(Meaning(rest), c) = Canon(Meaning(Decide(rest, f, u)), c)

(***************************************************************************)
(* Outcome classes: values of one field that are kept together while they  *)
(* make no difference.  A side-set that may be disabled, while the         *)
(* instruction cannot write the same pins: disabling it, and asserting     *)
(* what the latch holds.  A WAIT on a pin: the indices that let it pass.   *)
(***************************************************************************)
Window(base, count) == {(base + b) % W : b \in 0 .. count - 1}

\* Mutant of SideGroupable: whatever the instruction writes.
SideGroupable_Always(w, p) == ~Decided(w, "side") /\ p.optional_side /\ ~p.config.side_pindir

SideGroupable(w, p) ==
    LET c == p.config
        side == Window(c.sideset_base, c.side_bits)
        outs == side \cap Window(c.out_base, c.out_count) # {}
        sets == side \cap Window(c.set_base, c.set_count) # {}
        spares == Decided(w, "dst") /\ Get(w, "dst", "pins") # "pins"
    IN  /\ ~Decided(w, "side") /\ p.optional_side /\ ~c.side_pindir
        /\ \/ ~outs /\ ~sets
           \/ Decided(w, "op") /\ (w.op \in {"out", "mov"} /\ outs => spares) /\ (w.op = "set" /\ sets => spares)

\* The side-set values among `allowed' that leave the latch as it is.
Unchanging(allowed, m, c) ==
    {v \in allowed : v = NoWord \/ WritePins(m.out_latch, v, c.sideset_base, c.side_bits) = m.out_latch}

WaitGroupable(w) == /\ Get(w, "op", "jmp") = "wait" /\ Decided(w, "pol") /\ Decided(w, "src")
                    /\ w.src \in {"gpio", "pin"} /\ ~Decided(w, "index")

\* The indices among `allowed' that w would not stall on.
MetNow(allowed, w, m, c, gpio) == {v \in allowed : Wait(m, c, gpio, Meaning(Decide(w, "index", v))) = m}
=============================================================================
