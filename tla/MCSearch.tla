------------------------------ MODULE MCSearch ------------------------------
(***************************************************************************)
(* Small search problems, each after one part of the engine.  The alphabet *)
(* of each is closed under the register mirror and holds the spellings     *)
(* that the prunes keep: the NOP, and every delay.                         *)
(***************************************************************************)
EXTENDS SearchSplit, TLC

\* Data, by number.
V(k) == [b \in Bits |-> (k \div 2 ^ b) % 2]

MovTo(dst, how, src) == [do |-> MovDo(dst, how, src), side |-> NoWord]
\* Data as instructions: one reads a register, one does not, the others do nothing to be seen.
MCDecoded == [v \in Word |-> CASE v = V(1) -> MovTo("pins", "none", "x")
                               [] v = V(2) -> MovTo("pins", "invert", "null")
                               [] OTHER -> MovTo("isr", "none", "isr")]
MCForcedDelay == [v \in Word |-> 0]

Plain == [code |-> [i \in Slots |-> MovTo("x", "none", "x")], wrap_bottom |-> 0, wrap_top |-> 1,
          side_bits |-> 0, side_pindir |-> FALSE, sm_id |-> 1, jmp_pin |-> 0, in_base |-> 0,
          out_base |-> 0, set_base |-> 0, sideset_base |-> 0, out_count |-> 3, set_count |-> 3,
          autopush |-> FALSE, autopull |-> FALSE, push_threshold |-> W, pull_threshold |-> W,
          in_shift_right |-> TRUE, out_shift_right |-> TRUE, rx_depth |-> 1]

Unseeded(slots) == [words |-> [i \in 0 .. slots - 1 |-> Blank], constraints |-> << >>]
Base == [config |-> Plain, slots |-> 2, optional_side |-> FALSE, max_delay |-> 0, cycles |-> 5, divisor |-> 256,
         tx_depth |-> 1, preload |-> TRUE, inputs |-> << >>, outputs |-> V(7), capture |-> Bits, mask |-> V(0),
         exts |-> << >>, irq_sets |-> << >>, side |-> << >>, index |-> << >>, memo_cap |-> 4, first_bar |-> 0,
         seed |-> Unseeded(2), target |-> 4, frontier_cap |-> 99, champion_cap |-> 99]

\* Instructions for the reference programs.
SidePlus(w, side, d) == w @@ ("side" :> side) @@ ("delay" :> d)
Plus(w, d) == SidePlus(w, NoWord, d)
Op(op) == "op" :> op
JmpTo(cond, target) == Op("jmp") @@ ("cond" :> cond) @@ ("target" :> target)
SetTo(dst, k) == Op("set") @@ ("dst" :> dst) @@ ("data" :> V(k))
MovOf(dst, how, src) == Op("mov") @@ ("dst" :> dst) @@ ("how" :> how) @@ ("src" :> src)
OutTo(dst, n) == Op("out") @@ ("dst" :> dst) @@ ("n" :> n)
WaitFor(pol, src, index) == Op("wait") @@ ("pol" :> pol) @@ ("src" :> src) @@ ("index" :> index)
Fifo(pull, guard, block) == [pull |-> pull, guard |-> guard, block |-> block]
PullOf(guard, block) == Op("fifo") @@ ("bits" :> Fifo(TRUE, guard, block))
IrqBits(clear, wait) == [clear |-> clear, wait |-> wait]
IrqOf(clear, wait, index) == Op("irq") @@ ("bits" :> IrqBits(clear, wait)) @@ ("index" :> index)

\* Problem p, to be given the trace of a program.
Like(p, program) == p @@ ("program" :> [i \in 0 .. Len(program) - 1 |-> program[i + 1]])
Pair(p, a, b) == Like(p, <<Plus(a, 0), Plus(b, 0)>>)

(***************************************************************************)
(* Registers: undecided immediates, copies, mirror images, jumps.          *)
(***************************************************************************)
Regs == [Base EXCEPT !.max_delay = 1] @@
        [ops |-> <<"jmp", "mov", "set">>,
         operands |-> [jmp |-> [cond |-> <<"always", "x--", "y--">>],
                       mov |-> [dst |-> <<"pins", "x", "y">>, how |-> <<"none">>, src |-> <<"x", "y">>],
                       set |-> [dst |-> <<"x", "y">>, data |-> <<V(1), V(2)>>]]]

(***************************************************************************)
(* Forced words and PULL tell a program from its mirror image.             *)
(***************************************************************************)
Exec == [Base EXCEPT !.config.autopull = TRUE, !.inputs = <<V(1), V(1), V(2)>>, !.tx_depth = 4] @@
        [ops |-> <<"out", "mov", "set">>,
         operands |-> [out |-> [dst |-> <<"exec", "x", "y">>, n |-> <<3>>],
                       mov |-> [dst |-> <<"pins", "x", "y">>, how |-> <<"none">>, src |-> <<"x", "y">>],
                       set |-> [dst |-> <<"x", "y">>, data |-> <<V(1), V(2)>>]]]
Empty == [Base EXCEPT !.slots = 3, !.config.wrap_top = 2, !.seed = Unseeded(3)] @@
         [ops |-> <<"fifo", "mov", "set">>,
          operands |-> [fifo |-> [bits |-> <<Fifo(TRUE, FALSE, FALSE), Fifo(FALSE, FALSE, FALSE)>>],
                        mov |-> [dst |-> <<"pins", "x", "y">>, how |-> <<"none">>, src |-> <<"osr", "x", "y">>],
                        set |-> [dst |-> <<"x", "y">>, data |-> <<V(1)>>]]]

(***************************************************************************)
(* Outcome classes: the pins a WAIT lets pass, the side-sets that change   *)
(* nothing.                                                                *)
(***************************************************************************)
Waits == [Base EXCEPT !.mask = V(6), !.exts = <<V(2), V(2), V(6), V(4), V(4), V(0)>>, !.cycles = 6, !.index = <<0, 1, 2>>] @@
         [ops |-> <<"wait", "mov", "set">>,
          operands |-> [wait |-> [pol |-> <<0, 1>>, src |-> <<"gpio", "pin">>],
                        mov |-> [dst |-> <<"x">>, how |-> <<"none">>, src |-> <<"x">>],
                        set |-> [dst |-> <<"pins">>, data |-> <<V(0), V(1)>>]]]
Sides == [Base EXCEPT !.config.side_bits = 1, !.config.out_base = 1, !.config.out_count = 2, !.config.set_base = 1,
                      !.config.set_count = 1, !.optional_side = TRUE, !.side = <<NoWord, V(0), V(1)>>] @@
         [ops |-> <<"mov", "set">>,
          operands |-> [mov |-> [dst |-> <<"x", "y">>, how |-> <<"none", "invert">>, src |-> <<"x", "y">>],
                        set |-> [dst |-> <<"pins">>, data |-> <<V(0), V(1)>>]]]
Shared == [Sides EXCEPT !.config.set_base = 0, !.max_delay = 1, !.operands.mov.how = <<"none">>]

(***************************************************************************)
(* The program counter as data; shift counts; interrupts; streamed words.  *)
(***************************************************************************)
Pcs == [Base EXCEPT !.max_delay = 1, !.cycles = 6] @@
       [ops |-> <<"mov", "set">>,
        operands |-> [mov |-> [dst |-> <<"pins", "x", "y", "pc">>, how |-> <<"none", "invert">>, src |-> <<"x", "y">>],
                      set |-> [dst |-> <<"x", "y">>, data |-> <<V(0), V(1)>>]]]
Streams == [Base EXCEPT !.preload = FALSE, !.inputs = <<V(1), V(2), V(5), V(3), V(6)>>, !.tx_depth = 1,
                        !.config.autopull = TRUE, !.cycles = 6] @@
           [ops |-> <<"jmp", "fifo", "out", "mov">>,
            operands |-> [jmp |-> [cond |-> <<"!osre">>], fifo |-> [bits |-> <<Fifo(TRUE, TRUE, TRUE), Fifo(TRUE, FALSE, TRUE)>>],
                          out |-> [dst |-> <<"pins", "x", "y", "null">>, n |-> <<1, 3>>],
                          mov |-> [dst |-> <<"x">>, how |-> <<"none">>, src |-> <<"x">>]]]
Irqs == [Base EXCEPT !.irq_sets = <<{}, {1}, {}, {2}, {1}>>, !.index = <<1, 2, 16>>, !.cycles = 6] @@
        [ops |-> <<"irq", "wait", "mov", "set">>,
         operands |-> [irq |-> [bits |-> <<IrqBits(FALSE, FALSE), IrqBits(FALSE, TRUE), IrqBits(TRUE, FALSE), IrqBits(TRUE, TRUE)>>],
                       wait |-> [pol |-> <<0, 1>>, src |-> <<"irq">>],
                       mov |-> [dst |-> <<"x">>, how |-> <<"none">>, src |-> <<"x">>],
                       set |-> [dst |-> <<"pins">>, data |-> <<V(0), V(1)>>]]]

(***************************************************************************)
(* The problems.  Most traces are those of a program; two are of none.     *)
(***************************************************************************)
Undriven(p, k) == p @@ ("expected" :> [c \in 1 .. p.cycles |-> [pin \in Bits |-> <<0, IF c = k THEN 0 ELSE 1>>]])

Drafts ==
    "regs1" :> Like(Regs, <<Plus(SetTo("x", 2), 0), Plus(MovOf("pins", "none", "x"), 1)>>)
    @@ "regs2" :> Like([Regs EXCEPT !.memo_cap = 1], <<Plus(JmpTo("x--", 0), 0), Plus(MovOf("pins", "none", "x"), 1)>>)
    @@ "regs3" :> Like([Regs EXCEPT !.divisor = 384, !.cycles = 6], <<Plus(MovOf("pins", "none", "x"), 0), Plus(SetTo("y", 1), 0)>>)
    @@ "regs4" :> Like([Regs EXCEPT !.seed.words[0] = Op("mov") @@ ("dst" :> "y")],
                       <<Plus(MovOf("y", "none", "y"), 0), Plus(MovOf("pins", "none", "x"), 1)>>)
    @@ "regs5" :> Like([Regs EXCEPT !.seed.words[0] = Op("jmp")],
                       <<Plus(JmpTo("always", 1), 1), Plus(MovOf("pins", "none", "x"), 1)>>)
    @@ "regs6" :> Like([Regs EXCEPT !.operands.jmp.cond = <<"always", "x!=y", "x--", "y--">>, !.max_delay = 0, !.target = 9],
                       <<Plus(JmpTo("x!=y", 0), 0), Plus(MovOf("pins", "none", "x"), 0)>>)
    @@ "exec1" :> Pair([Exec EXCEPT !.target = 9], SetTo("x", 2), OutTo("exec", 3))
    @@ "exec2" :> Pair([Exec EXCEPT !.memo_cap = 2], OutTo("x", 3), OutTo("exec", 3))
    @@ "exec3" :> Pair([Exec EXCEPT !.target = 99], SetTo("y", 2), OutTo("exec", 3))
    @@ "empty" :> Like(Empty, <<Plus(SetTo("x", 1), 0), Plus(PullOf(FALSE, FALSE), 0), Plus(MovOf("pins", "none", "osr"), 0)>>)
    @@ "wait1" :> Pair(Waits, WaitFor(1, "gpio", 2), SetTo("pins", 0))
    @@ "wait2" :> Pair([Waits EXCEPT !.target = 99], WaitFor(0, "pin", 1), SetTo("pins", 0))
    @@ "wait3" :> Pair([Waits EXCEPT !.config.in_base = 1, !.target = 9], SetTo("pins", 0), WaitFor(1, "pin", 1))
    @@ "side1" :> Like(Sides, <<SidePlus(SetTo("pins", 0), V(1), 0), SidePlus(MovOf("x", "none", "x"), NoWord, 0)>>)
    @@ "side2" :> Like(Shared, <<SidePlus(SetTo("pins", 0), V(1), 1), SidePlus(MovOf("x", "none", "x"), NoWord, 0)>>)
    @@ "side3" :> Like([Shared EXCEPT !.target = 99], <<SidePlus(SetTo("pins", 0), NoWord, 0), SidePlus(MovOf("x", "none", "x"), V(1), 0)>>)
    @@ "pcs1" :> Pair(Pcs, MovOf("x", "invert", "x"), MovOf("pins", "none", "y"))
    @@ "pcs2" :> Pair([Pcs EXCEPT !.config.wrap_top = 2], MovOf("pins", "none", "x"), MovOf("pc", "none", "x"))
    @@ "stream1" :> Pair(Streams, OutTo("pins", 1), OutTo("pins", 3))
    @@ "stream2" :> Pair([Streams EXCEPT !.config.autopull = FALSE, !.target = 99], PullOf(TRUE, TRUE), OutTo("pins", 1))
    @@ "stream3" :> Pair([Streams EXCEPT !.config.autopull = FALSE, !.divisor = 384], OutTo("pins", 3), JmpTo("!osre", 0))
    @@ "irq1" :> Pair(Irqs, WaitFor(1, "irq", 1), SetTo("pins", 0))
    @@ "irq2" :> Pair([Irqs EXCEPT !.irq_sets = <<{}, {1}, {1}, {2}, {}>>, !.index = <<1, 16>>], IrqOf(FALSE, TRUE, 1), SetTo("pins", 0))
    @@ "cut" :> Pair([Sides EXCEPT !.target = 99, !.frontier_cap = 8], SetTo("pins", 0), MovOf("x", "none", "x"))
    @@ "few" :> Like([Sides EXCEPT !.champion_cap = 2], <<SidePlus(SetTo("pins", 0), V(1), 0), SidePlus(MovOf("x", "none", "x"), NoWord, 0)>>)
    @@ "panic" :> Pair([Regs EXCEPT !.target = 99, !.frontier_cap = 2], SetTo("x", 2), MovOf("pins", "none", "x"))
    @@ "never" :> Undriven(Regs, 1)
    @@ "nomore" :> Undriven(Regs, 3)
    @@ "last" :> Like([Regs EXCEPT !.mask = V(4), !.exts = <<V(0), V(0), V(0), V(4)>>, !.operands.set.data = <<V(1)>>, !.cycles = 4],
                      <<Plus(SetTo("x", 1), 0), Plus(MovOf("pins", "none", "x"), 0)>>)
Posing(draft) == IF Decided(draft, "program") THEN draft @@ ("expected" :> Trace(draft, draft.program)) ELSE draft
PosedAll(drafts) == [n \in DOMAIN drafts |-> Posing(drafts[n])]
Posed == << >> @@ PosedAll(Drafts)
MCProblems == Posed

(***************************************************************************)
(* A loop back to the second of two NOPs: its delay is paid in every       *)
(* round, that of the first NOP only once, so a delay of the second cannot *)
(* be moved to the first.                                                  *)
(***************************************************************************)
Looped == [Base EXCEPT !.slots = 3, !.seed = Unseeded(3), !.max_delay = 1, !.cycles = 11, !.config.wrap_bottom = 1,
                       !.config.wrap_top = 2, !.preload = FALSE, !.config.autopull = TRUE,
                       !.inputs = <<V(1), V(2), V(5), V(3), V(6), V(1), V(2)>>] @@
          [ops |-> <<"out", "mov">>,
           operands |-> [out |-> [dst |-> <<"pins">>, n |-> <<3>>],
                         mov |-> [dst |-> <<"x">>, how |-> <<"none">>, src |-> <<"x">>]]]
LoopDraft == Like(Looped, <<Plus(MovOf("x", "none", "x"), 0), Plus(MovOf("x", "none", "x"), 1), Plus(OutTo("pins", 3), 1)>>)
LoopPosed == << >> @@ ("loop" :> Posing(LoopDraft))
MCLoop == LoopPosed
=============================================================================
