------------------------------ MODULE SpecRun ------------------------------
(***************************************************************************)
(* One search problem of the narrowing engine (EngineSpec), and the run of *)
(* one program under its driver: run_spec_oob.  Pure operators.            *)
(*                                                                         *)
(* A timed state s is a machine with its TX FIFO, delay counter and clock  *)
(* accumulator.                                                            *)
(***************************************************************************)
EXTENDS HoleWords

CONSTANTS ForcedDelay   \* the delay of each word, for the EXEC family

NextWord(queue) == IF queue = << >> THEN NoWord ELSE Head(queue)
First(q, n) == SubSeq(q, 1, Smaller(n, Len(q)))

\* What a problem p may ask.  Every problem leaves the code to the search.
Problem == [config : Config, slots : Slots, optional_side : BOOLEAN, max_delay : Nat,
            cycles : Nat \ {0}, divisor : Nat, tx_depth : Nat, preload : BOOLEAN, inputs : Seq(Word),
            outputs : Word, capture : SUBSET Bits, mask : Word, exts : Seq(Word), irq_sets : Seq(SUBSET Flags)]

Powered(p) == [m |-> Reset(p.outputs), tx |-> IF p.preload THEN First(p.inputs, p.tx_depth) ELSE << >>,
               delay |-> 0, acc |-> 0]
FirstInput(p) == IF p.preload THEN Len(p.inputs) ELSE 0

ExtAt(p, cycle) == IF p.exts = << >> THEN Zero ELSE p.exts[Smaller(cycle + 1, Len(p.exts))]
RaisedAt(p, cycle) == IF cycle < Len(p.irq_sets) THEN p.irq_sets[cycle + 1] ELSE {}

\* The driver's part of a cycle: a sibling's IRQ flags, and a full TX FIFO.
Room(p, s) == IF p.tx_depth > Len(s.tx) THEN p.tx_depth - Len(s.tx) ELSE 0
Driven(p, s, cycle, next) ==
    [s EXCEPT !.m.irq_flags = @ \cup RaisedAt(p, cycle),
              !.tx = @ \o First(SubSeq(p.inputs, next + 1, Len(p.inputs)), Room(p, s))]
NextInput(p, s, next) == Smaller(Len(p.inputs), next + Room(p, s))

GpioAt(p, s, cycle) == Compose(s.m, p.mask, ExtAt(p, cycle))

Ticks(p, s) == s.acc + 256 >= p.divisor

Blocked(p, s, gpio) ==
    LET stall == s.m.stall
    IN  CASE stall.why = "none" -> FALSE
          [] stall.why = "pull" -> s.tx = << >>
          [] stall.why = "push" -> RxFull(s.m, p.config)
          [] stall.why = "gpio" -> gpio[stall.index] # stall.pol
          [] stall.why = "pin" -> gpio[(p.config.in_base + stall.index) % W] # stall.pol
          [] stall.why = "irq" -> Raised(s.m, stall.index) # stall.pol
          [] stall.why = "irqwait" -> Raised(s.m, stall.index) = 1

WillExecute(p, s, gpio) == s.delay = 0 /\ ~Blocked(p, s, gpio)
WillFetch(p, s, gpio) == WillExecute(p, s, gpio) /\ ~Forced(s.m)

\* The state after an execution that left m.
Ran(p, s, words, c, m) ==
    [m |-> m,
     tx |-> IF Pops(s.m, c, Fetch(s.m, c).do, NextWord(s.tx)) THEN Tail(s.tx) ELSE s.tx,
     delay |-> IF m.stall # NotStalled THEN 0
               ELSE IF Forced(s.m) THEN ForcedDelay[s.m.pending_exec]
               ELSE Get(words[s.m.pc], "delay", 0),
     acc |-> s.acc + 256 - p.divisor]
Loading(p, words) == [p.config EXCEPT !.code = [i \in Slots |-> AsInsn(words[i])]]

\* One system clock: the state after it, when the slots hold `words'.
Clocked(p, s, words, gpio) ==
    LET c == Loading(p, words)
    IN  CASE ~Ticks(p, s) -> [s EXCEPT !.acc = @ + 256]
          [] Ticks(p, s) /\ s.delay > 0 -> [s EXCEPT !.acc = @ + 256 - p.divisor, !.delay = @ - 1]
          [] Ticks(p, s) /\ s.delay = 0 /\ Blocked(p, s, gpio) -> [s EXCEPT !.acc = @ + 256 - p.divisor]
          [] OTHER -> Ran(p, s, words, c, Execute(s.m, c, gpio, NextWord(s.tx)))

\* What the cycle shows on the captured pins: level, and whether it is driven.
Capture(p, s, cycle) == [pin \in p.capture |-> <<GpioAt(p, s, cycle)[pin], s.m.dir_latch[pin]>>]

OutOfFootprint(p, s, gpio) == Ticks(p, s) /\ WillFetch(p, s, gpio) /\ s.m.pc >= p.slots

\* The slots past the footprint hold NOPs.
Filler == [op |-> "mov", dst |-> "y", how |-> "none", src |-> "y", delay |-> 0]
Filled(p, words) == [i \in Slots |-> IF i < p.slots THEN words[i] ELSE Filler]

(***************************************************************************)
(* The run of a program, cycle by cycle.                                   *)
(***************************************************************************)
Shows(p, cycle, after, next, oob) == [s |-> after, next |-> next, shown |-> Capture(p, after, cycle), oob |-> oob]
SpecCycle(p, words, past, cycle) ==
    LET d == Driven(p, past.s, cycle, past.next)
        gpio == GpioAt(p, d, cycle)
    IN  Shows(p, cycle, Clocked(p, d, words, gpio), NextInput(p, past.s, past.next), OutOfFootprint(p, d, gpio))

\* After k cycles the run has come to element k.
RunSpec(p, program) ==
    LET words == Filled(p, program)
        start == [s |-> Powered(p), next |-> FirstInput(p), shown |-> << >>, oob |-> FALSE]
        past[k \in 0 .. p.cycles] == IF k = 0 THEN start ELSE SpecCycle(p, words, past[k - 1], k - 1)
    IN  past

Trace(p, program) == LET past == RunSpec(p, program) IN [c \in 1 .. p.cycles |-> past[c].shown]
=============================================================================
