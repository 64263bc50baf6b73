----------------------------- MODULE Evaluator -----------------------------
(***************************************************************************)
(* One run of the narrowing engine's evaluator (narrow/mod.rs,             *)
(* run_with_stim): a candidate, its inputs and a stimulus, cycle by cycle. *)
(* The clock divider decides which system clocks are PIO cycles; a PIO     *)
(* cycle counts a delay down, waits for a stall to clear, or executes.     *)
(***************************************************************************)
EXTENDS PioIsa

CONSTANTS Configs,      \* candidate configurations
          Delays,       \* what split_side_delay leaves of the field, per slot: functions on Slots
          Divisors,     \* clkdiv_int * 256 + clkdiv_frac
          TxDepths,     \* depth of the TX FIFO after joining
          Inputs,       \* input words of a run, with the autopull pad
          Masks, Exts,  \* stimulated pins; sequences of what is asserted on them
          Outputs,      \* pins made outputs by the set-up
          Cycles,       \* length of a run
          Preload,      \* longest input that is loaded before the run: TX_FIFO_DEPTH
          ForcedDelay   \* the delay of each word, for the EXEC family

VARIABLES config, delays, divisor, tx_depth, mask, exts,   \* the candidate and the stimulus: never change
          cycle, m, tx, rest, delay_count, clk_acc,
          ticks, by_force  \* history: PIO cycles so far; the stalled instruction was a forced one

setup == <<config, delays, divisor, tx_depth, mask, exts>>
vars == <<setup, cycle, m, tx, rest, delay_count, clk_acc, ticks, by_force>>

ASSUME EvaluatorAssumption ==
    /\ Configs \subseteq Config
    /\ Delays \subseteq [Slots -> Nat]
    /\ Divisors \subseteq Nat /\ \A d \in Divisors : d >= 256
    /\ TxDepths \subseteq Nat
    /\ Inputs \subseteq Seq(Word)
    /\ Masks \subseteq Word /\ Exts \subseteq Seq(Word) /\ Outputs \subseteq Word
    /\ Cycles \in Nat
    /\ Preload \in Nat /\ \A d \in TxDepths : d = 0 \/ d >= Preload
    /\ ForcedDelay \in [Word -> Nat]

NextWord(queue) == IF queue = << >> THEN NoWord ELSE Head(queue)
First(s, n) == SubSeq(s, 1, Smaller(n, Len(s)))
After(s, n) == SubSeq(s, Smaller(n, Len(s)) + 1, Len(s))

\* Fifo::push drops what does not fit.
Pushed(queue, words) == queue \o First(words, IF tx_depth > Len(queue) THEN tx_depth - Len(queue) ELSE 0)

Init == /\ config \in Configs /\ delays \in Delays /\ divisor \in Divisors /\ tx_depth \in TxDepths
        /\ mask \in Masks /\ exts \in Exts
        /\ cycle = 0 /\ delay_count = 0 /\ clk_acc = 0
        /\ \E outputs \in Outputs : m = Reset(outputs)
        /\ \E words \in Inputs :
             IF Len(words) <= Preload
             THEN tx = First(words, tx_depth) /\ rest = << >>
             ELSE tx = << >> /\ rest = words
        /\ ticks = 0 /\ by_force = FALSE

(***************************************************************************)
(* Before each cycle, the TX FIFO is filled from what is left of a streamed *)
(* input.  A FIFO that was joined away is never full: it swallows the rest. *)
(***************************************************************************)
\* Mutant of Fed: the input is streamed into the FIFO once.
Fed_Once == IF cycle = 0 THEN Pushed(tx, rest) ELSE tx
Fed == Pushed(tx, rest)

\* Mutant of Left: a refill is taken to have moved a whole FIFO's worth.
Left_Whole == IF tx_depth = 0 THEN << >> ELSE After(rest, tx_depth)
Left == IF tx_depth = 0 THEN << >> ELSE After(rest, Len(Fed) - Len(tx))

\* Stim::at: the last value holds.
Ext == IF exts = << >> THEN Zero ELSE exts[Smaller(cycle + 1, Len(exts))]
Gpio == Compose(m, mask, Ext)

Fires == clk_acc + 256 >= divisor

\* Mutant of StillStalled: WAIT PIN is re-checked on the absolute pin.
StillStalled_Absolute(s, gpio, word) ==
    CASE s.stall.why = "none" -> FALSE
      [] s.stall.why = "pull" -> word = NoWord
      [] s.stall.why = "push" -> RxFull(s, config)
      [] s.stall.why \in {"gpio", "pin"} -> gpio[s.stall.index] # s.stall.pol
      [] s.stall.why = "irq" -> Raised(s, s.stall.index) # s.stall.pol
      [] s.stall.why = "irqwait" -> Raised(s, s.stall.index) = 1
StillStalled(s, gpio, word) ==
    CASE s.stall.why = "none" -> FALSE
      [] s.stall.why = "pull" -> word = NoWord
      [] s.stall.why = "push" -> RxFull(s, config)
      [] s.stall.why = "gpio" -> gpio[s.stall.index] # s.stall.pol
      [] s.stall.why = "pin" -> gpio[(config.in_base + s.stall.index) % W] # s.stall.pol
      [] s.stall.why = "irq" -> Raised(s, s.stall.index) # s.stall.pol
      [] s.stall.why = "irqwait" -> Raised(s, s.stall.index) = 1

Feed == rest' = Left
\* Mutant of Clock: the accumulator starts over when it fires.
Clock_Reset == /\ cycle < Cycles
               /\ cycle' = cycle + 1
               /\ clk_acc' = IF Fires THEN 0 ELSE clk_acc + 256
               /\ ticks' = IF Fires THEN ticks + 1 ELSE ticks
               /\ Feed
               /\ UNCHANGED setup
Clock == /\ cycle < Cycles
         /\ cycle' = cycle + 1
         /\ clk_acc' = IF Fires THEN clk_acc + 256 - divisor ELSE clk_acc + 256
         /\ ticks' = IF Fires THEN ticks + 1 ELSE ticks
         /\ Feed
         /\ UNCHANGED setup

\* The divider skips this system clock.
Skip == Clock /\ ~Fires /\ tx' = Fed /\ UNCHANGED <<m, delay_count, by_force>>

CountDown == /\ Clock /\ Fires
             /\ delay_count > 0 /\ delay_count' = delay_count - 1
             /\ tx' = Fed /\ UNCHANGED <<m, by_force>>

StayStalled == /\ Clock /\ Fires /\ delay_count = 0
               /\ StillStalled(m, Gpio, NextWord(Fed))
               /\ tx' = Fed /\ UNCHANGED <<m, delay_count, by_force>>

\* The delay is latched when the instruction completes.
Run == /\ Clock /\ Fires /\ delay_count = 0
       /\ ~StillStalled(m, Gpio, NextWord(Fed))
       /\ m' = Execute(m, config, Gpio, NextWord(Fed))
       /\ tx' = IF Pops(m, config, Fetch(m, config).do, NextWord(Fed)) THEN Tail(Fed) ELSE Fed
       /\ delay_count' = IF m'.stall # NotStalled THEN 0
                         ELSE IF Forced(m) THEN ForcedDelay[m.pending_exec] ELSE delays[m.pc]
       /\ by_force' = (Forced(m) /\ m'.stall # NotStalled)

Next == Skip \/ CountDown \/ StayStalled \/ Run
Spec == Init /\ [][Next]_vars

(***************************************************************************)
(* Properties.                                                             *)
(***************************************************************************)
TypeOK ==
    /\ config \in Configs /\ delays \in Delays /\ divisor \in Divisors /\ tx_depth \in TxDepths
    /\ mask \in Masks /\ exts \in Exts
    /\ cycle \in 0 .. Cycles /\ ticks \in 0 .. cycle
    /\ m \in Machine /\ Len(m.rx) <= config.rx_depth
    /\ tx \in Seq(Word) /\ Len(tx) <= tx_depth /\ rest \in Seq(Word)
    /\ delay_count \in Nat /\ clk_acc \in Nat /\ by_force \in BOOLEAN

\* Delays, the clock divider, stall bookkeeping and the depth of a streamed FIFO only move the
\* effects of instructions in time: a run executes its program instruction by instruction.
Program == INSTANCE PioProgram WITH
    m <- [m EXCEPT !.stall = NotStalled],
    input <- IF tx_depth = 0 THEN << >> ELSE tx \o rest
RunsTheProgram == Program!Spec

\* With a refill before every cycle the machine never waits for a word while there is one
\* (run.rs, stream_on): so it is not later than on an unbounded FIFO either.
NeverStarved == m.stall.why = "pull" => rest = << >>

\* The condition a stalled machine re-checks each cycle is the one its instruction stalls on: it is
\* retried exactly when it can complete, and never stalls twice.
StallsAreExact ==
    m.stall # NotStalled /\ ~by_force =>
        \A gpio \in Word, word \in Word \cup {NoWord} :
            StillStalled(m, gpio, word) <=> Execute(m, config, gpio, word).stall # NotStalled

\* An instruction that stalls is executed again, so it has had no effect: it has changed neither
\* registers, counts, FIFOs nor the program counter.  (IRQ WAIT raises its flag first.)
StalledHasNoEffect ==
    m'.stall # NotStalled =>
        /\ m' = [m EXCEPT !.stall = m'.stall, !.pending_exec = m'.pending_exec,
                          !.out_latch = m'.out_latch, !.dir_latch = m'.dir_latch,
                          !.irq_flags = IF m'.stall.why = "irqwait" THEN @ \cup {m'.stall.index} ELSE @]
        /\ tx' = Fed
StallsHaveNoEffect == [][StalledHasNoEffect]_vars

\* The divider neither drifts nor bunches: after any number of system clocks the machine has had
\* the whole number of PIO cycles the divisor calls for.
ClockExact == ticks = (256 * cycle) \div divisor
=============================================================================
