---------------------------- MODULE PioProgram ----------------------------
(***************************************************************************)
(* What a PIO program computes, time aside: one instruction after another, *)
(* over an unbounded queue of input words, with no delays, no clock        *)
(* divider, no memory of stalls.  Abstract: the premise that enumerate.rs  *)
(* screens structures by ("the sequence of executed instructions ... is    *)
(* invariant under delay changes") and the one run.rs streams by ("equals  *)
(* what an unbounded FIFO would produce").                                 *)
(***************************************************************************)
EXTENDS PioIsa

CONSTANT Configs

VARIABLES config, mask, m, input

NextWord(queue) == IF queue = << >> THEN NoWord ELSE Head(queue)
Popped(queue, i, c, s) == IF Pops(s, c, i, NextWord(queue)) THEN Tail(queue) ELSE queue

Init == /\ config \in Configs
        /\ mask \in Word
        /\ \E outputs \in Word : m = Reset(outputs)
        /\ input \in Seq(Word)

\* An instruction that cannot complete asserts its side-set, and leaves no trace of having tried.
Instruction ==
    /\ \E ext \in Word : m' = [Execute(m, config, Compose(m, mask, ext), NextWord(input)) EXCEPT !.stall = NotStalled]
    /\ input' = Popped(input, Fetch(m, config).do, config, m)
    /\ UNCHANGED <<config, mask>>

Spec == Init /\ [][Instruction]_<<config, mask, m, input>>
=============================================================================
