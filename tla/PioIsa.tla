------------------------------- MODULE PioIsa -------------------------------
(***************************************************************************)
(* What one instruction of a PIO state machine does: exec_op of the        *)
(* narrowing engine's evaluator, with the fetch and the side-set around    *)
(* it.  Pure operators.                                                    *)
(*                                                                         *)
(* A machine m is the part of NState that instructions change; the TX      *)
(* FIFO, the delay counter and the clock accumulator are its caller's.  An *)
(* instruction sees the TX FIFO only through `word', the word it would     *)
(* pop, or NoWord.  Registers are functions from bit numbers to bits; the  *)
(* code has W = 32 of them, and as many pins; instructions are decoded.    *)
(***************************************************************************)
EXTENDS Integers, Sequences

CONSTANTS W,         \* bits of a register, and pins
          N,         \* instruction slots
          NoWord,    \* no word: an empty TX FIFO, no forced instruction
          Decoded    \* the instruction each word decodes to, for the EXEC family

Bits == 0 .. W - 1
Word == [Bits -> {0, 1}]
Slots == 0 .. N - 1
Flags == 0 .. 7

Zero == [b \in Bits |-> 0]
Ones == [b \in Bits |-> 1]
Smaller(a, b) == IF a < b THEN a ELSE b

(***************************************************************************)
(* Bits.                                                                   *)
(***************************************************************************)
Low(w, n) == [b \in Bits |-> IF b < n THEN w[b] ELSE 0]
ShiftRight(w, d, n) == [b \in Bits |-> IF b + n < W THEN w[b + n] ELSE d[b + n - W]]
ShiftLeft(w, d, n) == [b \in Bits |-> IF b < n THEN d[b] ELSE w[b - n]]
FromPin(w, base) == [b \in Bits |-> w[(b + base) % W]]
Flip(w) == [b \in Bits |-> 1 - w[b]]
Reverse(w) == [b \in Bits |-> w[W - 1 - b]]
Decrement(w) == LET low == CHOOSE b \in Bits : w[b] = 1 /\ \A a \in Bits : a < b => w[a] = 0
                IN  [b \in Bits |-> IF b < low THEN 1 ELSE IF b = low THEN 0 ELSE w[b]]
\* The low five bits, as a slot.
Address(w) == LET bit(b) == IF b < W THEN w[b] ELSE 0
              IN  (bit(0) + 2 * bit(1) + 4 * bit(2) + 8 * bit(3) + 16 * bit(4)) % N
WritePins(latch, v, base, count) ==
    [p \in Bits |-> LET b == (p + W - base) % W IN IF b < count THEN v[b] ELSE latch[p]]

(***************************************************************************)
(* Instructions and configurations.  `do' is the instruction, `side' its   *)
(* side-set value or NoWord; its delay belongs to the timed machine.       *)
(***************************************************************************)
Do == [op : {"jmp"}, cond : {"always", "!x", "x--", "!y", "y--", "x!=y", "pin", "!osre"}, target : Slots]
  \cup [op : {"wait"}, src : {"gpio", "pin", "irq", "jmppin"}, pol : {0, 1}, index : Bits, flag : Flags, rel : BOOLEAN]
  \cup [op : {"in"}, src : {"pins", "x", "y", "null", "isr", "osr"}, n : 1 .. W]
  \cup [op : {"out"}, dst : {"pins", "x", "y", "null", "pindirs", "pc", "isr", "exec"}, n : 1 .. W]
  \cup [op : {"push", "pull"}, guard : BOOLEAN, block : BOOLEAN]
  \cup [op : {"mov"}, dst : {"pins", "x", "y", "pindirs", "exec", "pc", "isr", "osr"},
        how : {"none", "invert", "reverse"}, src : {"pins", "x", "y", "null", "status", "isr", "osr"}]
  \cup [op : {"irq"}, clear : BOOLEAN, wait : BOOLEAN, flag : Flags, rel : BOOLEAN]
  \cup [op : {"set"}, dst : {"pins", "x", "y", "pindirs", "null"}, data : Word]

Insn == [do : Do, side : Word \cup {NoWord}]

\* The configuration of a candidate.  status_n is 0 in every configuration the code builds
\* (from_program), so MOV STATUS, which asks for a level below status_n, always reads zero.
Config == [code : [Slots -> Insn], wrap_bottom : Slots, wrap_top : Slots,
           side_bits : 0 .. W, side_pindir : BOOLEAN, sm_id : 0 .. 3,
           jmp_pin : Bits, in_base : Bits, out_base : Bits, set_base : Bits, sideset_base : Bits,
           out_count : 0 .. W, set_count : 0 .. W, autopush : BOOLEAN, autopull : BOOLEAN,
           push_threshold : 1 .. W, pull_threshold : 1 .. W,
           in_shift_right : BOOLEAN, out_shift_right : BOOLEAN, rx_depth : Nat]

ASSUME IsaAssumption ==
    /\ W \in Nat \ {0}
    /\ N \in Nat \ {0}
    /\ NoWord \notin Word
    /\ Decoded \in [Word -> Insn]

(***************************************************************************)
(* Machines.                                                               *)
(***************************************************************************)
NotStalled == [why |-> "none"]
Stalls == {NotStalled} \cup [why : {"pull", "push"}]
          \cup [why : {"gpio", "pin"}, pol : {0, 1}, index : Bits]
          \cup [why : {"irq", "irqwait"}, pol : {0, 1}, index : Flags]

Machine == [pc : Slots, x : Word, y : Word, isr : Word, osr : Word,
            isr_count : 0 .. W, osr_count : 0 .. W, stall : Stalls, pending_exec : Word \cup {NoWord},
            irq_flags : SUBSET Flags, out_latch : Word, dir_latch : Word, rx : Seq(Word)]

Reset(outputs) ==
    [pc |-> 0, x |-> Zero, y |-> Zero, isr |-> Zero, osr |-> Zero, isr_count |-> 0, osr_count |-> W,
     stall |-> NotStalled, pending_exec |-> NoWord, irq_flags |-> {}, out_latch |-> Ones,
     dir_latch |-> outputs, rx |-> << >>]

\* The word on the pins: what the machine drives, under what the outside asserts.
Compose(m, mask, ext) ==
    [p \in Bits |-> IF mask[p] = 1 THEN ext[p] ELSE m.out_latch[p] * m.dir_latch[p]]

RxFull(m, c) == c.rx_depth > 0 /\ Len(m.rx) >= c.rx_depth

\* Mutant of PushIsr: a FIFO that always takes the word.
PushIsr_Always(m, c) == [m EXCEPT !.rx = Append(@, m.isr), !.isr = Zero, !.isr_count = 0]
\* A push to a full or absent FIFO drops the word; the register is cleared all the same.
PushIsr(m, c) ==
    [m EXCEPT !.rx = IF Len(@) < c.rx_depth THEN Append(@, m.isr) ELSE @, !.isr = Zero, !.isr_count = 0]

StallOn(m, why) == [m EXCEPT !.stall = [why |-> why]]
StallAt(m, why, pol, index) == [m EXCEPT !.stall = [why |-> why, pol |-> pol, index |-> index]]
FlagOf(i, c) == IF i.rel THEN ((i.flag + c.sm_id) % 4) + (4 * (i.flag \div 4)) ELSE i.flag
Raised(m, flag) == IF flag \in m.irq_flags THEN 1 ELSE 0

Source(m, c, gpio, src) ==
    CASE src = "pins" -> FromPin(gpio, c.in_base)
      [] src = "x" -> m.x
      [] src = "y" -> m.y
      [] src = "isr" -> m.isr
      [] src = "osr" -> m.osr
      [] OTHER -> Zero

\* OUT and MOV write their destination; `pins' bits of it at most, and `n' is the shift count
\* that a write to the ISR leaves.
Store(m, c, dst, v, pins, n) ==
    CASE dst = "pins" -> [m EXCEPT !.out_latch = WritePins(@, v, c.out_base, pins)]
      [] dst = "pindirs" -> [m EXCEPT !.dir_latch = WritePins(@, v, c.out_base, pins)]
      [] dst = "x" -> [m EXCEPT !.x = v]
      [] dst = "y" -> [m EXCEPT !.y = v]
      [] dst = "pc" -> [m EXCEPT !.pc = Address(v)]
      [] dst = "exec" -> [m EXCEPT !.pending_exec = v]
      [] dst = "isr" -> [m EXCEPT !.isr = v, !.isr_count = n]
      [] dst = "osr" -> [m EXCEPT !.osr = v, !.osr_count = 0]
      [] OTHER -> m

(***************************************************************************)
(* The instructions.                                                       *)
(***************************************************************************)
Taken(m, c, gpio, i) ==
    CASE i.cond = "always" -> TRUE
      [] i.cond = "!x" -> m.x = Zero
      [] i.cond = "x--" -> m.x # Zero
      [] i.cond = "!y" -> m.y = Zero
      [] i.cond = "y--" -> m.y # Zero
      [] i.cond = "x!=y" -> m.x # m.y
      [] i.cond = "pin" -> gpio[c.jmp_pin] = 1
      [] i.cond = "!osre" -> m.osr_count < c.pull_threshold

Jmp(m, c, gpio, i) ==
    [m EXCEPT !.pc = IF Taken(m, c, gpio, i) THEN i.target ELSE @,
              !.x = IF i.cond = "x--" /\ @ # Zero THEN Decrement(@) ELSE @,
              !.y = IF i.cond = "y--" /\ @ # Zero THEN Decrement(@) ELSE @]

Wait(m, c, gpio, i) ==
    CASE i.src = "gpio" /\ gpio[i.index] # i.pol -> StallAt(m, "gpio", i.pol, i.index)
      [] i.src = "pin" /\ gpio[(c.in_base + i.index) % W] # i.pol -> StallAt(m, "pin", i.pol, i.index)
      [] i.src = "irq" -> LET flag == FlagOf(i, c)
                          IN  IF Raised(m, flag) = i.pol
                              THEN [m EXCEPT !.irq_flags = @ \ {flag}]
                              ELSE StallAt(m, "irq", i.pol, flag)
      [] OTHER -> m

In(m, c, gpio, i) ==
    LET due(s) == c.autopush /\ s.isr_count >= c.push_threshold
        a == IF due(m) THEN PushIsr(m, c) ELSE m
        v == Low(Source(a, c, gpio, i.src), i.n)
        b == [a EXCEPT !.isr = IF c.in_shift_right THEN ShiftRight(@, v, i.n) ELSE ShiftLeft(@, v, i.n),
                       !.isr_count = Smaller(@ + i.n, W)]
    IN  CASE due(m) /\ RxFull(m, c) -> StallOn(m, "push")
          [] OTHER -> IF due(b) /\ ~RxFull(b, c) THEN PushIsr(b, c) ELSE b

Refills(m, c) == c.autopull /\ m.osr_count >= c.pull_threshold

Out(m, c, i, word) ==
    LET osr == IF Refills(m, c) THEN word ELSE m.osr
        count == IF Refills(m, c) THEN 0 ELSE m.osr_count
        data == IF c.out_shift_right THEN Low(osr, i.n) ELSE ShiftRight(osr, Zero, W - i.n)
        left == IF c.out_shift_right THEN ShiftRight(osr, Zero, i.n) ELSE ShiftLeft(osr, Zero, i.n)
        s == [m EXCEPT !.osr = left, !.osr_count = Smaller(count + i.n, W)]
    IN  IF Refills(m, c) /\ word = NoWord
        THEN StallOn(m, "pull")
        ELSE Store(s, c, i.dst, data, Smaller(c.out_count, i.n), i.n)

Push(m, c, i) ==
    CASE i.guard /\ m.isr_count < c.push_threshold -> m
      [] ~(i.guard /\ m.isr_count < c.push_threshold) /\ i.block /\ RxFull(m, c) -> StallOn(m, "push")
      [] OTHER -> PushIsr(m, c)

Held(m, c, i) == i.guard /\ m.osr_count < c.pull_threshold

\* Mutant of Pull: the shift count is reset before the FIFO is found empty.
Pull_ResetFirst(m, c, i, word) ==
    CASE Held(m, c, i) -> m
      [] ~Held(m, c, i) /\ word = NoWord /\ i.block -> StallOn([m EXCEPT !.osr_count = 0], "pull")
      [] OTHER -> [m EXCEPT !.osr = IF word = NoWord THEN m.x ELSE word, !.osr_count = 0]
Pull(m, c, i, word) ==
    CASE Held(m, c, i) -> m
      [] ~Held(m, c, i) /\ word = NoWord /\ i.block -> StallOn(m, "pull")
      [] OTHER -> [m EXCEPT !.osr = IF word = NoWord THEN m.x ELSE word, !.osr_count = 0]

Mov(m, c, gpio, i) ==
    LET v == Source(m, c, gpio, i.src)
    IN  Store(m, c, i.dst,
              CASE i.how = "invert" -> Flip(v) [] i.how = "reverse" -> Reverse(v) [] OTHER -> v,
              c.out_count, 0)

Irq(m, c, i) ==
    LET flag == FlagOf(i, c)
        s == [m EXCEPT !.irq_flags = IF i.clear THEN @ \ {flag} ELSE @ \cup {flag}]
    IN  IF i.wait /\ ~i.clear THEN StallAt(s, "irqwait", 0, flag) ELSE s

Set(m, c, i) ==
    CASE i.dst = "pins" -> [m EXCEPT !.out_latch = WritePins(@, i.data, c.set_base, c.set_count)]
      [] i.dst = "pindirs" -> [m EXCEPT !.dir_latch = WritePins(@, i.data, c.set_base, c.set_count)]
      [] i.dst = "x" -> [m EXCEPT !.x = i.data]
      [] i.dst = "y" -> [m EXCEPT !.y = i.data]
      [] OTHER -> m

ExecOp(m, c, gpio, i, word) ==
    CASE i.op = "jmp" -> Jmp(m, c, gpio, i)
      [] i.op = "wait" -> Wait(m, c, gpio, i)
      [] i.op = "in" -> In(m, c, gpio, i)
      [] i.op = "out" -> Out(m, c, i, word)
      [] i.op = "push" -> Push(m, c, i)
      [] i.op = "pull" -> Pull(m, c, i, word)
      [] i.op = "mov" -> Mov(m, c, gpio, i)
      [] i.op = "irq" -> Irq(m, c, i)
      [] i.op = "set" -> Set(m, c, i)

\* The instruction sets the program counter itself.
SetsPc(m, c, gpio, i) == \/ i.op = "jmp" /\ Taken(m, c, gpio, i)
                         \/ i.op \in {"out", "mov"} /\ i.dst = "pc"

\* The instruction takes `word' from the TX FIFO.
Pops(m, c, i, word) == /\ word # NoWord
                       /\ \/ i.op = "out" /\ Refills(m, c)
                          \/ i.op = "pull" /\ ~Held(m, c, i)

SideSet(m, c, side) ==
    CASE side = NoWord -> m
      [] side # NoWord /\ c.side_pindir -> [m EXCEPT !.dir_latch = WritePins(@, side, c.sideset_base, c.side_bits)]
      [] OTHER -> [m EXCEPT !.out_latch = WritePins(@, side, c.sideset_base, c.side_bits)]

AdvancePc(m, c) == [m EXCEPT !.pc = IF @ = c.wrap_top THEN c.wrap_bottom ELSE (@ + 1) % N]

(***************************************************************************)
(* Fetch and execute, side-set last: it is asserted even by an instruction *)
(* that stalls, and wins on a shared pin.  A forced instruction is used up *)
(* whether it completes or not.                                            *)
(***************************************************************************)
Forced(m) == m.pending_exec # NoWord
Fetch(m, c) == IF Forced(m) THEN Decoded[m.pending_exec] ELSE c.code[m.pc]

Execute(m, c, gpio, word) ==
    LET i == Fetch(m, c)
        ready == [m EXCEPT !.pending_exec = NoWord, !.stall = NotStalled]
        s == SideSet(ExecOp(ready, c, gpio, i.do, word), c, i.side)
    IN  IF s.stall = NotStalled /\ ~Forced(m) /\ ~SetsPc(m, c, gpio, i.do)
        THEN AdvancePc(s, c)
        ELSE s
=============================================================================
