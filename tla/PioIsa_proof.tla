---------------------------- MODULE PioIsa_proof ----------------------------
(* Theorems about the instructions: every one leaves a machine, whatever the registers hold, and treats
   the scratch registers as the search assumes (the tables of WordTables). *)
EXTENDS HoleWords, SequenceTheorems, TLAPS

(***************************************************************************)
(* Words stay words.                                                       *)
(***************************************************************************)
\* Shifting, masking, inverting and writing pins yield words.
LEMMA BitOps ==
    ASSUME NEW u \in Word, NEW v \in Word, NEW n \in 0 .. W, NEW base \in Bits
    PROVE  /\ Zero \in Word /\ Ones \in Word
           /\ Low(u, n) \in Word /\ ShiftRight(u, v, n) \in Word /\ ShiftLeft(u, v, n) \in Word
           /\ FromPin(u, base) \in Word /\ Flip(u) \in Word /\ Reverse(u) \in Word
           /\ WritePins(u, v, base, n) \in Word
<1>1. W \in Nat \ {0}
  BY IsaAssumption
<1>2. Zero \in Word /\ Ones \in Word /\ Low(u, n) \in Word /\ Flip(u) \in Word
  BY <1>1 DEF Zero, Ones, Low, Flip, Word, Bits
<1>3. ShiftRight(u, v, n) \in Word
  <2>1. ASSUME NEW b \in Bits  PROVE (IF b + n < W THEN u[b + n] ELSE v[b + n - W]) \in {0, 1}
    BY <1>1, <2>1 DEF Word, Bits
  <2> QED BY <2>1 DEF ShiftRight, Word
<1>4. ShiftLeft(u, v, n) \in Word
  <2>1. ASSUME NEW b \in Bits  PROVE (IF b < n THEN v[b] ELSE u[b - n]) \in {0, 1}
    BY <1>1, <2>1 DEF Word, Bits
  <2> QED BY <2>1 DEF ShiftLeft, Word
<1>5. \A k \in Int : k % W \in Bits
  BY <1>1 DEF Bits
<1>6. FromPin(u, base) \in Word
  <2>1. ASSUME NEW b \in Bits  PROVE u[(b + base) % W] \in {0, 1}
    <3>1. b + base \in Int
      BY <1>1, <2>1 DEF Bits
    <3>2. (b + base) % W \in Bits
      BY <1>5, <3>1
    <3> QED BY <3>2 DEF Word
  <2> QED BY <2>1 DEF FromPin, Word
<1>7. Reverse(u) \in Word
  <2>1. ASSUME NEW b \in Bits  PROVE u[W - 1 - b] \in {0, 1}
    BY <1>1, <2>1 DEF Word, Bits
  <2> QED BY <2>1 DEF Reverse, Word
<1>8. WritePins(u, v, base, n) \in Word
  <2>1. ASSUME NEW p \in Bits
        PROVE  (LET b == (p + W - base) % W IN IF b < n THEN v[b] ELSE u[p]) \in {0, 1}
    <3>1. p + W - base \in Int
      BY <1>1, <2>1 DEF Bits
    <3>2. (p + W - base) % W \in Bits
      BY <1>5, <3>1
    <3> QED BY <2>1, <3>2 DEF Word
  <2> QED BY <2>1 DEF WritePins, Word
<1> QED BY <1>2, <1>3, <1>4, <1>6, <1>7, <1>8

\* A nonzero word has a lowest set bit, so decrementing it yields a word.
LEMMA DecrementOps == ASSUME NEW u \in Word PROVE Decrement(u) \in Word
  <1> DEFINE low == CHOOSE b \in Bits : u[b] = 1 /\ \A a \in Bits : a < b => u[a] = 0
  <1>1. Decrement(u) = [b \in Bits |-> IF b < low THEN 1 ELSE IF b = low THEN 0 ELSE u[b]]
    BY DEF Decrement
  <1> HIDE DEF low
  <1>2. \A b \in Bits : (IF b < low THEN 1 ELSE IF b = low THEN 0 ELSE u[b]) \in {0, 1}
    BY DEF Word
  <1> QED BY <1>1, <1>2 DEF Word

\* The low bits of a word name a slot.
LEMMA AddressOps == ASSUME NEW u \in Word PROVE Address(u) \in Slots
  <1> DEFINE bit(b) == IF b < W THEN u[b] ELSE 0
  <1>1. \A b \in Nat : bit(b) \in {0, 1}
    BY IsaAssumption DEF Word, Bits
  <1> HIDE DEF bit
  <1>2. bit(0) + 2 * bit(1) + 4 * bit(2) + 8 * bit(3) + 16 * bit(4) \in Int
    BY <1>1
  <1>3. \A k \in Int : k % N \in Slots
    BY IsaAssumption DEF Slots
  <1>4. (bit(0) + 2 * bit(1) + 4 * bit(2) + 8 * bit(3) + 16 * bit(4)) % N \in Slots
    BY <1>2, <1>3
  <1> QED BY <1>4 DEF Address, bit

(***************************************************************************)
(* Machines stay machines, and their RX FIFO within its depth.             *)
(***************************************************************************)
MachineOf(c) == {s \in Machine : Len(s.rx) <= c.rx_depth}

\* Pushing the ISR keeps to the depth of the FIFO.
LEMMA PushIsrType ==
    ASSUME NEW c \in Config, NEW s \in MachineOf(c)
    PROVE  PushIsr(s, c) \in MachineOf(c)
<1>1. Zero \in Word /\ 0 \in 0 .. W
  BY BitOps, IsaAssumption DEF Word, Bits, Zero
<1> DEFINE q == IF Len(s.rx) < c.rx_depth THEN Append(s.rx, s.isr) ELSE s.rx
<1>2. s \in Machine /\ s.rx \in Seq(Word) /\ s.isr \in Word /\ Len(s.rx) <= c.rx_depth /\ c.rx_depth \in Nat
  BY DEF MachineOf, Machine, Config
<1>3. q \in Seq(Word) /\ Len(q) <= c.rx_depth
  BY <1>2
<1>4. PushIsr(s, c) = [s EXCEPT !.rx = q, !.isr = Zero, !.isr_count = 0]
  BY DEF PushIsr
<1> HIDE DEF q
<1>5. [s EXCEPT !.rx = q, !.isr = Zero, !.isr_count = 0] \in Machine
  BY <1>1, <1>2, <1>3 DEF Machine
<1>6. [s EXCEPT !.rx = q, !.isr = Zero, !.isr_count = 0].rx = q
  BY <1>2 DEF Machine
<1> QED BY <1>3, <1>4, <1>5, <1>6 DEF MachineOf

\* Destinations.
LEMMA StoreType ==
    ASSUME NEW c \in Config, NEW s \in MachineOf(c), NEW dst, NEW v \in Word,
           NEW pins \in 0 .. W, NEW n \in 0 .. W
    PROVE  Store(s, c, dst, v, pins, n) \in MachineOf(c)
<1>1. WritePins(s.out_latch, v, c.out_base, pins) \in Word /\ WritePins(s.dir_latch, v, c.out_base, pins) \in Word
  <2>1. s.out_latch \in Word /\ s.dir_latch \in Word /\ c.out_base \in Bits
    BY DEF MachineOf, Machine, Config
  <2> QED BY <2>1, BitOps
<1>2. Address(v) \in Slots /\ 0 \in 0 .. W
  BY AddressOps, IsaAssumption
<1>3. s \in Machine
  BY DEF MachineOf
<1>4. Store(s, c, dst, v, pins, n) \in Machine
  BY <1>1, <1>2, <1>3 DEF Store, Machine
<1>5. Store(s, c, dst, v, pins, n).rx = s.rx
  BY <1>3 DEF Store, Machine
<1> QED BY <1>4, <1>5 DEF MachineOf

\* Sources are words.
LEMMA SourceType ==
    ASSUME NEW c \in Config, NEW s \in MachineOf(c), NEW gpio \in Word, NEW src
    PROVE  Source(s, c, gpio, src) \in Word
<1>1. FromPin(gpio, c.in_base) \in Word /\ Zero \in Word
  BY BitOps, IsaAssumption DEF Config
<1> QED BY <1>1 DEF Source, MachineOf, Machine

\* A change that leaves the RX FIFO alone.
LEMMA SameRx ==
    ASSUME NEW c \in Config, NEW s \in MachineOf(c), NEW t \in Machine, t.rx = s.rx
    PROVE  t \in MachineOf(c)
  BY DEF MachineOf

\* Recording a stall.
LEMMA StallType ==
    ASSUME NEW c \in Config, NEW s \in MachineOf(c), NEW why \in Stalls
    PROVE  [s EXCEPT !.stall = why] \in MachineOf(c)
<1>1. s \in Machine
  BY DEF MachineOf
<1>2. [s EXCEPT !.stall = why] \in Machine /\ [s EXCEPT !.stall = why].rx = s.rx
  BY <1>1 DEF Machine
<1> QED BY <1>2, SameRx

\* JMP moves the program counter to a slot and counts X or Y down.
LEMMA JmpType ==
    ASSUME NEW c \in Config, NEW s \in MachineOf(c), NEW gpio \in Word, NEW i \in Do, i.op = "jmp"
    PROVE  Jmp(s, c, gpio, i) \in MachineOf(c)
<1>1. s \in Machine /\ i.target \in Slots
  BY DEF MachineOf, Do
<1>2. Decrement(s.x) \in Word /\ Decrement(s.y) \in Word
  BY <1>1, DecrementOps DEF Machine
<1> DEFINE t == Taken(s, c, gpio, i)
<1> HIDE DEF t
<1>3. Jmp(s, c, gpio, i) =
        [s EXCEPT !.pc = IF t THEN i.target ELSE @,
                  !.x = IF i.cond = "x--" /\ @ # Zero THEN Decrement(@) ELSE @,
                  !.y = IF i.cond = "y--" /\ @ # Zero THEN Decrement(@) ELSE @]
  BY DEF Jmp, t
<1>4. Jmp(s, c, gpio, i) \in Machine /\ Jmp(s, c, gpio, i).rx = s.rx
  BY <1>1, <1>2, <1>3 DEF Machine
<1> QED BY <1>4, SameRx

\* A flag number stays one, whether it is relative to the state machine or not.
LEMMA FlagType ==
    ASSUME NEW c \in Config, NEW i, i.flag \in Flags
    PROVE  FlagOf(i, c) \in Flags
  BY DEF FlagOf, Flags, Config

\* WAIT lowers a flag or records a stall.
LEMMA WaitType ==
    ASSUME NEW c \in Config, NEW s \in MachineOf(c), NEW gpio \in Word, NEW i \in Do, i.op = "wait"
    PROVE  Wait(s, c, gpio, i) \in MachineOf(c)
<1>1. s \in Machine /\ i.index \in Bits /\ i.pol \in {0, 1} /\ i.flag \in Flags
  BY DEF MachineOf, Do
<1> DEFINE f == FlagOf(i, c)
<1>2. f \in Flags
  BY <1>1, FlagType
<1> HIDE DEF f
<1>3. \A why \in {"gpio", "pin"} : [why |-> why, pol |-> i.pol, index |-> i.index] \in Stalls
  BY <1>1 DEF Stalls
<1>4. [why |-> "irq", pol |-> i.pol, index |-> f] \in Stalls
  BY <1>1, <1>2 DEF Stalls
<1>5. [s EXCEPT !.irq_flags = @ \ {f}] \in MachineOf(c)
  <2>1. [s EXCEPT !.irq_flags = @ \ {f}] \in Machine /\ [s EXCEPT !.irq_flags = @ \ {f}].rx = s.rx
    BY <1>1 DEF Machine
  <2> QED BY <2>1, SameRx
<1> QED BY <1>3, <1>4, <1>5, StallType DEF Wait, StallAt, f

\* IN keeps the shift count within a register, and pushes only to a FIFO with room.
LEMMA InType ==
    ASSUME NEW c \in Config, NEW s \in MachineOf(c), NEW gpio \in Word, NEW i \in Do, i.op = "in"
    PROVE  In(s, c, gpio, i) \in MachineOf(c)
<1> DEFINE due(t) == c.autopush /\ t.isr_count >= c.push_threshold
           a == IF due(s) THEN PushIsr(s, c) ELSE s
           v == Low(Source(a, c, gpio, i.src), i.n)
           isr == IF c.in_shift_right THEN ShiftRight(a.isr, v, i.n) ELSE ShiftLeft(a.isr, v, i.n)
           count == Smaller(a.isr_count + i.n, W)
           b == [a EXCEPT !.isr = isr, !.isr_count = count]
<1>1. i.n \in 0 .. W /\ a \in MachineOf(c) /\ a \in Machine
  BY PushIsrType, IsaAssumption DEF Do, MachineOf
<1>2. v \in Word
  <2>1. Source(a, c, gpio, i.src) \in Word
    BY <1>1, SourceType
  <2> HIDE DEF a
  <2>2. 0 \in Bits
    BY IsaAssumption DEF Bits
  <2> QED BY <1>1, <2>1, <2>2, BitOps
<1> HIDE DEF a, v
<1>3. isr \in Word /\ count \in 0 .. W
  <2>1. a.isr \in Word /\ a.isr_count \in 0 .. W /\ 0 \in Bits
    BY <1>1, IsaAssumption DEF Machine, Bits
  <2>2. isr \in Word
    BY <1>1, <1>2, <2>1, BitOps
  <2> QED BY <1>1, <2>1, <2>2, IsaAssumption DEF Smaller
<1> HIDE DEF isr, count
<1>4. b \in MachineOf(c)
  <2>1. b \in Machine /\ b.rx = a.rx
    BY <1>1, <1>3 DEF Machine
  <2> QED BY <1>1, <2>1, SameRx
<1> HIDE DEF b
<1>5. StallOn(s, "push") \in MachineOf(c) /\ PushIsr(b, c) \in MachineOf(c)
  BY <1>4, StallType, PushIsrType DEF StallOn, Stalls
<1>6. In(s, c, gpio, i) \in {StallOn(s, "push"), PushIsr(b, c), b}
  BY DEF In, b, isr, count, v, a
<1> QED BY <1>4, <1>5, <1>6

\* OUT keeps the shift count within a register.
LEMMA OutType ==
    ASSUME NEW c \in Config, NEW s \in MachineOf(c), NEW i \in Do, i.op = "out", NEW word \in Word \cup {NoWord}
    PROVE  Out(s, c, i, word) \in MachineOf(c)
<1> DEFINE osr == IF Refills(s, c) THEN word ELSE s.osr
           count == IF Refills(s, c) THEN 0 ELSE s.osr_count
           data == IF c.out_shift_right THEN Low(osr, i.n) ELSE ShiftRight(osr, Zero, W - i.n)
           left == IF c.out_shift_right THEN ShiftRight(osr, Zero, i.n) ELSE ShiftLeft(osr, Zero, i.n)
           total == Smaller(count + i.n, W)
           t == [s EXCEPT !.osr = left, !.osr_count = total]
<1>1. s \in Machine /\ i.n \in 0 .. W /\ W - i.n \in 0 .. W /\ 0 \in Bits /\ c.out_count \in 0 .. W
  BY IsaAssumption DEF MachineOf, Do, Bits, Config
<1>2. CASE Refills(s, c) /\ word = NoWord
  <2>1. Out(s, c, i, word) = StallOn(s, "pull")
    BY <1>2 DEF Out
  <2> QED BY <2>1, StallType DEF StallOn, Stalls
<1>3. CASE ~(Refills(s, c) /\ word = NoWord)
  <2>1. osr \in Word /\ count \in 0 .. W
    BY <1>1, <1>3, IsaAssumption DEF Machine
  <2>2. Out(s, c, i, word) = Store(t, c, i.dst, data, Smaller(c.out_count, i.n), i.n)
    BY <1>3 DEF Out
  <2> HIDE DEF osr, count
  <2>3. Zero \in Word
    BY <1>1, <2>1, BitOps
  <2>4. data \in Word
    BY <1>1, <2>1, <2>3, BitOps
  <2>5. left \in Word
    BY <1>1, <2>1, <2>3, BitOps
  <2>6. total \in 0 .. W /\ Smaller(c.out_count, i.n) \in 0 .. W
    BY <1>1, <2>1, IsaAssumption DEF Smaller
  <2> HIDE DEF data, left, total
  <2>7. t \in MachineOf(c)
    <3>1. t \in Machine /\ t.rx = s.rx
      BY <1>1, <2>5, <2>6 DEF Machine
    <3> QED BY <3>1, SameRx
  <2> HIDE DEF t
  <2> QED BY <1>1, <2>2, <2>4, <2>6, <2>7, StoreType
<1> QED BY <1>2, <1>3

\* PUSH leaves a machine.
LEMMA PushType ==
    ASSUME NEW c \in Config, NEW s \in MachineOf(c), NEW i \in Do, i.op = "push"
    PROVE  Push(s, c, i) \in MachineOf(c)
<1>1. StallOn(s, "push") \in MachineOf(c) /\ PushIsr(s, c) \in MachineOf(c)
  BY StallType, PushIsrType DEF StallOn, Stalls
<1> QED BY <1>1 DEF Push

\* PULL leaves a machine.
LEMMA PullType ==
    ASSUME NEW c \in Config, NEW s \in MachineOf(c), NEW i \in Do, i.op = "pull", NEW word \in Word \cup {NoWord}
    PROVE  Pull(s, c, i, word) \in MachineOf(c)
<1>1. StallOn(s, "pull") \in MachineOf(c)
  BY StallType DEF StallOn, Stalls
<1> DEFINE v == IF word = NoWord THEN s.x ELSE word
<1>2. s \in Machine /\ v \in Word /\ 0 \in 0 .. W
  BY IsaAssumption DEF MachineOf, Machine
<1>3. Pull(s, c, i, word) \in {s, StallOn(s, "pull"), [s EXCEPT !.osr = v, !.osr_count = 0]}
  BY DEF Pull
<1> HIDE DEF v
<1>4. [s EXCEPT !.osr = v, !.osr_count = 0] \in MachineOf(c)
  <2>1. /\ [s EXCEPT !.osr = v, !.osr_count = 0] \in Machine
        /\ [s EXCEPT !.osr = v, !.osr_count = 0].rx = s.rx
    BY <1>2 DEF Machine
  <2> QED BY <2>1, SameRx
<1> QED BY <1>1, <1>3, <1>4

\* MOV leaves a machine.
LEMMA MovType ==
    ASSUME NEW c \in Config, NEW s \in MachineOf(c), NEW gpio \in Word, NEW i \in Do, i.op = "mov"
    PROVE  Mov(s, c, gpio, i) \in MachineOf(c)
<1> DEFINE v == Source(s, c, gpio, i.src)
           u == CASE i.how = "invert" -> Flip(v) [] i.how = "reverse" -> Reverse(v) [] OTHER -> v
<1>1. v \in Word /\ 0 \in 0 .. W /\ 0 \in Bits /\ c.out_count \in 0 .. W
  BY SourceType, IsaAssumption DEF Bits, Config
<1> HIDE DEF v
<1>2. u \in Word
  BY <1>1, BitOps
<1>3. Mov(s, c, gpio, i) = Store(s, c, i.dst, u, c.out_count, 0)
  BY DEF Mov, u, v
<1> HIDE DEF u
<1> QED BY <1>1, <1>2, <1>3, StoreType

\* IRQ raises or lowers a flag number.
LEMMA IrqType ==
    ASSUME NEW c \in Config, NEW s \in MachineOf(c), NEW i \in Do, i.op = "irq"
    PROVE  Irq(s, c, i) \in MachineOf(c)
<1> DEFINE f == FlagOf(i, c)
           flags == IF i.clear THEN s.irq_flags \ {f} ELSE s.irq_flags \cup {f}
           t == [s EXCEPT !.irq_flags = flags]
<1>1. s \in Machine /\ f \in Flags
  BY FlagType DEF MachineOf, Do
<1>2. Irq(s, c, i) \in {t, StallAt(t, "irqwait", 0, f)}
  BY DEF Irq
<1> HIDE DEF f
<1>3. flags \in SUBSET Flags
  BY <1>1 DEF Machine
<1> HIDE DEF flags
<1>4. t \in MachineOf(c)
  <2>1. t \in Machine /\ t.rx = s.rx
    BY <1>1, <1>3 DEF Machine
  <2> QED BY <2>1, SameRx
<1> HIDE DEF t
<1>5. [why |-> "irqwait", pol |-> 0, index |-> f] \in Stalls
  BY <1>1 DEF Stalls
<1> QED BY <1>2, <1>4, <1>5, StallType DEF StallAt

\* SET leaves a machine.
LEMMA SetType ==
    ASSUME NEW c \in Config, NEW s \in MachineOf(c), NEW i \in Do, i.op = "set"
    PROVE  Set(s, c, i) \in MachineOf(c)
<1>1. s \in Machine /\ i.data \in Word
  BY DEF MachineOf, Do
<1>2. /\ WritePins(s.out_latch, i.data, c.set_base, c.set_count) \in Word
      /\ WritePins(s.dir_latch, i.data, c.set_base, c.set_count) \in Word
  <2>1. s.out_latch \in Word /\ s.dir_latch \in Word /\ c.set_base \in Bits /\ c.set_count \in 0 .. W
    BY <1>1 DEF Machine, Config
  <2> QED BY <1>1, <2>1, BitOps
<1>3. Set(s, c, i) \in Machine /\ Set(s, c, i).rx = s.rx
  BY <1>1, <1>2 DEF Set, Machine
<1> QED BY <1>3, SameRx

\* Every instruction leaves a machine.
LEMMA ExecOpType ==
    ASSUME NEW c \in Config, NEW s \in MachineOf(c), NEW gpio \in Word, NEW i \in Do, NEW word \in Word \cup {NoWord}
    PROVE  ExecOp(s, c, gpio, i, word) \in MachineOf(c)
<1>1. i.op \in {"jmp", "wait", "in", "out", "push", "pull", "mov", "irq", "set"}
  BY DEF Do
<1> QED BY <1>1, JmpType, WaitType, InType, OutType, PushType, PullType, MovType, IrqType, SetType DEF ExecOp

\* Executing an instruction leaves a machine.
LEMMA ExecuteType ==
    ASSUME NEW c \in Config, NEW s \in MachineOf(c), NEW gpio \in Word, NEW word \in Word \cup {NoWord}
    PROVE  Execute(s, c, gpio, word) \in MachineOf(c)
<1> DEFINE i == Fetch(s, c)
           ready == [s EXCEPT !.pending_exec = NoWord, !.stall = NotStalled]
           t == ExecOp(ready, c, gpio, i.do, word)
           u == SideSet(t, c, i.side)
<1>1. s \in Machine
  BY DEF MachineOf
<1>2. i.do \in Do /\ i.side \in Word \cup {NoWord}
  <2>1. i \in Insn
    BY <1>1, IsaAssumption DEF Fetch, Forced, Config, Machine
  <2> QED BY <2>1 DEF Insn
<1>3. ready \in MachineOf(c)
  <2>1. ready \in Machine /\ ready.rx = s.rx
    BY <1>1 DEF Machine, Stalls
  <2> QED BY <2>1, SameRx
<1>4. t \in MachineOf(c)
  BY <1>2, <1>3, ExecOpType
<1>5. u \in MachineOf(c)
  <2> DEFINE side == i.side
  <2>1. t \in Machine /\ side \in Word \cup {NoWord}
    BY <1>2, <1>4 DEF MachineOf
  <2> HIDE DEF t, side
  <2>2. side \in Word => /\ WritePins(t.out_latch, side, c.sideset_base, c.side_bits) \in Word
                         /\ WritePins(t.dir_latch, side, c.sideset_base, c.side_bits) \in Word
    <3>1. t.out_latch \in Word /\ t.dir_latch \in Word /\ c.sideset_base \in Bits /\ c.side_bits \in 0 .. W
      BY <2>1 DEF Machine, Config
    <3> QED BY <3>1, BitOps
  <2>3. SideSet(t, c, side) \in Machine /\ SideSet(t, c, side).rx = t.rx
    BY <2>1, <2>2 DEF SideSet, Machine
  <2>4. SideSet(t, c, side) \in MachineOf(c)
    BY <1>4, <2>3, SameRx
  <2> QED BY <2>4 DEF side
<1>6. AdvancePc(u, c) \in MachineOf(c)
  <2>1. u \in Machine
    BY <1>5 DEF MachineOf
  <2> HIDE DEF u
  <2>2. (IF u.pc = c.wrap_top THEN c.wrap_bottom ELSE (u.pc + 1) % N) \in Slots
    <3>1. u.pc \in Slots /\ c.wrap_bottom \in Slots
      BY <2>1 DEF Machine, Config
    <3>2. u.pc \in Int => (u.pc + 1) % N \in 0 .. N - 1
      BY IsaAssumption
    <3> QED BY <3>1, <3>2 DEF Slots
  <2>3. AdvancePc(u, c) \in Machine /\ AdvancePc(u, c).rx = u.rx
    BY <2>1, <2>2 DEF AdvancePc, Machine
  <2> QED BY <1>5, <2>3, SameRx
<1>7. Execute(s, c, gpio, word) \in {u, AdvancePc(u, c)}
  BY DEF Execute
<1> QED BY <1>5, <1>6, <1>7

(***************************************************************************)
(* The scratch registers are data like any other: what an instruction does *)
(* to the rest of the machine does not depend on them, unless it asks for  *)
(* the value of one, and exchanging their names exchanges their values.    *)
(***************************************************************************)
Put(m, a, b) == [m EXCEPT !.x = a, !.y = b]

MachineFields == {"pc", "x", "y", "isr", "osr", "isr_count", "osr_count", "stall", "pending_exec", "irq_flags",
           "out_latch", "dir_latch", "rx"}

\* The fields of a machine.
LEMMA FieldsOf == \A m \in Machine : DOMAIN m = MachineFields
BY DEF Machine, MachineFields

\* Exchanging the scratch registers of a machine.
LEMMA PutIs ==
    ASSUME NEW m \in Machine, NEW a \in Word, NEW b \in Word
    PROVE  /\ Put(m, a, b) \in Machine /\ Put(m, a, b).x = a /\ Put(m, a, b).y = b
           /\ \A f \in DOMAIN m \ {"x", "y"} : Put(m, a, b)[f] = m[f]
           /\ Put(m, m.x, m.y) = m /\ Swapped(m) = Put(m, m.y, m.x)
           /\ \A u, v : Put(Put(m, u, v), a, b) = Put(m, a, b)
BY DEF Put, Swapped, Machine

\* The program is read at the fetch only.
LEMMA CodeBlind ==
    ASSUME NEW c \in Config, NEW code, NEW m \in Machine, NEW gpio, NEW i \in Do, NEW word
    PROVE  LET d == [c EXCEPT !.code = code]
           IN  /\ ExecOp(m, d, gpio, i, word) = ExecOp(m, c, gpio, i, word)
               /\ SetsPc(m, d, gpio, i) = SetsPc(m, c, gpio, i)
               /\ Pops(m, d, i, word) = Pops(m, c, i, word)
               /\ AdvancePc(m, d) = AdvancePc(m, c)
               /\ \A side : SideSet(m, d, side) = SideSet(m, c, side)
<1> DEFINE d == [c EXCEPT !.code = code]
<1>0. \A f \in DOMAIN c \ {"code"} : d[f] = c[f]
  BY DEF Config
<1>f. DOMAIN c = {"code", "wrap_bottom", "wrap_top", "side_bits", "side_pindir", "sm_id", "jmp_pin", "in_base", "out_base",
                  "set_base", "sideset_base", "out_count", "set_count", "autopush", "autopull", "push_threshold",
                  "pull_threshold", "in_shift_right", "out_shift_right", "rx_depth"}
  BY DEF Config
<1> HIDE DEF d
<1>1. /\ Taken(m, d, gpio, i) = Taken(m, c, gpio, i)
      /\ Refills(m, d) = Refills(m, c) /\ Held(m, d, i) = Held(m, c, i)
      /\ FlagOf(i, d) = FlagOf(i, c)
  BY <1>0, <1>f DEF Taken, Refills, Held, FlagOf
<1>a. \A s : PushIsr(s, d) = PushIsr(s, c) /\ RxFull(s, d) = RxFull(s, c)
  <2>1. d.rx_depth = c.rx_depth
    BY <1>0, <1>f
  <2> QED BY <2>1 DEF PushIsr, RxFull
<1>b. \A s, src : Source(s, d, gpio, src) = Source(s, c, gpio, src)
  BY <1>0, <1>f DEF Source
<1>c. \A s, dst, v, pins, n : Store(s, d, dst, v, pins, n) = Store(s, c, dst, v, pins, n)
  <2>1. d.out_base = c.out_base
    BY <1>0, <1>f
  <2> QED BY <2>1 DEF Store
<1>2. Jmp(m, d, gpio, i) = Jmp(m, c, gpio, i) /\ Wait(m, d, gpio, i) = Wait(m, c, gpio, i)
  BY <1>0, <1>f, <1>1 DEF Jmp, Wait
<1>3. In(m, d, gpio, i) = In(m, c, gpio, i)
  <2>1. /\ d.autopush = c.autopush /\ d.push_threshold = c.push_threshold /\ d.in_shift_right = c.in_shift_right
    BY <1>0, <1>f
  <2> DEFINE due(s, k) == k.autopush /\ s.isr_count >= k.push_threshold
             a(k) == IF due(m, k) THEN PushIsr(m, k) ELSE m
             v(k) == Low(Source(a(k), k, gpio, i.src), i.n)
             b(k) == [a(k) EXCEPT !.isr = IF k.in_shift_right THEN ShiftRight(@, v(k), i.n) ELSE ShiftLeft(@, v(k), i.n),
                                  !.isr_count = Smaller(@ + i.n, W)]
             in(k) == CASE due(m, k) /\ RxFull(m, k) -> StallOn(m, "push")
                        [] OTHER -> IF due(b(k), k) /\ ~RxFull(b(k), k) THEN PushIsr(b(k), k) ELSE b(k)
  <2>2. \A k : In(m, k, gpio, i) = in(k)
    BY DEF In
  <2>3. \A s : due(s, d) <=> due(s, c)
    BY <2>1
  <2> HIDE DEF due
  <2>4. a(d) = a(c)
    BY <1>a, <2>3
  <2> HIDE DEF a
  <2>5. v(d) = v(c)
    BY <1>b, <2>4
  <2> HIDE DEF v
  <2>6. b(d) = b(c)
    BY <2>1, <2>4, <2>5
  <2> HIDE DEF b
  <2>7. in(d) = in(c)
    BY <1>a, <2>3, <2>6
  <2> QED BY <2>2, <2>7
<1>4. Out(m, d, i, word) = Out(m, c, i, word) /\ Push(m, d, i) = Push(m, c, i) /\ Pull(m, d, i, word) = Pull(m, c, i, word)
  <2>1. /\ d.out_shift_right = c.out_shift_right /\ d.out_count = c.out_count /\ d.push_threshold = c.push_threshold
    BY <1>0, <1>f
  <2>2. Out(m, d, i, word) = Out(m, c, i, word)
    BY <1>1, <1>c, <2>1 DEF Out
  <2>3. Push(m, d, i) = Push(m, c, i)
    BY <1>a, <2>1 DEF Push
  <2> QED BY <1>1, <2>2, <2>3 DEF Pull
<1>5. Mov(m, d, gpio, i) = Mov(m, c, gpio, i) /\ Irq(m, d, i) = Irq(m, c, i) /\ Set(m, d, i) = Set(m, c, i)
  BY <1>0, <1>f, <1>1, <1>b, <1>c DEF Mov, Irq, Set
<1>6. ExecOp(m, d, gpio, i, word) = ExecOp(m, c, gpio, i, word)
  BY <1>2, <1>3, <1>4, <1>5 DEF ExecOp
<1>7. /\ SetsPc(m, d, gpio, i) = SetsPc(m, c, gpio, i)
      /\ Pops(m, d, i, word) = Pops(m, c, i, word)
      /\ AdvancePc(m, d) = AdvancePc(m, c)
      /\ \A side : SideSet(m, d, side) = SideSet(m, c, side)
  BY <1>0, <1>f, <1>1 DEF SetsPc, Pops, AdvancePc, SideSet
<1> QED BY <1>6, <1>7 DEF d

(***************************************************************************)
(* Each instruction on a machine with other scratch registers.             *)
(***************************************************************************)
\* Destinations: the rest of the machine is written as it would be, a register gets the value.
LEMMA StorePut ==
    ASSUME NEW c \in Config, NEW m, DOMAIN m = MachineFields, NEW a, NEW b, NEW dst, NEW v, NEW pins, NEW n
    PROVE  /\ dst \notin {"x", "y"} => Store(Put(m, a, b), c, dst, v, pins, n) = Put(Store(m, c, dst, v, pins, n), a, b)
           /\ Store(Put(m, a, b), c, "x", v, pins, n) = Put(m, v, b)
           /\ Store(Put(m, a, b), c, "y", v, pins, n) = Put(m, a, v)
<1>1. CASE dst \in {"pins", "pindirs", "pc", "exec"}
  BY <1>1 DEF Store, Put, MachineFields
<1>2. CASE dst \in {"isr", "osr"}
  BY <1>2 DEF Store, Put, MachineFields
<1>3. CASE dst \notin {"pins", "pindirs", "pc", "exec", "isr", "osr"}
  BY <1>3 DEF Store, Put, MachineFields
<1>4. /\ Store(Put(m, a, b), c, "x", v, pins, n) = Put(m, v, b)
      /\ Store(Put(m, a, b), c, "y", v, pins, n) = Put(m, a, v)
  BY DEF Store, Put, MachineFields
<1> QED BY <1>1, <1>2, <1>3, <1>4

\* Stalls, pushes, side-sets and the advance of the program counter do not look at the registers.
LEMMA AroundPut ==
    ASSUME NEW c \in Config, NEW m, DOMAIN m = MachineFields, NEW a, NEW b
    PROVE  /\ PushIsr(Put(m, a, b), c) = Put(PushIsr(m, c), a, b)
           /\ RxFull(Put(m, a, b), c) = RxFull(m, c)
           /\ \A why : StallOn(Put(m, a, b), why) = Put(StallOn(m, why), a, b)
           /\ \A why, pol, index : StallAt(Put(m, a, b), why, pol, index) = Put(StallAt(m, why, pol, index), a, b)
           /\ \A side : SideSet(Put(m, a, b), c, side) = Put(SideSet(m, c, side), a, b)
           /\ AdvancePc(Put(m, a, b), c) = Put(AdvancePc(m, c), a, b)
<1>1. PushIsr(Put(m, a, b), c) = Put(PushIsr(m, c), a, b) /\ RxFull(Put(m, a, b), c) = RxFull(m, c)
  BY DEF PushIsr, RxFull, Put, MachineFields
<1>2. /\ \A why : StallOn(Put(m, a, b), why) = Put(StallOn(m, why), a, b)
      /\ \A why, pol, index : StallAt(Put(m, a, b), why, pol, index) = Put(StallAt(m, why, pol, index), a, b)
  BY DEF StallOn, StallAt, Put, MachineFields
<1>3. \A side : SideSet(Put(m, a, b), c, side) = Put(SideSet(m, c, side), a, b)
  BY DEF SideSet, Put, MachineFields
<1>4. AdvancePc(Put(m, a, b), c) = Put(AdvancePc(m, c), a, b)
  BY DEF AdvancePc, Put, MachineFields
<1> QED BY <1>1, <1>2, <1>3, <1>4

\* JMP, when it is taken alike.
LEMMA JmpPut ==
    ASSUME NEW c \in Config, NEW m \in Machine, NEW a \in Word, NEW b \in Word, NEW gpio, NEW i \in Do, NEW j \in Do,
           i.op = "jmp", j.op = "jmp",
           Taken(Put(m, a, b), c, gpio, i) <=> Taken(m, c, gpio, j),
           Taken(m, c, gpio, j) => i.target = j.target
    PROVE  Jmp(Put(m, a, b), c, gpio, i) =
             Put(Jmp(m, c, gpio, j),
                 IF i.cond = "x--" /\ a # Zero THEN Decrement(a) ELSE a,
                 IF i.cond = "y--" /\ b # Zero THEN Decrement(b) ELSE b)
<1> DEFINE t == Taken(m, c, gpio, j)
           u == Taken(Put(m, a, b), c, gpio, i)
<1>1. Jmp(Put(m, a, b), c, gpio, i) =
        [Put(m, a, b) EXCEPT !.pc = IF u THEN i.target ELSE @,
                             !.x = IF i.cond = "x--" /\ @ # Zero THEN Decrement(@) ELSE @,
                             !.y = IF i.cond = "y--" /\ @ # Zero THEN Decrement(@) ELSE @]
  BY DEF Jmp
<1>2. Jmp(m, c, gpio, j) =
        [m EXCEPT !.pc = IF t THEN j.target ELSE @,
                  !.x = IF j.cond = "x--" /\ @ # Zero THEN Decrement(@) ELSE @,
                  !.y = IF j.cond = "y--" /\ @ # Zero THEN Decrement(@) ELSE @]
  BY DEF Jmp
<1>3. u <=> t
  OBVIOUS
<1> HIDE DEF t, u
<1> QED BY <1>1, <1>2, <1>3 DEF Put, Machine, t

\* WAIT, PUSH and IRQ do not touch the registers; PULL does when it finds the FIFO empty and does not wait.
LEMMA OtherPut ==
    ASSUME NEW c \in Config, NEW m \in Machine, NEW a \in Word, NEW b \in Word, NEW gpio, NEW i \in Do, NEW word
    PROVE  /\ Wait(Put(m, a, b), c, gpio, i) = Put(Wait(m, c, gpio, i), a, b)
           /\ Push(Put(m, a, b), c, i) = Put(Push(m, c, i), a, b)
           /\ Irq(Put(m, a, b), c, i) = Put(Irq(m, c, i), a, b)
           /\ i.op = "pull" /\ (ReadsPhysicalX(m, c, i, word) => a = m.x) =>
                 Pull(Put(m, a, b), c, i, word) = Put(Pull(m, c, i, word), a, b)
<1>1. Wait(Put(m, a, b), c, gpio, i) = Put(Wait(m, c, gpio, i), a, b)
  <2> DEFINE flag == FlagOf(i, c)
  <2>1. Raised(Put(m, a, b), flag) = Raised(m, flag)
    BY DEF Raised, Put, Machine
  <2>2. [Put(m, a, b) EXCEPT !.irq_flags = @ \ {flag}] = Put([m EXCEPT !.irq_flags = @ \ {flag}], a, b)
    BY DEF Put, Machine
  <2> HIDE DEF flag
  <2>3. \A k, p : StallAt(Put(m, a, b), "gpio", p, k) = Put(StallAt(m, "gpio", p, k), a, b)
    BY AroundPut, FieldsOf
  <2>4. \A k, p : StallAt(Put(m, a, b), "pin", p, k) = Put(StallAt(m, "pin", p, k), a, b)
    BY AroundPut, FieldsOf
  <2>5. \A k, p : StallAt(Put(m, a, b), "irq", p, k) = Put(StallAt(m, "irq", p, k), a, b)
    BY AroundPut, FieldsOf
  <2> QED BY <2>1, <2>2, <2>3, <2>4, <2>5 DEF Wait, flag
<1>2. Push(Put(m, a, b), c, i) = Put(Push(m, c, i), a, b)
  <2>1. Put(m, a, b).isr_count = m.isr_count
    BY DEF Put, Machine
  <2> QED BY <2>1, AroundPut, FieldsOf DEF Push
<1>3. Irq(Put(m, a, b), c, i) = Put(Irq(m, c, i), a, b)
  <2> DEFINE flag == FlagOf(i, c)
             s(k) == [k EXCEPT !.irq_flags = IF i.clear THEN @ \ {flag} ELSE @ \cup {flag}]
  <2>1. s(Put(m, a, b)) = Put(s(m), a, b)
    BY DEF Put, Machine
  <2>2. StallAt(s(Put(m, a, b)), "irqwait", 0, flag) = Put(StallAt(s(m), "irqwait", 0, flag), a, b)
    BY DEF Put, Machine, StallAt
  <2>3. \A k : Irq(k, c, i) = IF i.wait /\ ~i.clear THEN StallAt(s(k), "irqwait", 0, flag) ELSE s(k)
    BY DEF Irq
  <2> HIDE DEF s, flag
  <2> QED BY <2>1, <2>2, <2>3
<1>4. ASSUME i.op = "pull", ReadsPhysicalX(m, c, i, word) => a = m.x
      PROVE  Pull(Put(m, a, b), c, i, word) = Put(Pull(m, c, i, word), a, b)
  <2>1. Held(Put(m, a, b), c, i) = Held(m, c, i)
    BY DEF Held, Put, Machine
  <2>2. CASE Held(m, c, i)
    BY <2>1, <2>2 DEF Pull
  <2>3. CASE ~Held(m, c, i) /\ word = NoWord /\ i.block
    BY <2>1, <2>3, AroundPut, FieldsOf DEF Pull
  <2>4. CASE ~Held(m, c, i) /\ ~(word = NoWord /\ i.block)
    <3> DEFINE to(k) == [k EXCEPT !.osr = IF word = NoWord THEN k.x ELSE word, !.osr_count = 0]
    <3>1. \A k : Held(k, c, i) = Held(m, c, i) => Pull(k, c, i, word) = to(k)
      BY <2>4 DEF Pull
    <3>2. to(Put(m, a, b)) = Put(to(m), a, b)
      <4>1. word = NoWord => a = m.x
        BY <1>4, <2>4 DEF ReadsPhysicalX
      <4> QED BY <4>1 DEF Put, Machine
    <3> QED BY <2>1, <3>1, <3>2
  <2> QED BY <2>2, <2>3, <2>4
<1> QED BY <1>1, <1>2, <1>3, <1>4

\* IN, when the two sources hold the same value.
LEMMA InPut ==
    ASSUME NEW c \in Config, NEW m \in Machine, NEW a \in Word, NEW b \in Word, NEW gpio, NEW i \in Do, NEW j \in Do,
           i.op = "in", j.op = "in", i.n = j.n,
           \A s \in {m, PushIsr(m, c)} : Source(Put(s, a, b), c, gpio, i.src) = Source(s, c, gpio, j.src)
    PROVE  In(Put(m, a, b), c, gpio, i) = Put(In(m, c, gpio, j), a, b)
<1> DEFINE due(s) == c.autopush /\ s.isr_count >= c.push_threshold
           e(s) == IF due(s) THEN PushIsr(s, c) ELSE s
           v(s, k) == Low(Source(e(s), c, gpio, k.src), k.n)
           f(s, u) == [s EXCEPT !.isr = IF c.in_shift_right THEN ShiftRight(@, u, i.n) ELSE ShiftLeft(@, u, i.n),
                                !.isr_count = Smaller(@ + i.n, W)]
           h(s) == IF due(s) /\ ~RxFull(s, c) THEN PushIsr(s, c) ELSE s
<1>1. \A s, k : k.n = i.n =>
        In(s, c, gpio, k) = IF due(s) /\ RxFull(s, c) THEN StallOn(s, "push") ELSE h(f(e(s), v(s, k)))
  BY DEF In
<1>2. \A s : DOMAIN s = MachineFields => (due(Put(s, a, b)) <=> due(s))
  BY DEF Put, MachineFields
<1> HIDE DEF due
<1>3. DOMAIN m = MachineFields /\ DOMAIN PushIsr(m, c) = MachineFields
  BY FieldsOf DEF PushIsr
<1>4. e(Put(m, a, b)) = Put(e(m), a, b) /\ e(m) \in {m, PushIsr(m, c)}
  BY <1>2, <1>3, AroundPut
<1>5. v(Put(m, a, b), i) = v(m, j)
  BY <1>4
<1> DEFINE d == e(m)
           u == v(m, j)
<1>6. DOMAIN d = MachineFields
  BY <1>3, <1>4
<1>7. e(Put(m, a, b)) = Put(d, a, b) /\ v(Put(m, a, b), i) = u
  BY <1>4, <1>5
<1> HIDE DEF d, u, e, v
<1>8. f(Put(d, a, b), u) = Put(f(d, u), a, b) /\ DOMAIN f(d, u) = MachineFields
  BY <1>6 DEF Put, MachineFields
<1> DEFINE g == f(d, u)
<1>9. f(Put(d, a, b), u) = Put(g, a, b) /\ DOMAIN g = MachineFields
  BY <1>8
<1> HIDE DEF g
<1>10. h(Put(g, a, b)) = Put(h(g), a, b)
  BY <1>2, <1>9, AroundPut
<1> HIDE DEF h
<1>11. StallOn(Put(m, a, b), "push") = Put(StallOn(m, "push"), a, b) /\ RxFull(Put(m, a, b), c) = RxFull(m, c)
  BY <1>3, AroundPut
<1>12. In(m, c, gpio, j) = IF due(m) /\ RxFull(m, c) THEN StallOn(m, "push") ELSE h(g)
  BY <1>1 DEF g, d, u
<1> HIDE DEF f
<1>13. In(Put(m, a, b), c, gpio, i) =
         IF due(Put(m, a, b)) /\ RxFull(Put(m, a, b), c) THEN StallOn(Put(m, a, b), "push") ELSE h(Put(g, a, b))
  BY <1>1, <1>7, <1>9
<1> QED BY <1>2, <1>3, <1>10, <1>11, <1>12, <1>13

\* OUT: the data goes to the destination, and the registers are not looked at.
Shifted(m, c, i, word) ==
    LET osr == IF Refills(m, c) THEN word ELSE m.osr
        count == IF Refills(m, c) THEN 0 ELSE m.osr_count
        left == IF c.out_shift_right THEN ShiftRight(osr, Zero, i.n) ELSE ShiftLeft(osr, Zero, i.n)
    IN  [m EXCEPT !.osr = left, !.osr_count = Smaller(count + i.n, W)]
ShiftedOut(m, c, i, word) ==
    LET osr == IF Refills(m, c) THEN word ELSE m.osr
    IN  IF c.out_shift_right THEN Low(osr, i.n) ELSE ShiftRight(osr, Zero, W - i.n)

\* OUT, step by step.
LEMMA OutIs ==
    ASSUME NEW c \in Config, NEW m \in Machine, NEW i \in Do, NEW word
    PROVE  Out(m, c, i, word) = IF Refills(m, c) /\ word = NoWord THEN StallOn(m, "pull")
                                ELSE Store(Shifted(m, c, i, word), c, i.dst, ShiftedOut(m, c, i, word),
                                           Smaller(c.out_count, i.n), i.n)
BY DEF Out, Shifted, ShiftedOut

\* Shifting out of OSR does not look at the scratch registers.
LEMMA ShiftedPut ==
    ASSUME NEW c \in Config, NEW m \in Machine, NEW a \in Word, NEW b \in Word, NEW i \in Do, NEW j \in Do, NEW word, i.n = j.n
    PROVE  /\ Refills(Put(m, a, b), c) = Refills(m, c)
           /\ Shifted(Put(m, a, b), c, i, word) = Put(Shifted(m, c, j, word), a, b)
           /\ ShiftedOut(Put(m, a, b), c, i, word) = ShiftedOut(m, c, j, word)
           /\ DOMAIN Shifted(m, c, j, word) = MachineFields
           /\ Shifted(m, c, j, word).x = m.x /\ Shifted(m, c, j, word).y = m.y /\ Shifted(m, c, j, word).stall = m.stall
<1>0. DOMAIN m = MachineFields
  BY FieldsOf
<1>1. Refills(Put(m, a, b), c) = Refills(m, c) /\ Put(m, a, b).osr = m.osr /\ Put(m, a, b).osr_count = m.osr_count
  BY <1>0 DEF Refills, Put, MachineFields
<1>2. ShiftedOut(Put(m, a, b), c, i, word) = ShiftedOut(m, c, j, word)
  BY <1>1 DEF ShiftedOut
<1> DEFINE osr == IF Refills(m, c) THEN word ELSE m.osr
           count == IF Refills(m, c) THEN 0 ELSE m.osr_count
           left == IF c.out_shift_right THEN ShiftRight(osr, Zero, j.n) ELSE ShiftLeft(osr, Zero, j.n)
           total == Smaller(count + j.n, W)
<1>3. Shifted(m, c, j, word) = [m EXCEPT !.osr = left, !.osr_count = total]
  BY DEF Shifted
<1>4. Shifted(Put(m, a, b), c, i, word) = [Put(m, a, b) EXCEPT !.osr = left, !.osr_count = total]
  BY <1>1 DEF Shifted
<1> HIDE DEF left, total
<1>5. Shifted(Put(m, a, b), c, i, word) = Put(Shifted(m, c, j, word), a, b)
  BY <1>0, <1>3, <1>4 DEF Put, MachineFields
<1>6. /\ DOMAIN Shifted(m, c, j, word) = MachineFields
      /\ Shifted(m, c, j, word).x = m.x /\ Shifted(m, c, j, word).y = m.y /\ Shifted(m, c, j, word).stall = m.stall
  BY <1>0, <1>3 DEF MachineFields
<1> QED BY <1>1, <1>2, <1>5, <1>6

\* Sources: a register is read by name.
LEMMA SourcePut ==
    ASSUME NEW c \in Config, NEW s, DOMAIN s = MachineFields, NEW a, NEW b, NEW gpio, NEW src
    PROVE  Source(Put(s, a, b), c, gpio, src) =
             IF src = "x" THEN a ELSE IF src = "y" THEN b ELSE Source(s, c, gpio, src)
<1>1. CASE src = "pins"
  BY <1>1 DEF Source
<1>2. CASE src \in {"x", "y"}
  BY <1>2 DEF Source, Put, MachineFields
<1>3. CASE src \in {"isr", "osr"}
  BY <1>3 DEF Source, Put, MachineFields
<1>4. CASE src \notin {"pins", "x", "y", "isr", "osr"}
  BY <1>4 DEF Source
<1> QED BY <1>1, <1>2, <1>3, <1>4

\* The register r after i left s, on a machine whose scratch registers held a and b.
Holding(r, a, b) == IF r = "x" THEN a ELSE b
Carried(i, s, a, b, r) ==
    IF Writes(i) # r \/ s.stall # NotStalled THEN Holding(r, a, b)
    ELSE IF i.op = "mov" /\ i.how = "none" /\ i.src \in {"x", "y"} THEN Holding(i.src, a, b)
    ELSE s[r]
Carrying(i, s, a, b) == Put(s, Carried(i, s, a, b, "x"), Carried(i, s, a, b, "y"))

\* An instruction that writes no register leaves them.
LEMMA NothingWritten ==
    ASSUME NEW i, NEW s, NEW a, NEW b, Writes(i) = "none"
    PROVE  Carrying(i, s, a, b) = Put(s, a, b)
BY DEF Carrying, Carried, Holding

\* A JMP that tests no register that is different goes the same way, and counts down no such register.
LEMMA BlindJmp ==
    ASSUME NEW c \in Config, NEW m \in Machine, NEW a \in Word, NEW b \in Word, NEW gpio, NEW i \in Do, NEW word,
           i.op = "jmp", m.stall = NotStalled,
           NeedsValue(i, "x", m, c, word) => a = m.x, NeedsValue(i, "y", m, c, word) => b = m.y
    PROVE  /\ Taken(Put(m, a, b), c, gpio, i) <=> Taken(m, c, gpio, i)
           /\ Jmp(Put(m, a, b), c, gpio, i) = Carrying(i, Jmp(m, c, gpio, i), a, b)
           /\ Jmp(m, c, gpio, i).stall = NotStalled
<1>0. i.cond \in {"always", "!x", "x--", "!y", "y--", "x!=y", "pin", "!osre"}
  BY DEF Do
<1>1. /\ i.cond \in {"!x", "x--", "x!=y"} => a = m.x
      /\ i.cond \in {"!y", "y--", "x!=y"} => b = m.y
  BY DEF NeedsValue, StateReads
<1>2. Put(m, a, b).x = a /\ Put(m, a, b).y = b /\ Put(m, a, b).osr_count = m.osr_count
  BY DEF Put, Machine
<1>3. Taken(Put(m, a, b), c, gpio, i) <=> Taken(m, c, gpio, i)
  BY <1>0, <1>1, <1>2 DEF Taken
<1> DEFINE p == IF i.cond = "x--" /\ a # Zero THEN Decrement(a) ELSE a
           q == IF i.cond = "y--" /\ b # Zero THEN Decrement(b) ELSE b
           s == Jmp(m, c, gpio, i)
<1>4. Jmp(Put(m, a, b), c, gpio, i) = Put(s, p, q)
  BY <1>3, JmpPut
<1>5. s.stall = NotStalled /\ (i.cond = "x--" => s.x = p) /\ (i.cond = "y--" => s.y = q)
  BY <1>1 DEF Jmp, Machine
<1>6. Writes(i) = IF i.cond = "x--" THEN "x" ELSE IF i.cond = "y--" THEN "y" ELSE "none"
  BY DEF Writes
<1>7. p = Carried(i, s, a, b, "x") /\ q = Carried(i, s, a, b, "y")
  <2> HIDE DEF s
  <2>1. CASE i.cond = "x--"
    BY <1>5, <1>6, <2>1 DEF Carried, Holding
  <2>2. CASE i.cond = "y--"
    BY <1>5, <1>6, <2>2 DEF Carried, Holding
  <2>3. CASE i.cond \notin {"x--", "y--"}
    BY <1>6, <2>3 DEF Carried, Holding
  <2> QED BY <2>1, <2>2, <2>3
<1> QED BY <1>3, <1>4, <1>5, <1>7 DEF Carrying

\* What a destination gets: a copy of a register, or v.
Copied(i, a, b, v) == IF i.op = "mov" /\ i.how = "none" /\ i.src \in {"x", "y"} /\ i.dst \in {"x", "y"}
                      THEN Holding(i.src, a, b) ELSE v

\* Storing a value does not stall.
LEMMA StoreUnstalled ==
    ASSUME NEW s, DOMAIN s = MachineFields, s.stall = NotStalled, NEW c, NEW dst, NEW v, NEW pins, NEW n
    PROVE  Store(s, c, dst, v, pins, n).stall = NotStalled
BY DEF Store, MachineFields

\* Storing a value, on a machine with other scratch registers.
LEMMA BlindStore ==
    ASSUME NEW c \in Config, NEW s, DOMAIN s = MachineFields, s.stall = NotStalled,
           NEW a \in Word, NEW b \in Word,
           NEW i \in Do, i.op \in {"out", "mov"}, NEW v, NEW pins, NEW n, NEW d, d = i.dst
    PROVE  Store(Put(s, a, b), c, d, Copied(i, a, b, v), pins, n) = Carrying(i, Store(s, c, d, v, pins, n), a, b)
<1> DEFINE u == Copied(i, a, b, v)
<1>u. u = IF i.op = "mov" /\ i.how = "none" /\ i.src \in {"x", "y"} /\ i.dst \in {"x", "y"}
          THEN Holding(i.src, a, b) ELSE v
  BY DEF Copied
<1> HIDE DEF u
<1>1. Writes(i) = IF i.dst \in {"x", "y"} THEN i.dst ELSE "none"
  BY DEF Writes
<1>2. Store(s, c, i.dst, v, pins, n).stall = NotStalled
  BY StoreUnstalled
<1>3. CASE i.dst \notin {"x", "y"}
  <2>1. u = v
    BY <1>3, <1>u
  <2>2. Store(Put(s, a, b), c, i.dst, v, pins, n) = Put(Store(s, c, i.dst, v, pins, n), a, b)
    BY <1>3, StorePut
  <2>3. Writes(i) = "none"
    BY <1>1, <1>3
  <2>4. Carrying(i, Store(s, c, i.dst, v, pins, n), a, b) = Put(Store(s, c, i.dst, v, pins, n), a, b)
    BY <2>3, NothingWritten
  <2> QED BY <1>2, <2>1, <2>2, <2>4 DEF u
<1>4. CASE i.dst = "x"
  <2> DEFINE t == Store(s, c, "x", v, pins, n)
  <2>1. t = [s EXCEPT !.x = v]
    BY DEF Store
  <2>2. t.x = v /\ Put(t, u, b) = Put(s, u, b)
    BY <2>1 DEF Put, MachineFields
  <2>3. Store(Put(s, a, b), c, "x", u, pins, n) = Put(s, u, b)
    BY StorePut
  <2>4. t.stall = NotStalled
    BY <1>2, <1>4
  <2> HIDE DEF t
  <2>5. Carried(i, t, a, b, "x") = u /\ Carried(i, t, a, b, "y") = b
    BY <1>u, <1>1, <1>4, <2>2, <2>4 DEF Carried, Holding
  <2>6. Carrying(i, t, a, b) = Put(s, u, b)
    BY <2>2, <2>5 DEF Carrying
  <2> QED BY <1>2, <1>4, <2>3, <2>6 DEF t, u
<1>5. CASE i.dst = "y"
  <2> DEFINE t == Store(s, c, "y", v, pins, n)
  <2>1. t = [s EXCEPT !.y = v]
    BY DEF Store
  <2>2. t.y = v /\ Put(t, a, u) = Put(s, a, u)
    BY <2>1 DEF Put, MachineFields
  <2>3. Store(Put(s, a, b), c, "y", u, pins, n) = Put(s, a, u)
    BY StorePut
  <2>4. t.stall = NotStalled
    BY <1>2, <1>5
  <2> HIDE DEF t
  <2>5. Carried(i, t, a, b, "y") = u /\ Carried(i, t, a, b, "x") = a
    BY <1>u, <1>1, <1>5, <2>2, <2>4 DEF Carried, Holding
  <2>6. Carrying(i, t, a, b) = Put(s, a, u)
    BY <2>2, <2>5 DEF Carrying
  <2> QED BY <1>2, <1>5, <2>3, <2>6 DEF t, u
<1> QED BY <1>3, <1>4, <1>5 DEF u

\* MOV, on a machine with other scratch registers.
LEMMA BlindMov ==
    ASSUME NEW c \in Config, NEW m \in Machine, NEW a \in Word, NEW b \in Word, NEW gpio, NEW i \in Do, NEW word,
           i.op = "mov", m.stall = NotStalled,
           NeedsValue(i, "x", m, c, word) => a = m.x, NeedsValue(i, "y", m, c, word) => b = m.y
    PROVE  /\ Mov(Put(m, a, b), c, gpio, i) = Carrying(i, Mov(m, c, gpio, i), a, b)
           /\ Mov(m, c, gpio, i).stall = NotStalled
<1> DEFINE f(v) == CASE i.how = "invert" -> Flip(v) [] i.how = "reverse" -> Reverse(v) [] OTHER -> v
           v == Source(m, c, gpio, i.src)
           u == Source(Put(m, a, b), c, gpio, i.src)
<1>1. \A k : Mov(k, c, gpio, i) = Store(k, c, i.dst, f(Source(k, c, gpio, i.src)), c.out_count, 0)
  BY DEF Mov
<1>2. DOMAIN m = MachineFields
  BY FieldsOf
<1>3. u = IF i.src = "x" THEN a ELSE IF i.src = "y" THEN b ELSE v
  BY <1>2, SourcePut
<1>4. (i.src = "x" => v = m.x) /\ (i.src = "y" => v = m.y)
  BY DEF Source
<1>5. i.how = "none" => f(u) = u
  OBVIOUS
<1>6. ~(i.how = "none" /\ i.src \in {"x", "y"} /\ i.dst \in {"x", "y"}) => u = v
  BY <1>3, <1>4 DEF NeedsValue
<1>7. f(u) = Copied(i, a, b, f(v))
  <2> HIDE DEF u, v, f
  <2> QED BY <1>3, <1>5, <1>6 DEF Holding, Copied
<1>8. Mov(m, c, gpio, i) = Store(m, c, i.dst, f(v), c.out_count, 0)
  BY <1>1
<1>9. Mov(Put(m, a, b), c, gpio, i) = Store(Put(m, a, b), c, i.dst, f(u), c.out_count, 0)
  BY <1>1
<1> HIDE DEF f, u, v
<1> DEFINE w == f(v)
<1>10. f(u) = Copied(i, a, b, w)
  BY <1>7
<1> DEFINE none == 0
<1> HIDE DEF w, none
<1>11. /\ Store(Put(m, a, b), c, i.dst, Copied(i, a, b, w), c.out_count, none) = Carrying(i, Store(m, c, i.dst, w, c.out_count, none), a, b)
       /\ Store(m, c, i.dst, w, c.out_count, none).stall = NotStalled
  <2>1. i.op \in {"out", "mov"} /\ m.stall = NotStalled
    OBVIOUS
  <2>2. Store(Put(m, a, b), c, i.dst, Copied(i, a, b, w), c.out_count, none)
          = Carrying(i, Store(m, c, i.dst, w, c.out_count, none), a, b)
    BY <1>2, <2>1, BlindStore
  <2>3. Store(m, c, i.dst, w, c.out_count, none).stall = NotStalled
    BY <1>2, StoreUnstalled
  <2> QED BY <2>2, <2>3
<1> QED BY <1>8, <1>9, <1>10, <1>11 DEF w, none

\* OUT, on a machine with other scratch registers.
LEMMA BlindOut ==
    ASSUME NEW c \in Config, NEW m \in Machine, NEW a \in Word, NEW b \in Word, NEW i \in Do, NEW word,
           i.op = "out", m.stall = NotStalled
    PROVE  Out(Put(m, a, b), c, i, word) = Carrying(i, Out(m, c, i, word), a, b)
<1> DEFINE n == Put(m, a, b)
<1>0. n \in Machine /\ DOMAIN m = MachineFields
  BY PutIs, FieldsOf
<1>1. /\ Refills(n, c) = Refills(m, c)
      /\ Shifted(n, c, i, word) = Put(Shifted(m, c, i, word), a, b)
      /\ ShiftedOut(n, c, i, word) = ShiftedOut(m, c, i, word)
      /\ DOMAIN Shifted(m, c, i, word) = MachineFields
      /\ Shifted(m, c, i, word).x = m.x /\ Shifted(m, c, i, word).y = m.y /\ Shifted(m, c, i, word).stall = m.stall
  BY ShiftedPut
<1>2. CASE Refills(m, c) /\ word = NoWord
  <2> DEFINE s == StallOn(m, "pull")
  <2>1. Out(m, c, i, word) = s /\ Out(n, c, i, word) = StallOn(n, "pull")
    BY <1>0, <1>1, <1>2, OutIs
  <2>2. StallOn(n, "pull") = Put(s, a, b)
    BY <1>0, AroundPut
  <2>3. s.stall # NotStalled
    BY <1>0 DEF StallOn, NotStalled, MachineFields
  <2>4. Carrying(i, s, a, b) = Put(s, a, b)
    BY <2>3 DEF Carrying, Carried, Holding
  <2> QED BY <2>1, <2>2, <2>4
<1>3. CASE ~(Refills(m, c) /\ word = NoWord)
  <2> DEFINE s == Shifted(m, c, i, word)
             v == ShiftedOut(m, c, i, word)
             pins == Smaller(c.out_count, i.n)
  <2>1. Out(m, c, i, word) = Store(s, c, i.dst, v, pins, i.n)
    BY <1>3, OutIs
  <2>2. Out(n, c, i, word) = Store(Put(s, a, b), c, i.dst, v, pins, i.n)
    BY <1>0, <1>1, <1>3, OutIs
  <2>3. DOMAIN s = MachineFields /\ s.x = m.x /\ s.y = m.y /\ s.stall = NotStalled
    BY <1>1
  <2> HIDE DEF s, v, pins
  <2>5. v = Copied(i, a, b, v)
    BY DEF Copied
  <2> DEFINE k == i.n
  <2>6. i.op \in {"out", "mov"}
    OBVIOUS
  <2> HIDE DEF k
  <2>7. Store(Put(s, a, b), c, i.dst, Copied(i, a, b, v), pins, k) = Carrying(i, Store(s, c, i.dst, v, pins, k), a, b)
    BY Z3, <2>3, <2>6, BlindStore
  <2>8. Store(Put(s, a, b), c, i.dst, v, pins, i.n) = Carrying(i, Store(s, c, i.dst, v, pins, i.n), a, b)
    BY <2>5, <2>7 DEF k
  <2> QED BY <2>1, <2>2, <2>8
<1> QED BY <1>2, <1>3

\* SET, on a machine with other scratch registers.
LEMMA BlindSet ==
    ASSUME NEW c \in Config, NEW m \in Machine, NEW a \in Word, NEW b \in Word, NEW i \in Do, i.op = "set", m.stall = NotStalled
    PROVE  Set(Put(m, a, b), c, i) = Carrying(i, Set(m, c, i), a, b) /\ Set(m, c, i).stall = NotStalled
<1>1. Writes(i) = IF i.dst \in {"x", "y"} THEN i.dst ELSE "none"
  BY DEF Writes
<1>2. Set(m, c, i).stall = NotStalled
  BY DEF Set, Machine
<1>3. CASE i.dst \notin {"x", "y"}
  <2>1. Set(Put(m, a, b), c, i) = Put(Set(m, c, i), a, b)
    BY <1>3 DEF Set, Put, Machine
  <2> QED BY <1>1, <1>2, <1>3, <2>1, NothingWritten
<1>4. CASE i.dst = "x"
  <2>1. Set(Put(m, a, b), c, i) = Put(Set(m, c, i), i.data, b) /\ Set(m, c, i).x = i.data
    BY <1>4 DEF Set, Put, Machine
  <2> QED BY <1>1, <1>2, <1>4, <2>1 DEF Carrying, Carried, Holding
<1>5. CASE i.dst = "y"
  <2>1. Set(Put(m, a, b), c, i) = Put(Set(m, c, i), a, i.data) /\ Set(m, c, i).y = i.data
    BY <1>5 DEF Set, Put, Machine
  <2> QED BY <1>1, <1>2, <1>5, <2>1 DEF Carrying, Carried, Holding
<1> QED BY <1>2, <1>3, <1>4, <1>5

\* What an instruction does, by its opcode.
LEMMA ExecOpIs ==
    ASSUME NEW m, NEW c, NEW gpio, NEW i, NEW word
    PROVE  /\ i.op = "jmp" => ExecOp(m, c, gpio, i, word) = Jmp(m, c, gpio, i)
           /\ i.op = "wait" => ExecOp(m, c, gpio, i, word) = Wait(m, c, gpio, i)
           /\ i.op = "in" => ExecOp(m, c, gpio, i, word) = In(m, c, gpio, i)
           /\ i.op = "out" => ExecOp(m, c, gpio, i, word) = Out(m, c, i, word)
           /\ i.op = "push" => ExecOp(m, c, gpio, i, word) = Push(m, c, i)
           /\ i.op = "pull" => ExecOp(m, c, gpio, i, word) = Pull(m, c, i, word)
           /\ i.op = "mov" => ExecOp(m, c, gpio, i, word) = Mov(m, c, gpio, i)
           /\ i.op = "irq" => ExecOp(m, c, gpio, i, word) = Irq(m, c, i)
           /\ i.op = "set" => ExecOp(m, c, gpio, i, word) = Set(m, c, i)
BY DEF ExecOp

\* An instruction that needs the value of no register that is different does the same to the rest of the machine, and
\* carries the registers along: it leaves them, copies one to the other, or overwrites one.
THEOREM RegistersPass ==
    ASSUME NEW c \in Config, NEW m \in Machine, NEW a \in Word, NEW b \in Word, NEW gpio, NEW i \in Do, NEW word,
           m.stall = NotStalled,
           NeedsValue(i, "x", m, c, word) => a = m.x, NeedsValue(i, "y", m, c, word) => b = m.y
    PROVE  /\ ExecOp(Put(m, a, b), c, gpio, i, word) = Carrying(i, ExecOp(m, c, gpio, i, word), a, b)
           /\ SetsPc(Put(m, a, b), c, gpio, i) <=> SetsPc(m, c, gpio, i)
           /\ Pops(Put(m, a, b), c, i, word) <=> Pops(m, c, i, word)
<1>0. DOMAIN m = MachineFields
  BY FieldsOf
<1>1. Pops(Put(m, a, b), c, i, word) <=> Pops(m, c, i, word)
  <2>1. Refills(Put(m, a, b), c) = Refills(m, c) /\ Held(Put(m, a, b), c, i) = Held(m, c, i)
    BY <1>0 DEF Refills, Held, Put, MachineFields
  <2> QED BY <2>1 DEF Pops
<1>2. SetsPc(Put(m, a, b), c, gpio, i) <=> SetsPc(m, c, gpio, i)
  BY BlindJmp DEF SetsPc
<1>3. CASE i.op = "jmp"
  <2>1. Jmp(Put(m, a, b), c, gpio, i) = Carrying(i, Jmp(m, c, gpio, i), a, b)
    BY <1>3, BlindJmp
  <2>2. ExecOp(m, c, gpio, i, word) = Jmp(m, c, gpio, i) /\ ExecOp(Put(m, a, b), c, gpio, i, word) = Jmp(Put(m, a, b), c, gpio, i)
    BY <1>3, ExecOpIs
  <2> QED BY <1>1, <1>2, <2>1, <2>2
<1>4. CASE i.op = "in"
  <2>1. \A s \in {m, PushIsr(m, c)} : DOMAIN s = MachineFields /\ s.x = m.x /\ s.y = m.y
    BY <1>0 DEF PushIsr, MachineFields
  <2>2. \A s \in {m, PushIsr(m, c)} :
           Source(Put(s, a, b), c, gpio, i.src) =
             IF i.src = "x" THEN a ELSE IF i.src = "y" THEN b ELSE Source(s, c, gpio, i.src)
    BY <2>1, SourcePut
  <2>3. (i.src = "x" => a = m.x) /\ (i.src = "y" => b = m.y)
    BY <1>4 DEF NeedsValue
  <2>4. \A s : (i.src = "x" => Source(s, c, gpio, i.src) = s.x) /\ (i.src = "y" => Source(s, c, gpio, i.src) = s.y)
    BY DEF Source
  <2>5. \A s \in {m, PushIsr(m, c)} : Source(Put(s, a, b), c, gpio, i.src) = Source(s, c, gpio, i.src)
    BY <2>1, <2>2, <2>3, <2>4
  <2>6. In(Put(m, a, b), c, gpio, i) = Put(In(m, c, gpio, i), a, b)
    BY <1>4, <2>5, InPut
  <2>7. Writes(i) = "none"
    BY <1>4 DEF Writes
  <2>8. Carrying(i, In(m, c, gpio, i), a, b) = Put(In(m, c, gpio, i), a, b)
    BY <2>7, NothingWritten
  <2> QED BY <1>1, <1>2, <1>4, <2>6, <2>8, ExecOpIs
<1>5. CASE i.op \in {"wait", "push", "irq"}
  <2>1. Writes(i) = "none"
    BY <1>5 DEF Writes
  <2>2. \A s : Carrying(i, s, a, b) = Put(s, a, b)
    BY <2>1, NothingWritten
  <2>3. /\ Wait(Put(m, a, b), c, gpio, i) = Put(Wait(m, c, gpio, i), a, b)
        /\ Push(Put(m, a, b), c, i) = Put(Push(m, c, i), a, b)
        /\ Irq(Put(m, a, b), c, i) = Put(Irq(m, c, i), a, b)
    BY OtherPut
  <2>4. CASE i.op = "wait"
    <3>1. ExecOp(m, c, gpio, i, word) = Wait(m, c, gpio, i) /\ ExecOp(Put(m, a, b), c, gpio, i, word) = Wait(Put(m, a, b), c, gpio, i)
      BY <2>4, ExecOpIs
    <3> QED BY <1>1, <1>2, <2>2, <2>3, <3>1
  <2>5. CASE i.op = "push"
    <3>1. ExecOp(m, c, gpio, i, word) = Push(m, c, i) /\ ExecOp(Put(m, a, b), c, gpio, i, word) = Push(Put(m, a, b), c, i)
      BY <2>5, ExecOpIs
    <3> QED BY <1>1, <1>2, <2>2, <2>3, <3>1
  <2>6. CASE i.op = "irq"
    <3>1. ExecOp(m, c, gpio, i, word) = Irq(m, c, i) /\ ExecOp(Put(m, a, b), c, gpio, i, word) = Irq(Put(m, a, b), c, i)
      BY <2>6, ExecOpIs
    <3> QED BY <1>1, <1>2, <2>2, <2>3, <3>1
  <2> QED BY <1>5, <2>4, <2>5, <2>6
<1>6. CASE i.op = "pull"
  <2>1. Writes(i) = "none"
    BY <1>6 DEF Writes
  <2>2. ReadsPhysicalX(m, c, i, word) => a = m.x
    BY <1>6 DEF NeedsValue
  <2>3. Pull(Put(m, a, b), c, i, word) = Put(Pull(m, c, i, word), a, b)
    BY <1>6, <2>2, OtherPut
  <2>4. Carrying(i, Pull(m, c, i, word), a, b) = Put(Pull(m, c, i, word), a, b)
    BY <2>1, NothingWritten
  <2>5. ExecOp(m, c, gpio, i, word) = Pull(m, c, i, word) /\ ExecOp(Put(m, a, b), c, gpio, i, word) = Pull(Put(m, a, b), c, i, word)
    BY <1>6, ExecOpIs
  <2> QED BY <1>1, <1>2, <2>3, <2>4, <2>5
<1>7. CASE i.op = "out"
  <2>1. Out(Put(m, a, b), c, i, word) = Carrying(i, Out(m, c, i, word), a, b)
    BY <1>7, BlindOut
  <2>2. ExecOp(m, c, gpio, i, word) = Out(m, c, i, word) /\ ExecOp(Put(m, a, b), c, gpio, i, word) = Out(Put(m, a, b), c, i, word)
    BY <1>7, ExecOpIs
  <2> QED BY <1>1, <1>2, <2>1, <2>2
<1>8. CASE i.op = "mov"
  <2>1. Mov(Put(m, a, b), c, gpio, i) = Carrying(i, Mov(m, c, gpio, i), a, b)
    BY <1>8, BlindMov
  <2>2. ExecOp(m, c, gpio, i, word) = Mov(m, c, gpio, i) /\ ExecOp(Put(m, a, b), c, gpio, i, word) = Mov(Put(m, a, b), c, gpio, i)
    BY <1>8, ExecOpIs
  <2> QED BY <1>1, <1>2, <2>1, <2>2
<1>9. CASE i.op = "set"
  <2>1. Set(Put(m, a, b), c, i) = Carrying(i, Set(m, c, i), a, b)
    BY <1>9, BlindSet
  <2>2. ExecOp(m, c, gpio, i, word) = Set(m, c, i) /\ ExecOp(Put(m, a, b), c, gpio, i, word) = Set(Put(m, a, b), c, i)
    BY <1>9, ExecOpIs
  <2> QED BY <1>1, <1>2, <2>1, <2>2
<1>10. i.op \in {"jmp", "wait", "in", "out", "push", "pull", "mov", "irq", "set"}
  BY DEF Do
<1> QED BY <1>1, <1>2, <1>3, <1>4, <1>5, <1>6, <1>7, <1>8, <1>9, <1>10

(***************************************************************************)
(* The mirror image of an instruction does the mirror image of what it     *)
(* does.                                                                   *)
(***************************************************************************)
\* The mirror image of an instruction is one, and of one that does not touch the registers, itself.
LEMMA MirrorInstr ==
    ASSUME NEW i \in Do
    PROVE  /\ Mirror(i) \in Do /\ Mirror(i).op = i.op
           /\ i.op = "jmp" => Mirror(i).target = i.target /\ Mirror(i).cond = SwapCond(i.cond)
           /\ i.op \in {"in", "out"} => Mirror(i).n = i.n
           /\ i.op = "in" => Mirror(i).src = SwapName(i.src)
           /\ i.op \in {"out", "mov", "set"} => Mirror(i).dst = SwapName(i.dst)
           /\ i.op = "mov" => Mirror(i).src = SwapName(i.src) /\ Mirror(i).how = i.how
           /\ i.op = "set" => Mirror(i).data = i.data
           /\ i.op \in {"wait", "push", "pull", "irq"} => Mirror(i) = i
           /\ ~TouchesRegisters(i) => Mirror(i) = i
<1>1. CASE i.op = "jmp"
  <2>1. i \in [op : {"jmp"}, cond : {"always", "!x", "x--", "!y", "y--", "x!=y", "pin", "!osre"}, target : Slots]
    BY <1>1 DEF Do
  <2>2. Mirror(i) = [i EXCEPT !.cond = SwapCond(i.cond)]
    BY <1>1 DEF Mirror
  <2>3. SwapCond(i.cond) \in {"always", "!x", "x--", "!y", "y--", "x!=y", "pin", "!osre"}
    BY <2>1 DEF SwapCond
  <2>4. Mirror(i) \in [op : {"jmp"}, cond : {"always", "!x", "x--", "!y", "y--", "x!=y", "pin", "!osre"}, target : Slots]
    BY <2>1, <2>2, <2>3
  <2>5. Mirror(i) \in Do
    BY <2>4 DEF Do
  <2>6. Mirror(i).op = i.op /\ Mirror(i).target = i.target /\ Mirror(i).cond = SwapCond(i.cond)
    BY <2>1, <2>2
  <2>7. ~TouchesRegisters(i) => Mirror(i) = i
    <3>1. ~TouchesRegisters(i) => SwapCond(i.cond) = i.cond
      BY <1>1, <2>1 DEF TouchesRegisters, SwapCond
    <3> QED BY <2>1, <2>2, <3>1
  <2> QED BY <1>1, <2>5, <2>6, <2>7
<1>2. CASE i.op = "in"
  <2> DEFINE D == [op : {"in"}, src : {"pins", "x", "y", "null", "isr", "osr"}, n : 1 .. W]
  <2>1. i \in D
    BY <1>2 DEF Do
  <2>2. Mirror(i) = [i EXCEPT !.src = SwapName(i.src)]
    BY <1>2 DEF Mirror
  <2>3. SwapName(i.src) \in {"pins", "x", "y", "null", "isr", "osr"}
    BY <2>1 DEF SwapName
  <2>4. Mirror(i) \in D
    BY <2>1, <2>2, <2>3
  <2>5. Mirror(i) \in Do
    BY <2>4 DEF Do
  <2>6. Mirror(i).op = i.op /\ Mirror(i).n = i.n /\ Mirror(i).src = SwapName(i.src)
    BY <2>1, <2>2
  <2>7. ~TouchesRegisters(i) => Mirror(i) = i
    <3>1. ~TouchesRegisters(i) => SwapName(i.src) = i.src
      BY <1>2, <2>1 DEF TouchesRegisters, SwapName
    <3> QED BY <2>1, <2>2, <3>1
  <2> QED BY <1>2, <2>5, <2>6, <2>7
<1>3. CASE i.op = "out"
  <2> DEFINE D == [op : {"out"}, dst : {"pins", "x", "y", "null", "pindirs", "pc", "isr", "exec"}, n : 1 .. W]
  <2>1. i \in D
    BY <1>3 DEF Do
  <2>2. Mirror(i) = [i EXCEPT !.dst = SwapName(i.dst)]
    BY <1>3 DEF Mirror
  <2>3. SwapName(i.dst) \in {"pins", "x", "y", "null", "pindirs", "pc", "isr", "exec"}
    BY <2>1 DEF SwapName
  <2>4. Mirror(i) \in D
    BY <2>1, <2>2, <2>3
  <2>5. Mirror(i) \in Do
    BY <2>4 DEF Do
  <2>6. Mirror(i).op = i.op /\ Mirror(i).n = i.n /\ Mirror(i).dst = SwapName(i.dst)
    BY <2>1, <2>2
  <2>7. ~TouchesRegisters(i) => Mirror(i) = i
    <3>1. ~TouchesRegisters(i) => SwapName(i.dst) = i.dst
      BY <1>3, <2>1 DEF TouchesRegisters, SwapName
    <3> QED BY <2>1, <2>2, <3>1
  <2> QED BY <1>3, <2>5, <2>6, <2>7
<1>4. CASE i.op = "set"
  <2> DEFINE D == [op : {"set"}, dst : {"pins", "x", "y", "pindirs", "null"}, data : Word]
  <2>1. i \in D
    BY <1>4 DEF Do
  <2>2. Mirror(i) = [i EXCEPT !.dst = SwapName(i.dst)]
    BY <1>4 DEF Mirror
  <2>3. SwapName(i.dst) \in {"pins", "x", "y", "pindirs", "null"}
    BY <2>1 DEF SwapName
  <2>4. Mirror(i) \in D
    BY <2>1, <2>2, <2>3
  <2>5. Mirror(i) \in Do
    BY <2>4 DEF Do
  <2>6. Mirror(i).op = i.op /\ Mirror(i).data = i.data /\ Mirror(i).dst = SwapName(i.dst)
    BY <2>1, <2>2
  <2>7. ~TouchesRegisters(i) => Mirror(i) = i
    <3>1. ~TouchesRegisters(i) => SwapName(i.dst) = i.dst
      BY <1>4, <2>1 DEF TouchesRegisters, SwapName
    <3> QED BY <2>1, <2>2, <3>1
  <2> QED BY <1>4, <2>5, <2>6, <2>7
<1>5. CASE i.op = "mov"
  <2> DEFINE dsts == {"pins", "x", "y", "pindirs", "exec", "pc", "isr", "osr"}
             srcs == {"pins", "x", "y", "null", "status", "isr", "osr"}
             D == [op : {"mov"}, dst : dsts, how : {"none", "invert", "reverse"}, src : srcs]
  <2>1. i \in D
    BY <1>5 DEF Do
  <2>2. Mirror(i) = [i EXCEPT !.dst = SwapName(i.dst), !.src = SwapName(i.src)]
    BY <1>5 DEF Mirror
  <2>3. SwapName(i.dst) \in dsts /\ SwapName(i.src) \in srcs
    BY <2>1 DEF SwapName
  <2>4. Mirror(i) \in D
    BY <2>1, <2>2, <2>3
  <2>5. Mirror(i) \in Do
    BY <2>4 DEF Do
  <2>6. Mirror(i).op = i.op /\ Mirror(i).how = i.how /\ Mirror(i).dst = SwapName(i.dst) /\ Mirror(i).src = SwapName(i.src)
    BY <2>1, <2>2
  <2>7. ~TouchesRegisters(i) => Mirror(i) = i
    <3>1. ~TouchesRegisters(i) => SwapName(i.dst) = i.dst /\ SwapName(i.src) = i.src
      BY <1>5, <2>1 DEF TouchesRegisters, SwapName
    <3> QED BY <2>1, <2>2, <3>1
  <2> QED BY <1>5, <2>5, <2>6, <2>7
<1>6. CASE i.op \in {"wait", "push", "pull", "irq"}
  BY <1>6 DEF Mirror
<1> QED BY <1>1, <1>2, <1>3, <1>4, <1>5, <1>6 DEF Do

\* An instruction that writes no register leaves them.
LEMMA RegistersKept ==
    ASSUME NEW c \in Config, NEW m \in MachineOf(c), NEW gpio \in Word, NEW i \in Do, NEW word \in Word \cup {NoWord},
           m.stall = NotStalled, Writes(i) = "none"
    PROVE  ExecOp(m, c, gpio, i, word).x = m.x /\ ExecOp(m, c, gpio, i, word).y = m.y
<1> DEFINE s == ExecOp(m, c, gpio, i, word)
<1>1. s \in Machine /\ m \in Machine
  BY ExecOpType DEF MachineOf
<1>2. Put(m, m.x, m.y) = m /\ m.x \in Word /\ m.y \in Word
  BY <1>1, PutIs DEF Machine
<1>3. ExecOp(Put(m, m.x, m.y), c, gpio, i, word) = Carrying(i, s, m.x, m.y)
  <2>1. ASSUME NEW a \in Word, NEW b \in Word, a = m.x, b = m.y
        PROVE  ExecOp(Put(m, a, b), c, gpio, i, word) = Carrying(i, ExecOp(m, c, gpio, i, word), a, b)
    <3> HIDE DEF s
    <3>1. m \in Machine /\ (NeedsValue(i, "x", m, c, word) => a = m.x) /\ (NeedsValue(i, "y", m, c, word) => b = m.y)
      BY <1>1, <2>1
    <3> QED BY <3>1, RegistersPass
  <2> QED BY <1>2, <2>1
<1>4. s = Put(s, m.x, m.y)
  BY <1>2, <1>3, NothingWritten
<1> HIDE DEF s
<1>5. Put(s, m.x, m.y).x = m.x /\ Put(s, m.x, m.y).y = m.y
  BY <1>1, <1>2, PutIs
<1> QED BY <1>4, <1>5 DEF s

\* Writing the other register of a machine whose registers are exchanged.
LEMMA StoreSwapped ==
    ASSUME NEW c \in Config, NEW s, DOMAIN s = MachineFields, NEW dst, NEW v, NEW pins, NEW n
    PROVE  Store(Put(s, s.y, s.x), c, SwapName(dst), v, pins, n) = Swapped(Store(s, c, dst, v, pins, n))
<1>1. CASE dst = "x"
  <2>1. Store(Put(s, s.y, s.x), c, "y", v, pins, n) = Put(s, s.y, v)
    BY StorePut
  <2>2. Store(s, c, dst, v, pins, n) = [s EXCEPT !.x = v]
    BY <1>1 DEF Store
  <2>3. Swapped([s EXCEPT !.x = v]) = Put(s, s.y, v)
    BY DEF Swapped, Put, MachineFields
  <2> QED BY <1>1, <2>1, <2>2, <2>3 DEF SwapName
<1>2. CASE dst = "y"
  <2>1. Store(Put(s, s.y, s.x), c, "x", v, pins, n) = Put(s, v, s.x)
    BY StorePut
  <2>2. Store(s, c, dst, v, pins, n) = [s EXCEPT !.y = v]
    BY <1>2 DEF Store
  <2>3. Swapped([s EXCEPT !.y = v]) = Put(s, v, s.x)
    BY DEF Swapped, Put, MachineFields
  <2> QED BY <1>2, <2>1, <2>2, <2>3 DEF SwapName
<1>3. CASE dst \notin {"x", "y"}
  <2> DEFINE t == Store(s, c, dst, v, pins, n)
  <2>1. SwapName(dst) = dst
    BY <1>3 DEF SwapName
  <2>2. Store(Put(s, s.y, s.x), c, dst, v, pins, n) = Put(t, s.y, s.x)
    BY <1>3, StorePut
  <2>3. t.x = s.x /\ t.y = s.y
    BY <1>3 DEF Store, MachineFields
  <2> HIDE DEF t
  <2>4. Put(t, s.y, s.x) = Swapped(t)
    BY <2>3 DEF Put, Swapped
  <2> QED BY <2>1, <2>2, <2>4 DEF t
<1> QED BY <1>1, <1>2, <1>3

\* The mirror image of a JMP, on the machine with its registers exchanged.
LEMMA MirrorJmp ==
    ASSUME NEW c \in Config, NEW m \in Machine, NEW gpio, NEW i \in Do, i.op = "jmp"
    PROVE  /\ Taken(Put(m, m.y, m.x), c, gpio, Mirror(i)) <=> Taken(m, c, gpio, i)
           /\ Jmp(Put(m, m.y, m.x), c, gpio, Mirror(i)) = Swapped(Jmp(m, c, gpio, i))
<1> DEFINE a == m.y
           b == m.x
           k == Mirror(i)
           t == Jmp(m, c, gpio, i)
<1>1. i.cond \in {"always", "!x", "x--", "!y", "y--", "x!=y", "pin", "!osre"}
  BY DEF Do
<1>2. k \in Do /\ k.op = "jmp" /\ k.target = i.target /\ k.cond = SwapCond(i.cond) /\ a \in Word /\ b \in Word
  BY MirrorInstr DEF Machine
<1>3. Put(m, a, b).x = m.y /\ Put(m, a, b).y = m.x /\ Put(m, a, b).osr_count = m.osr_count
  BY DEF Put, Machine
<1>4. Taken(Put(m, a, b), c, gpio, k) <=> Taken(m, c, gpio, i)
  <2> HIDE DEF k
  <2>1. CASE i.cond \in {"!x", "x--"}
    BY <1>2, <1>3, <2>1 DEF Taken, SwapCond
  <2>2. CASE i.cond \in {"!y", "y--"}
    BY <1>2, <1>3, <2>2 DEF Taken, SwapCond
  <2>3. CASE i.cond \in {"always", "x!=y", "pin", "!osre"}
    BY <1>2, <1>3, <2>3 DEF Taken, SwapCond
  <2> QED BY <1>1, <2>1, <2>2, <2>3
<1> DEFINE p == IF k.cond = "x--" /\ a # Zero THEN Decrement(a) ELSE a
           q == IF k.cond = "y--" /\ b # Zero THEN Decrement(b) ELSE b
<1>5. Jmp(Put(m, a, b), c, gpio, k) = Put(t, p, q)
  <2> HIDE DEF k, a, b
  <2> QED BY <1>2, <1>4, JmpPut
<1>6. (k.cond = "x--" <=> i.cond = "y--") /\ (k.cond = "y--" <=> i.cond = "x--")
  BY <1>1, <1>2 DEF SwapCond
<1>7. t.y = p /\ t.x = q
  <2> HIDE DEF k
  <2> QED BY <1>6 DEF Jmp, Machine
<1> HIDE DEF t, p, q
<1>8. Put(t, p, q) = Swapped(t)
  BY <1>7 DEF Put, Swapped
<1> QED BY <1>4, <1>5, <1>8 DEF t

\* The mirror image of IN.
LEMMA MirrorIn ==
    ASSUME NEW c \in Config, NEW m \in Machine, NEW gpio, NEW i \in Do, i.op = "in"
    PROVE  In(Put(m, m.y, m.x), c, gpio, Mirror(i)) = Put(In(m, c, gpio, i), m.y, m.x)
<1> DEFINE a == m.y
           b == m.x
           k == Mirror(i)
<1>1. k \in Do /\ k.op = "in" /\ k.n = i.n /\ k.src = SwapName(i.src) /\ a \in Word /\ b \in Word
  BY MirrorInstr DEF Machine
<1>2. \A s \in {m, PushIsr(m, c)} : DOMAIN s = MachineFields /\ s.x = b /\ s.y = a
  BY FieldsOf DEF PushIsr, MachineFields
<1> HIDE DEF a, b, k
<1>3. \A s \in {m, PushIsr(m, c)} :
         Source(Put(s, a, b), c, gpio, k.src) = IF k.src = "x" THEN a ELSE IF k.src = "y" THEN b ELSE Source(s, c, gpio, k.src)
  BY <1>2, SourcePut
<1>4. \A s : (i.src = "x" => Source(s, c, gpio, i.src) = s.x) /\ (i.src = "y" => Source(s, c, gpio, i.src) = s.y)
  BY DEF Source
<1>5. /\ i.src = "x" => k.src = "y"
      /\ i.src = "y" => k.src = "x"
      /\ i.src \notin {"x", "y"} => k.src = i.src
  BY <1>1 DEF SwapName
<1>6. \A s \in {m, PushIsr(m, c)} : Source(Put(s, a, b), c, gpio, k.src) = Source(s, c, gpio, i.src)
  BY <1>2, <1>3, <1>4, <1>5
<1>7. In(Put(m, a, b), c, gpio, k) = Put(In(m, c, gpio, i), a, b)
  BY <1>1, <1>6, InPut
<1> QED BY <1>7 DEF a, b, k

\* The mirror image of OUT.
LEMMA MirrorOut ==
    ASSUME NEW c \in Config, NEW m \in Machine, NEW i \in Do, NEW word, i.op = "out"
    PROVE  Out(Put(m, m.y, m.x), c, Mirror(i), word) = Swapped(Out(m, c, i, word))
<1> DEFINE a == m.y
           b == m.x
           k == Mirror(i)
           n == Put(m, a, b)
<1>1. k \in Do /\ k.op = "out" /\ k.n = i.n /\ k.dst = SwapName(i.dst) /\ a \in Word /\ b \in Word /\ n \in Machine /\ DOMAIN m = MachineFields
  BY MirrorInstr, PutIs, FieldsOf DEF Machine
<1>2. a = m.y /\ b = m.x
  OBVIOUS
<1> HIDE DEF a, b, k
<1>3. /\ Refills(n, c) = Refills(m, c)
      /\ Shifted(n, c, k, word) = Put(Shifted(m, c, i, word), a, b)
      /\ ShiftedOut(n, c, k, word) = ShiftedOut(m, c, i, word)
      /\ DOMAIN Shifted(m, c, i, word) = MachineFields
      /\ Shifted(m, c, i, word).x = m.x /\ Shifted(m, c, i, word).y = m.y
  BY <1>1, ShiftedPut
<1>4. CASE Refills(m, c) /\ word = NoWord
  <2>1. Out(m, c, i, word) = StallOn(m, "pull")
    BY <1>4, OutIs
  <2>2. Out(n, c, k, word) = StallOn(n, "pull")
    BY <1>1, <1>3, <1>4, OutIs
  <2>3. StallOn(n, "pull") = Swapped(StallOn(m, "pull"))
    BY <1>1, <1>2 DEF StallOn, Put, Swapped, MachineFields
  <2> QED BY <2>1, <2>2, <2>3 DEF k, a, b
<1>5. CASE ~(Refills(m, c) /\ word = NoWord)
  <2> DEFINE s == Shifted(m, c, i, word)
             v == ShiftedOut(m, c, i, word)
             pins == Smaller(c.out_count, i.n)
             amount == i.n
  <2>1. Out(m, c, i, word) = Store(s, c, i.dst, v, pins, amount)
    BY <1>5, OutIs
  <2>2. Out(n, c, k, word) = Store(Put(s, a, b), c, SwapName(i.dst), v, pins, amount)
    <3>1. Out(n, c, k, word) = Store(Shifted(n, c, k, word), c, k.dst, ShiftedOut(n, c, k, word), Smaller(c.out_count, k.n), k.n)
      BY <1>1, <1>3, <1>5, OutIs
    <3> QED BY <1>1, <1>3, <3>1
  <2>3. DOMAIN s = MachineFields /\ a = s.y /\ b = s.x
    BY <1>2, <1>3
  <2> HIDE DEF s, v, pins, amount
  <2>4. Store(Put(s, s.y, s.x), c, SwapName(i.dst), v, pins, amount) = Swapped(Store(s, c, i.dst, v, pins, amount))
    BY <2>3, StoreSwapped
  <2> QED BY <2>1, <2>2, <2>3, <2>4 DEF k, a, b
<1> QED BY <1>4, <1>5

\* The mirror image of MOV.
LEMMA MirrorMov ==
    ASSUME NEW c \in Config, NEW m \in Machine, NEW gpio, NEW i \in Do, i.op = "mov"
    PROVE  Mov(Put(m, m.y, m.x), c, gpio, Mirror(i)) = Swapped(Mov(m, c, gpio, i))
<1> DEFINE f(v) == CASE i.how = "invert" -> Flip(v) [] i.how = "reverse" -> Reverse(v) [] OTHER -> v
           a == m.y
           b == m.x
           k == Mirror(i)
           v == Source(m, c, gpio, i.src)
<1>1. k \in Do /\ k.op = "mov" /\ k.how = i.how /\ k.src = SwapName(i.src) /\ k.dst = SwapName(i.dst) /\ DOMAIN m = MachineFields
  BY MirrorInstr, FieldsOf
<1> HIDE DEF k
<1>2. Source(Put(m, a, b), c, gpio, k.src) = v
  <2>1. Source(Put(m, a, b), c, gpio, k.src) =
          IF k.src = "x" THEN a ELSE IF k.src = "y" THEN b ELSE Source(m, c, gpio, k.src)
    BY <1>1, SourcePut
  <2>2. (i.src = "x" => v = m.x) /\ (i.src = "y" => v = m.y)
    BY DEF Source
  <2>3. /\ i.src = "x" => k.src = "y"
        /\ i.src = "y" => k.src = "x"
        /\ i.src \notin {"x", "y"} => k.src = i.src
    BY <1>1 DEF SwapName
  <2> QED BY <2>1, <2>2, <2>3
<1>3. Mov(m, c, gpio, i) = Store(m, c, i.dst, f(v), c.out_count, 0)
  BY DEF Mov
<1>4. Mov(Put(m, a, b), c, gpio, k) = Store(Put(m, a, b), c, SwapName(i.dst), f(v), c.out_count, 0)
  <2>1. Mov(Put(m, a, b), c, gpio, k) = Store(Put(m, a, b), c, k.dst, f(Source(Put(m, a, b), c, gpio, k.src)), c.out_count, 0)
    BY <1>1 DEF Mov
  <2> HIDE DEF f, v
  <2> QED BY <1>1, <1>2, <2>1
<1> DEFINE w == f(v)
           none == 0
<1> HIDE DEF w, none
<1>5. Store(Put(m, m.y, m.x), c, SwapName(i.dst), w, c.out_count, none) = Swapped(Store(m, c, i.dst, w, c.out_count, none))
  BY <1>1, StoreSwapped
<1> QED BY <1>3, <1>4, <1>5 DEF w, none, k

\* The mirror image of SET.
LEMMA MirrorSet ==
    ASSUME NEW c \in Config, NEW m \in Machine, NEW i \in Do, i.op = "set"
    PROVE  Set(Put(m, m.y, m.x), c, Mirror(i)) = Swapped(Set(m, c, i))
<1> DEFINE k == Mirror(i)
<1>1. k.dst = SwapName(i.dst) /\ k.data = i.data /\ i.dst \in {"pins", "x", "y", "pindirs", "null"}
  BY MirrorInstr DEF Do
<1> HIDE DEF k
<1>2. CASE i.dst = "x"
  <2>1. k.dst = "y"
    BY <1>1, <1>2 DEF SwapName
  <2> QED BY <1>1, <1>2, <2>1 DEF Set, Put, Swapped, Machine, k
<1>3. CASE i.dst = "y"
  <2>1. k.dst = "x"
    BY <1>1, <1>3 DEF SwapName
  <2> QED BY <1>1, <1>3, <2>1 DEF Set, Put, Swapped, Machine, k
<1>4. CASE i.dst \in {"pins", "pindirs", "null"}
  <2>1. k.dst = i.dst
    BY <1>1, <1>4 DEF SwapName
  <2>2. Set(Put(m, m.y, m.x), c, k) = Swapped(Set(m, c, i))
    BY <1>1, <1>4, <2>1 DEF Set, Put, Swapped, Machine
  <2> QED BY <2>2 DEF k
<1> QED BY <1>1, <1>2, <1>3, <1>4

\* The mirror image of an instruction does the same with the names of the registers exchanged, unless PULL copies
\* the physical X and that makes a difference.
THEOREM MirrorIsExact ==
    ASSUME NEW c \in Config, NEW m \in MachineOf(c), NEW gpio \in Word, NEW i \in Do, NEW word \in Word \cup {NoWord},
           m.stall = NotStalled, ReadsPhysicalX(m, c, i, word) => m.x = m.y
    PROVE  /\ ExecOp(Swapped(m), c, gpio, Mirror(i), word) = Swapped(ExecOp(m, c, gpio, i, word))
           /\ SetsPc(Swapped(m), c, gpio, Mirror(i)) <=> SetsPc(m, c, gpio, i)
           /\ Pops(Swapped(m), c, Mirror(i), word) <=> Pops(m, c, i, word)
<1> DEFINE n == Put(m, m.y, m.x)
           k == Mirror(i)
           s == ExecOp(m, c, gpio, i, word)
<1>0. m \in Machine /\ DOMAIN m = MachineFields /\ m.x \in Word /\ m.y \in Word
  BY FieldsOf DEF MachineOf, Machine
<1>1. Swapped(m) = n
  BY <1>0 DEF Swapped, Put
<1>k. k \in Do /\ k.op = i.op
  BY MirrorInstr
<1>2. Pops(n, c, k, word) <=> Pops(m, c, i, word)
  <2>1. Refills(n, c) = Refills(m, c) /\ Held(n, c, i) = Held(m, c, i)
    BY <1>0 DEF Refills, Held, Put, MachineFields
  <2>2. i.op = "pull" => k = i
    BY MirrorInstr
  <2> HIDE DEF n, k
  <2> QED BY <1>k, <2>1, <2>2 DEF Pops
<1>3. SetsPc(n, c, gpio, k) <=> SetsPc(m, c, gpio, i)
  <2>1. i.op = "jmp" => (Taken(n, c, gpio, k) <=> Taken(m, c, gpio, i))
    BY <1>0, MirrorJmp
  <2>2. i.op \in {"out", "mov"} => k.dst = SwapName(i.dst)
    BY MirrorInstr
  <2> HIDE DEF n, k
  <2>3. i.op \in {"out", "mov"} => (k.dst = "pc" <=> i.dst = "pc")
    BY <2>2 DEF SwapName
  <2> QED BY <1>k, <2>1, <2>3 DEF SetsPc
<1>4. ASSUME Writes(i) = "none"
      PROVE  Put(s, m.y, m.x) = Swapped(s)
  <2>1. s.x = m.x /\ s.y = m.y
    BY <1>4, RegistersKept
  <2> QED BY <2>1 DEF Put, Swapped
<1>5. CASE i.op = "jmp"
  <2>1. ExecOp(n, c, gpio, k, word) = Jmp(n, c, gpio, k) /\ s = Jmp(m, c, gpio, i)
    BY <1>5, <1>k, ExecOpIs
  <2>2. Jmp(n, c, gpio, k) = Swapped(Jmp(m, c, gpio, i))
    BY <1>0, <1>5, MirrorJmp
  <2> QED BY <1>1, <1>2, <1>3, <2>1, <2>2
<1>6. CASE i.op = "in"
  <2>1. ExecOp(n, c, gpio, k, word) = In(n, c, gpio, k) /\ s = In(m, c, gpio, i)
    BY <1>6, <1>k, ExecOpIs
  <2>2. In(n, c, gpio, k) = Put(In(m, c, gpio, i), m.y, m.x)
    BY <1>0, <1>6, MirrorIn
  <2>3. Put(s, m.y, m.x) = Swapped(s)
    BY <1>4, <1>6 DEF Writes
  <2> QED BY <1>1, <1>2, <1>3, <2>1, <2>2, <2>3
<1>7. CASE i.op = "out"
  <2>1. ExecOp(n, c, gpio, k, word) = Out(n, c, k, word) /\ s = Out(m, c, i, word)
    BY <1>7, <1>k, ExecOpIs
  <2>2. Out(n, c, k, word) = Swapped(Out(m, c, i, word))
    BY <1>0, <1>7, MirrorOut
  <2> QED BY <1>1, <1>2, <1>3, <2>1, <2>2
<1>8. CASE i.op = "mov"
  <2>1. ExecOp(n, c, gpio, k, word) = Mov(n, c, gpio, k) /\ s = Mov(m, c, gpio, i)
    BY <1>8, <1>k, ExecOpIs
  <2>2. Mov(n, c, gpio, k) = Swapped(Mov(m, c, gpio, i))
    BY <1>0, <1>8, MirrorMov
  <2> QED BY <1>1, <1>2, <1>3, <2>1, <2>2
<1>9. CASE i.op = "set"
  <2>1. ExecOp(n, c, gpio, k, word) = Set(n, c, k) /\ s = Set(m, c, i)
    BY <1>9, <1>k, ExecOpIs
  <2>2. Set(n, c, k) = Swapped(Set(m, c, i))
    BY <1>0, <1>9, MirrorSet
  <2> QED BY <1>1, <1>2, <1>3, <2>1, <2>2
<1>10. CASE i.op \in {"wait", "push", "irq", "pull"}
  <2>1. k = i
    BY <1>10, MirrorInstr
  <2>2. Writes(i) = "none"
    BY <1>10 DEF Writes
  <2>3. Put(s, m.y, m.x) = Swapped(s)
    BY <1>4, <2>2
  <2>4. ExecOp(n, c, gpio, i, word) = Put(s, m.y, m.x)
    <3>1. /\ Wait(n, c, gpio, i) = Put(Wait(m, c, gpio, i), m.y, m.x)
          /\ Push(n, c, i) = Put(Push(m, c, i), m.y, m.x)
          /\ Irq(n, c, i) = Put(Irq(m, c, i), m.y, m.x)
      BY <1>0, OtherPut
    <3>2. i.op = "pull" => Pull(n, c, i, word) = Put(Pull(m, c, i, word), m.y, m.x)
      BY <1>0, OtherPut
    <3> HIDE DEF n
    <3>3. CASE i.op = "wait"
      BY <3>1, <3>3, ExecOpIs
    <3>4. CASE i.op = "push"
      BY <3>1, <3>4, ExecOpIs
    <3>5. CASE i.op = "irq"
      BY <3>1, <3>5, ExecOpIs
    <3>6. CASE i.op = "pull"
      BY <3>2, <3>6, ExecOpIs
    <3> QED BY <1>10, <3>3, <3>4, <3>5, <3>6
  <2> QED BY <1>1, <1>2, <1>3, <2>1, <2>3, <2>4
<1>11. i.op \in {"jmp", "wait", "in", "out", "push", "pull", "mov", "irq", "set"}
  BY DEF Do
<1> QED BY <1>5, <1>6, <1>7, <1>8, <1>9, <1>10, <1>11

(***************************************************************************)
(* An instruction with its side-set, and the program counter after it.     *)
(***************************************************************************)
Readied(m) == [m EXCEPT !.pending_exec = NoWord, !.stall = NotStalled]
Effect(m, c, gpio, word, i) ==
    LET s == SideSet(ExecOp(Readied(m), c, gpio, i.do, word), c, i.side)
    IN  IF s.stall = NotStalled /\ ~Forced(m) /\ ~SetsPc(m, c, gpio, i.do) THEN AdvancePc(s, c) ELSE s

\* The code of a configuration matters for the fetch only.
LEMMA ExecuteIs ==
    ASSUME NEW c \in Config, NEW code, NEW m \in Machine, NEW gpio, NEW word,
           Fetch(m, [c EXCEPT !.code = code]).do \in Do
    PROVE  Execute(m, [c EXCEPT !.code = code], gpio, word) =
             Effect(m, c, gpio, word, Fetch(m, [c EXCEPT !.code = code]))
<1> DEFINE d == [c EXCEPT !.code = code]
           i == Fetch(m, d)
           r == Readied(m)
           s(k) == SideSet(ExecOp(r, k, gpio, i.do, word), k, i.side)
           op == i.do
           t == ExecOp(r, c, gpio, op, word)
<1>1. r \in Machine
  BY DEF Readied, Machine, Stalls
<1>2. Execute(m, d, gpio, word) =
        IF s(d).stall = NotStalled /\ ~Forced(m) /\ ~SetsPc(m, d, gpio, i.do) THEN AdvancePc(s(d), d) ELSE s(d)
  BY DEF Execute, Readied
<1>3. op \in Do
  OBVIOUS
<1> HIDE DEF op, r
<1>4. ExecOp(r, d, gpio, op, word) = t /\ SetsPc(m, d, gpio, op) = SetsPc(m, c, gpio, op)
  BY <1>1, <1>3, CodeBlind
<1>5. \A u, side : SideSet(u, d, side) = SideSet(u, c, side) /\ AdvancePc(u, d) = AdvancePc(u, c)
  <2>1. /\ d.side_pindir = c.side_pindir /\ d.sideset_base = c.sideset_base /\ d.side_bits = c.side_bits
        /\ d.wrap_top = c.wrap_top /\ d.wrap_bottom = c.wrap_bottom
    BY DEF Config
  <2> HIDE DEF d
  <2> QED BY <2>1 DEF SideSet, AdvancePc
<1> HIDE DEF d, i
<1>6. s(d) = s(c)
  BY <1>4, <1>5 DEF op
<1> HIDE DEF s
<1>7. Execute(m, d, gpio, word) =
        IF s(c).stall = NotStalled /\ ~Forced(m) /\ ~SetsPc(m, c, gpio, op) THEN AdvancePc(s(c), c) ELSE s(c)
  BY <1>2, <1>4, <1>5, <1>6 DEF op
<1> QED BY <1>7 DEF Effect, s, op, i, d, r

\* What side-set leaves alone, and the advance of the program counter.
LEMMA SideSetKeeps ==
    ASSUME NEW c, NEW s, DOMAIN s = MachineFields, NEW side
    PROVE  /\ DOMAIN SideSet(s, c, side) = MachineFields
           /\ SideSet(s, c, side).x = s.x /\ SideSet(s, c, side).y = s.y /\ SideSet(s, c, side).stall = s.stall
BY DEF SideSet, MachineFields

\* Advancing the program counter changes nothing else.
LEMMA AdvanceKeeps ==
    ASSUME NEW c, NEW s, DOMAIN s = MachineFields
    PROVE  /\ DOMAIN AdvancePc(s, c) = MachineFields
           /\ AdvancePc(s, c).x = s.x /\ AdvancePc(s, c).y = s.y /\ AdvancePc(s, c).stall = s.stall
BY DEF AdvancePc, MachineFields

\* What a machine is when the instruction executes.
LEMMA ReadiedIs ==
    ASSUME NEW c \in Config, NEW m \in MachineOf(c)
    PROVE  /\ Readied(m) \in MachineOf(c) /\ Readied(m) \in Machine /\ DOMAIN m = MachineFields /\ DOMAIN Readied(m) = MachineFields
           /\ Readied(m).stall = NotStalled /\ Readied(m).pending_exec = NoWord
           /\ Readied(m).x = m.x /\ Readied(m).y = m.y
           /\ \A f \in MachineFields \ {"stall", "pending_exec"} : Readied(m)[f] = m[f]
           /\ \A a, b : Readied(Put(m, a, b)) = Put(Readied(m), a, b) /\ Forced(Put(m, a, b)) = Forced(m)
           /\ \A gpio, i : SetsPc(Readied(m), c, gpio, i) = SetsPc(m, c, gpio, i)
           /\ \A i, word : Pops(Readied(m), c, i, word) = Pops(m, c, i, word)
           /\ \A i, word : ReadsPhysicalX(Readied(m), c, i, word) = ReadsPhysicalX(m, c, i, word)
           /\ \A i, r, word : NeedsValue(i, r, Readied(m), c, word) = NeedsValue(i, r, m, c, word)
<1>1. m \in Machine
  BY DEF MachineOf
<1>2. Readied(m) \in Machine /\ Readied(m).rx = m.rx
  BY <1>1 DEF Readied, Machine, Stalls
<1>3. Readied(m) \in MachineOf(c)
  BY <1>2, SameRx
<1>4. DOMAIN m = MachineFields /\ DOMAIN Readied(m) = MachineFields
  BY <1>1, <1>2, FieldsOf
<1>5. /\ Readied(m).stall = NotStalled /\ Readied(m).pending_exec = NoWord
      /\ \A f \in MachineFields \ {"stall", "pending_exec"} : Readied(m)[f] = m[f]
  BY <1>4 DEF Readied, MachineFields
<1>6. \A a, b : Readied(Put(m, a, b)) = Put(Readied(m), a, b) /\ Forced(Put(m, a, b)) = Forced(m)
  BY <1>4 DEF Readied, Put, Forced, MachineFields
<1>7. Readied(m).x = m.x /\ Readied(m).y = m.y /\ Readied(m).osr_count = m.osr_count
  BY <1>5 DEF MachineFields
<1>8. \A i : Held(Readied(m), c, i) = Held(m, c, i) /\ Refills(Readied(m), c) = Refills(m, c)
  BY <1>7 DEF Held, Refills
<1>9. \A gpio, i : SetsPc(Readied(m), c, gpio, i) = SetsPc(m, c, gpio, i)
  BY <1>7 DEF SetsPc, Taken
<1>10. \A i, word : Pops(Readied(m), c, i, word) = Pops(m, c, i, word)
  BY <1>8 DEF Pops
<1>11. \A i, word : ReadsPhysicalX(Readied(m), c, i, word) = ReadsPhysicalX(m, c, i, word)
  BY <1>8 DEF ReadsPhysicalX
<1>12. \A i, r, word : NeedsValue(i, r, Readied(m), c, word) = NeedsValue(i, r, m, c, word)
  BY <1>11 DEF NeedsValue
<1> QED BY <1>2, <1>3, <1>4, <1>5, <1>6, <1>7, <1>9, <1>10, <1>11, <1>12

\* Executing on a machine with other scratch registers.
LEMMA BlindEffect ==
    ASSUME NEW c \in Config, NEW m \in MachineOf(c), NEW a \in Word, NEW b \in Word, NEW gpio \in Word,
           NEW i \in Insn, NEW word \in Word \cup {NoWord},
           NeedsValue(i.do, "x", m, c, word) => a = m.x, NeedsValue(i.do, "y", m, c, word) => b = m.y
    PROVE  /\ Effect(Put(m, a, b), c, gpio, word, i) = Carrying(i.do, Effect(m, c, gpio, word, i), a, b)
           /\ Pops(Put(m, a, b), c, i.do, word) <=> Pops(m, c, i.do, word)
           /\ DOMAIN Effect(m, c, gpio, word, i) = MachineFields
<1> DEFINE n == Put(m, a, b)
           r == Readied(m)
           op == i.do
           side == i.side
           t == ExecOp(r, c, gpio, op, word)
           s == SideSet(t, c, side)
           e == Effect(m, c, gpio, word, i)
<1>0. op \in Do /\ r \in MachineOf(c) /\ r \in Machine /\ r.stall = NotStalled /\ m \in Machine
  BY ReadiedIs DEF Insn, MachineOf
<1>1. Readied(n) = Put(r, a, b) /\ (Forced(n) <=> Forced(m))
  BY ReadiedIs
<1>2. (NeedsValue(op, "x", r, c, word) => a = r.x) /\ (NeedsValue(op, "y", r, c, word) => b = r.y)
  BY ReadiedIs
<1> HIDE DEF op, r
<1>3. /\ ExecOp(Put(r, a, b), c, gpio, op, word) = Carrying(op, t, a, b)
      /\ SetsPc(Put(r, a, b), c, gpio, op) <=> SetsPc(r, c, gpio, op)
      /\ Pops(Put(r, a, b), c, op, word) <=> Pops(r, c, op, word)
  BY <1>0, <1>2, RegistersPass
<1>4. n \in MachineOf(c)
  <2>1. n \in Machine
    BY <1>0, PutIs
  <2>2. n.rx = m.rx
    BY <1>0 DEF Put, Machine
  <2> QED BY <2>1, <2>2, SameRx
<1>5. /\ SetsPc(n, c, gpio, op) <=> SetsPc(m, c, gpio, op)
      /\ Pops(n, c, op, word) <=> Pops(m, c, op, word)
  <2>1. SetsPc(Readied(n), c, gpio, op) = SetsPc(n, c, gpio, op) /\ Pops(Readied(n), c, op, word) = Pops(n, c, op, word)
    <3> HIDE DEF n
    <3> QED BY <1>4, ReadiedIs
  <2>2. SetsPc(r, c, gpio, op) = SetsPc(m, c, gpio, op) /\ Pops(r, c, op, word) = Pops(m, c, op, word)
    BY ReadiedIs DEF r
  <2>3. SetsPc(Readied(n), c, gpio, op) = SetsPc(Put(r, a, b), c, gpio, op) /\ Pops(Readied(n), c, op, word) = Pops(Put(r, a, b), c, op, word)
    <3> HIDE DEF n
    <3> QED BY <1>1
  <2> HIDE DEF n
  <2> QED BY Zenon, <1>3, <2>1, <2>2, <2>3
<1>6. DOMAIN t = MachineFields
  <2>1. t \in Machine
    BY <1>0, ExecOpType DEF MachineOf
  <2> QED BY <2>1, FieldsOf
<1> DEFINE u == Carried(op, t, a, b, "x")
           v == Carried(op, t, a, b, "y")
<1>7. Carrying(op, t, a, b) = Put(t, u, v)
  BY DEF Carrying
<1> HIDE DEF t, u, v
<1>8. DOMAIN s = MachineFields /\ s.x = t.x /\ s.y = t.y /\ s.stall = t.stall
  <2> HIDE DEF side
  <2> QED BY <1>6, SideSetKeeps
<1>9. SideSet(Put(t, u, v), c, side) = Put(s, u, v)
  BY <1>6, AroundPut
<1> HIDE DEF s, n, side
<1>10. Put(s, u, v).stall = s.stall
  BY <1>8 DEF Put, MachineFields
<1>11. AdvancePc(Put(s, u, v), c) = Put(AdvancePc(s, c), u, v)
  BY <1>8, AroundPut
<1>12. e = IF s.stall = NotStalled /\ ~Forced(m) /\ ~SetsPc(m, c, gpio, op) THEN AdvancePc(s, c) ELSE s
  BY DEF Effect, s, t, r, op, side
<1>13. Effect(n, c, gpio, word, i) =
         IF Put(s, u, v).stall = NotStalled /\ ~Forced(n) /\ ~SetsPc(n, c, gpio, op) THEN AdvancePc(Put(s, u, v), c) ELSE Put(s, u, v)
  <2>1. SideSet(ExecOp(Readied(n), c, gpio, i.do, word), c, i.side) = Put(s, u, v)
    BY <1>1, <1>3, <1>7, <1>9 DEF op, side
  <2> QED BY <2>1 DEF Effect, op
<1>14. Effect(n, c, gpio, word, i) = Put(e, u, v)
  BY <1>1, <1>5, <1>10, <1>11, <1>12, <1>13
<1>15. DOMAIN e = MachineFields /\ e.x = t.x /\ e.y = t.y /\ e.stall = t.stall
  BY <1>8, <1>12, AdvanceKeeps
<1> HIDE DEF e
<1>16. u = Carried(op, e, a, b, "x") /\ v = Carried(op, e, a, b, "y")
  BY <1>15 DEF u, v, Carried
<1>17. Effect(n, c, gpio, word, i) = Carrying(op, e, a, b)
  BY <1>14, <1>16 DEF Carrying
<1> QED BY <1>5, <1>15, <1>17 DEF e, op, n

\* Exchanging the registers commutes with what precedes and follows the instruction.
LEMMA SwappedIs ==
    ASSUME NEW c \in Config, NEW m \in MachineOf(c)
    PROVE  /\ Swapped(m) \in MachineOf(c) /\ Swapped(m) = Put(m, m.y, m.x) /\ m.x \in Word /\ m.y \in Word
           /\ Readied(Swapped(m)) = Swapped(Readied(m)) /\ Forced(Swapped(m)) = Forced(m)
           /\ Swapped(m).x = m.y /\ Swapped(m).y = m.x
           /\ \A f \in MachineFields \ {"x", "y"} : Swapped(m)[f] = m[f]
<1>1. m \in Machine
  BY DEF MachineOf
<1>2. Swapped(m) \in Machine /\ Swapped(m).rx = m.rx /\ m.x \in Word /\ m.y \in Word
  BY <1>1 DEF Swapped, Machine
<1>3. DOMAIN m = MachineFields
  BY <1>1, FieldsOf
<1>4. Swapped(m) \in MachineOf(c)
  BY <1>2, SameRx
<1>5. Swapped(m) = Put(m, m.y, m.x)
  BY DEF Swapped, Put
<1>6. Readied(Swapped(m)) = Swapped(Readied(m)) /\ Forced(Swapped(m)) = Forced(m)
  BY <1>3 DEF Readied, Swapped, Forced, MachineFields
<1>7. /\ Swapped(m).x = m.y /\ Swapped(m).y = m.x
      /\ \A f \in MachineFields \ {"x", "y"} : Swapped(m)[f] = m[f]
  BY <1>3 DEF Swapped, MachineFields
<1> QED BY <1>2, <1>4, <1>5, <1>6, <1>7

\* The mirror image of an instruction with its side-set, on the machine with its registers exchanged.
LEMMA MirrorEffect ==
    ASSUME NEW c \in Config, NEW m \in MachineOf(c), NEW gpio \in Word, NEW i \in Insn, NEW k, NEW word \in Word \cup {NoWord},
           k.do = Mirror(i.do), k.side = i.side,
           ReadsPhysicalX(m, c, i.do, word) => m.x = m.y
    PROVE  /\ Effect(Swapped(m), c, gpio, word, k) = Swapped(Effect(m, c, gpio, word, i))
           /\ Pops(Swapped(m), c, k.do, word) <=> Pops(m, c, i.do, word)
<1> DEFINE r == Readied(m)
           op == i.do
           side == i.side
           t == ExecOp(r, c, gpio, op, word)
           s == SideSet(t, c, side)
<1>0. op \in Do /\ r \in MachineOf(c) /\ r.stall = NotStalled /\ (ReadsPhysicalX(r, c, op, word) => r.x = r.y)
  BY ReadiedIs DEF Insn
<1>1. Readied(Swapped(m)) = Swapped(r) /\ Forced(Swapped(m)) = Forced(m) /\ Swapped(m) \in MachineOf(c)
  BY SwappedIs
<1> HIDE DEF op, r, side
<1>2. /\ ExecOp(Swapped(r), c, gpio, Mirror(op), word) = Swapped(t)
      /\ SetsPc(Swapped(r), c, gpio, Mirror(op)) <=> SetsPc(r, c, gpio, op)
      /\ Pops(Swapped(r), c, Mirror(op), word) <=> Pops(r, c, op, word)
  BY <1>0, MirrorIsExact
<1>3. /\ SetsPc(Swapped(m), c, gpio, Mirror(op)) <=> SetsPc(m, c, gpio, op)
      /\ Pops(Swapped(m), c, Mirror(op), word) <=> Pops(m, c, op, word)
  <2>1. /\ SetsPc(Readied(Swapped(m)), c, gpio, Mirror(op)) = SetsPc(Swapped(m), c, gpio, Mirror(op))
        /\ Pops(Readied(Swapped(m)), c, Mirror(op), word) = Pops(Swapped(m), c, Mirror(op), word)
    BY <1>1, ReadiedIs
  <2>2. SetsPc(r, c, gpio, op) = SetsPc(m, c, gpio, op) /\ Pops(r, c, op, word) = Pops(m, c, op, word)
    BY ReadiedIs DEF r
  <2>3. /\ SetsPc(Swapped(r), c, gpio, Mirror(op)) = SetsPc(Swapped(m), c, gpio, Mirror(op))
        /\ Pops(Swapped(r), c, Mirror(op), word) = Pops(Swapped(m), c, Mirror(op), word)
    BY <1>1, <2>1
  <2> QED BY <1>2, <2>2, <2>3
<1>4. t \in Machine /\ DOMAIN t = MachineFields
  <2>1. t \in Machine
    BY <1>0, ExecOpType DEF MachineOf
  <2> QED BY <2>1, FieldsOf
<1> HIDE DEF t
<1>5. DOMAIN s = MachineFields /\ s.x = t.x /\ s.y = t.y /\ s.stall = t.stall
  BY <1>4, SideSetKeeps
<1>6. SideSet(Swapped(t), c, side) = Swapped(s)
  <2>1. SideSet(Put(t, t.y, t.x), c, side) = Put(s, t.y, t.x)
    BY <1>4, AroundPut
  <2> QED BY <1>5, <2>1 DEF Swapped, Put
<1> HIDE DEF s
<1>7. Swapped(s).stall = s.stall
  BY <1>5 DEF Swapped, MachineFields
<1>8. AdvancePc(Swapped(s), c) = Swapped(AdvancePc(s, c))
  <2>1. AdvancePc(Put(s, s.y, s.x), c) = Put(AdvancePc(s, c), s.y, s.x)
    BY <1>5, AroundPut
  <2>2. AdvancePc(s, c).x = s.x /\ AdvancePc(s, c).y = s.y
    BY <1>5, AdvanceKeeps
  <2> QED BY <2>1, <2>2 DEF Swapped, Put
<1>9. Effect(m, c, gpio, word, i) = IF s.stall = NotStalled /\ ~Forced(m) /\ ~SetsPc(m, c, gpio, op) THEN AdvancePc(s, c) ELSE s
  BY DEF Effect, s, t, r, op, side
<1>10. SideSet(ExecOp(Readied(Swapped(m)), c, gpio, k.do, word), c, k.side) = Swapped(s)
  BY <1>1, <1>2, <1>6 DEF op, side
<1>11. Effect(Swapped(m), c, gpio, word, k) =
         IF Swapped(s).stall = NotStalled /\ ~Forced(m) /\ ~SetsPc(m, c, gpio, op) THEN AdvancePc(Swapped(s), c) ELSE Swapped(s)
  BY <1>1, <1>3, <1>10 DEF Effect, op
<1> QED BY <1>3, <1>7, <1>8, <1>9, <1>11 DEF op

\* Two instructions that do the same here, with side-sets that do.
LEMMA SameEffect ==
    ASSUME NEW c, NEW m, NEW gpio, NEW i, NEW j, NEW word,
           ExecOp(Readied(m), c, gpio, j.do, word) = ExecOp(Readied(m), c, gpio, i.do, word),
           SetsPc(m, c, gpio, j.do) <=> SetsPc(m, c, gpio, i.do),
           SideSet(ExecOp(Readied(m), c, gpio, i.do, word), c, j.side) = SideSet(ExecOp(Readied(m), c, gpio, i.do, word), c, i.side)
    PROVE  Effect(m, c, gpio, word, j) = Effect(m, c, gpio, word, i)
BY DEF Effect

\* SET to a register, with another value.
LEMMA SetEffect ==
    ASSUME NEW c \in Config, NEW m \in MachineOf(c), NEW gpio \in Word, NEW i \in Insn, NEW j \in Insn,
           NEW word \in Word \cup {NoWord}, i.do.op = "set", i.do.dst \in {"x", "y"},
           j.do.op = "set", j.do.dst = i.do.dst, j.side = i.side
    PROVE  Effect(m, c, gpio, word, j) =
             Put(Effect(m, c, gpio, word, i), IF i.do.dst = "x" THEN j.do.data ELSE m.x, IF i.do.dst = "y" THEN j.do.data ELSE m.y)
<1> DEFINE r == Readied(m)
           side == i.side
           p == IF i.do.dst = "x" THEN j.do.data ELSE m.x
           q == IF i.do.dst = "y" THEN j.do.data ELSE m.y
           t == ExecOp(r, c, gpio, i.do, word)
           s == SideSet(t, c, side)
<1>0. DOMAIN r = MachineFields /\ r.x = m.x /\ r.y = m.y
  BY ReadiedIs
<1> HIDE DEF r
<1>1. t = Set(r, c, i.do) /\ ExecOp(r, c, gpio, j.do, word) = Set(r, c, j.do)
  <2> DEFINE a == i.do
             b == j.do
  <2>1. a.op = "set" /\ b.op = "set"
    OBVIOUS
  <2> HIDE DEF a, b
  <2>2. ExecOp(r, c, gpio, a, word) = Set(r, c, a) /\ ExecOp(r, c, gpio, b, word) = Set(r, c, b)
    BY <2>1, ExecOpIs
  <2> QED BY <2>2 DEF a, b
<1>2. DOMAIN t = MachineFields /\ Set(r, c, j.do) = Put(t, p, q)
  <2>1. CASE i.do.dst = "x"
    BY <1>0, <1>1, <2>1 DEF Set, Put, MachineFields
  <2>2. CASE i.do.dst = "y"
    BY <1>0, <1>1, <2>2 DEF Set, Put, MachineFields
  <2> QED BY <2>1, <2>2
<1>3. SetsPc(m, c, gpio, i.do) = FALSE /\ SetsPc(m, c, gpio, j.do) = FALSE
  BY DEF SetsPc
<1> HIDE DEF t, p, q, side
<1>4. DOMAIN s = MachineFields
  BY <1>2, SideSetKeeps
<1>5. SideSet(Put(t, p, q), c, side) = Put(s, p, q)
  BY <1>2, AroundPut
<1> HIDE DEF s
<1>6. Put(s, p, q).stall = s.stall
  BY <1>4 DEF Put, MachineFields
<1>7. AdvancePc(Put(s, p, q), c) = Put(AdvancePc(s, c), p, q)
  BY <1>4, AroundPut
<1>8. Effect(m, c, gpio, word, i) = IF s.stall = NotStalled /\ ~Forced(m) THEN AdvancePc(s, c) ELSE s
  BY <1>3 DEF Effect, s, t, r, side
<1>9. SideSet(ExecOp(Readied(m), c, gpio, j.do, word), c, j.side) = Put(s, p, q)
  BY <1>1, <1>2, <1>5 DEF r, side
<1>10. Effect(m, c, gpio, word, j) = IF Put(s, p, q).stall = NotStalled /\ ~Forced(m) THEN AdvancePc(Put(s, p, q), c) ELSE Put(s, p, q)
  BY <1>3, <1>9 DEF Effect
<1> QED BY <1>6, <1>7, <1>8, <1>10 DEF p, q

(***************************************************************************)
(* Pins.                                                                   *)
(***************************************************************************)
LEMMA ModIs == \A k \in Bits : k % W = k /\ (k + W) % W = k
<1>1. W \in Nat \ {0}
  BY IsaAssumption
<1>2. ASSUME NEW k \in Bits  PROVE k % W = k /\ (k + W) % W = k
  <2>1. k \in Int /\ 0 <= k /\ k < W
    BY <1>1 DEF Bits
  <2> QED BY <1>1, <2>1
<1> QED BY <1>2

\* A pin that a write reaches is in its window.
LEMMA InWindow ==
    ASSUME NEW p \in Bits, NEW base \in Bits, NEW n \in 0 .. W, (p + W - base) % W < n
    PROVE  p \in Window(base, n)
<1> DEFINE b == (p + W - base) % W
<1>0. W \in Nat \ {0} /\ p \in Int /\ base \in Int /\ 0 <= p /\ p < W /\ 0 <= base /\ base < W
  BY IsaAssumption DEF Bits
<1>1. b \in 0 .. n - 1 /\ (base + b) % W = p
  <2>1. CASE p >= base
    <3>1. p - base \in Bits /\ (p - base) + W = p + W - base
      BY <1>0, <2>1 DEF Bits
    <3>2. b = p - base
      BY <3>1, ModIs
    <3>3. base + b = p
      BY <1>0, <3>2
    <3> HIDE DEF b
    <3>4. b \in Int /\ 0 <= b
      BY <1>0, <2>1, <3>2
    <3> QED BY <1>0, <3>3, <3>4, ModIs DEF b
  <2>2. CASE p < base
    <3>1. p + W - base \in Bits
      BY <1>0, <2>2 DEF Bits
    <3>2. b = p + W - base
      BY <3>1, ModIs
    <3>3. base + b = p + W
      BY <1>0, <3>2
    <3> HIDE DEF b
    <3>4. b \in Int /\ 0 <= b
      BY <1>0, <2>2, <3>2
    <3> QED BY <1>0, <3>3, <3>4, ModIs DEF b
  <2> QED BY <1>0, <2>1, <2>2
<1> QED BY <1>1 DEF Window

\* A write leaves the pins outside its window.
LEMMA WriteKeeps ==
    ASSUME NEW u \in Word, NEW v, NEW base \in Bits, NEW n \in 0 .. W, NEW p \in Bits, p \notin Window(base, n)
    PROVE  WritePins(u, v, base, n)[p] = u[p]
<1>1. ~((p + W - base) % W < n)
  BY InWindow
<1> QED BY <1>1 DEF WritePins

\* Asserting what a latch holds leaves any latch that is the same in the window.
LEMMA WriteAgain ==
    ASSUME NEW u \in Word, NEW t \in Word, NEW v, NEW base \in Bits, NEW n \in 0 .. W,
           WritePins(u, v, base, n) = u, \A p \in Window(base, n) \cap Bits : t[p] = u[p]
    PROVE  WritePins(t, v, base, n) = t
<1> DEFINE at(p) == (p + W - base) % W
<1>1. ASSUME NEW p \in Bits, at(p) < n  PROVE v[at(p)] = t[p]
  <2>1. p \in Window(base, n)
    BY <1>1, InWindow
  <2>2. WritePins(u, v, base, n)[p] = v[at(p)]
    BY <1>1 DEF WritePins
  <2> QED BY <2>1, <2>2
<1>2. WritePins(t, v, base, n) = [p \in Bits |-> IF at(p) < n THEN v[at(p)] ELSE t[p]]
  BY DEF WritePins
<1>3. t = [p \in Bits |-> t[p]]
  BY DEF Word
<1> HIDE DEF at
<1> QED BY <1>1, <1>2, <1>3

\* An instruction writes to the latch of the levels only by OUT, MOV and SET to the pins, in their windows.
LEMMA LatchAfter ==
    ASSUME NEW c \in Config, NEW m \in MachineOf(c), NEW gpio \in Word, NEW i \in Do, NEW word \in Word \cup {NoWord},
           NEW p \in Bits,
           i.op \in {"out", "mov"} /\ i.dst = "pins" => p \notin Window(c.out_base, c.out_count),
           i.op = "set" /\ i.dst = "pins" => p \notin Window(c.set_base, c.set_count)
    PROVE  ExecOp(m, c, gpio, i, word).out_latch[p] = m.out_latch[p]
<1>0. /\ m \in Machine /\ DOMAIN m = MachineFields /\ m.out_latch \in Word
      /\ c.out_base \in Bits /\ c.set_base \in Bits /\ c.out_count \in 0 .. W /\ c.set_count \in 0 .. W
  BY FieldsOf DEF MachineOf, Machine, Config
<1>1. ASSUME NEW s, DOMAIN s = MachineFields, s.out_latch = m.out_latch, i.op \in {"out", "mov"}, NEW v, NEW k \in 0 .. W, NEW n,
             k <= c.out_count
      PROVE  Store(s, c, i.dst, v, k, n).out_latch[p] = m.out_latch[p]
  <2>1. CASE i.dst = "pins"
    <3>1. Store(s, c, i.dst, v, k, n).out_latch = WritePins(m.out_latch, v, c.out_base, k)
      BY <1>1, <2>1 DEF Store, MachineFields
    <3>2. p \notin Window(c.out_base, k)
      <4>1. 0 .. k - 1 \subseteq 0 .. c.out_count - 1
        BY <1>0, <1>1
      <4> QED BY <1>1, <2>1, <4>1 DEF Window
    <3> QED BY <1>0, <3>1, <3>2, WriteKeeps
  <2>2. CASE i.dst # "pins"
    <3>1. Store(s, c, i.dst, v, k, n).out_latch = s.out_latch
      BY <1>1, <2>2 DEF Store, MachineFields
    <3> QED BY <1>1, <3>1
  <2> QED BY <2>1, <2>2
<1>2. CASE i.op = "out"
  <2>1. ExecOp(m, c, gpio, i, word) = Out(m, c, i, word)
    BY <1>2, ExecOpIs
  <2>2. CASE Refills(m, c) /\ word = NoWord
    <3>1. Out(m, c, i, word) = StallOn(m, "pull")
      BY <1>0, <2>2, OutIs
    <3>2. StallOn(m, "pull").out_latch = m.out_latch
      BY <1>0 DEF StallOn, MachineFields
    <3> QED BY <2>1, <3>1, <3>2
  <2>3. CASE ~(Refills(m, c) /\ word = NoWord)
    <3> DEFINE s == Shifted(m, c, i, word)
               v == ShiftedOut(m, c, i, word)
               k == Smaller(c.out_count, i.n)
               n == i.n
    <3>1. Out(m, c, i, word) = Store(s, c, i.dst, v, k, n)
      BY <1>0, <2>3, OutIs
    <3>2. DOMAIN s = MachineFields /\ s.out_latch = m.out_latch
      BY <1>0 DEF Shifted, MachineFields
    <3>3. k \in 0 .. W /\ k <= c.out_count
      <4>1. i.n \in 1 .. W
        BY <1>2 DEF Do
      <4> QED BY <1>0, <4>1, IsaAssumption DEF Smaller
    <3> HIDE DEF s, v, k, n
    <3>4. Store(s, c, i.dst, v, k, n).out_latch[p] = m.out_latch[p]
      BY <1>1, <1>2, <3>2, <3>3
    <3> QED BY <2>1, <3>1, <3>4
  <2> QED BY <2>2, <2>3
<1>3. CASE i.op = "mov"
  <2> DEFINE v == CASE i.how = "invert" -> Flip(Source(m, c, gpio, i.src))
                    [] i.how = "reverse" -> Reverse(Source(m, c, gpio, i.src))
                    [] OTHER -> Source(m, c, gpio, i.src)
             none == 0
             k == c.out_count
  <2>1. ExecOp(m, c, gpio, i, word) = Mov(m, c, gpio, i)
    BY <1>3, ExecOpIs
  <2>2. Mov(m, c, gpio, i) = Store(m, c, i.dst, v, k, none)
    BY DEF Mov
  <2>3. k \in 0 .. W /\ k <= c.out_count
    BY <1>0
  <2> HIDE DEF v, none, k
  <2>4. Store(m, c, i.dst, v, k, none).out_latch[p] = m.out_latch[p]
    BY <1>0, <1>1, <1>3, <2>3
  <2> QED BY <2>1, <2>2, <2>4
<1>4. CASE i.op = "set"
  <2>1. ExecOp(m, c, gpio, i, word) = Set(m, c, i)
    BY <1>4, ExecOpIs
  <2>2. CASE i.dst = "pins"
    <3>1. Set(m, c, i).out_latch = WritePins(m.out_latch, i.data, c.set_base, c.set_count)
      BY <1>0, <2>2 DEF Set, MachineFields
    <3> QED BY <1>0, <1>4, <2>1, <2>2, <3>1, WriteKeeps
  <2>3. CASE i.dst # "pins"
    <3>1. Set(m, c, i).out_latch = m.out_latch
      BY <1>0, <2>3 DEF Set, MachineFields
    <3> QED BY <2>1, <3>1
  <2> QED BY <2>2, <2>3
<1>5. CASE i.op = "in"
  <2>1. PushIsr(m, c).out_latch = m.out_latch /\ StallOn(m, "push").out_latch = m.out_latch /\ DOMAIN PushIsr(m, c) = MachineFields
    BY <1>0 DEF PushIsr, StallOn, MachineFields
  <2>2. \A s : DOMAIN s = MachineFields => PushIsr(s, c).out_latch = s.out_latch
    BY DEF PushIsr, MachineFields
  <2> DEFINE due(s) == c.autopush /\ s.isr_count >= c.push_threshold
             a == IF due(m) THEN PushIsr(m, c) ELSE m
             v == Low(Source(a, c, gpio, i.src), i.n)
             isr == IF c.in_shift_right THEN ShiftRight(a.isr, v, i.n) ELSE ShiftLeft(a.isr, v, i.n)
             count == Smaller(a.isr_count + i.n, W)
             b == [a EXCEPT !.isr = isr, !.isr_count = count]
  <2>3. In(m, c, gpio, i) \in {StallOn(m, "push"), PushIsr(b, c), b}
    BY DEF In
  <2>4. DOMAIN a = MachineFields /\ a.out_latch = m.out_latch
    BY <1>0, <2>1
  <2> HIDE DEF a, isr, count
  <2>5. DOMAIN b = MachineFields /\ b.out_latch = m.out_latch
    BY <2>4 DEF MachineFields
  <2> HIDE DEF b
  <2>6. PushIsr(b, c).out_latch = m.out_latch
    BY <2>2, <2>5
  <2>7. ExecOp(m, c, gpio, i, word) = In(m, c, gpio, i)
    BY <1>5, ExecOpIs
  <2> QED BY <2>1, <2>3, <2>5, <2>6, <2>7
<1>6. CASE i.op = "jmp"
  <2>1. ExecOp(m, c, gpio, i, word) = Jmp(m, c, gpio, i)
    BY <1>6, ExecOpIs
  <2> QED BY <1>0, <2>1 DEF Jmp, MachineFields
<1>7. CASE i.op = "wait"
  <2>1. ExecOp(m, c, gpio, i, word) = Wait(m, c, gpio, i)
    BY <1>7, ExecOpIs
  <2> QED BY <1>0, <2>1 DEF Wait, StallAt, MachineFields
<1>8. CASE i.op = "push"
  <2>1. ExecOp(m, c, gpio, i, word) = Push(m, c, i)
    BY <1>8, ExecOpIs
  <2> QED BY <1>0, <2>1 DEF Push, PushIsr, StallOn, MachineFields
<1>9. CASE i.op = "pull"
  <2>1. ExecOp(m, c, gpio, i, word) = Pull(m, c, i, word)
    BY <1>9, ExecOpIs
  <2> QED BY <1>0, <2>1 DEF Pull, StallOn, MachineFields
<1>10. CASE i.op = "irq"
  <2>1. ExecOp(m, c, gpio, i, word) = Irq(m, c, i)
    BY <1>10, ExecOpIs
  <2> QED BY <1>0, <2>1 DEF Irq, StallAt, MachineFields
<1> QED BY <1>2, <1>3, <1>4, <1>5, <1>6, <1>7, <1>8, <1>9, <1>10 DEF Do
=============================================================================
