--------------------------- MODULE Evaluator_proof ---------------------------
(* Theorems about Evaluator, for every candidate, input, stimulus and length of run. *)
EXTENDS Evaluator, PioIsa_proof

(***************************************************************************)
(* Feeding the TX FIFO.                                                    *)
(***************************************************************************)
\* A sequence is its first n elements followed by the others.
LEMMA Split ==
    ASSUME NEW s \in Seq(Word), NEW n \in Nat
    PROVE  /\ First(s, n) \in Seq(Word) /\ Len(First(s, n)) = Smaller(n, Len(s))
           /\ After(s, n) \in Seq(Word) /\ Len(After(s, n)) = Len(s) - Smaller(n, Len(s))
           /\ First(s, n) \o After(s, n) = s
<1> DEFINE k == Smaller(n, Len(s))
<1>1. k \in 0 .. Len(s) /\ k <= n
  BY DEF Smaller
<1>2. First(s, n) = SubSeq(s, 1, k) /\ After(s, n) = SubSeq(s, k + 1, Len(s))
  BY DEF First, After
<1> HIDE DEF k
<1>3. SubSeq(s, 1, k) \in Seq(Word) /\ Len(SubSeq(s, 1, k)) = k
  BY <1>1
<1>4. SubSeq(s, k + 1, Len(s)) \in Seq(Word) /\ Len(SubSeq(s, k + 1, Len(s))) = Len(s) - k
  BY <1>1
<1>5. SubSeq(s, 1, k) \o SubSeq(s, k + 1, Len(s)) = s
  <2>1. SubSeq(s, 1, k) \o SubSeq(s, k + 1, Len(s)) = SubSeq(s, 1, Len(s))
    <3>1. /\ 1 \in 1 .. Len(s) + 1 /\ k \in 1 - 1 .. Len(s) /\ Len(s) \in k .. Len(s)
      BY <1>1
    <3> QED BY <3>1, ConcatAdjacentSubSeq, Zenon
  <2> QED BY <2>1, SubSeqFull
<1> QED BY <1>2, <1>3, <1>4, <1>5 DEF k

\* A refill keeps to the depth of the FIFO, loses no word and changes no order; and it leaves the
\* FIFO empty only when there is nothing left to feed.
LEMMA Feeding ==
    ASSUME TypeOK
    PROVE  /\ Fed \in Seq(Word) /\ Len(Fed) <= tx_depth
           /\ Left \in Seq(Word)
           /\ tx_depth # 0 => Fed \o Left = tx \o rest
           /\ tx_depth = 0 => Fed = << >> /\ Left = << >>
           /\ Fed = << >> => Left = << >>
<1>1. tx \in Seq(Word) /\ rest \in Seq(Word) /\ Len(tx) <= tx_depth /\ tx_depth \in Nat /\ Len(tx) \in Nat
  BY EvaluatorAssumption DEF TypeOK
<1> DEFINE room == IF tx_depth > Len(tx) THEN tx_depth - Len(tx) ELSE 0
           moved == First(rest, room)
<1>2. room \in Nat /\ room = tx_depth - Len(tx)
  BY <1>1
<1>3. Fed = tx \o moved
  BY DEF Fed, Pushed
<1> HIDE DEF room
<1>4. /\ moved \in Seq(Word) /\ Len(moved) = Smaller(room, Len(rest)) /\ Len(moved) <= room
      /\ moved \o After(rest, room) = rest /\ Len(After(rest, room)) = Len(rest) - Len(moved)
      /\ After(rest, room) \in Seq(Word)
  BY <1>1, <1>2, Split DEF Smaller
<1> HIDE DEF moved
<1>5. Fed \in Seq(Word) /\ Len(Fed) = Len(tx) + Len(moved)
  BY <1>1, <1>3, <1>4
<1>6. Len(Fed) <= tx_depth
  BY <1>1, <1>2, <1>4, <1>5
<1>7. After(rest, Len(Fed) - Len(tx)) = After(rest, room)
  <2>1. Len(Fed) - Len(tx) = Smaller(room, Len(rest))
    BY <1>1, <1>4, <1>5
  <2>2. Smaller(Smaller(room, Len(rest)), Len(rest)) = Smaller(room, Len(rest))
    BY <1>1, <1>2 DEF Smaller
  <2> QED BY <2>1, <2>2 DEF After
<1>8. CASE tx_depth = 0
  <2>1. Len(Fed) = 0
    BY <1>5, <1>6, <1>8
  <2>2. Fed = << >> /\ Left = << >>
    BY <1>5, <1>8, <2>1 DEF Left
  <2> QED BY <1>5, <1>6, <1>8, <2>2
<1>9. CASE tx_depth # 0
  <2>1. Left = After(rest, room)
    BY <1>7, <1>9 DEF Left
  <2>2. Fed \o Left = tx \o rest
    <3>1. (tx \o moved) \o After(rest, room) = tx \o (moved \o After(rest, room))
      <4>1. tx \in Seq(Word) /\ moved \in Seq(Word) /\ After(rest, room) \in Seq(Word)
        BY <1>1, <1>4
      <4> QED BY <4>1, ConcatAssociative
    <3> QED BY <1>3, <1>4, <2>1, <3>1, Zenon
  <2>3. ASSUME Fed = << >>  PROVE Left = << >>
    <3>1. Len(tx) = 0 /\ Len(moved) = 0
      BY <1>1, <1>4, <1>5, <2>3
    <3>2. Len(rest) = 0
      BY <1>1, <1>2, <1>4, <1>9, <3>1 DEF Smaller
    <3> QED BY <1>4, <2>1, <3>1, <3>2
  <2> QED BY <1>4, <1>5, <1>6, <1>9, <2>1, <2>2, <2>3
<1> QED BY <1>8, <1>9

\* The word an instruction would pop, and the pins it reads, are words.
LEMMA WhatIsRead ==
    ASSUME TypeOK
    PROVE  Gpio \in Word /\ NextWord(Fed) \in Word \cup {NoWord}
<1>1. Ext \in Word
  <2>1. CASE exts = << >>
    BY <2>1 DEF Ext, Zero, Word
  <2>2. CASE exts # << >>
    <3>1. exts \in Seq(Word) /\ cycle \in Nat
      BY EvaluatorAssumption DEF TypeOK
    <3>2. Smaller(cycle + 1, Len(exts)) \in 1 .. Len(exts)
      BY <2>2, <3>1 DEF Smaller
    <3>3. exts[Smaller(cycle + 1, Len(exts))] \in Word
      BY <3>1, <3>2
    <3> QED BY <2>2, <3>3 DEF Ext
  <2> QED BY <2>1, <2>2
<1>2. Gpio \in Word
  <2>1. m.out_latch \in Word /\ m.dir_latch \in Word
    BY DEF TypeOK, Machine
  <2>2. \A p \in Bits : (IF mask[p] = 1 THEN Ext[p] ELSE m.out_latch[p] * m.dir_latch[p]) \in {0, 1}
    <3> SUFFICES ASSUME NEW p \in Bits
                 PROVE  Ext[p] \in {0, 1} /\ m.out_latch[p] * m.dir_latch[p] \in {0, 1}
      OBVIOUS
    <3>1. m.out_latch[p] \in {0, 1} /\ m.dir_latch[p] \in {0, 1} /\ Ext[p] \in {0, 1}
      BY <1>1, <2>1 DEF Word
    <3> QED BY <3>1
  <2> QED BY <2>2 DEF Gpio, Compose, Word
<1>3. NextWord(Fed) \in Word \cup {NoWord}
  BY Feeding DEF NextWord
<1> QED BY <1>2, <1>3

(***************************************************************************)
(* Type correctness.                                                       *)
(***************************************************************************)
\* The initial states are well typed; an input that is preloaded fits.
LEMMA InitType == Init => TypeOK
<1> SUFFICES ASSUME Init PROVE TypeOK
  OBVIOUS
<1>1. PICK outputs \in Outputs : m = Reset(outputs)
  BY DEF Init
<1>2. m \in Machine /\ m.rx = << >>
  <2>1. outputs \in Word /\ Zero \in Word /\ Ones \in Word
    BY EvaluatorAssumption DEF Zero, Ones, Word
  <2>2. 0 \in 0 .. W /\ W \in 0 .. W /\ 0 \in Slots /\ NotStalled \in Stalls /\ << >> \in Seq(Word)
    BY IsaAssumption DEF Slots, Stalls
  <2> QED BY <1>1, <2>1, <2>2 DEF Reset, Machine
<1>3. PICK words \in Inputs : IF Len(words) <= Preload
                              THEN tx = First(words, tx_depth) /\ rest = << >>
                              ELSE tx = << >> /\ rest = words
  BY DEF Init
<1>4. tx \in Seq(Word) /\ Len(tx) <= tx_depth /\ rest \in Seq(Word)
  <2>1. words \in Seq(Word) /\ tx_depth \in Nat
    BY EvaluatorAssumption DEF Init
  <2>2. First(words, tx_depth) \in Seq(Word) /\ Len(First(words, tx_depth)) <= tx_depth
    BY <2>1, Split DEF Smaller
  <2>3. << >> \in Seq(Word) /\ Len(<< >>) = 0
    OBVIOUS
  <2>4. CASE Len(words) <= Preload
    BY <1>3, <2>2, <2>3, <2>4, Zenon
  <2>5. CASE ~(Len(words) <= Preload)
    <3>1. tx = << >> /\ rest = words
      BY <1>3, <2>5, Zenon
    <3>2. 0 <= tx_depth
      BY <2>1
    <3> QED BY <2>1, <2>3, <3>1, <3>2
  <2> QED BY <2>4, <2>5
<1>5. config.rx_depth \in Nat
  BY EvaluatorAssumption DEF Init, Config
<1>6. Len(m.rx) <= config.rx_depth
  <2>1. Len(<< >>) = 0
    OBVIOUS
  <2> QED BY <1>2, <1>5, <2>1
<1>7. /\ cycle \in 0 .. Cycles /\ ticks \in 0 .. cycle
      /\ delay_count \in Nat /\ clk_acc \in Nat /\ by_force \in BOOLEAN
  <2>1. cycle = 0 /\ ticks = 0 /\ delay_count = 0 /\ clk_acc = 0
    BY DEF Init
  <2>2. by_force \in BOOLEAN
    BY DEF Init
  <2>3. 0 \in 0 .. Cycles /\ 0 \in 0 .. 0
    BY EvaluatorAssumption
  <2> QED BY <2>1, <2>2, <2>3
<1>8. /\ config \in Configs /\ delays \in Delays /\ divisor \in Divisors /\ tx_depth \in TxDepths
      /\ mask \in Masks /\ exts \in Exts
  BY DEF Init
<1> QED BY <1>2, <1>4, <1>6, <1>7, <1>8 DEF TypeOK

\* Every cycle keeps the types.
LEMMA NextType == TypeOK /\ [Next]_vars => TypeOK'
<1> SUFFICES ASSUME TypeOK, [Next]_vars PROVE TypeOK'
  OBVIOUS
<1> USE EvaluatorAssumption
<1>1. CASE UNCHANGED vars
  BY <1>1 DEF TypeOK, vars, setup
<1>2. CASE Next
  <2>1. Clock
    BY <1>2 DEF Next, Skip, CountDown, StayStalled, Run
  <2>2. UNCHANGED setup /\ rest' = Left
    BY <2>1 DEF Clock, Feed
  <2>3. cycle' \in 0 .. Cycles /\ ticks' \in 0 .. cycle' /\ clk_acc' \in Nat
    BY <2>1 DEF Clock, Fires, TypeOK
  <2>4. rest' \in Seq(Word)
    BY <2>2, Feeding
  <2>5. ASSUME tx' = Fed, UNCHANGED m  PROVE m' \in MachineOf(config) /\ tx' \in Seq(Word) /\ Len(tx') <= tx_depth
    BY <2>5, Feeding DEF TypeOK, MachineOf
  <2>6. ASSUME Run  PROVE m' \in MachineOf(config) /\ tx' \in Seq(Word) /\ Len(tx') <= tx_depth
    <3>1. m \in MachineOf(config) /\ config \in Config
      BY DEF TypeOK, MachineOf
    <3>2. m' \in MachineOf(config)
      BY <2>6, <3>1, WhatIsRead, ExecuteType DEF Run
    <3>3. Pops(m, config, Fetch(m, config).do, NextWord(Fed)) => Fed # << >>
      BY DEF Pops, NextWord
    <3>4. Fed # << >> => Tail(Fed) \in Seq(Word) /\ Len(Tail(Fed)) <= Len(Fed)
      BY Feeding
    <3>5. tx' \in {Fed, Tail(Fed)} /\ (tx' = Fed \/ Fed # << >>)
      BY <2>6, <3>3 DEF Run
    <3>6. Len(Fed) \in Nat /\ tx_depth \in Nat
      BY Feeding DEF TypeOK
    <3>7. Len(tx') <= tx_depth /\ tx' \in Seq(Word)
      <4>1. CASE tx' = Fed
        BY <4>1, Feeding
      <4>2. CASE Fed # << >> /\ tx' = Tail(Fed)
        <5>1. Len(Tail(Fed)) \in Nat
          BY <3>4, <4>2
        <5> QED BY <3>4, <3>6, <4>2, <5>1, Feeding
      <4> QED BY <3>5, <4>1, <4>2
    <3> QED BY <3>2, <3>7
  <2>7. m' \in MachineOf(config) /\ tx' \in Seq(Word) /\ Len(tx') <= tx_depth
    BY <1>2, <2>5, <2>6 DEF Next, Skip, CountDown, StayStalled
  <2>8. delay_count' \in Nat /\ by_force' \in BOOLEAN
    <3>1. delays[m.pc] \in Nat
      BY DEF TypeOK, Machine
    <3>2. Forced(m) => ForcedDelay[m.pending_exec] \in Nat
      BY DEF TypeOK, Machine, Forced
    <3>3. CASE Run
      BY <3>1, <3>2, <3>3 DEF Run
    <3>4. CASE Skip \/ CountDown \/ StayStalled
      BY <3>4 DEF Skip, CountDown, StayStalled, TypeOK
    <3> QED BY <1>2, <3>3, <3>4 DEF Next
  <2> QED BY <2>2, <2>3, <2>4, <2>7, <2>8 DEF TypeOK, MachineOf, setup
<1> QED BY <1>1, <1>2

\* Every variable keeps its type: in particular the FIFOs never exceed their depth and the shift
\* counts never exceed the width of a register.
THEOREM TypeCorrect == Spec => []TypeOK
<1>1. Init => TypeOK
  BY InitType
<1>2. TypeOK /\ [Next]_vars => TypeOK'
  BY NextType
<1> QED BY <1>1, <1>2, PTL DEF Spec
(***************************************************************************)
(* The clock.                                                              *)
(***************************************************************************)
ClockInv == clk_acc < divisor /\ 256 * cycle = divisor * ticks + clk_acc

\* Quotients are what they should be.
LEMMA Quotient ==
    ASSUME NEW d \in Nat \ {0}, NEW q \in Nat, NEW r \in Nat, r < d
    PROVE  (d * q + r) \div d = q
<1>1. d * q \in Nat
  OBVIOUS
<1> DEFINE p == d * q + r
           k == p \div d
<1>2. k \in Int /\ d * k <= p /\ p < d * (k + 1)
  BY <1>1
<1> HIDE DEF k
<1>3. d * (k + 1) = d * k + d /\ d * (q + 1) = d * q + d
  BY <1>2
<1>4. ~(k < q)
  BY <1>2, <1>3
<1>5. ~(q < k)
  BY <1>2, <1>3
<1> QED BY <1>2, <1>4, <1>5 DEF k

\* The accumulator is what remains of the clocks so far when divided by the divisor.
LEMMA ClockStep == TypeOK /\ ClockInv /\ [Next]_vars => ClockInv'
<1> SUFFICES ASSUME TypeOK, ClockInv, [Next]_vars PROVE ClockInv'
  OBVIOUS
<1>1. CASE UNCHANGED vars
  BY <1>1 DEF ClockInv, vars, setup
<1>2. CASE Next
  <2>1. Clock
    BY <1>2 DEF Next, Skip, CountDown, StayStalled, Run
  <2>2. /\ divisor' = divisor /\ divisor \in Nat /\ divisor >= 256 /\ cycle \in Nat /\ ticks \in Nat
        /\ clk_acc \in Nat /\ cycle' = cycle + 1
    BY <2>1, EvaluatorAssumption DEF TypeOK, Clock, setup
  <2>3. 256 * (cycle + 1) = 256 * cycle + 256 /\ divisor * (ticks + 1) = divisor * ticks + divisor
    BY <2>2
  <2>4. divisor * ticks \in Nat
    BY <2>2
  <2>5. CASE Fires
    BY <2>1, <2>2, <2>3, <2>4, <2>5 DEF ClockInv, Clock, Fires
  <2>6. CASE ~Fires
    BY <2>1, <2>2, <2>3, <2>4, <2>6 DEF ClockInv, Clock, Fires
  <2> QED BY <2>5, <2>6
<1> QED BY <1>1, <1>2

\* The divider (clock_tick) gives exactly the PIO cycles its divisor calls for, whatever the divisor
\* and however long the run.
THEOREM ClockIsExact == Spec => []ClockExact
<1>1. Init => ClockInv
  <2> SUFFICES ASSUME Init PROVE ClockInv
    OBVIOUS
  <2>1. cycle = 0 /\ ticks = 0 /\ clk_acc = 0 /\ divisor \in Nat /\ divisor >= 256
    BY EvaluatorAssumption DEF Init
  <2>2. divisor * 0 = 0
    BY <2>1
  <2> QED BY <2>1, <2>2 DEF ClockInv
<1>2. TypeOK /\ ClockInv => ClockExact
  <2> SUFFICES ASSUME TypeOK, ClockInv PROVE ClockExact
    OBVIOUS
  <2>1. divisor \in Nat \ {0} /\ ticks \in Nat /\ clk_acc \in Nat /\ cycle \in Nat
    BY EvaluatorAssumption DEF TypeOK
  <2>2. (divisor * ticks + clk_acc) \div divisor = ticks
    BY <2>1, Quotient DEF ClockInv
  <2> QED BY <2>2 DEF ClockInv, ClockExact
<1> QED BY <1>1, <1>2, ClockStep, TypeCorrect, PTL DEF Spec
(***************************************************************************)
(* A run executes its program.  The instance has its own names for the     *)
(* operators of PioIsa; they denote the same.                              *)
(***************************************************************************)
\* The registers are the same.
LEMMA SameBits ==
    /\ Program!Bits = Bits /\ Program!Slots = Slots /\ Program!Word = Word
    /\ Program!Zero = Zero /\ Program!Ones = Ones /\ Program!NotStalled = NotStalled
  BY DEF Program!Bits, Bits, Program!Slots, Slots, Program!Word, Word, Program!Zero, Zero, Program!Ones, Ones,
         Program!NotStalled, NotStalled

\* The operations on words are the same.
LEMMA SameWords ==
    ASSUME NEW u, NEW v, NEW n, NEW base
    PROVE  /\ Program!Low(u, n) = Low(u, n)
           /\ Program!ShiftRight(u, v, n) = ShiftRight(u, v, n)
           /\ Program!ShiftLeft(u, v, n) = ShiftLeft(u, v, n)
           /\ Program!FromPin(u, base) = FromPin(u, base)
           /\ Program!Flip(u) = Flip(u) /\ Program!Reverse(u) = Reverse(u)
           /\ Program!Decrement(u) = Decrement(u) /\ Program!Address(u) = Address(u)
           /\ Program!WritePins(u, v, base, n) = WritePins(u, v, base, n)
           /\ Program!Smaller(u, v) = Smaller(u, v)
  BY SameBits DEF Program!Low, Low, Program!ShiftRight, ShiftRight, Program!ShiftLeft, ShiftLeft,
         Program!FromPin, FromPin, Program!Flip, Flip, Program!Reverse, Reverse, Program!Decrement, Decrement,
         Program!Address, Address, Program!WritePins, WritePins, Program!Smaller, Smaller

\* Pushes, stalls, sources and destinations are the same.
LEMMA SameHelpers ==
    ASSUME NEW s, NEW c, NEW gpio, NEW i, NEW dst, NEW v, NEW pins, NEW n
    PROVE  /\ (Program!RxFull(s, c) <=> RxFull(s, c)) /\ Program!PushIsr(s, c) = PushIsr(s, c)
           /\ Program!StallOn(s, v) = StallOn(s, v) /\ Program!StallAt(s, v, n, pins) = StallAt(s, v, n, pins)
           /\ Program!FlagOf(i, c) = FlagOf(i, c) /\ Program!Raised(s, v) = Raised(s, v)
           /\ Program!Source(s, c, gpio, v) = Source(s, c, gpio, v)
           /\ Program!Store(s, c, dst, v, pins, n) = Store(s, c, dst, v, pins, n)
           /\ (Program!Taken(s, c, gpio, i) <=> Taken(s, c, gpio, i))
           /\ (Program!Refills(s, c) <=> Refills(s, c)) /\ (Program!Held(s, c, i) <=> Held(s, c, i))
           /\ Program!AdvancePc(s, c) = AdvancePc(s, c) /\ Program!SideSet(s, c, v) = SideSet(s, c, v)
<1>1. /\ (Program!RxFull(s, c) <=> RxFull(s, c)) /\ Program!PushIsr(s, c) = PushIsr(s, c)
      /\ Program!StallOn(s, v) = StallOn(s, v) /\ Program!StallAt(s, v, n, pins) = StallAt(s, v, n, pins)
  BY SameBits DEF Program!RxFull, RxFull, Program!PushIsr, PushIsr, Program!StallOn, StallOn, Program!StallAt, StallAt
<1>2. Program!FlagOf(i, c) = FlagOf(i, c) /\ Program!Raised(s, v) = Raised(s, v)
  BY DEF Program!FlagOf, FlagOf, Program!Raised, Raised
<1>3. Program!Source(s, c, gpio, v) = Source(s, c, gpio, v)
  BY SameBits, SameWords DEF Program!Source, Source
<1>4. Program!Store(s, c, dst, v, pins, n) = Store(s, c, dst, v, pins, n)
  BY SameBits, SameWords DEF Program!Store, Store
<1>5. (Program!Taken(s, c, gpio, i) <=> Taken(s, c, gpio, i))
  BY SameBits DEF Program!Taken, Taken
<1>6. (Program!Refills(s, c) <=> Refills(s, c)) /\ (Program!Held(s, c, i) <=> Held(s, c, i))
  BY DEF Program!Refills, Refills, Program!Held, Held
<1>7. Program!AdvancePc(s, c) = AdvancePc(s, c) /\ Program!SideSet(s, c, v) = SideSet(s, c, v)
  BY SameWords DEF Program!AdvancePc, AdvancePc, Program!SideSet, SideSet
<1> QED BY <1>1, <1>2, <1>3, <1>4, <1>5, <1>6, <1>7

\* The instructions are the same.
LEMMA SameInstructions ==
    ASSUME NEW s, NEW c, NEW gpio, NEW i, NEW word
    PROVE  Program!ExecOp(s, c, gpio, i, word) = ExecOp(s, c, gpio, i, word)
<1>1. Program!Jmp(s, c, gpio, i) = Jmp(s, c, gpio, i)
  BY SameBits, SameWords, SameHelpers DEF Program!Jmp, Jmp
<1>2. Program!Wait(s, c, gpio, i) = Wait(s, c, gpio, i)
  BY DEF Program!Wait, Wait, Program!StallAt, StallAt, Program!FlagOf, FlagOf, Program!Raised, Raised
<1>3. Program!In(s, c, gpio, i) = In(s, c, gpio, i)
  BY DEF Program!In, In, Program!PushIsr, PushIsr, Program!RxFull, RxFull, Program!StallOn, StallOn,
         Program!Source, Source, Program!FromPin, FromPin, Program!Low, Low, Program!ShiftRight, ShiftRight,
         Program!ShiftLeft, ShiftLeft, Program!Smaller, Smaller, Program!Zero, Zero, Program!Bits, Bits
<1>4. Program!Out(s, c, i, word) = Out(s, c, i, word)
  BY DEF Program!Out, Out, Program!Refills, Refills, Program!StallOn, StallOn, Program!Store, Store,
         Program!WritePins, WritePins, Program!Address, Address, Program!Low, Low, Program!Smaller, Smaller,
         Program!ShiftRight, ShiftRight, Program!ShiftLeft, ShiftLeft, Program!Zero, Zero, Program!Bits, Bits
<1>5. Program!Push(s, c, i) = Push(s, c, i)
  BY SameHelpers DEF Program!Push, Push
<1>6. Program!Pull(s, c, i, word) = Pull(s, c, i, word)
  BY SameHelpers DEF Program!Pull, Pull
<1>7. Program!Mov(s, c, gpio, i) = Mov(s, c, gpio, i)
  BY SameWords, SameHelpers DEF Program!Mov, Mov
<1>8. Program!Irq(s, c, i) = Irq(s, c, i)
  BY SameHelpers DEF Program!Irq, Irq
<1>9. Program!Set(s, c, i) = Set(s, c, i)
  BY SameWords DEF Program!Set, Set
<1> QED BY <1>1, <1>2, <1>3, <1>4, <1>5, <1>6, <1>7, <1>8, <1>9 DEF Program!ExecOp, ExecOp

\* Fetch and execution are the same.
LEMMA SameExecution ==
    ASSUME NEW s, NEW c, NEW gpio, NEW word, NEW ext, NEW pins
    PROVE  /\ Program!Execute(s, c, gpio, word) = Execute(s, c, gpio, word)
           /\ (Program!Pops(s, c, gpio, word) <=> Pops(s, c, gpio, word))
           /\ Program!Fetch(s, c) = Fetch(s, c)
           /\ Program!Compose(s, pins, ext) = Compose(s, pins, ext)
           /\ Program!Reset(pins) = Reset(pins)
<1>1. Program!Fetch(s, c) = Fetch(s, c) /\ (Program!Forced(s) <=> Forced(s))
  BY DEF Program!Fetch, Fetch, Program!Forced, Forced
<1>2. \A i : (Program!SetsPc(s, c, gpio, i) <=> SetsPc(s, c, gpio, i))
  BY SameHelpers DEF Program!SetsPc, SetsPc
<1>3. Program!Execute(s, c, gpio, word) = Execute(s, c, gpio, word)
  BY <1>1, <1>2, SameBits, SameHelpers, SameInstructions DEF Program!Execute, Execute
<1>4. (Program!Pops(s, c, gpio, word) <=> Pops(s, c, gpio, word))
  BY SameHelpers DEF Program!Pops, Pops
<1>5. Program!Compose(s, pins, ext) = Compose(s, pins, ext) /\ Program!Reset(pins) = Reset(pins)
  BY SameBits DEF Program!Compose, Compose, Program!Reset, Reset
<1> QED BY <1>1, <1>3, <1>4, <1>5
Unstalled == [m EXCEPT !.stall = NotStalled]
Unread == IF tx_depth = 0 THEN << >> ELSE tx \o rest

\* Execution starts the same whether or not a stall is remembered.
LEMMA StallForgotten ==
    ASSUME TypeOK, NEW c, NEW gpio, NEW i, NEW word
    PROVE  /\ Execute(Unstalled, c, gpio, word) = Execute(m, c, gpio, word)
           /\ Pops(Unstalled, c, i, word) <=> Pops(m, c, i, word)
           /\ Fetch(Unstalled, c) = Fetch(m, c)
           /\ Compose(Unstalled, mask, i) = Compose(m, mask, i)
<1>1. /\ Unstalled.pc = m.pc /\ Unstalled.x = m.x /\ Unstalled.y = m.y /\ Unstalled.osr_count = m.osr_count
      /\ Unstalled.pending_exec = m.pending_exec
      /\ Unstalled.out_latch = m.out_latch /\ Unstalled.dir_latch = m.dir_latch
  BY DEF TypeOK, Machine, Unstalled
<1>2. [Unstalled EXCEPT !.pending_exec = NoWord, !.stall = NotStalled]
      = [m EXCEPT !.pending_exec = NoWord, !.stall = NotStalled]
  BY DEF TypeOK, Machine, Unstalled
<1>3. Fetch(Unstalled, c) = Fetch(m, c) /\ (Forced(Unstalled) <=> Forced(m))
  BY <1>1 DEF Fetch, Forced
<1>4. \A j : SetsPc(Unstalled, c, gpio, j) <=> SetsPc(m, c, gpio, j)
  BY <1>1 DEF SetsPc, Taken
<1>5. Execute(Unstalled, c, gpio, word) = Execute(m, c, gpio, word)
  BY <1>2, <1>3, <1>4 DEF Execute
<1>6. Pops(Unstalled, c, i, word) <=> Pops(m, c, i, word)
  BY <1>1 DEF Pops, Refills, Held
<1>7. Compose(Unstalled, mask, i) = Compose(m, mask, i)
  BY <1>1 DEF Compose
<1> QED BY <1>3, <1>5, <1>6, <1>7

\* A refill does not change what is still to be read, nor what is read next.
LEMMA QueueFed ==
    ASSUME TypeOK
    PROVE  /\ Unread = IF tx_depth = 0 THEN << >> ELSE Fed \o Left
           /\ NextWord(Unread) = NextWord(Fed)
           /\ Fed # << >> => Tail(Unread) = Tail(Fed) \o Left
<1>1. Unread = IF tx_depth = 0 THEN << >> ELSE Fed \o Left
  BY Feeding DEF Unread
<1>2. CASE Fed = << >>
  <2>1. Unread = << >>
    BY <1>1, <1>2, Feeding
  <2> QED BY <1>1, <1>2, <2>1
<1>3. CASE Fed # << >>
  <2>1. Unread = Fed \o Left /\ Fed \in Seq(Word) /\ Left \in Seq(Word) /\ Len(Fed) > 0
    BY <1>1, <1>3, Feeding
  <2>2. Fed \o Left # << >> /\ Head(Fed \o Left) = Head(Fed) /\ Tail(Fed \o Left) = Tail(Fed) \o Left
    BY <2>1
  <2> QED BY <1>1, <1>3, <2>1, <2>2 DEF NextWord
<1> QED BY <1>2, <1>3

\* A run starts as its program does, with its input not yet fed.
LEMMA InitialProgram == Init => Program!Init
<1> SUFFICES ASSUME Init PROVE Program!Init
  OBVIOUS
<1>1. TypeOK
  BY InitType
<1>2. PICK outputs \in Outputs : m = Reset(outputs)
  BY DEF Init
<1>3. outputs \in Program!Word /\ [m EXCEPT !.stall = NotStalled] = Program!Reset(outputs)
  <2>1. outputs \in Word
    BY EvaluatorAssumption
  <2>2. [Reset(outputs) EXCEPT !.stall = NotStalled] = Reset(outputs)
    <3>1. Reset(outputs) = [f \in DOMAIN Reset(outputs) |-> Reset(outputs)[f]]
      BY DEF Reset
    <3>2. Reset(outputs)["stall"] = NotStalled
      BY DEF Reset
    <3> QED BY <3>1, <3>2
  <2>3. Program!Reset(outputs) = Reset(outputs)
    BY <2>1, SameExecution
  <2>4. Program!Word = Word
    BY SameBits
  <2> QED BY <1>2, <2>1, <2>2, <2>3, <2>4
<1>4. (IF tx_depth = 0 THEN << >> ELSE tx \o rest) \in Seq(Program!Word)
  <2>1. tx \in Seq(Word) /\ rest \in Seq(Word)
    BY <1>1 DEF TypeOK
  <2>2. tx \o rest \in Seq(Word) /\ << >> \in Seq(Word)
    BY <2>1
  <2>3. Program!Word = Word
    BY SameBits
  <2> QED BY <2>2, <2>3
<1>5. config \in Configs /\ mask \in Program!Word
  BY SameBits, EvaluatorAssumption DEF Init
<1> QED BY <1>3, <1>4, <1>5 DEF Program!Init

\* Executing an instruction is a step of the program; everything else only passes time.
LEMMA StepOfProgram == TypeOK /\ [Next]_vars =>
    [Program!Instruction]_<<config, mask, [m EXCEPT !.stall = NotStalled], IF tx_depth = 0 THEN << >> ELSE tx \o rest>>
<1> SUFFICES ASSUME TypeOK, [Next]_vars
             PROVE  \/ Program!Instruction
                    \/ UNCHANGED <<config, mask, Unstalled, Unread>>
  BY DEF Unstalled, Unread
<1>1. CASE UNCHANGED vars
  BY <1>1 DEF vars, setup, Unstalled, Unread
<1>2. CASE Next
  <2>1. Clock
    BY <1>2 DEF Next, Skip, CountDown, StayStalled, Run
  <2>2. config' = config /\ mask' = mask /\ tx_depth' = tx_depth /\ rest' = Left
    BY <2>1 DEF Clock, Feed, setup
  <2>3. Unread' = IF tx_depth = 0 THEN << >> ELSE tx' \o Left
    BY <2>2 DEF Unread
  <2>4. CASE tx' = Fed /\ m' = m
    BY <2>2, <2>3, <2>4, QueueFed DEF Unstalled
  <2>5. CASE Run
    <3> DEFINE i == Fetch(m, config).do
               word == NextWord(Fed)
    <3>1. word = NextWord(Unread)
      BY QueueFed
    <3>2. Ext \in Word
      <4>1. exts \in Seq(Word) /\ cycle \in Nat
        BY EvaluatorAssumption DEF TypeOK
      <4>2. CASE exts = << >>
        BY <4>2 DEF Ext, Zero, Word
      <4>3. CASE exts # << >>
        <5>1. Smaller(cycle + 1, Len(exts)) \in 1 .. Len(exts)
          BY <4>1, <4>3 DEF Smaller
        <5>2. exts[Smaller(cycle + 1, Len(exts))] \in Word
          BY <4>1, <5>1
        <5> QED BY <4>3, <5>2 DEF Ext
      <4> QED BY <4>2, <4>3
    <3>3. Unstalled' = [Execute(Unstalled, config, Compose(Unstalled, mask, Ext), NextWord(Unread)) EXCEPT !.stall = NotStalled]
      <4>1. m' = Execute(m, config, Gpio, word) /\ Gpio = Compose(m, mask, Ext)
        BY <2>5 DEF Run, Gpio
      <4>2. Compose(Unstalled, mask, Ext) = Compose(m, mask, Ext)
        BY StallForgotten
      <4>3. Execute(Unstalled, config, Gpio, word) = Execute(m, config, Gpio, word)
        BY StallForgotten
      <4> QED BY <3>1, <4>1, <4>2, <4>3 DEF Unstalled
    <3>4. Fetch(Unstalled, config) = Fetch(m, config)
      BY StallForgotten
    <3>5. Pops(Unstalled, config, i, word) <=> Pops(m, config, i, word)
      BY StallForgotten
    <3>6. Unread' = IF Pops(m, config, i, word) THEN Tail(Unread) ELSE Unread
      <4>1. CASE Pops(m, config, i, word)
        <5>1. Fed # << >> /\ tx' = Tail(Fed)
          BY <2>5, <4>1 DEF Run, Pops, NextWord
        <5>2. tx_depth # 0
          BY <5>1, Feeding
        <5> QED BY <2>3, <4>1, <5>1, <5>2, QueueFed
      <4>2. CASE ~Pops(m, config, i, word)
        <5>1. tx' = Fed
          BY <2>5, <4>2 DEF Run
        <5> QED BY <2>3, <4>2, <5>1, QueueFed
      <4> QED BY <4>1, <4>2
    <3> HIDE DEF i, word
    <3>7. Program!Instruction
      <4>1. \A q : Program!NextWord(q) = NextWord(q)
        BY DEF Program!NextWord, NextWord
      <4>2. /\ Program!Execute(Unstalled, config, Compose(Unstalled, mask, Ext), NextWord(Unread))
               = Execute(Unstalled, config, Compose(Unstalled, mask, Ext), NextWord(Unread))
            /\ Program!Compose(Unstalled, mask, Ext) = Compose(Unstalled, mask, Ext)
            /\ Program!Fetch(Unstalled, config) = Fetch(Unstalled, config)
            /\ Program!Pops(Unstalled, config, i, word) <=> Pops(Unstalled, config, i, word)
        BY SameExecution
      <4>3. \E ext \in Program!Word : Unstalled' =
              [Program!Execute(Unstalled, config, Program!Compose(Unstalled, mask, ext), Program!NextWord(Unread))
                 EXCEPT !.stall = Program!NotStalled]
        BY <3>2, <3>3, <4>1, <4>2, SameBits
      <4>4. Unread' = Program!Popped(Unread, Program!Fetch(Unstalled, config).do, config, Unstalled)
        BY <3>1, <3>4, <3>5, <3>6, <4>1, <4>2 DEF Program!Popped, i
      <4> QED BY <2>2, <4>3, <4>4 DEF Program!Instruction, Unstalled, Unread
    <3> QED BY <3>7
  <2> QED BY <1>2, <2>4, <2>5 DEF Next, Skip, CountDown, StayStalled
<1> QED BY <1>1, <1>2

\* Delays, the divider, stalls and the depth of a streamed FIFO do not change what a program does
\* (the premise of enumerate.rs and of run.rs), for any program, configuration, input and stimulus.
THEOREM RunsItsProgram == Spec => RunsTheProgram
<1>1. Init => Program!Init
  BY InitialProgram
<1>2. TypeOK /\ [Next]_vars =>
        [Program!Instruction]_<<config, mask, [m EXCEPT !.stall = NotStalled], IF tx_depth = 0 THEN << >> ELSE tx \o rest>>
  BY StepOfProgram
<1> QED BY <1>1, <1>2, TypeCorrect, PTL DEF Spec, RunsTheProgram, Program!Spec
(***************************************************************************)
(* Instructions that stall.                                                *)
(***************************************************************************)
\* What is left of a machine that stalls.
StalledFrom(s, t) == t = [s EXCEPT !.stall = t.stall,
                                   !.irq_flags = IF t.stall.why = "irqwait" THEN @ \cup {t.stall.index} ELSE @]

\* Writing a destination records no stall.
LEMMA StoreStall ==
    ASSUME NEW c, NEW s \in Machine, NEW dst, NEW v, NEW pins, NEW n
    PROVE  Store(s, c, dst, v, pins, n).stall = s.stall
  BY DEF Store, Machine

\* Pushing the ISR records no stall.
LEMMA PushIsrStall ==
    ASSUME NEW c, NEW s \in Machine
    PROVE  PushIsr(s, c).stall = s.stall
  BY DEF PushIsr, Machine

\* An instruction that stalls does nothing else, except that IRQ WAIT has raised its flag; it stalls
\* on the TX FIFO only when that has no word.
LEMMA StallingOp ==
    ASSUME NEW c \in Config, NEW s \in MachineOf(c), NEW gpio \in Word, NEW i \in Do,
           NEW word \in Word \cup {NoWord},
           s.stall = NotStalled, ExecOp(s, c, gpio, i, word).stall # NotStalled
    PROVE  /\ StalledFrom(s, ExecOp(s, c, gpio, i, word))
           /\ ExecOp(s, c, gpio, i, word).stall.why = "pull" => word = NoWord
           /\ ~Pops(s, c, i, word)
           /\ i.op \in {"wait", "in", "out", "push", "pull", "irq"}
<1> DEFINE t == ExecOp(s, c, gpio, i, word)
<1>1. s \in Machine /\ t.stall # NotStalled
  BY DEF MachineOf
<1>2. i.op \in {"jmp", "wait", "in", "out", "push", "pull", "mov", "irq", "set"}
  BY DEF Do
<1>3. CASE i.op \in {"jmp", "set", "mov"}
  <2>1. CASE i.op = "jmp"
    <3>1. t = Jmp(s, c, gpio, i)
      BY <2>1 DEF ExecOp
    <3>2. t.stall = s.stall
      BY <1>1, <3>1 DEF Jmp, Machine
    <3> QED BY <1>1, <3>2
  <2>2. CASE i.op = "set"
    <3>1. t = Set(s, c, i)
      BY <2>2 DEF ExecOp
    <3>2. t.stall = s.stall
      BY <1>1, <3>1 DEF Set, Machine
    <3> QED BY <1>1, <3>2
  <2>3. CASE i.op = "mov"
    <3>1. t = Mov(s, c, gpio, i)
      BY <2>3 DEF ExecOp
    <3>2. t.stall = s.stall
      BY <1>1, <3>1, StoreStall DEF Mov
    <3> QED BY <1>1, <3>2
  <2> QED BY <1>3, <2>1, <2>2, <2>3
<1>4. CASE i.op = "wait"
  <2>1. t = Wait(s, c, gpio, i)
    BY <1>4 DEF ExecOp
  <2>2. [s EXCEPT !.irq_flags = @ \ {FlagOf(i, c)}].stall = NotStalled
    BY <1>1 DEF Machine
  <2>3. \/ t = StallAt(s, "gpio", i.pol, i.index)
        \/ t = StallAt(s, "pin", i.pol, i.index)
        \/ t = StallAt(s, "irq", i.pol, FlagOf(i, c))
    BY <1>1, <2>1, <2>2 DEF Wait
  <2>4. StalledFrom(s, t) /\ t.stall.why # "pull"
    <3>1. ASSUME NEW why \in {"gpio", "pin", "irq"}, NEW x, t = StallAt(s, why, i.pol, x)
          PROVE  StalledFrom(s, t) /\ t.stall.why # "pull"
      <4> HIDE DEF t
      <4>1. t.stall = [why |-> why, pol |-> i.pol, index |-> x]
        BY <1>1, <3>1 DEF StallAt, Machine
      <4>2. t.stall.why = why
        BY <4>1
      <4>3. t = [s EXCEPT !.stall = t.stall]
        BY <3>1, <4>1 DEF StallAt
      <4>4. StalledFrom(s, t)
        BY <1>1, <4>2, <4>3 DEF StalledFrom, Machine
      <4> QED BY <4>2, <4>4
    <3> HIDE DEF t
    <3> QED BY <2>3, <3>1
  <2> QED BY <1>4, <2>4 DEF Pops
<1>5. CASE i.op = "in"
  <2>1. t = In(s, c, gpio, i)
    BY <1>5 DEF ExecOp
  <2> DEFINE due(u) == c.autopush /\ u.isr_count >= c.push_threshold
             a == IF due(s) THEN PushIsr(s, c) ELSE s
             v == Low(Source(a, c, gpio, i.src), i.n)
             isr == IF c.in_shift_right THEN ShiftRight(a.isr, v, i.n) ELSE ShiftLeft(a.isr, v, i.n)
             count == Smaller(a.isr_count + i.n, W)
             b == [a EXCEPT !.isr = isr, !.isr_count = count]
  <2>2. t \in {StallOn(s, "push"), PushIsr(b, c), b}
    BY <2>1 DEF In
  <2>3. a \in MachineOf(c) /\ a.stall = NotStalled
    BY <1>1, PushIsrType, PushIsrStall
  <2>4. a \in Machine
    BY <2>3 DEF MachineOf
  <2> HIDE DEF a, isr, count
  <2>5. b.stall = NotStalled /\ PushIsr(b, c).stall = b.stall
    BY <2>3, <2>4 DEF PushIsr, Machine
  <2>6. t = StallOn(s, "push")
    BY <1>1, <2>2, <2>5
  <2>7. StalledFrom(s, t) /\ t.stall.why = "push"
    <3> HIDE DEF t
    <3> QED BY <1>1, <2>6 DEF StallOn, StalledFrom, Machine
  <2> QED BY <1>5, <2>7 DEF Pops
<1>6. CASE i.op = "out"
  <2>1. t = Out(s, c, i, word)
    BY <1>6 DEF ExecOp
  <2>2. Refills(s, c) /\ word = NoWord /\ t = StallOn(s, "pull")
    <3> DEFINE osr == IF Refills(s, c) THEN word ELSE s.osr
               count == IF Refills(s, c) THEN 0 ELSE s.osr_count
               data == IF c.out_shift_right THEN Low(osr, i.n) ELSE ShiftRight(osr, Zero, W - i.n)
               left == IF c.out_shift_right THEN ShiftRight(osr, Zero, i.n) ELSE ShiftLeft(osr, Zero, i.n)
               total == Smaller(count + i.n, W)
               u == [s EXCEPT !.osr = left, !.osr_count = total]
    <3>1. t = IF Refills(s, c) /\ word = NoWord THEN StallOn(s, "pull")
              ELSE Store(u, c, i.dst, data, Smaller(c.out_count, i.n), i.n)
      BY <2>1 DEF Out
    <3> HIDE DEF data, left, total
    <3>2. Store(u, c, i.dst, data, Smaller(c.out_count, i.n), i.n).stall = NotStalled
      BY <1>1 DEF Store, Machine
    <3> QED BY <1>1, <3>1, <3>2
  <2>3. StalledFrom(s, t) /\ t.stall.why = "pull"
    <3> HIDE DEF t
    <3> QED BY <1>1, <2>2 DEF StallOn, StalledFrom, Machine
  <2> QED BY <1>6, <2>2, <2>3 DEF Pops
<1>7. CASE i.op = "push"
  <2>1. t = Push(s, c, i)
    BY <1>7 DEF ExecOp
  <2>2. t = StallOn(s, "push")
    BY <1>1, <2>1, PushIsrStall DEF Push
  <2>3. StalledFrom(s, t) /\ t.stall.why = "push"
    <3> HIDE DEF t
    <3> QED BY <1>1, <2>2 DEF StallOn, StalledFrom, Machine
  <2> QED BY <1>7, <2>3 DEF Pops
<1>8. CASE i.op = "pull"
  <2>1. t = Pull(s, c, i, word)
    BY <1>8 DEF ExecOp
  <2>2. [s EXCEPT !.osr = IF word = NoWord THEN s.x ELSE word, !.osr_count = 0].stall = NotStalled
    BY <1>1 DEF Machine
  <2>3. word = NoWord /\ t = StallOn(s, "pull")
    BY <1>1, <2>1, <2>2 DEF Pull
  <2>4. StalledFrom(s, t) /\ t.stall.why = "pull"
    <3> HIDE DEF t
    <3> QED BY <1>1, <2>3 DEF StallOn, StalledFrom, Machine
  <2> QED BY <1>8, <2>3, <2>4 DEF Pops
<1>9. CASE i.op = "irq"
  <2>1. t = Irq(s, c, i)
    BY <1>9 DEF ExecOp
  <2> DEFINE f == FlagOf(i, c)
             u == [s EXCEPT !.irq_flags = IF i.clear THEN @ \ {f} ELSE @ \cup {f}]
  <2>2. t = IF i.wait /\ ~i.clear THEN StallAt(u, "irqwait", 0, f) ELSE u
    BY <2>1 DEF Irq
  <2> HIDE DEF f
  <2>3. u.stall = NotStalled
    BY <1>1 DEF Machine
  <2>4. i.wait /\ ~i.clear /\ t = StallAt(u, "irqwait", 0, f)
    BY <1>1, <2>2, <2>3
  <2>5. StalledFrom(s, t) /\ t.stall.why = "irqwait"
    <3> HIDE DEF t
    <3> QED BY <1>1, <2>4 DEF StallAt, StalledFrom, Machine
  <2> QED BY <1>9, <2>5 DEF Pops
<1> QED BY <1>2, <1>3, <1>4, <1>5, <1>6, <1>7, <1>8, <1>9

\* What an instruction stalls on.
WhyStalls(s, c, gpio, i, word) ==
    CASE i.op = "wait" /\ i.src = "gpio" /\ gpio[i.index] # i.pol
           -> [why |-> "gpio", pol |-> i.pol, index |-> i.index]
      [] i.op = "wait" /\ i.src = "pin" /\ gpio[(c.in_base + i.index) % W] # i.pol
           -> [why |-> "pin", pol |-> i.pol, index |-> i.index]
      [] i.op = "wait" /\ i.src = "irq" /\ Raised(s, FlagOf(i, c)) # i.pol
           -> [why |-> "irq", pol |-> i.pol, index |-> FlagOf(i, c)]
      [] i.op = "in" /\ c.autopush /\ s.isr_count >= c.push_threshold /\ RxFull(s, c) -> [why |-> "push"]
      [] i.op = "push" /\ ~(i.guard /\ s.isr_count < c.push_threshold) /\ i.block /\ RxFull(s, c) -> [why |-> "push"]
      [] i.op = "out" /\ Refills(s, c) /\ word = NoWord -> [why |-> "pull"]
      [] i.op = "pull" /\ ~Held(s, c, i) /\ i.block /\ word = NoWord -> [why |-> "pull"]
      [] i.op = "irq" /\ i.wait /\ ~i.clear -> [why |-> "irqwait", pol |-> 0, index |-> FlagOf(i, c)]
      [] OTHER -> NotStalled

\* That is exactly when an instruction stalls, and on what.
LEMMA OpStall ==
    ASSUME NEW c, NEW s \in Machine, NEW gpio, NEW i \in Do, NEW word, s.stall = NotStalled
    PROVE  ExecOp(s, c, gpio, i, word).stall = WhyStalls(s, c, gpio, i, word)
<1> DEFINE t == ExecOp(s, c, gpio, i, word)
           y == WhyStalls(s, c, gpio, i, word)
<1>1. i.op \in {"jmp", "wait", "in", "out", "push", "pull", "mov", "irq", "set"}
  BY DEF Do
<1>2. CASE i.op = "jmp"
  <2>1. t = Jmp(s, c, gpio, i) /\ y = NotStalled
    BY <1>2 DEF ExecOp, WhyStalls
  <2> QED BY <2>1 DEF Jmp, Machine
<1>3. CASE i.op = "set"
  <2>1. t = Set(s, c, i) /\ y = NotStalled
    BY <1>3 DEF ExecOp, WhyStalls
  <2> QED BY <2>1 DEF Set, Machine
<1>4. CASE i.op = "mov"
  <2>1. t = Mov(s, c, gpio, i) /\ y = NotStalled
    BY <1>4 DEF ExecOp, WhyStalls
  <2> QED BY <2>1, StoreStall DEF Mov
<1>5. CASE i.op = "wait"
  <2>1. t = Wait(s, c, gpio, i)
    BY <1>5 DEF ExecOp
  <2>2. [s EXCEPT !.irq_flags = @ \ {FlagOf(i, c)}].stall = NotStalled
    BY DEF Machine
  <2>3. \A why, x : StallAt(s, why, i.pol, x).stall = [why |-> why, pol |-> i.pol, index |-> x]
    BY DEF StallAt, Machine
  <2>4. CASE i.src = "gpio"
    BY <1>5, <2>1, <2>3, <2>4 DEF Wait, WhyStalls
  <2>5. CASE i.src = "pin"
    BY <1>5, <2>1, <2>3, <2>5 DEF Wait, WhyStalls
  <2>6. CASE i.src = "irq"
    BY <1>5, <2>1, <2>2, <2>3, <2>6 DEF Wait, WhyStalls
  <2>7. CASE i.src \notin {"gpio", "pin", "irq"}
    BY <1>5, <2>1, <2>7 DEF Wait, WhyStalls
  <2> QED BY <2>4, <2>5, <2>6, <2>7
<1>6. CASE i.op = "in"
  <2>1. t = In(s, c, gpio, i)
    BY <1>6 DEF ExecOp
  <2> DEFINE due(u) == c.autopush /\ u.isr_count >= c.push_threshold
             a == IF due(s) THEN PushIsr(s, c) ELSE s
             v == Low(Source(a, c, gpio, i.src), i.n)
             isr == IF c.in_shift_right THEN ShiftRight(a.isr, v, i.n) ELSE ShiftLeft(a.isr, v, i.n)
             count == Smaller(a.isr_count + i.n, W)
             b == [a EXCEPT !.isr = isr, !.isr_count = count]
  <2>2. t = CASE due(s) /\ RxFull(s, c) -> StallOn(s, "push")
              [] OTHER -> IF due(b) /\ ~RxFull(b, c) THEN PushIsr(b, c) ELSE b
    BY <2>1 DEF In
  <2>3. y = IF due(s) /\ RxFull(s, c) THEN [why |-> "push"] ELSE NotStalled
    BY <1>6 DEF WhyStalls
  <2>4. StallOn(s, "push").stall = [why |-> "push"]
    BY DEF StallOn, Machine
  <2>5. a.stall = NotStalled /\ DOMAIN a = DOMAIN s
    BY DEF PushIsr, Machine
  <2> HIDE DEF a, isr, count
  <2>6. b.stall = NotStalled /\ PushIsr(b, c).stall = NotStalled
    BY <2>5 DEF PushIsr, Machine
  <2> HIDE DEF b, due
  <2> QED BY <2>2, <2>3, <2>4, <2>6
<1>7. CASE i.op = "out"
  <2> DEFINE osr == IF Refills(s, c) THEN word ELSE s.osr
             count == IF Refills(s, c) THEN 0 ELSE s.osr_count
             data == IF c.out_shift_right THEN Low(osr, i.n) ELSE ShiftRight(osr, Zero, W - i.n)
             left == IF c.out_shift_right THEN ShiftRight(osr, Zero, i.n) ELSE ShiftLeft(osr, Zero, i.n)
             total == Smaller(count + i.n, W)
             u == [s EXCEPT !.osr = left, !.osr_count = total]
  <2>1. t = IF Refills(s, c) /\ word = NoWord THEN StallOn(s, "pull")
            ELSE Store(u, c, i.dst, data, Smaller(c.out_count, i.n), i.n)
    BY <1>7 DEF ExecOp, Out
  <2>2. y = IF Refills(s, c) /\ word = NoWord THEN [why |-> "pull"] ELSE NotStalled
    BY <1>7 DEF WhyStalls
  <2> HIDE DEF data, left, total
  <2>3. Store(u, c, i.dst, data, Smaller(c.out_count, i.n), i.n).stall = NotStalled
    BY DEF Store, Machine
  <2>4. StallOn(s, "pull").stall = [why |-> "pull"]
    BY DEF StallOn, Machine
  <2> QED BY <2>1, <2>2, <2>3, <2>4
<1>8. CASE i.op = "push"
  <2>1. t = Push(s, c, i)
    BY <1>8 DEF ExecOp
  <2>2. StallOn(s, "push").stall = [why |-> "push"] /\ PushIsr(s, c).stall = NotStalled
    BY PushIsrStall DEF StallOn, Machine
  <2> QED BY <1>8, <2>1, <2>2 DEF Push, WhyStalls
<1>9. CASE i.op = "pull"
  <2>1. t = Pull(s, c, i, word)
    BY <1>9 DEF ExecOp
  <2>2. StallOn(s, "pull").stall = [why |-> "pull"]
    BY DEF StallOn, Machine
  <2>3. [s EXCEPT !.osr = IF word = NoWord THEN s.x ELSE word, !.osr_count = 0].stall = NotStalled
    BY DEF Machine
  <2> QED BY <1>9, <2>1, <2>2, <2>3 DEF Pull, WhyStalls
<1>10. CASE i.op = "irq"
  <2> DEFINE f == FlagOf(i, c)
             u == [s EXCEPT !.irq_flags = IF i.clear THEN @ \ {f} ELSE @ \cup {f}]
  <2>1. t = IF i.wait /\ ~i.clear THEN StallAt(u, "irqwait", 0, f) ELSE u
    BY <1>10 DEF ExecOp, Irq
  <2>2. y = IF i.wait /\ ~i.clear THEN [why |-> "irqwait", pol |-> 0, index |-> f] ELSE NotStalled
    BY <1>10 DEF WhyStalls
  <2> HIDE DEF f
  <2>3. u.stall = NotStalled /\ StallAt(u, "irqwait", 0, f).stall = [why |-> "irqwait", pol |-> 0, index |-> f]
    BY DEF StallAt, Machine
  <2> QED BY <2>1, <2>2, <2>3
<1> QED BY <1>1, <1>2, <1>3, <1>4, <1>5, <1>6, <1>7, <1>8, <1>9, <1>10

\* The same of a whole execution, which has fetched the instruction and applies its side-set.
StallsProperly(s, c, gpio, word) ==
    LET u == Execute(s, c, gpio, word)
        i == Fetch(s, c).do
    IN  /\ i \in Do
        /\ u.stall = WhyStalls(s, c, gpio, i, word)
        /\ u.stall # NotStalled =>
             /\ u = [s EXCEPT !.stall = u.stall, !.pending_exec = NoWord,
                              !.out_latch = u.out_latch, !.dir_latch = u.dir_latch,
                              !.irq_flags = IF u.stall.why = "irqwait" THEN @ \cup {u.stall.index} ELSE @]
             /\ ~Pops(s, c, i, word)
             /\ u.stall.why = "pull" => word = NoWord

\* So it is for every machine, instruction and input.
LEMMA ExecuteStall ==
    ASSUME NEW c \in Config, NEW s \in MachineOf(c), NEW gpio \in Word, NEW word \in Word \cup {NoWord}
    PROVE  StallsProperly(s, c, gpio, word)
<1> DEFINE u == Execute(s, c, gpio, word)
           insn == Fetch(s, c)
           i == insn.do
           ready == [s EXCEPT !.pending_exec = NoWord, !.stall = NotStalled]
           t == ExecOp(ready, c, gpio, i, word)
           v == SideSet(t, c, insn.side)
<1>1. s \in Machine
  BY DEF MachineOf
<1>2. i \in Do
  <2>1. insn \in Insn
    BY <1>1, IsaAssumption DEF Fetch, Forced, Config, Machine
  <2> QED BY <2>1 DEF Insn
<1>3. ready \in MachineOf(c) /\ ready \in Machine /\ ready.stall = NotStalled
  <2>1. ready \in Machine /\ ready.rx = s.rx /\ ready.stall = NotStalled
    BY <1>1 DEF Machine, Stalls
  <2> QED BY <2>1, SameRx
<1>4. /\ ready.isr_count = s.isr_count /\ ready.osr_count = s.osr_count
      /\ ready.rx = s.rx /\ ready.irq_flags = s.irq_flags
  BY <1>1 DEF Machine
<1>5. t.stall = WhyStalls(s, c, gpio, i, word)
  <2>1. t.stall = WhyStalls(ready, c, gpio, i, word)
    <3> HIDE DEF ready, i
    <3> QED BY <1>2, <1>3, OpStall
  <2>2. WhyStalls(ready, c, gpio, i, word) = WhyStalls(s, c, gpio, i, word)
    BY <1>4 DEF WhyStalls, Raised, RxFull, Refills, Held
  <2> QED BY <2>1, <2>2
<1>6. t \in Machine
  BY <1>2, <1>3, ExecOpType DEF MachineOf
<1>7. u = IF v.stall = NotStalled /\ ~Forced(s) /\ ~SetsPc(s, c, gpio, i) THEN AdvancePc(v, c) ELSE v
  BY DEF Execute
<1> HIDE DEF t
<1>8. /\ v = [t EXCEPT !.out_latch = v.out_latch, !.dir_latch = v.dir_latch]
      /\ v.stall = t.stall /\ DOMAIN v = DOMAIN t
  BY <1>6 DEF SideSet, Machine
<1> HIDE DEF v
<1>9. u.stall = t.stall
  <2>1. AdvancePc(v, c).stall = v.stall
    BY <1>6, <1>8 DEF AdvancePc, Machine
  <2> QED BY <1>7, <1>8, <2>1
<1>10. ASSUME u.stall # NotStalled
       PROVE  /\ u = [s EXCEPT !.stall = u.stall, !.pending_exec = NoWord,
                                !.out_latch = u.out_latch, !.dir_latch = u.dir_latch,
                                !.irq_flags = IF u.stall.why = "irqwait" THEN @ \cup {u.stall.index} ELSE @]
              /\ ~Pops(s, c, i, word)
              /\ u.stall.why = "pull" => word = NoWord
  <2>1. /\ StalledFrom(ready, t) /\ ~Pops(ready, c, i, word)
        /\ t.stall.why = "pull" => word = NoWord
    BY <1>2, <1>3, <1>9, <1>10, StallingOp DEF t
  <2>2. ~Pops(s, c, i, word)
    BY <1>4, <2>1 DEF Pops, Refills, Held
  <2>3. u = v
    BY <1>7, <1>8, <1>9, <1>10
  <2> HIDE DEF u, insn
  <2>4. u = [t EXCEPT !.out_latch = u.out_latch, !.dir_latch = u.dir_latch]
    BY <1>8, <2>3
  <2> DEFINE flags == IF u.stall.why = "irqwait" THEN s.irq_flags \cup {u.stall.index} ELSE s.irq_flags
  <2>5. t = [ready EXCEPT !.stall = u.stall, !.irq_flags = flags]
    BY <1>4, <1>9, <2>1 DEF StalledFrom
  <2> HIDE DEF flags
  <2>6. u = [s EXCEPT !.stall = u.stall, !.pending_exec = NoWord,
                      !.out_latch = u.out_latch, !.dir_latch = u.dir_latch, !.irq_flags = flags]
    BY <1>1, <2>4, <2>5 DEF Machine
  <2> QED BY <1>9, <2>1, <2>2, <2>6 DEF flags
<1> QED BY <1>2, <1>5, <1>9, <1>10 DEF StallsProperly

\* Either the machine is left alone, or it executes.
LEMMA Steps ==
    ASSUME TypeOK, Next
    PROVE  /\ rest' = Left /\ config' = config
           /\ (m' = m /\ tx' = Fed /\ by_force' = by_force) \/ Run
<1>1. Clock
  BY DEF Next, Skip, CountDown, StayStalled, Run
<1> QED BY <1>1 DEF Next, Skip, CountDown, StayStalled, Clock, Feed, setup

\* A cycle whose instruction stalls does nothing else and takes no word.
LEMMA RunStall ==
    ASSUME TypeOK, Run, m'.stall # NotStalled
    PROVE  LET i == Fetch(m, config).do
           IN  /\ i \in Do
               /\ m'.stall = WhyStalls(m, config, Gpio, i, NextWord(Fed))
               /\ m' = [m EXCEPT !.stall = m'.stall, !.pending_exec = NoWord,
                                 !.out_latch = m'.out_latch, !.dir_latch = m'.dir_latch,
                                 !.irq_flags = IF m'.stall.why = "irqwait" THEN @ \cup {m'.stall.index} ELSE @]
               /\ tx' = Fed
               /\ m'.stall.why = "pull" => Fed = << >>
<1>1. config \in Config /\ m \in MachineOf(config)
  BY EvaluatorAssumption DEF TypeOK, MachineOf
<1>2. Gpio \in Word /\ NextWord(Fed) \in Word \cup {NoWord}
  BY WhatIsRead
<1>3. m' = Execute(m, config, Gpio, NextWord(Fed))
  BY DEF Run
<1>4. Fed # << >> => NextWord(Fed) # NoWord
  <2>1. Fed # << >> => Head(Fed) \in Word
    BY Feeding
  <2> QED BY <2>1, IsaAssumption DEF NextWord
<1>5. tx' = IF Pops(m, config, Fetch(m, config).do, NextWord(Fed)) THEN Tail(Fed) ELSE Fed
  BY DEF Run
<1> DEFINE i == Fetch(m, config).do
           word == NextWord(Fed)
<1>7. /\ i \in Do
      /\ m'.stall = WhyStalls(m, config, Gpio, i, word)
      /\ m' = [m EXCEPT !.stall = m'.stall, !.pending_exec = NoWord,
                        !.out_latch = m'.out_latch, !.dir_latch = m'.dir_latch,
                        !.irq_flags = IF m'.stall.why = "irqwait" THEN @ \cup {m'.stall.index} ELSE @]
      /\ ~Pops(m, config, i, word)
      /\ m'.stall.why = "pull" => word = NoWord
  <2>1. word \in Word \cup {NoWord} /\ m' = Execute(m, config, Gpio, word)
    BY <1>2, <1>3
  <2> HIDE DEF word
  <2>2. StallsProperly(m, config, Gpio, word)
    BY <1>1, <1>2, <2>1, ExecuteStall
  <2> DEFINE u == Execute(m, config, Gpio, word)
  <2>3. /\ i \in Do
        /\ u.stall = WhyStalls(m, config, Gpio, i, word)
        /\ u.stall # NotStalled =>
             /\ u = [m EXCEPT !.stall = u.stall, !.pending_exec = NoWord,
                              !.out_latch = u.out_latch, !.dir_latch = u.dir_latch,
                              !.irq_flags = IF u.stall.why = "irqwait" THEN @ \cup {u.stall.index} ELSE @]
             /\ ~Pops(m, config, i, word)
             /\ u.stall.why = "pull" => word = NoWord
    BY <2>2 DEF StallsProperly
  <2>4. m' = u
    BY <2>1
  <2> HIDE DEF u, i
  <2> QED BY <2>3, <2>4
<1> HIDE DEF i
<1>8. tx' = Fed /\ (m'.stall.why = "pull" => Fed = << >>)
  BY <1>4, <1>5, <1>7 DEF i
<1> QED BY <1>7, <1>8 DEF i

\* No machine waits for a word while there is one to feed it (run.rs, stream_on).
THEOREM NeverStarves == Spec => []NeverStarved
<1>1. Init => NeverStarved
  <2> SUFFICES ASSUME Init PROVE NeverStarved
    OBVIOUS
  <2>1. PICK outputs \in Outputs : m = Reset(outputs)
    BY DEF Init
  <2> QED BY <2>1 DEF NeverStarved, Reset, NotStalled
<1>2. TypeOK /\ NeverStarved /\ [Next]_vars => NeverStarved'
  <2> SUFFICES ASSUME TypeOK, NeverStarved, [Next]_vars, m'.stall.why = "pull"  PROVE rest' = << >>
    BY DEF NeverStarved
  <2>1. CASE UNCHANGED vars
    BY <2>1 DEF NeverStarved, vars
  <2>2. CASE Next
    <3>1. CASE m' = m
      <4>1. rest = << >>
        BY <3>1 DEF NeverStarved
      <4>2. Left = << >>
        <5>1. Left \in Seq(Word) /\ (tx_depth # 0 => Fed \o Left = tx \o rest)
          BY Feeding
        <5>2. After(<< >>, Len(Fed) - Len(tx)) = << >>
          <6>1. Len(Fed) - Len(tx) \in Int
            BY Feeding DEF TypeOK
          <6>2. Smaller(Len(Fed) - Len(tx), 0) \in Int /\ Len(<< >>) = 0
            BY <6>1 DEF Smaller
          <6>3. Len(Fed) >= Len(tx)
            <7>1. \E q \in Seq(Word) : Fed = tx \o q
              <8>1. First(rest, IF tx_depth > Len(tx) THEN tx_depth - Len(tx) ELSE 0) \in Seq(Word)
                <9>1. (IF tx_depth > Len(tx) THEN tx_depth - Len(tx) ELSE 0) \in Nat
                  BY EvaluatorAssumption DEF TypeOK
                <9> QED BY <9>1, Split DEF TypeOK
              <8> QED BY <8>1 DEF Fed, Pushed
            <7> QED BY <7>1 DEF TypeOK
          <6>4. Smaller(Len(Fed) - Len(tx), 0) = 0
            BY <6>1, <6>3, Feeding DEF Smaller, TypeOK
          <6> QED BY <6>2, <6>4 DEF After
        <5> QED BY <4>1, <5>2 DEF Left
      <4> QED BY <2>2, <4>2, Steps
    <3>2. CASE Run
      <4>1. m'.stall # NotStalled
        BY DEF NotStalled
      <4>2. Fed = << >>
        BY <3>2, <4>1, RunStall
      <4> QED BY <2>2, <4>2, Steps, Feeding
    <3> QED BY <2>2, <3>1, <3>2, Steps
  <2> QED BY <2>1, <2>2
<1> QED BY <1>1, <1>2, TypeCorrect, PTL DEF Spec

\* A machine that waits on IRQ WAIT has raised its flag.
FlagRaised == m.stall.why = "irqwait" => m.stall.index \in m.irq_flags

\* The flag stays raised: a stalled machine executes nothing that could lower it.
LEMMA FlagStaysRaised == Spec => []FlagRaised
<1>1. Init => FlagRaised
  <2> SUFFICES ASSUME Init PROVE FlagRaised
    OBVIOUS
  <2>1. PICK outputs \in Outputs : m = Reset(outputs)
    BY DEF Init
  <2> QED BY <2>1 DEF FlagRaised, Reset, NotStalled
<1>2. TypeOK /\ FlagRaised /\ [Next]_vars => FlagRaised'
  <2> SUFFICES ASSUME TypeOK, FlagRaised, [Next]_vars, m'.stall.why = "irqwait"
               PROVE  m'.stall.index \in m'.irq_flags
    BY DEF FlagRaised
  <2>1. CASE m' = m
    BY <2>1 DEF FlagRaised
  <2>2. CASE Run
    <3>1. m'.stall # NotStalled
      BY DEF NotStalled
    <3>2. m'.irq_flags = m.irq_flags \cup {m'.stall.index}
      <4>1. m \in Machine
        BY DEF TypeOK
      <4> QED BY <2>2, <3>1, <4>1, RunStall DEF Machine
    <3> QED BY <3>2
  <2> QED BY <2>1, <2>2, Steps DEF vars
<1> QED BY <1>1, <1>2, TypeCorrect, PTL DEF Spec

\* A stalled instruction has had no effect, so executing it again does it once (step: "re-executes
\* the stalled slot").
THEOREM NoEffectOfStalls == Spec => StallsHaveNoEffect
<1>1. TypeOK /\ FlagRaised /\ [Next]_vars => [StalledHasNoEffect]_vars
  <2> SUFFICES ASSUME TypeOK, FlagRaised, Next, m'.stall # NotStalled
               PROVE  /\ m' = [m EXCEPT !.stall = m'.stall, !.pending_exec = m'.pending_exec,
                                 !.out_latch = m'.out_latch, !.dir_latch = m'.dir_latch,
                                 !.irq_flags = IF m'.stall.why = "irqwait" THEN @ \cup {m'.stall.index} ELSE @]
                      /\ tx' = Fed
    BY DEF StalledHasNoEffect
  <2>1. m \in Machine
    BY DEF TypeOK
  <2>2. CASE m' = m /\ tx' = Fed
    <3>1. m.irq_flags = IF m.stall.why = "irqwait" THEN m.irq_flags \cup {m.stall.index} ELSE m.irq_flags
      BY DEF FlagRaised
    <3> QED BY <2>1, <2>2, <3>1 DEF Machine
  <2>3. CASE Run
    <3>1. m'.pending_exec = NoWord
      BY <2>1, <2>3, RunStall DEF Machine
    <3> QED BY <2>3, <3>1, RunStall
  <2> QED BY <2>2, <2>3, Steps
<1> QED BY <1>1, TypeCorrect, FlagStaysRaised, PTL DEF Spec, StallsHaveNoEffect

\* An instruction that has stalled stalls again exactly when the condition recorded for it still holds.
LEMMA RetryIsExact ==
    ASSUME NEW s \in Machine, NEW u \in Machine, NEW i \in Do,
           NEW gpio0, NEW word0, NEW gpio, NEW word \in Word \cup {NoWord},
           u.stall = WhyStalls(s, config, gpio0, i, word0), u.stall # NotStalled,
           u.stall.why = "irqwait" => u.stall.index \in u.irq_flags,
           u.isr_count = s.isr_count, u.osr_count = s.osr_count, u.rx = s.rx
    PROVE  StillStalled(u, gpio, word) <=> WhyStalls(u, config, gpio, i, word) # NotStalled
<1> DEFINE y == WhyStalls(u, config, gpio, i, word)
<1>1. i.op \in {"jmp", "wait", "in", "out", "push", "pull", "mov", "irq", "set"}
  BY DEF Do
<1>2. CASE i.op \in {"jmp", "mov", "set"}
  BY <1>2 DEF WhyStalls
<1>3. CASE i.op = "wait"
  <2>1. i.src \in {"gpio", "pin", "irq"}
    BY <1>3 DEF WhyStalls
  <2>2. CASE i.src = "gpio"
    <3>1. u.stall = [why |-> "gpio", pol |-> i.pol, index |-> i.index]
      BY <1>3, <2>2 DEF WhyStalls
    <3>2. y # NotStalled <=> gpio[i.index] # i.pol
      BY <1>3, <2>2 DEF WhyStalls, NotStalled
    <3> QED BY <3>1, <3>2 DEF StillStalled
  <2>3. CASE i.src = "pin"
    <3>1. u.stall = [why |-> "pin", pol |-> i.pol, index |-> i.index]
      BY <1>3, <2>3 DEF WhyStalls
    <3>2. y # NotStalled <=> gpio[(config.in_base + i.index) % W] # i.pol
      BY <1>3, <2>3 DEF WhyStalls, NotStalled
    <3> QED BY <3>1, <3>2 DEF StillStalled
  <2>4. CASE i.src = "irq"
    <3>1. u.stall = [why |-> "irq", pol |-> i.pol, index |-> FlagOf(i, config)]
      BY <1>3, <2>4 DEF WhyStalls
    <3>2. y # NotStalled <=> Raised(u, FlagOf(i, config)) # i.pol
      BY <1>3, <2>4 DEF WhyStalls, NotStalled
    <3> QED BY <3>1, <3>2 DEF StillStalled
  <2> QED BY <2>1, <2>2, <2>3, <2>4
<1>4. CASE i.op \in {"in", "push"}
  <2>1. u.stall = [why |-> "push"]
    BY <1>4 DEF WhyStalls
  <2>2. y # NotStalled <=> RxFull(u, config)
    BY <1>4 DEF WhyStalls, NotStalled
  <2> QED BY <2>1, <2>2 DEF StillStalled
<1>5. CASE i.op \in {"out", "pull"}
  <2>1. u.stall = [why |-> "pull"]
    BY <1>5 DEF WhyStalls
  <2>2. y # NotStalled <=> word = NoWord
    <3>1. Refills(u, config) <=> Refills(s, config)
      BY DEF Refills
    <3>2. Held(u, config, i) <=> Held(s, config, i)
      BY DEF Held
    <3> QED BY <1>5, <3>1, <3>2 DEF WhyStalls, NotStalled
  <2> QED BY <2>1, <2>2 DEF StillStalled
<1>6. CASE i.op = "irq"
  <2>1. u.stall = [why |-> "irqwait", pol |-> 0, index |-> FlagOf(i, config)]
    BY <1>6 DEF WhyStalls
  <2>2. y # NotStalled
    BY <1>6, <2>1 DEF WhyStalls, NotStalled
  <2>3. Raised(u, u.stall.index) = 1
    BY <2>1 DEF Raised
  <2> QED BY <2>1, <2>2, <2>3 DEF StillStalled
<1> QED BY <1>1, <1>2, <1>3, <1>4, <1>5, <1>6

\* A stalled machine is retried exactly when its instruction can complete (still_stalled against
\* exec_op), for every instruction that is not a forced one.
THEOREM RetriesAreExact == Spec => []StallsAreExact
<1>1. Init => StallsAreExact
  <2> SUFFICES ASSUME Init PROVE StallsAreExact
    OBVIOUS
  <2>1. PICK outputs \in Outputs : m = Reset(outputs)
    BY DEF Init
  <2> QED BY <2>1 DEF StallsAreExact, Reset
<1>2. TypeOK /\ TypeOK' /\ FlagRaised' /\ StallsAreExact /\ [Next]_vars => StallsAreExact'
  <2> SUFFICES ASSUME TypeOK, TypeOK', FlagRaised', StallsAreExact, [Next]_vars,
                      m'.stall # NotStalled, ~by_force',
                      NEW gpio \in Word, NEW word \in Word \cup {NoWord}
               PROVE  StillStalled(m, gpio, word)' <=> Execute(m, config, gpio, word)'.stall # NotStalled
    BY DEF StallsAreExact
  <2>1. config' = config
    BY Steps DEF vars, setup
  <2>2. StillStalled(m, gpio, word)' <=> StillStalled(m', gpio, word)
    BY <2>1 DEF StillStalled, RxFull, Raised
  <2>3. Execute(m, config, gpio, word)' = Execute(m', config, gpio, word)
    BY <2>1
  <2>4. CASE m' = m /\ by_force' = by_force
    BY <2>2, <2>3, <2>4 DEF StallsAreExact
  <2>5. CASE Run
    <3> DEFINE i == Fetch(m, config).do
    <3>1. ~Forced(m)
      BY <2>5 DEF Run
    <3>2. m \in Machine /\ m' \in Machine /\ m' \in MachineOf(config) /\ config \in Config
      BY <2>1, EvaluatorAssumption DEF TypeOK, MachineOf
    <3>3. /\ i \in Do
          /\ m'.stall = WhyStalls(m, config, Gpio, i, NextWord(Fed))
          /\ m'.pending_exec = NoWord /\ m'.pc = m.pc
          /\ m'.isr_count = m.isr_count /\ m'.osr_count = m.osr_count /\ m'.rx = m.rx
      BY <2>5, <3>2, RunStall DEF Machine
    <3>4. Fetch(m', config).do = i
      BY <3>1, <3>3 DEF Fetch, Forced
    <3>5. StillStalled(m', gpio, word) <=> WhyStalls(m', config, gpio, i, word) # NotStalled
      <4> HIDE DEF i
      <4> QED BY <3>2, <3>3, RetryIsExact DEF FlagRaised
    <3>6. Execute(m', config, gpio, word).stall = WhyStalls(m', config, gpio, i, word)
      <4>1. StallsProperly(m', config, gpio, word)
        BY <3>2, ExecuteStall
      <4> QED BY <3>4, <4>1 DEF StallsProperly
    <3> QED BY <2>2, <2>3, <3>5, <3>6
  <2>6. CASE UNCHANGED vars
    BY <2>4, <2>6 DEF vars
  <2> QED BY <2>4, <2>5, <2>6, Steps
<1> QED BY <1>1, <1>2, TypeCorrect, FlagStaysRaised, PTL DEF Spec
=============================================================================
