-------------------------- MODULE SearchSplit_proof --------------------------
(* Theorems about the narrowing engine's search and its split driver, for every problem. *)
EXTENDS SearchSplit, PioIsa_proof, Induction, FiniteSetTheorems

(***************************************************************************)
(* Sequences.                                                              *)
(***************************************************************************)
Steps(B, n) == [1 .. n -> [B -> B]]
Iteration(g, B, n, a, F) == g \in [0 .. n -> B] /\ g[0] = a /\ \A k \in 1 .. n : g[k] = F[k][g[k - 1]]

\* A step can be repeated n times.
LEMMA Iterates ==
    ASSUME NEW B, NEW a \in B, NEW n \in Nat, NEW F \in Steps(B, n)
    PROVE  \E g : Iteration(g, B, n, a, F)
<1> USE DEF Steps
<1> DEFINE Has(k, g) == g[0] = a /\ \A j \in 1 .. k : g[j] = F[j][g[j - 1]]
           T == {k \in 0 .. n : \E g \in [0 .. k -> B] : Has(k, g)}
<1>1. 0 \in T
  <2> DEFINE g == [j \in 0 .. 0 |-> a]
  <2>1. g \in [0 .. 0 -> B] /\ Has(0, g)
    OBVIOUS
  <2>2. \E f \in [0 .. 0 -> B] : Has(0, f)
    <3> HIDE DEF g, Has
    <3> QED BY <2>1
  <2>3. 0 \in 0 .. n
    OBVIOUS
  <2> QED BY <2>2, <2>3
<1>2. ASSUME NEW k \in T, k < n PROVE k + 1 \in T
  <2>1. PICK g \in [0 .. k -> B] : Has(k, g)
    OBVIOUS
  <2> DEFINE h == [j \in 0 .. k + 1 |-> IF j <= k THEN g[j] ELSE F[k + 1][g[k]]]
  <2>2. F[k + 1][g[k]] \in B /\ k + 1 \in 0 .. n /\ k \in 0 .. n
    BY <1>2
  <2>3. h \in [0 .. k + 1 -> B]
    BY <2>2
  <2>4. Has(k + 1, h)
    <3>1. h[0] = a
      BY <2>1, <2>2
    <3>2. ASSUME NEW j \in 1 .. k + 1 PROVE h[j] = F[j][h[j - 1]]
      <4>1. CASE j <= k
        <5>1. j \in 0 .. k + 1 /\ j - 1 \in 0 .. k + 1 /\ j - 1 <= k /\ j \in 1 .. k
          BY <2>2, <4>1
        <5> QED BY <2>1, <4>1, <5>1
      <4>2. CASE j = k + 1
        <5>1. h[k + 1] = F[k + 1][g[k]] /\ h[k] = g[k] /\ (k + 1) - 1 = k
          BY <2>2
        <5> QED BY <4>2, <5>1
      <4> QED BY <2>2, <4>1, <4>2
    <3> QED BY <3>1, <3>2
  <2> QED BY <2>2, <2>3, <2>4
<1>3. T = 0 .. n
  <2> HIDE DEF T
  <2>1. T \in SUBSET (0 .. n)
    BY DEF T
  <2> QED BY <1>1, <1>2, <2>1, IntervalSet
<1>4. n \in T
  BY <1>3
<1> QED BY <1>4 DEF Iteration

\* The set of the elements of a sequence.
LEMMA ToSetIs ==
    ASSUME NEW s PROVE Seqs!ToSet(s) = {s[i] : i \in DOMAIN s}
  BY DEF Seqs!ToSet

\* What is kept of the first k elements, for every k.
Kept1(kept, s, S) == /\ kept[0] = << >> /\ Keeping(s, S) = kept[Len(s)]
                     /\ \A k \in 1 .. Len(s) : kept[k] = IF s[k] \in S THEN Append(kept[k - 1], s[k]) ELSE kept[k - 1]

\* The recursive function that Keeping is defined by exists.
LEMMA KeepingSteps ==
    ASSUME NEW A, NEW s \in Seq(A), NEW S
    PROVE  \E kept : Kept1(kept, s, S)
<1> DEFINE n == Len(s)
           Eq(g) == g = [k \in 0 .. n |-> IF k = 0 THEN << >>
                                          ELSE IF s[k] \in S THEN Append(g[k - 1], s[k]) ELSE g[k - 1]]
           F == [k \in 1 .. n |-> [q \in Seq(A) |-> IF s[k] \in S THEN Append(q, s[k]) ELSE q]]
           kept == CHOOSE g : Eq(g)
<1>1. Keeping(s, S) = kept[n]
  BY DEF Keeping
<1>2. n \in Nat /\ F \in [1 .. n -> [Seq(A) -> Seq(A)]] /\ << >> \in Seq(A)
  OBVIOUS
<1>3. PICK g \in [0 .. n -> Seq(A)] : g[0] = << >> /\ \A k \in 1 .. n : g[k] = F[k][g[k - 1]]
  <2> DEFINE B == Seq(A)  a == << >>
  <2>1. n \in Nat /\ F \in Steps(B, n) /\ a \in B
    BY <1>2 DEF Steps
  <2> HIDE DEF F, n, B, a
  <2>2. \E g : Iteration(g, B, n, a, F)
    BY <2>1, Iterates
  <2> QED BY <2>2 DEF Iteration, B, a
<1>4. Eq(g)
  <2>1. \A k \in 1 .. n : g[k - 1] \in Seq(A) /\ F[k][g[k - 1]] = IF s[k] \in S THEN Append(g[k - 1], s[k]) ELSE g[k - 1]
    BY <1>2
  <2>2. \A k \in 0 .. n : g[k] = IF k = 0 THEN << >>
                                 ELSE IF s[k] \in S THEN Append(g[k - 1], s[k]) ELSE g[k - 1]
    <3> TAKE k \in 0 .. n
    <3>1. CASE k = 0
      BY <1>3, <3>1
    <3>2. CASE k # 0
      <4>1. k \in 1 .. n
        BY <1>2, <3>2
      <4> QED BY <1>3, <2>1, <3>2, <4>1
    <3> QED BY <3>1, <3>2
  <2> QED BY <2>2
<1>5. Eq(kept)
  <2> HIDE DEF Eq
  <2> QED BY <1>4
<1>6. /\ kept[0] = << >>
      /\ \A k \in 1 .. n : kept[k] = IF s[k] \in S THEN Append(kept[k - 1], s[k]) ELSE kept[k - 1]
  <2> HIDE DEF kept
  <2>1. 0 \in 0 .. n /\ \A k \in 1 .. n : k \in 0 .. n /\ k # 0
    BY <1>2
  <2> QED BY <1>5, <2>1
<1> HIDE DEF kept, F, Eq
<1>7. Kept1(kept, s, S)
  BY <1>1, <1>6 DEF Kept1
<1> QED BY <1>7

\* What is kept of a sequence: the elements that are in the set.
LEMMA KeepingIs ==
    ASSUME NEW A, NEW s \in Seq(A), NEW S
    PROVE  /\ Keeping(s, S) \in Seq(A)
           /\ Seqs!ToSet(Keeping(s, S)) = Seqs!ToSet(s) \cap S
           /\ Len(Keeping(s, S)) <= Len(s)
<1> DEFINE n == Len(s)
<1>1. PICK kept : Kept1(kept, s, S)
  BY KeepingSteps
<1>2. n \in Nat /\ << >> \in Seq(A) /\ Keeping(s, S) = kept[n]
  BY <1>1 DEF Kept1
<1>6. /\ kept[0] = << >>
      /\ \A k \in 1 .. n : kept[k] = IF s[k] \in S THEN Append(kept[k - 1], s[k]) ELSE kept[k - 1]
  BY <1>1 DEF Kept1
<1> DEFINE Good(k) == /\ kept[k] \in Seq(A) /\ Len(kept[k]) <= k
                      /\ {kept[k][i] : i \in DOMAIN kept[k]} = {s[i] : i \in 1 .. k} \cap S
           T == {k \in 0 .. n : Good(k)}
<1>7. 0 \in T
  <2>1. DOMAIN kept[0] = {} /\ 0 \in 0 .. n /\ kept[0] \in Seq(A) /\ Len(kept[0]) <= 0 /\ 1 .. 0 = {}
    BY <1>2, <1>6
  <2>2. {kept[0][i] : i \in DOMAIN kept[0]} = {} /\ {s[i] : i \in 1 .. 0} = {}
    BY <2>1
  <2> QED BY <2>1, <2>2
<1>8. ASSUME NEW k \in T, k < n PROVE k + 1 \in T
  <2>1. k + 1 \in 1 .. n /\ (k + 1) - 1 = k /\ k \in Nat
    BY <1>2, <1>8
  <2>2. kept[k + 1] = IF s[k + 1] \in S THEN Append(kept[k], s[k + 1]) ELSE kept[k]
    BY <1>6, <2>1
  <2>3. Good(k) /\ s[k + 1] \in A
    <3>1. Good(k)
      OBVIOUS
    <3>2. s[k + 1] \in A
      BY <2>1, ElementOfSeq
    <3> QED BY <3>1, <3>2
  <2>4. kept[k + 1] \in Seq(A) /\ Len(kept[k + 1]) <= k + 1
    BY <2>1, <2>2, <2>3
  <2>5. {s[i] : i \in 1 .. k + 1} = {s[i] : i \in 1 .. k} \cup {s[k + 1]}
    BY <2>1
  <2>6. {kept[k + 1][i] : i \in DOMAIN kept[k + 1]} =
          {kept[k][i] : i \in DOMAIN kept[k]} \cup (IF s[k + 1] \in S THEN {s[k + 1]} ELSE {})
    <3>1. CASE s[k + 1] \in S
      <4> DEFINE q == kept[k]  e == s[k + 1]
      <4>1. q \in Seq(A) /\ e \in A
        BY <2>3
      <4> HIDE DEF q, e
      <4>2. {Append(q, e)[i] : i \in DOMAIN Append(q, e)} = {q[i] : i \in DOMAIN q} \cup {e}
        <5>1. DOMAIN Append(q, e) = DOMAIN q \cup {Len(q) + 1} /\ Append(q, e)[Len(q) + 1] = e
              /\ \A i \in DOMAIN q : Append(q, e)[i] = q[i]
          BY <4>1
        <5> QED BY <5>1
      <4> QED BY <2>2, <3>1, <4>2 DEF q, e
    <3>2. CASE s[k + 1] \notin S
      BY <2>2, <3>2
    <3> QED BY <3>1, <3>2
  <2>7. {kept[k + 1][i] : i \in DOMAIN kept[k + 1]} = {s[i] : i \in 1 .. k + 1} \cap S
    BY <2>3, <2>5, <2>6
  <2>8. k + 1 \in 0 .. n
    BY <2>1
  <2> QED BY <2>4, <2>7, <2>8
<1>9. n \in T
  <2>1. T = 0 .. n
    <3> HIDE DEF T
    <3>1. T \in SUBSET (0 .. n)
      BY DEF T
    <3> QED BY <1>2, <1>7, <1>8, <3>1, IntervalSet
  <2>2. n \in 0 .. n
    BY <1>2
  <2> QED BY <2>1, <2>2
<1>10. kept[n] \in Seq(A) /\ Len(kept[n]) <= n /\ Seqs!ToSet(kept[n]) = Seqs!ToSet(s) \cap S
  <2>1. Good(n)
    BY <1>9
  <2>2. Seqs!ToSet(kept[n]) = {kept[n][i] : i \in DOMAIN kept[n]} /\ Seqs!ToSet(s) = {s[i] : i \in DOMAIN s}
    BY ToSetIs
  <2>3. DOMAIN s = 1 .. n
    OBVIOUS
  <2> QED BY <2>1, <2>2, <2>3
<1> QED BY <1>2, <1>10

\* What is kept stands in its order.
Ordered(h, q, s, k) == /\ h \in [1 .. Len(q) -> 1 .. k]
                       /\ \A i \in 1 .. Len(q) : q[i] = s[h[i]]
                       /\ \A i, j \in 1 .. Len(q) : i < j => h[i] < h[j]

\* What is kept stays in its order.
LEMMA KeepingOrder ==
    ASSUME NEW A, NEW s \in Seq(A), NEW S
    PROVE  \E h : Ordered(h, Keeping(s, S), s, Len(s))
<1> DEFINE n == Len(s)
<1>1. PICK kept : Kept1(kept, s, S)
  BY KeepingSteps
<1>2. n \in Nat /\ << >> \in Seq(A) /\ Len(<< >>) = 0
  OBVIOUS
<1>3. /\ kept[0] = << >> /\ Keeping(s, S) = kept[n]
      /\ \A k \in 1 .. n : kept[k] = IF s[k] \in S THEN Append(kept[k - 1], s[k]) ELSE kept[k - 1]
  BY <1>1 DEF Kept1
<1> DEFINE T == {k \in 0 .. n : kept[k] \in Seq(A) /\ \E h : Ordered(h, kept[k], s, k)}
<1>4. 0 \in T
  <2> DEFINE none == [i \in 1 .. 0 |-> i]
  <2>1. kept[0] \in Seq(A) /\ Len(kept[0]) = 0 /\ 1 .. 0 = {}
    BY <1>2, <1>3
  <2>2. Ordered(none, kept[0], s, 0)
    BY <2>1 DEF Ordered
  <2> HIDE DEF none
  <2>3. \E h : Ordered(h, kept[0], s, 0)
    BY <2>2
  <2> QED BY <1>2, <2>1, <2>3
<1>5. ASSUME NEW k \in T, k < n PROVE k + 1 \in T
  <2>1. PICK h : Ordered(h, kept[k], s, k)
    OBVIOUS
  <2>2. k + 1 \in 1 .. n /\ (k + 1) - 1 = k /\ k \in Nat /\ k + 1 \in 0 .. n
    BY <1>2, <1>5
  <2>3. kept[k] \in Seq(A) /\ s[k + 1] \in A
    BY <2>2
  <2>4. kept[k + 1] = IF s[k + 1] \in S THEN Append(kept[k], s[k + 1]) ELSE kept[k]
    BY <1>3, <2>2
  <2> DEFINE q == kept[k]  e == s[k + 1]  l == Len(q)
  <2>5. l \in Nat
    BY <2>3
  <2>6. CASE e \in S
    <3> DEFINE g == [i \in 1 .. l + 1 |-> IF i <= l THEN h[i] ELSE k + 1]
               r == Append(q, e)
    <3>1. r \in Seq(A) /\ Len(r) = l + 1 /\ r[l + 1] = e /\ \A i \in 1 .. l : r[i] = q[i]
      BY <2>3, AppendProperties
    <3>2. h \in [1 .. l -> 1 .. k] /\ (\A i \in 1 .. l : q[i] = s[h[i]]) /\ \A i, j \in 1 .. l : i < j => h[i] < h[j]
      BY <2>1 DEF Ordered
    <3> HIDE DEF r, q, l
    <3>3. \A i \in 1 .. l + 1 : i \in 1 .. l \/ (i = l + 1 /\ ~(i <= l))
      BY <2>5
    <3>4. \A i \in 1 .. l : g[i] = h[i] /\ h[i] \in 1 .. k /\ i \in 1 .. l + 1
      BY <2>5, <3>2
    <3>5. g[l + 1] = k + 1 /\ k + 1 \in 1 .. k + 1
      BY <2>2, <2>5
    <3>6. g \in [1 .. l + 1 -> 1 .. k + 1]
      <4>1. \A i \in 1 .. l + 1 : g[i] \in 1 .. k + 1
        BY <2>2, <3>3, <3>4, <3>5
      <4> QED BY <4>1
    <3> HIDE DEF g, e
    <3>7. \A i \in 1 .. l + 1 : r[i] = s[g[i]]
      BY <3>1, <3>2, <3>3, <3>4, <3>5 DEF e
    <3>8. ASSUME NEW i \in 1 .. l + 1, NEW j \in 1 .. l + 1, i < j PROVE g[i] < g[j]
      <4>1. i \in 1 .. l
        BY <2>5, <3>8
      <4>2. CASE j \in 1 .. l
        BY <3>2, <3>4, <3>8, <4>1, <4>2
      <4>3. CASE j = l + 1
        <5>1. g[i] \in 1 .. k
          BY <3>4, <4>1
        <5> QED BY <2>2, <3>5, <4>3, <5>1
      <4> QED BY <3>3, <4>2, <4>3
    <3>9. Ordered(g, r, s, k + 1)
      BY <3>1, <3>6, <3>7, <3>8 DEF Ordered
    <3>10. kept[k + 1] = r /\ r \in Seq(A)
      BY <2>4, <2>6, <3>1 DEF r, q, e
    <3>11. \E f : Ordered(f, kept[k + 1], s, k + 1)
      BY <3>9, <3>10
    <3> QED BY <2>2, <3>10, <3>11
  <2>7. CASE e \notin S
    <3>1. kept[k + 1] = q
      BY <2>4, <2>7
    <3>2. Ordered(h, q, s, k + 1)
      BY <2>1, <2>2 DEF Ordered
    <3>3. \E f : Ordered(f, kept[k + 1], s, k + 1)
      BY <3>1, <3>2
    <3> QED BY <2>2, <2>3, <3>1, <3>3
  <2> QED BY <2>6, <2>7
<1>6. n \in T
  <2>1. T = 0 .. n
    <3> HIDE DEF T
    <3>1. T \in SUBSET (0 .. n)
      BY DEF T
    <3> QED BY <1>2, <1>4, <1>5, <3>1, IntervalSet
  <2>2. n \in 0 .. n
    BY <1>2
  <2> QED BY <2>1, <2>2
<1> QED BY <1>3, <1>6

(***************************************************************************)
(* Words of which some fields are decided.                                 *)
(***************************************************************************)
Fields(op) == Seqs!ToSet(Operands(op))

\* The fields of each opcode.
LEMMA FieldsAre ==
    /\ Fields("jmp") = {"cond", "target"} /\ Fields("wait") = {"pol", "src", "index"}
    /\ Fields("in") = {"src", "n"} /\ Fields("out") = {"dst", "n"} /\ Fields("fifo") = {"bits"}
    /\ Fields("mov") = {"dst", "how", "src"} /\ Fields("irq") = {"bits", "index"} /\ Fields("set") = {"dst", "data"}
    /\ \A op \in Opcodes : Operands(op) \in Seq(Fields(op)) /\ Fields(op) \cap {"side", "op", "delay"} = {}
<1>1. \A a, b, c : {<<a>>[i] : i \in DOMAIN <<a>>} = {a} /\ {<<a, b>>[i] : i \in DOMAIN <<a, b>>} = {a, b}
                    /\ {<<a, b, c>>[i] : i \in DOMAIN <<a, b, c>>} = {a, b, c}
  <2> TAKE a, b, c
  <2>1. DOMAIN <<a>> = {1} /\ DOMAIN <<a, b>> = {1, 2} /\ DOMAIN <<a, b, c>> = {1, 2, 3}
    OBVIOUS
  <2> QED BY <2>1
<1>2. /\ Fields("jmp") = {"cond", "target"} /\ Fields("wait") = {"pol", "src", "index"}
      /\ Fields("in") = {"src", "n"} /\ Fields("out") = {"dst", "n"} /\ Fields("fifo") = {"bits"}
      /\ Fields("mov") = {"dst", "how", "src"} /\ Fields("irq") = {"bits", "index"} /\ Fields("set") = {"dst", "data"}
  BY <1>1, ToSetIs DEF Fields, Operands
<1>3. \A op \in Opcodes : Operands(op) \in Seq(Fields(op))
  <2>1. \A a, b, c : <<a>> \in Seq({a}) /\ <<a, b>> \in Seq({a, b}) /\ <<a, b, c>> \in Seq({a, b, c})
    OBVIOUS
  <2> QED BY <1>2, <2>1 DEF Opcodes, Operands
<1>4. \A op \in Opcodes : Fields(op) \cap {"side", "op", "delay"} = {}
  BY <1>2 DEF Opcodes
<1> QED BY <1>2, <1>3, <1>4

\* The types of the fields that are decided.
FieldTypes(w) ==
    /\ w.op = "jmp" => /\ "cond" \in DOMAIN w => w.cond \in {"always", "!x", "x--", "!y", "y--", "x!=y", "pin", "!osre"}
                       /\ "target" \in DOMAIN w => w.target \in Slots
    /\ w.op = "wait" => /\ "pol" \in DOMAIN w => w.pol \in {0, 1}
                        /\ "src" \in DOMAIN w => w.src \in {"gpio", "pin", "irq", "jmppin"}
                        /\ "index" \in DOMAIN w => w.index \in 0 .. 31
    /\ w.op = "in" => /\ "src" \in DOMAIN w => w.src \in {"pins", "x", "y", "null", "isr", "osr"}
                      /\ "n" \in DOMAIN w => w.n \in 1 .. W
    /\ w.op = "out" => /\ "dst" \in DOMAIN w => w.dst \in {"pins", "x", "y", "null", "pindirs", "pc", "isr", "exec"}
                       /\ "n" \in DOMAIN w => w.n \in 1 .. W
    /\ w.op = "fifo" => ("bits" \in DOMAIN w => w.bits \in [pull : BOOLEAN, guard : BOOLEAN, block : BOOLEAN])
    /\ w.op = "mov" => /\ "dst" \in DOMAIN w => w.dst \in {"pins", "x", "y", "pindirs", "exec", "pc", "isr", "osr"}
                       /\ "how" \in DOMAIN w => w.how \in {"none", "invert", "reverse"}
                       /\ "src" \in DOMAIN w => w.src \in {"pins", "x", "y", "null", "status", "isr", "osr"}
    /\ w.op = "irq" => /\ "bits" \in DOMAIN w => w.bits \in [clear : BOOLEAN, wait : BOOLEAN]
                       /\ "index" \in DOMAIN w => w.index \in 0 .. 31
    /\ w.op = "set" => /\ "dst" \in DOMAIN w => w.dst \in {"pins", "x", "y", "pindirs"}
                       /\ "data" \in DOMAIN w => w.data \in Word

\* A remainder is below what it is divided by.
LEMMA Remainder ==
    ASSUME NEW m \in Nat, m > 0, NEW k \in Int PROVE k % m \in 0 .. m - 1
OBVIOUS

\* The fields of a word whose opcode is decided, with their types.
LEMMA WordFields ==
    ASSUME NEW w, Partial(w), "op" \in DOMAIN w
    PROVE  /\ w.op \in Opcodes /\ FieldTypes(w)
           /\ DOMAIN w \subseteq {"side", "op", "delay"} \cup Fields(w.op)
<1>1. w.op \in Opcodes /\ \A f \in DOMAIN w \ {"side", "op", "delay"} : w[f] \in Domain(w.op, f)
  BY DEF Partial, Decided
<1>2. FieldTypes(w)
  BY <1>1 DEF FieldTypes, Domain
<1> QED BY <1>1, <1>2 DEF Partial, Decided, Fields

\* What a word does is an instruction.
LEMMA MeaningType ==
    ASSUME NEW w, Partial(w)
    PROVE  Meaning(w) \in Do /\ AsInsn(w) \in Insn
<1>1. 0 \in Bits /\ 0 \in Slots /\ W \in 1 .. W /\ \A k \in 0 .. 31 : k % W \in Bits /\ k % 8 \in Flags
  BY IsaAssumption DEF Bits, Slots, Flags
<1>2. Zero \in Word
  BY DEF Zero, Word
<1>3. Get(w, "side", NoWord) \in Word \cup {NoWord}
  BY DEF Partial, Get, Decided
<1>4. Meaning(w) \in Do
  <2>1. CASE "op" \notin DOMAIN w
    <3>1. Meaning(w) = [op |-> "jmp", cond |-> Get(w, "cond", "always"), target |-> Get(w, "target", 0)]
      BY <2>1 DEF Meaning, Get, Decided
    <3>2. "cond" \notin DOMAIN w /\ "target" \notin DOMAIN w
      BY <2>1 DEF Partial, Decided
    <3> QED BY <1>1, <3>1, <3>2 DEF Do, Get, Decided
  <2>2. CASE "op" \in DOMAIN w
    <3>1. w.op \in Opcodes /\ FieldTypes(w) /\ Get(w, "op", "jmp") = w.op
      BY <2>2, WordFields DEF Get, Decided
    <3>2. CASE w.op = "jmp"
      BY <1>1, <3>1, <3>2 DEF FieldTypes, Meaning, Do, Get, Decided
    <3>3. CASE w.op = "wait"
      <4> DEFINE index == Get(w, "index", 0)
      <4>1. index \in 0 .. 31
        BY <3>1, <3>3 DEF FieldTypes, Get, Decided
      <4>2. Meaning(w) = [op |-> "wait", src |-> Get(w, "src", "gpio"), pol |-> Get(w, "pol", 0),
                          index |-> index % W, flag |-> index % 8, rel |-> index >= 16]
        BY <3>1, <3>3 DEF Meaning
      <4> HIDE DEF index
      <4>3. index % W \in Bits /\ index % 8 \in Flags /\ (index >= 16) \in BOOLEAN
        <5>1. index % W \in Bits
          <6>1. W \in Nat /\ W > 0 /\ index \in Int
            BY <4>1, IsaAssumption
          <6> QED BY <6>1, Remainder DEF Bits
        <5>2. index % 8 \in Flags
          BY <4>1 DEF Flags
        <5> QED BY <5>1, <5>2
      <4>4. Get(w, "src", "gpio") \in {"gpio", "pin", "irq", "jmppin"} /\ Get(w, "pol", 0) \in {0, 1}
        BY <3>1, <3>3 DEF FieldTypes, Get, Decided
      <4> QED BY <4>2, <4>3, <4>4 DEF Do
    <3>4. CASE w.op = "in"
      BY <1>1, <3>1, <3>4 DEF FieldTypes, Meaning, Do, Get, Decided
    <3>5. CASE w.op = "out"
      BY <1>1, <3>1, <3>5 DEF FieldTypes, Meaning, Do, Get, Decided
    <3>6. CASE w.op = "fifo"
      BY <1>1, <3>1, <3>6 DEF FieldTypes, Meaning, Do, Get, Decided
    <3>7. CASE w.op = "mov"
      BY <1>1, <3>1, <3>7 DEF FieldTypes, Meaning, MovDo, Do, Get, Decided
    <3>8. CASE w.op = "irq"
      <4> DEFINE index == Get(w, "index", 0)
                 bits == Get(w, "bits", [clear |-> FALSE, wait |-> FALSE])
      <4>0. bits \in [clear : BOOLEAN, wait : BOOLEAN]
        BY <3>1, <3>8 DEF FieldTypes, Get, Decided
      <4>1. index \in 0 .. 31 /\ bits.clear \in BOOLEAN /\ bits.wait \in BOOLEAN
        <5>1. index \in 0 .. 31
          BY <3>1, <3>8 DEF FieldTypes, Get, Decided
        <5> HIDE DEF index, bits
        <5> QED BY <4>0, <5>1
      <4>2. Meaning(w) = [op |-> "irq", clear |-> bits.clear, wait |-> bits.wait, flag |-> index % 8, rel |-> index >= 16]
        BY <3>1, <3>8 DEF Meaning
      <4> HIDE DEF index, bits
      <4>3. index % 8 \in Flags /\ (index >= 16) \in BOOLEAN
        BY <4>1 DEF Flags
      <4> QED BY <4>1, <4>2, <4>3 DEF Do
    <3>9. CASE w.op = "set"
      BY <1>2, <3>1, <3>9 DEF FieldTypes, Meaning, Do, Get, Decided
    <3> QED BY <3>1, <3>2, <3>3, <3>4, <3>5, <3>6, <3>7, <3>8, <3>9 DEF Opcodes
  <2> QED BY <2>1, <2>2
<1> QED BY <1>3, <1>4 DEF AsInsn, Insn

\* What a fetch asks for: side-set and opcode, then the operands that are not deferred.
AskedOperands(w) == IF "op" \in DOMAIN w THEN {f \in Fields(w.op) : ~Deferred(w, f)} ELSE {}

\* Fetching asks for the side-set, then the opcode, then the operands that are not deferred.
LEMMA AskedIs ==
    ASSUME NEW w, Partial(w)
    PROVE  /\ \E S : AskedAtFetch(w) \in Seq(S)
           /\ Len(AskedAtFetch(w)) >= 2 /\ AskedAtFetch(w)[1] = "side" /\ AskedAtFetch(w)[2] = "op"
           /\ {AskedAtFetch(w)[i] : i \in DOMAIN AskedAtFetch(w)} = {"side", "op"} \cup AskedOperands(w)
<1> DEFINE k == IF "op" \in DOMAIN w THEN Keeping(Operands(w.op), AskedOperands(w)) ELSE << >>
           pre == <<"side", "op">>
           F == {"side", "op"} \cup AskedOperands(w)
<1>1. AskedAtFetch(w) = pre \o k
  BY DEF AskedAtFetch, Decided, Fields, AskedOperands
<1>2. k \in Seq(AskedOperands(w)) /\ {k[i] : i \in DOMAIN k} = AskedOperands(w)
  <2>1. CASE "op" \in DOMAIN w
    <3> DEFINE q == Operands(w.op)  S == AskedOperands(w)  r == Keeping(q, S)
    <3>1. w.op \in Opcodes
      BY <2>1 DEF Partial, Decided
    <3>2. q \in Seq(Fields(w.op)) /\ S \subseteq Fields(w.op) /\ Seqs!ToSet(q) = Fields(w.op)
      BY <2>1, <3>1, FieldsAre DEF AskedOperands, Fields
    <3>3. k = r
      BY <2>1
    <3> HIDE DEF q, S, r
    <3>4. r \in Seq(Fields(w.op)) /\ Seqs!ToSet(r) = Seqs!ToSet(q) \cap S
      BY <3>2, KeepingIs DEF r
    <3>5. {r[i] : i \in DOMAIN r} = S
      BY <3>2, <3>4, ToSetIs
    <3>6. r \in Seq(S)
      BY <3>4, <3>5
    <3> QED BY <3>3, <3>5, <3>6 DEF S
  <2>2. CASE "op" \notin DOMAIN w
    <3>1. AskedOperands(w) = {} /\ k = << >>
      BY <2>2 DEF AskedOperands
    <3>2. k \in Seq({}) /\ Len(k) = 0
      BY <3>1, EmptySeq
    <3>3. DOMAIN k = {}
      BY <3>2, LenProperties
    <3> HIDE DEF k
    <3> QED BY <3>1, <3>2, <3>3
  <2> QED BY <2>1, <2>2
<1>3. k \in Seq(F) /\ pre \in Seq(F) /\ Len(pre) = 2 /\ pre[1] = "side" /\ pre[2] = "op"
  BY <1>2
<1> HIDE DEF k, pre, F
<1>4. /\ pre \o k \in Seq(F) /\ Len(pre \o k) = 2 + Len(k) /\ Len(k) \in Nat
      /\ DOMAIN k = 1 .. Len(k) /\ DOMAIN (pre \o k) = 1 .. 2 + Len(k)
  <2>1. pre \o k \in Seq(F) /\ Len(pre \o k) = Len(pre) + Len(k)
    BY <1>3, ConcatProperties
  <2> QED BY <1>3, <2>1, LenProperties
<1>5. /\ (pre \o k)[1] = "side" /\ (pre \o k)[2] = "op"
      /\ \A i \in 1 .. Len(k) : (pre \o k)[2 + i] = k[i]
  <2>1. \A i \in 1 .. Len(pre) + Len(k) : (pre \o k)[i] = IF i <= Len(pre) THEN pre[i] ELSE k[i - Len(pre)]
    BY <1>3, ConcatProperties
  <2>2. 1 \in 1 .. 2 + Len(k) /\ 2 \in 1 .. 2 + Len(k)
        /\ \A i \in 1 .. Len(k) : 2 + i \in 1 .. 2 + Len(k) /\ ~(2 + i <= 2) /\ (2 + i) - 2 = i
    BY <1>4
  <2>3. (pre \o k)[1] = pre[1] /\ (pre \o k)[2] = pre[2]
    <3> DEFINE c == pre \o k
    <3>1. \A i \in 1 .. Len(pre) + Len(k) : c[i] = IF i <= Len(pre) THEN pre[i] ELSE k[i - Len(pre)]
      BY <2>1
    <3>2. 1 \in 1 .. Len(pre) + Len(k) /\ 2 \in 1 .. Len(pre) + Len(k) /\ 1 <= Len(pre) /\ 2 <= Len(pre)
      BY <1>3, <1>4
    <3> HIDE DEF c
    <3>3. c[1] = pre[1] /\ c[2] = pre[2]
      BY <3>1, <3>2
    <3> QED BY <3>3 DEF c
  <2>4. ASSUME NEW i \in 1 .. Len(k) PROVE (pre \o k)[2 + i] = k[i]
    <3>1. 2 + i \in 1 .. Len(pre) + Len(k) /\ ~(2 + i <= Len(pre)) /\ (2 + i) - Len(pre) = i
      BY <1>3, <1>4
    <3> QED BY <2>1, <3>1
  <2> QED BY <1>3, <2>3, <2>4
<1>6. {(pre \o k)[i] : i \in DOMAIN (pre \o k)} = {"side", "op"} \cup {k[i] : i \in DOMAIN k}
  <2>1. ASSUME NEW i \in 1 .. 2 + Len(k) PROVE (pre \o k)[i] \in {"side", "op"} \cup {k[j] : j \in DOMAIN k}
    <3>1. i = 1 \/ i = 2 \/ (i - 2 \in 1 .. Len(k) /\ 2 + (i - 2) = i)
      BY <1>4
    <3> QED BY <1>4, <1>5, <3>1
  <2>2. ASSUME NEW i \in 1 .. Len(k) PROVE k[i] \in {(pre \o k)[j] : j \in DOMAIN (pre \o k)}
    <3>1. 2 + i \in 1 .. 2 + Len(k)
      BY <1>4
    <3> QED BY <1>4, <1>5, <3>1
  <2>3. 1 \in 1 .. 2 + Len(k) /\ 2 \in 1 .. 2 + Len(k)
    BY <1>4
  <2> DEFINE c == pre \o k
             S == {"side", "op"}
  <2>4. DOMAIN c = 1 .. 2 + Len(k) /\ c[1] = "side" /\ c[2] = "op" /\ DOMAIN k = 1 .. Len(k)
        /\ (\A i \in 1 .. 2 + Len(k) : c[i] \in S \cup {k[j] : j \in DOMAIN k})
        /\ (\A i \in 1 .. Len(k) : k[i] \in {c[j] : j \in DOMAIN c})
    BY <1>4, <1>5, <2>1, <2>2
  <2> HIDE DEF c
  <2>5. S \subseteq {c[i] : i \in DOMAIN c}
    BY <2>3, <2>4
  <2> HIDE DEF S
  <2>6. {c[i] : i \in DOMAIN c} \subseteq S \cup {k[i] : i \in DOMAIN k}
    BY <2>4
  <2>7. S \cup {k[i] : i \in DOMAIN k} \subseteq {c[i] : i \in DOMAIN c}
    BY <2>4, <2>5
  <2>8. {c[i] : i \in DOMAIN c} = S \cup {k[i] : i \in DOMAIN k}
    BY <2>6, <2>7
  <2> QED BY <2>8 DEF c, S
<1>7. \E S : pre \o k \in Seq(S)
  BY <1>4
<1>8. Len(pre \o k) >= 2
  BY <1>4
<1> DEFINE a == AskedAtFetch(w)
<1>9. a = pre \o k
  BY <1>1
<1> HIDE DEF a
<1>10. /\ \E S : a \in Seq(S)
       /\ Len(a) >= 2 /\ a[1] = "side" /\ a[2] = "op"
       /\ {a[i] : i \in DOMAIN a} = {"side", "op"} \cup AskedOperands(w)
  <2>1. \E S : a \in Seq(S)
    BY <1>7, <1>9
  <2>2. {a[i] : i \in DOMAIN a} = {"side", "op"} \cup AskedOperands(w)
    BY <1>2, <1>6, <1>9
  <2> QED BY <1>5, <1>8, <1>9, <2>1, <2>2
<1> QED BY <1>10 DEF a

\* Nothing is wanted of a word whose side-set, opcode and operands that matter are decided.
LEMMA DemandNone ==
    ASSUME NEW w, Partial(w), Demand(w) = "none"
    PROVE  /\ "side" \in DOMAIN w /\ "op" \in DOMAIN w
           /\ \A f \in Fields(w.op) : f \in DOMAIN w \/ Deferred(w, f)
<1> DEFINE asked == AskedAtFetch(w)
           open == {i \in DOMAIN asked : ~Decided(w, asked[i])}
           first == CHOOSE i \in open : \A j \in open : i <= j
<1>1. Demand(w) = IF open = {} THEN "none" ELSE asked[first]
  BY DEF Demand
<1>2. PICK S : asked \in Seq(S)
  BY AskedIs
<1>3. Len(asked) >= 2 /\ asked[1] = "side" /\ asked[2] = "op"
  BY AskedIs
<1>4. DOMAIN asked = 1 .. Len(asked) /\ Len(asked) \in Nat /\ open \in SUBSET Nat
  BY <1>2
<1> DEFINE O == AskedOperands(w)
<1>a. {asked[i] : i \in DOMAIN asked} = {"side", "op"} \cup O
  BY AskedIs
<1> HIDE DEF asked, O
<1>5. open # {} => asked[first] # "none"
  <2> SUFFICES ASSUME open # {} PROVE asked[first] # "none"
    OBVIOUS
  <2>1. \E i \in open : \A j \in open : i <= j
    <3> HIDE DEF open
    <3> QED BY <1>4, LeastNumber
  <2>2. first \in DOMAIN asked
    BY <2>1
  <2>3. asked[first] \in {"side", "op"} \cup O
    BY <1>a, <2>2
  <2>4. "none" \notin O
    <3> SUFFICES ASSUME "none" \in O PROVE FALSE
      OBVIOUS
    <3>1. "op" \in DOMAIN w /\ "none" \in Fields(w.op)
      BY DEF O, AskedOperands
    <3>2. w.op \in Opcodes
      BY <3>1, WordFields
    <3>3. /\ Fields("jmp") = {"cond", "target"} /\ Fields("wait") = {"pol", "src", "index"}
          /\ Fields("in") = {"src", "n"} /\ Fields("out") = {"dst", "n"} /\ Fields("fifo") = {"bits"}
          /\ Fields("mov") = {"dst", "how", "src"} /\ Fields("irq") = {"bits", "index"} /\ Fields("set") = {"dst", "data"}
      BY FieldsAre, Zenon
    <3> QED BY <3>1, <3>2, <3>3 DEF Opcodes
  <2> QED BY <2>3, <2>4
<1>6. open = {}
  BY <1>1, <1>5
<1>7. \A i \in DOMAIN asked : asked[i] \in DOMAIN w
  BY <1>6 DEF Decided
<1>8. 1 \in DOMAIN asked /\ 2 \in DOMAIN asked
  BY <1>3, <1>4
<1>9. "side" \in DOMAIN w /\ "op" \in DOMAIN w
  BY <1>3, <1>7, <1>8
<1>10. O \subseteq DOMAIN w
  BY <1>7, <1>a
<1> QED BY <1>9, <1>10 DEF O, AskedOperands

\* What is wanted is not decided, and side-set and opcode come before it.
LEMMA DemandSome ==
    ASSUME NEW w, Partial(w), Demand(w) # "none"
    PROVE  /\ Demand(w) \notin DOMAIN w
           /\ "side" \notin DOMAIN w => Demand(w) = "side"
           /\ Demand(w) \in {"side", "op"} \/ ("op" \in DOMAIN w /\ Demand(w) \in Fields(w.op) /\ ~Deferred(w, Demand(w)))
<1> DEFINE asked == AskedAtFetch(w)
           open == {i \in DOMAIN asked : ~Decided(w, asked[i])}
           first == CHOOSE i \in open : \A j \in open : i <= j
<1>1. Demand(w) = IF open = {} THEN "none" ELSE asked[first]
  BY DEF Demand
<1>2. PICK S : asked \in Seq(S)
  BY AskedIs
<1>3. Len(asked) >= 2 /\ asked[1] = "side" /\ asked[2] = "op"
  BY AskedIs
<1>4. DOMAIN asked = 1 .. Len(asked) /\ Len(asked) \in Nat /\ open \in SUBSET Nat
  BY <1>2
<1>5. open # {}
  BY <1>1
<1>6. first \in open /\ \A j \in open : first <= j
  <2>1. \E i \in open : \A j \in open : i <= j
    <3> HIDE DEF open
    <3> QED BY <1>4, <1>5, LeastNumber
  <2> HIDE DEF open
  <2> QED BY <2>1
<1>7. Demand(w) = asked[first]
  BY <1>1, <1>5
<1>8. first \in DOMAIN asked /\ Demand(w) \notin DOMAIN w
  BY <1>6, <1>7 DEF Decided
<1>9. "side" \notin DOMAIN w => Demand(w) = "side"
  <2> SUFFICES ASSUME "side" \notin DOMAIN w PROVE Demand(w) = "side"
    OBVIOUS
  <2>1. 1 \in open
    BY <1>3, <1>4 DEF Decided
  <2>2. first <= 1 /\ first \in 1 .. Len(asked)
    BY <1>4, <1>6, <1>8, <2>1
  <2>3. first = 1
    BY <1>4, <2>2
  <2> QED BY <1>3, <1>7, <2>3
<1>10. Demand(w) \in {"side", "op"} \/ ("op" \in DOMAIN w /\ Demand(w) \in Fields(w.op) /\ ~Deferred(w, Demand(w)))
  <2>1. {asked[i] : i \in DOMAIN asked} = {"side", "op"} \cup AskedOperands(w)
    BY AskedIs
  <2> HIDE DEF asked
  <2>2. Demand(w) \in {"side", "op"} \cup AskedOperands(w)
    BY <1>7, <1>8, <2>1
  <2> DEFINE d == Demand(w)
  <2>3. d \in {"side", "op"} \/ d \in AskedOperands(w)
    BY <2>2
  <2>4. AskedOperands(w) # {} => "op" \in DOMAIN w /\ AskedOperands(w) = {f \in Fields(w.op) : ~Deferred(w, f)}
    BY DEF AskedOperands
  <2> HIDE DEF d
  <2>5. d \in AskedOperands(w) => "op" \in DOMAIN w /\ d \in Fields(w.op) /\ ~Deferred(w, d)
    BY <2>4
  <2>6. d \in {"side", "op"} \/ ("op" \in DOMAIN w /\ d \in Fields(w.op) /\ ~Deferred(w, d))
    BY <2>3, <2>5
  <2> QED BY <2>6 DEF d
<1> QED BY <1>8, <1>9, <1>10
(***************************************************************************)
(* The shape of what is searched: slots, constraints, tags and items.      *)
(***************************************************************************)
SlotOK(p, w) == /\ Partial(w)
                /\ "op" \in DOMAIN w => w.op \in DOMAIN p.operands
                /\ p.side = << >> => "side" \in DOMAIN w /\ w.side = NoWord

\* The field f of w is undecided and may become v.
May(p, w, f, v) ==
    /\ f \notin DOMAIN w
    /\ f \in {"side", "op", "delay"} \/ ("op" \in DOMAIN w /\ f \in Fields(w.op) /\ v \in Domain(w.op, f))
    /\ f = "side" => v \in Word \cup {NoWord}
    /\ f = "op" => v \in DOMAIN p.operands
    /\ f = "delay" => v \in Nat

WordsOK(p, words) == /\ DOMAIN words = Slots
                     /\ \A slot \in Slots : IF slot < p.slots THEN SlotOK(p, words[slot]) ELSE words[slot] = Filler

\* The slot of a SET to a register whose immediate is open.
Awaited(w) == "op" \in DOMAIN w /\ w.op = "set" /\ "dst" \in DOMAIN w /\ w.dst \in {"x", "y"} /\ "data" \notin DOMAIN w
TagsOK(words, tags) == /\ DOMAIN tags = {"x", "y"}
                       /\ \A r \in {"x", "y"} : tags[r] = None \/ (tags[r] \in Slots /\ Awaited(words[tags[r]]))

\* A set of one kind or of the other.
LEMMA InEither ==
    ASSUME NEW A, NEW B, NEW x, x \subseteq A \/ x \subseteq B PROVE x \in (SUBSET A) \cup (SUBSET B)
OBVIOUS

EntryOK(p, words, e) ==
    /\ e \in Entry /\ e.slot < p.slots
    /\ IF e.field = "index" THEN WaitGroupable(words[e.slot]) ELSE SideGroupable(words[e.slot], p)
    /\ e.allowed \subseteq WholeOf(p)[e.field] /\ Cardinality(e.allowed) >= 2 /\ e.allowed # WholeOf(p)[e.field]
Apart(cs) == \A i, j \in DOMAIN cs : i # j => cs[i].slot # cs[j].slot \/ cs[i].field # cs[j].field
NarrowOK(p, words, cs) == /\ cs \in Seq(Entry) /\ Len(cs) <= ConstraintCap /\ Apart(cs)
                          /\ \A i \in DOMAIN cs : EntryOK(p, words, cs[i])

Timed(p) == [m : MachineOf(p.config), tx : Seq(Word), delay : Nat, acc : Int]
ItemFields == {"words", "s", "cycle", "next", "named", "nop_submax", "unbound", "tags", "constraints"}
ItemOK(p, it) ==
    /\ DOMAIN it = ItemFields
    /\ WordsOK(p, it.words) /\ NarrowOK(p, it.words, it.constraints) /\ TagsOK(it.words, it.tags)
    /\ it.s \in Timed(p) /\ it.cycle \in Nat /\ it.next \in 0 .. Len(p.inputs) /\ it.unbound \in BOOLEAN

\* Deciding a field keeps the others.
LEMMA DecideIs ==
    ASSUME NEW w, NEW f, NEW v
    PROVE  /\ DOMAIN Decide(w, f, v) = DOMAIN w \cup {f} /\ Decide(w, f, v)[f] = v
           /\ \A g \in DOMAIN w : g # f => Decide(w, f, v)[g] = w[g]
  BY DEF Decide

\* What a problem is.
LEMMA ProblemTypes ==
    ASSUME NEW p, ProblemOK(p)
    PROVE  /\ p.config \in Config /\ p.slots \in 1 .. N /\ p.max_delay \in Nat /\ p.cycles \in Nat \ {0}
           /\ p.divisor \in Nat /\ p.tx_depth \in Nat /\ p.mask \in Word /\ p.outputs \in Word
           /\ p.inputs \in Seq(Word) /\ p.exts \in Seq(Word) /\ p.irq_sets \in Seq(SUBSET Flags)
           /\ p.ops \in Seq(DOMAIN p.operands) /\ p.side \in Seq(Word \cup {NoWord}) /\ p.index \in Seq(0 .. 31)
           /\ "wait" \in DOMAIN p.operands => p.index # << >>
  BY Zenon DEF ProblemOK

\* What the opcodes of a problem are.
LEMMA ProblemOps == ASSUME NEW p, ProblemOK(p) PROVE DOMAIN p.operands \subseteq Opcodes
  BY DEF ProblemOK

\* ... and leaves a slot of the problem's.
LEMMA Decides ==
    ASSUME NEW p, ProblemOK(p), NEW w, SlotOK(p, w), NEW f, NEW v, May(p, w, f, v)
    PROVE  SlotOK(p, Decide(w, f, v))
<1> DEFINE u == Decide(w, f, v)
           base == {"side", "op", "delay"}
<1>1. DOMAIN u = DOMAIN w \cup {f} /\ u[f] = v /\ \A g \in DOMAIN w : g # f /\ u[g] = w[g]
  BY DEF Decide, May
<1>2. Partial(w)
  BY DEF SlotOK
<1> HIDE DEF u
<1>3. "op" \in DOMAIN w => w.op \in Opcodes /\ DOMAIN w \subseteq base \cup Fields(w.op)
  BY <1>2, WordFields
<1>4. "op" \notin DOMAIN w => DOMAIN w \subseteq base
  BY <1>2 DEF Partial, Decided
<1> DEFINE Typed(z) == /\ "side" \in DOMAIN z => z.side \in Word \cup {NoWord}
                       /\ "delay" \in DOMAIN z => z.delay \in Nat
                       /\ "op" \in DOMAIN z => z.op \in Opcodes /\ z.op \in DOMAIN p.operands
                       /\ p.side = << >> => "side" \in DOMAIN z /\ z.side = NoWord
           Base(z) == base \cup IF "op" \in DOMAIN z THEN Fields(z.op) ELSE {}
           Args(z) == \A g \in DOMAIN z \ base : z[g] \in Domain(z.op, g)
<1>5. \A z : SlotOK(p, z) <=> Typed(z) /\ DOMAIN z \subseteq Base(z) /\ Args(z)
  BY DEF SlotOK, Partial, Decided, Fields
<1>6. Typed(w) /\ DOMAIN w \subseteq Base(w) /\ Args(w)
  BY <1>5
<1>7. Typed(u)
  <2>1. "op" \in DOMAIN u => u.op \in Opcodes /\ u.op \in DOMAIN p.operands
    BY <1>1, <1>6, ProblemOps DEF May
  <2> QED BY <1>1, <1>6, <2>1 DEF May
<1>8. DOMAIN u \subseteq Base(u)
  <2>1. CASE f = "op"
    BY <1>1, <1>4, <2>1
  <2>2. CASE f # "op"
    <3>1. Base(u) = Base(w)
      BY <1>1, <2>2
    <3>2. f \in Base(w)
      BY DEF May
    <3> HIDE DEF Base
    <3> QED BY <1>1, <1>6, <3>1, <3>2
  <2> QED BY <2>1, <2>2
<1>9. Args(u)
  <2>1. CASE f = "op"
    BY <1>1, <1>4, <2>1
  <2>2. CASE f # "op"
    <3> SUFFICES ASSUME NEW g \in DOMAIN u \ base PROVE u[g] \in Domain(u.op, g)
      OBVIOUS
    <3>1. CASE g = f
      <4>1. "op" \in DOMAIN w /\ v \in Domain(w.op, f)
        BY <3>1 DEF May
      <4> QED BY <1>1, <2>2, <3>1, <4>1
    <3>2. CASE g # f
      <4>1. g \in DOMAIN w \ base /\ "op" \in DOMAIN w
        BY <1>1, <1>4, <3>2
      <4>2. u.op = w.op /\ u[g] = w[g]
        BY <1>1, <4>1
      <4> QED BY <1>6, <4>1, <4>2
    <3> QED BY <3>1, <3>2
  <2> QED BY <2>1, <2>2
<1> HIDE DEF Typed, Base, Args
<1> QED BY <1>5, <1>7, <1>8, <1>9 DEF u

\* A word whose classes are kept together goes on to be one.
LEMMA StaysGroupable ==
    ASSUME NEW p, NEW w, Partial(w), NEW f, NEW v, f \notin DOMAIN w
    PROVE  /\ f # "index" /\ WaitGroupable(w) => WaitGroupable(Decide(w, f, v))
           /\ f # "side" /\ SideGroupable(w, p) => SideGroupable(Decide(w, f, v), p)
<1> DEFINE u == Decide(w, f, v)
<1>1. DOMAIN u = DOMAIN w \cup {f} /\ \A g \in DOMAIN w : g # f /\ u[g] = w[g]
  BY DEF Decide
<1> HIDE DEF u
<1>2. ASSUME f # "index", WaitGroupable(w) PROVE WaitGroupable(u)
  BY <1>1, <1>2 DEF WaitGroupable, Get, Decided
<1>3. ASSUME f # "side", SideGroupable(w, p) PROVE SideGroupable(u, p)
  <2> DEFINE c == p.config
             side == Window(c.sideset_base, c.side_bits)
             outs == side \cap Window(c.out_base, c.out_count) # {}
             sets == side \cap Window(c.set_base, c.set_count) # {}
             spares(z) == Decided(z, "dst") /\ Get(z, "dst", "pins") # "pins"
  <2>1. \A z : SideGroupable(z, p) <=>
                 /\ ~Decided(z, "side") /\ p.optional_side /\ ~c.side_pindir
                 /\ \/ ~outs /\ ~sets
                    \/ Decided(z, "op") /\ (z.op \in {"out", "mov"} /\ outs => spares(z)) /\ (z.op = "set" /\ sets => spares(z))
    BY DEF SideGroupable
  <2>2. spares(w) => spares(u)
    BY <1>1 DEF Decided, Get
  <2>3. Decided(w, "op") => Decided(u, "op") /\ u.op = w.op
    BY <1>1 DEF Decided
  <2>4. ~Decided(w, "side") => ~Decided(u, "side")
    BY <1>1, <1>3 DEF Decided
  <2> HIDE DEF outs, sets, spares
  <2> QED BY <1>3, <2>1, <2>2, <2>3, <2>4
<1> QED BY <1>2, <1>3 DEF u
\* Deciding an unconstrained field leaves the constraints as they should be.
LEMMA NarrowDecided ==
    ASSUME NEW p, ProblemOK(p), NEW words, WordsOK(p, words), NEW cs, NarrowOK(p, words, cs),
           NEW slot \in Slots, NEW f, NEW v, f \notin DOMAIN words[slot], Partial(words[slot]),
           f \in {"side", "index"} => ~Constrained(cs, slot, f)
    PROVE  NarrowOK(p, [words EXCEPT ![slot] = Decide(@, f, v)], cs)
<1> DEFINE after == [words EXCEPT ![slot] = Decide(@, f, v)]
<1>1. \A i \in Slots : after[i] = IF i = slot THEN Decide(words[slot], f, v) ELSE words[i]
  BY DEF WordsOK
<1> HIDE DEF after
<1>2. ASSUME NEW i \in DOMAIN cs PROVE EntryOK(p, after, cs[i])
  <2> DEFINE e == cs[i]
  <2>1. e \in Entry /\ EntryOK(p, words, e)
    BY <1>2 DEF NarrowOK
  <2>2. e.slot \in Slots /\ e.field \in {"side", "index"}
    BY <2>1 DEF Entry
  <2>3. e.slot = slot => e.field # f
    BY <1>2, <2>2 DEF Constrained
  <2> HIDE DEF e
  <2>4. CASE e.slot = slot
    <3>1. e.field = "index" => WaitGroupable(after[slot])
      BY <1>1, <2>1, <2>3, <2>4, StaysGroupable DEF EntryOK
    <3>2. e.field = "side" => SideGroupable(after[slot], p)
      BY <1>1, <2>1, <2>3, <2>4, StaysGroupable DEF EntryOK
    <3> QED BY <2>1, <2>2, <2>4, <3>1, <3>2 DEF EntryOK, e
  <2>5. CASE e.slot # slot
    <3>1. after[e.slot] = words[e.slot]
      BY <1>1, <2>2, <2>5
    <3> QED BY <2>1, <3>1 DEF EntryOK, e
  <2> QED BY <2>4, <2>5
<1> QED BY <1>2 DEF NarrowOK, after

\* The entry of a constrained field.
LEMMA AllowedIs ==
    ASSUME NEW p, NEW words, NEW cs, NarrowOK(p, words, cs), NEW slot, NEW f
    PROVE  /\ Constrained(cs, slot, f) =>
                /\ AllowedBy(cs, slot, f) \in DOMAIN cs
                /\ cs[AllowedBy(cs, slot, f)].slot = slot /\ cs[AllowedBy(cs, slot, f)].field = f
                /\ cs[AllowedBy(cs, slot, f)] \in Entry /\ EntryOK(p, words, cs[AllowedBy(cs, slot, f)])
                /\ \A i \in DOMAIN cs : cs[i].slot = slot /\ cs[i].field = f => i = AllowedBy(cs, slot, f)
           /\ Allowed(cs, slot, f, WholeOf(p)[f]) \subseteq WholeOf(p)[f]
<1>1. ASSUME Constrained(cs, slot, f)
      PROVE  /\ AllowedBy(cs, slot, f) \in DOMAIN cs
             /\ cs[AllowedBy(cs, slot, f)].slot = slot /\ cs[AllowedBy(cs, slot, f)].field = f
  BY <1>1 DEF Constrained, AllowedBy
<1>2. ASSUME Constrained(cs, slot, f)
      PROVE  /\ EntryOK(p, words, cs[AllowedBy(cs, slot, f)]) /\ cs[AllowedBy(cs, slot, f)] \in Entry
             /\ \A i \in DOMAIN cs : cs[i].slot = slot /\ cs[i].field = f => i = AllowedBy(cs, slot, f)
  <2>1. AllowedBy(cs, slot, f) \in DOMAIN cs
    BY <1>1, <1>2
  <2>2. EntryOK(p, words, cs[AllowedBy(cs, slot, f)])
    BY <2>1 DEF NarrowOK
  <2> QED BY <1>1, <1>2, <2>2 DEF NarrowOK, EntryOK, Apart
<1>3. ASSUME Constrained(cs, slot, f)
      PROVE  cs[AllowedBy(cs, slot, f)].allowed \subseteq WholeOf(p)[f]
  BY <1>1, <1>2, <1>3 DEF EntryOK
<1> QED BY <1>1, <1>2, <1>3 DEF Allowed
\* A field that is decided leaves the constraints.
LEMMA UnconstrainIs ==
    ASSUME NEW p, NEW words, NEW cs, NarrowOK(p, words, cs), NEW slot, NEW f
    PROVE  /\ NarrowOK(p, words, Unconstrain(cs, slot, f)) /\ ~Constrained(Unconstrain(cs, slot, f), slot, f)
           /\ \A i \in DOMAIN cs : cs[i].slot # slot \/ cs[i].field # f =>
                 \E j \in DOMAIN Unconstrain(cs, slot, f) : Unconstrain(cs, slot, f)[j] = cs[i]
<1> DEFINE S == {e \in Seqs!ToSet(cs) : e.slot # slot \/ e.field # f}
           u == Unconstrain(cs, slot, f)
<1>1. u = Keeping(cs, S) /\ cs \in Seq(Entry)
  BY DEF Unconstrain, NarrowOK
<1> HIDE DEF u, S
<1>2. u \in Seq(Entry) /\ Seqs!ToSet(u) = Seqs!ToSet(cs) \cap S /\ Len(u) <= Len(cs)
  BY <1>1, KeepingIs
<1>3. PICK h : Ordered(h, u, cs, Len(cs))
  BY <1>1, KeepingOrder
<1>4. /\ h \in [1 .. Len(u) -> 1 .. Len(cs)] /\ \A i \in 1 .. Len(u) : u[i] = cs[h[i]]
      /\ \A i, j \in 1 .. Len(u) : i < j => h[i] < h[j]
  BY <1>3 DEF Ordered
<1>5. DOMAIN u = 1 .. Len(u) /\ DOMAIN cs = 1 .. Len(cs) /\ Len(u) \in Nat /\ Len(cs) \in Nat
  BY <1>1, <1>2, LenProperties
<1>6. Len(u) <= ConstraintCap
  <2>1. Len(cs) <= ConstraintCap /\ ConstraintCap \in Nat
    BY SearchAssumption DEF NarrowOK
  <2> QED BY <1>2, <1>5, <2>1
<1>7. Apart(u)
  <2> SUFFICES ASSUME NEW i \in DOMAIN u, NEW j \in DOMAIN u, i # j
               PROVE  u[i].slot # u[j].slot \/ u[i].field # u[j].field
    BY DEF Apart
  <2>1. h[i] # h[j] /\ h[i] \in DOMAIN cs /\ h[j] \in DOMAIN cs
    <3>1. i < j \/ j < i
      BY <1>5
    <3>2. h[i] \in 1 .. Len(cs) /\ h[j] \in 1 .. Len(cs)
      BY <1>4, <1>5
    <3> QED BY <1>4, <1>5, <3>1, <3>2
  <2>2. Apart(cs)
    BY DEF NarrowOK
  <2> QED BY <1>4, <1>5, <2>1, <2>2 DEF Apart
<1>8. \A i \in DOMAIN u : EntryOK(p, words, u[i])
  BY <1>4, <1>5 DEF NarrowOK
<1>9. ~Constrained(u, slot, f)
  <2> SUFFICES ASSUME NEW i \in DOMAIN u, u[i].slot = slot, u[i].field = f PROVE FALSE
    BY DEF Constrained
  <2>1. u[i] \in Seqs!ToSet(u)
    BY ToSetIs
  <2> QED BY <1>2, <2>1 DEF S
<1>10. ASSUME NEW i \in DOMAIN cs, cs[i].slot # slot \/ cs[i].field # f PROVE \E j \in DOMAIN u : u[j] = cs[i]
  <2>1. cs[i] \in Seqs!ToSet(u)
    BY <1>2, <1>10, ToSetIs DEF S
  <2> QED BY <2>1, ToSetIs
<1> QED BY <1>2, <1>6, <1>7, <1>8, <1>9, <1>10 DEF NarrowOK, u

\* What is constrained, or constrained further, and what else remains.
LEMMA ConstrainIs ==
    ASSUME NEW p, NEW words, NEW cs, NarrowOK(p, words, cs), NEW slot, NEW f, NEW allowed,
           Constrained(cs, slot, f) \/ Len(cs) < ConstraintCap,
           EntryOK(p, words, [slot |-> slot, field |-> f, allowed |-> allowed])
    PROVE  /\ NarrowOK(p, words, Constrain(cs, slot, f, allowed))
           /\ Constrained(Constrain(cs, slot, f, allowed), slot, f)
           /\ Allowed(Constrain(cs, slot, f, allowed), slot, f, {}) = allowed
           /\ \A i \in DOMAIN cs : cs[i].slot # slot \/ cs[i].field # f =>
                 \E j \in DOMAIN Constrain(cs, slot, f, allowed) : Constrain(cs, slot, f, allowed)[j] = cs[i]
<1> DEFINE e == [slot |-> slot, field |-> f, allowed |-> allowed]
           u == Constrain(cs, slot, f, allowed)
           k == AllowedBy(cs, slot, f)
<1>1. cs \in Seq(Entry) /\ Apart(cs) /\ Len(cs) <= ConstraintCap /\ \A i \in DOMAIN cs : EntryOK(p, words, cs[i])
  BY DEF NarrowOK
<1>2. e \in Entry /\ e.slot = slot /\ e.field = f /\ e.allowed = allowed /\ EntryOK(p, words, e)
  BY DEF EntryOK
<1>3. Len(cs) \in Nat /\ DOMAIN cs = 1 .. Len(cs) /\ ConstraintCap \in Nat
  BY <1>1, LenProperties, SearchAssumption
<1>4. CASE Constrained(cs, slot, f)
  <2>1. u = [cs EXCEPT ![k].allowed = allowed]
    BY <1>4 DEF Constrain
  <2>2. /\ k \in DOMAIN cs /\ cs[k].slot = slot /\ cs[k].field = f /\ cs[k] \in Entry
        /\ \A i \in DOMAIN cs : cs[i].slot = slot /\ cs[i].field = f => i = k
    BY <1>4, AllowedIs
  <2>3. u = [cs EXCEPT ![k] = e]
    <3>1. [cs[k] EXCEPT !.allowed = allowed] = e
      BY <2>2 DEF Entry
    <3>2. u = [cs EXCEPT ![k] = [cs[k] EXCEPT !.allowed = allowed]]
      BY <2>1
    <3> QED BY <3>1, <3>2
  <2> HIDE DEF u, e, k
  <2>4. u \in Seq(Entry) /\ Len(u) = Len(cs) /\ DOMAIN u = DOMAIN cs /\ \A i \in DOMAIN cs : u[i] = IF i = k THEN e ELSE cs[i]
    BY <1>1, <1>2, <1>3, <2>2, <2>3
  <2>5. Apart(u)
    <3> SUFFICES ASSUME NEW i \in DOMAIN cs, NEW j \in DOMAIN cs, i # j PROVE u[i].slot # u[j].slot \/ u[i].field # u[j].field
      BY <2>4 DEF Apart
    <3>1. u[i].slot = cs[i].slot /\ u[i].field = cs[i].field /\ u[j].slot = cs[j].slot /\ u[j].field = cs[j].field
      BY <1>2, <2>2, <2>4
    <3> QED BY <1>1, <3>1 DEF Apart
  <2>6. \A i \in DOMAIN u : EntryOK(p, words, u[i])
    BY <1>1, <1>2, <2>4
  <2>7. NarrowOK(p, words, u)
    BY <1>1, <2>4, <2>5, <2>6 DEF NarrowOK
  <2>8. Constrained(u, slot, f)
    BY <1>2, <2>2, <2>4 DEF Constrained
  <2>9. Allowed(u, slot, f, {}) = allowed
    <3>1. AllowedBy(u, slot, f) = k
      <4>1. AllowedBy(u, slot, f) \in DOMAIN u /\ u[AllowedBy(u, slot, f)].slot = slot /\ u[AllowedBy(u, slot, f)].field = f
        BY <2>7, <2>8, AllowedIs
      <4> QED BY <2>2, <2>4, <4>1
    <3> QED BY <1>2, <2>2, <2>4, <2>8, <3>1 DEF Allowed
  <2>10. ASSUME NEW i \in DOMAIN cs, cs[i].slot # slot \/ cs[i].field # f PROVE \E j \in DOMAIN u : u[j] = cs[i]
    <3>1. i # k
      BY <2>2, <2>10
    <3> QED BY <2>4, <3>1
  <2> QED BY <2>7, <2>8, <2>9, <2>10 DEF u
<1>5. CASE ~Constrained(cs, slot, f)
  <2>1. u = Append(cs, e) /\ Len(cs) < ConstraintCap
    BY <1>5 DEF Constrain
  <2>2. \A i \in DOMAIN cs : cs[i].slot # slot \/ cs[i].field # f
    BY <1>5 DEF Constrained
  <2> HIDE DEF u, e
  <2> DEFINE n == Len(cs)
  <2>3. u \in Seq(Entry) /\ Len(u) = n + 1 /\ u[n + 1] = e /\ \A i \in 1 .. n : u[i] = cs[i]
    BY <1>1, <1>2, <2>1, AppendProperties
  <2>4. DOMAIN u = 1 .. n + 1 /\ DOMAIN cs = 1 .. n /\ n \in Nat /\ \A i \in 1 .. n + 1 : i \in 1 .. n \/ i = n + 1
    BY <1>3, <2>3, LenProperties
  <2> HIDE DEF n
  <2>5. Apart(u)
    <3> SUFFICES ASSUME NEW i \in DOMAIN u, NEW j \in DOMAIN u, i # j PROVE u[i].slot # u[j].slot \/ u[i].field # u[j].field
      BY DEF Apart
    <3>1. CASE i \in 1 .. n /\ j \in 1 .. n
      BY <1>1, <2>3, <2>4, <3>1 DEF Apart
    <3>2. CASE i = n + 1 /\ j \in 1 .. n
      BY <1>2, <2>2, <2>3, <2>4, <3>2
    <3>3. CASE i \in 1 .. n /\ j = n + 1
      BY <1>2, <2>2, <2>3, <2>4, <3>3
    <3> QED BY <2>4, <3>1, <3>2, <3>3
  <2>6. \A i \in DOMAIN u : EntryOK(p, words, u[i])
    BY <1>1, <1>2, <2>3, <2>4
  <2>7. Len(u) <= ConstraintCap
    BY <1>3, <2>1, <2>3 DEF n
  <2>8. NarrowOK(p, words, u)
    BY <2>3, <2>5, <2>6, <2>7 DEF NarrowOK
  <2>9. n + 1 \in DOMAIN u
    BY <2>4
  <2>10. Constrained(u, slot, f)
    BY <1>2, <2>3, <2>9 DEF Constrained
  <2>11. Allowed(u, slot, f, {}) = allowed
    <3>1. AllowedBy(u, slot, f) = n + 1
      <4>1. AllowedBy(u, slot, f) \in DOMAIN u /\ u[AllowedBy(u, slot, f)].slot = slot /\ u[AllowedBy(u, slot, f)].field = f
        BY <2>8, <2>10, AllowedIs
      <4> QED BY <2>2, <2>3, <2>4, <4>1
    <3> QED BY <1>2, <2>3, <2>10, <3>1 DEF Allowed
  <2>12. ASSUME NEW i \in DOMAIN cs PROVE \E j \in DOMAIN u : u[j] = cs[i]
    BY <2>3, <2>4
  <2> QED BY <2>8, <2>10, <2>11, <2>12 DEF u
<1> QED BY <1>4, <1>5

\* Deciding a field of an item.
LEMMA DecidingOK ==
    ASSUME NEW p, ProblemOK(p), NEW it, ItemOK(p, it), NEW slot \in Slots, slot < p.slots, NEW f, NEW v,
           May(p, it.words[slot], f, v), f \in {"side", "index"} => ~Constrained(it.constraints, slot, f),
           f = "data" => it.tags.x # slot /\ it.tags.y # slot
    PROVE  ItemOK(p, Deciding(it, slot, f, v))
<1> DEFINE words == [it.words EXCEPT ![slot] = Decide(@, f, v)]
<1>1. Deciding(it, slot, f, v) = [it EXCEPT !.words = words]
  BY DEF Deciding
<1>2. /\ DOMAIN it = ItemFields /\ WordsOK(p, it.words) /\ NarrowOK(p, it.words, it.constraints)
      /\ TagsOK(it.words, it.tags)
  BY DEF ItemOK
<1>3. DOMAIN it.words = Slots /\ SlotOK(p, it.words[slot]) /\ f \notin DOMAIN it.words[slot]
  BY <1>2 DEF WordsOK, May
<1>4. DOMAIN words = Slots /\ \A i \in Slots : words[i] = IF i = slot THEN Decide(it.words[slot], f, v) ELSE it.words[i]
  BY <1>3
<1>5. NarrowOK(p, words, it.constraints)
  BY <1>2, <1>3, NarrowDecided DEF SlotOK
<1> HIDE DEF words
<1>6. WordsOK(p, words)
  BY <1>2, <1>4, Decides DEF WordsOK
<1>7. TagsOK(words, it.tags)
  <2> SUFFICES ASSUME NEW r \in {"x", "y"}, it.tags[r] # None
               PROVE  it.tags[r] \in Slots /\ Awaited(words[it.tags[r]])
    BY <1>2 DEF TagsOK
  <2>1. it.tags[r] \in Slots /\ Awaited(it.words[it.tags[r]])
    BY <1>2 DEF TagsOK
  <2>2. CASE it.tags[r] = slot
    <3>1. f # "data"
      BY <2>2
    <3> DEFINE w == it.words[slot]  u == Decide(w, f, v)
    <3>2. DOMAIN u = DOMAIN w \cup {f} /\ \A g \in DOMAIN w : u[g] = w[g]
      BY <1>3 DEF Decide
    <3>3. words[slot] = u /\ Awaited(w)
      BY <1>4, <2>1, <2>2
    <3> HIDE DEF u, w
    <3>4. Awaited(u)
      BY <3>1, <3>2, <3>3 DEF Awaited
    <3> QED BY <2>1, <2>2, <3>3, <3>4
  <2>3. CASE it.tags[r] # slot
    BY <1>4, <2>1, <2>3
  <2> QED BY <2>2, <2>3
<1> QED BY <1>1, <1>2, <1>5, <1>6, <1>7 DEF ItemOK, ItemFields
\* A constrained field that is decided.
LEMMA SettlingOK ==
    ASSUME NEW p, ProblemOK(p), NEW it, ItemOK(p, it), NEW slot \in Slots, slot < p.slots, NEW f \in {"side", "index"}, NEW v,
           May(p, it.words[slot], f, v)
    PROVE  ItemOK(p, Settling(it, slot, f, v))
<1> DEFINE cs == Unconstrain(it.constraints, slot, f)
           free == [it EXCEPT !.constraints = cs]
<1>1. /\ DOMAIN it = ItemFields /\ WordsOK(p, it.words) /\ NarrowOK(p, it.words, it.constraints)
      /\ TagsOK(it.words, it.tags)
  BY DEF ItemOK
<1>2. NarrowOK(p, it.words, cs) /\ ~Constrained(cs, slot, f)
  BY <1>1, UnconstrainIs
<1>3. Settling(it, slot, f, v) = Deciding(free, slot, f, v)
  <2> HIDE DEF cs
  <2>1. Settling(it, slot, f, v) = [[it EXCEPT !.words[slot] = Decide(@, f, v)] EXCEPT !.constraints = cs]
    <3>1. [it EXCEPT !.words[slot] = Decide(@, f, v)].constraints = it.constraints
      BY <1>1 DEF ItemFields
    <3> QED BY <1>1, <3>1 DEF Settling, Deciding, cs, ItemFields
  <2>2. Deciding(free, slot, f, v) = [[it EXCEPT !.constraints = cs] EXCEPT !.words[slot] = Decide(@, f, v)]
    BY DEF Deciding
  <2>3. /\ [it EXCEPT !.words[slot] = Decide(@, f, v)] = [it EXCEPT !.words = [it.words EXCEPT ![slot] = Decide(@, f, v)]]
        /\ [[it EXCEPT !.constraints = cs] EXCEPT !.words[slot] = Decide(@, f, v)] =
              [[it EXCEPT !.constraints = cs] EXCEPT !.words = [it.words EXCEPT ![slot] = Decide(@, f, v)]]
    BY <1>1 DEF ItemFields
  <2> QED BY <1>1, <2>1, <2>2, <2>3 DEF ItemFields
<1> HIDE DEF cs
<1>4. ItemOK(p, free) /\ free.words = it.words /\ free.constraints = cs
  BY <1>1, <1>2 DEF ItemOK, ItemFields
<1> HIDE DEF free
<1>5. ItemOK(p, Deciding(free, slot, f, v))
  BY <1>2, <1>4, DecidingOK
<1> QED BY <1>3, <1>5

(***************************************************************************)
(* The driver's part of a cycle.                                           *)
(***************************************************************************)
LEMMA FirstIs ==
    ASSUME NEW A, NEW s \in Seq(A), NEW n \in Nat
    PROVE  /\ First(s, n) \in Seq(A) /\ Len(First(s, n)) = Smaller(n, Len(s))
           /\ \A i \in 1 .. Len(First(s, n)) : First(s, n)[i] = s[i]
<1> DEFINE k == Smaller(n, Len(s))
<1>1. k \in 0 .. Len(s) /\ Len(s) \in Nat
  BY DEF Smaller
<1>2. First(s, n) = SubSeq(s, 1, k)
  BY DEF First
<1> HIDE DEF k
<1>3. SubSeq(s, 1, k) \in Seq(A) /\ Len(SubSeq(s, 1, k)) = k /\ \A i \in 1 .. k : SubSeq(s, 1, k)[i] = s[i]
  <2>1. \A i \in 1 .. k : s[i] \in A
    BY <1>1
  <2>2. /\ SubSeq(s, 1, k) \in Seq(A) /\ Len(SubSeq(s, 1, k)) = IF 1 <= k THEN k - 1 + 1 ELSE 0
        /\ \A i \in 1 .. k - 1 + 1 : SubSeq(s, 1, k)[i] = s[1 + i - 1]
    BY <1>1, <2>1, SubSeqProperties
  <2> QED BY <1>1, <2>2
<1> QED BY <1>2, <1>3 DEF k

\* The driver tops up the FIFO, and doing so again changes nothing.
LEMMA DrivenIs ==
    ASSUME NEW p, ProblemOK(p), NEW s \in Timed(p), NEW cycle \in Nat, NEW next \in 0 .. Len(p.inputs)
    PROVE  /\ Driven(p, s, cycle, next) \in Timed(p) /\ NextInput(p, s, next) \in 0 .. Len(p.inputs)
           /\ Driven(p, Driven(p, s, cycle, next), cycle, NextInput(p, s, next)) = Driven(p, s, cycle, next)
           /\ NextInput(p, Driven(p, s, cycle, next), NextInput(p, s, next)) = NextInput(p, s, next)
<1> DEFINE room == Room(p, s)
           L == Len(p.inputs)
           rest == SubSeq(p.inputs, next + 1, L)
           fed == First(rest, room)
           after == NextInput(p, s, next)
           d == Driven(p, s, cycle, next)
           raised == RaisedAt(p, cycle)
           tx == s.tx \o fed
<1>1. /\ p.inputs \in Seq(Word) /\ L \in Nat /\ p.tx_depth \in Nat /\ s.tx \in Seq(Word) /\ Len(s.tx) \in Nat
      /\ p.irq_sets \in Seq(SUBSET Flags)
  BY ProblemTypes, LenProperties DEF Timed
<1>2. room = (IF p.tx_depth > Len(s.tx) THEN p.tx_depth - Len(s.tx) ELSE 0) /\ room \in Nat
  BY <1>1 DEF Room
<1>3. rest \in Seq(Word) /\ Len(rest) = L - next
  <2>1. \A i \in next + 1 .. L : p.inputs[i] \in Word
    BY <1>1
  <2>2. /\ SubSeq(p.inputs, next + 1, L) \in Seq(Word)
        /\ Len(SubSeq(p.inputs, next + 1, L)) = IF next + 1 <= L THEN L - (next + 1) + 1 ELSE 0
    <3> HIDE DEF L
    <3> QED BY <1>1, <2>1, SubSeqProperties
  <2> QED BY <1>1, <2>2
<1>4. fed \in Seq(Word) /\ Len(fed) = Smaller(room, L - next)
  <2> HIDE DEF room, rest
  <2> QED BY <1>2, <1>3, FirstIs
<1>5. after = Smaller(L, next + room) /\ after \in 0 .. L
  BY <1>1, <1>2 DEF NextInput, Smaller
<1>6. raised \in SUBSET Flags
  <2>1. CASE cycle < Len(p.irq_sets)
    <3>1. cycle + 1 \in 1 .. Len(p.irq_sets)
      BY <1>1, <2>1
    <3> QED BY <1>1, <2>1, <3>1 DEF RaisedAt
  <2> QED BY <2>1 DEF RaisedAt
<1>7. d = [s EXCEPT !.m = [s.m EXCEPT !.irq_flags = s.m.irq_flags \cup raised], !.tx = tx]
  BY DEF Driven, Timed
<1>8. tx \in Seq(Word) /\ Len(tx) = Len(s.tx) + Smaller(room, L - next)
  <2> DEFINE a == s.tx
  <2>1. a \in Seq(Word)
    BY <1>1
  <2> HIDE DEF fed, room, L, a
  <2>2. a \o fed \in Seq(Word) /\ Len(a \o fed) = Len(a) + Len(fed)
    BY <1>4, <2>1, ConcatProperties
  <2> QED BY <1>4, <2>2 DEF a
<1>9. [s.m EXCEPT !.irq_flags = s.m.irq_flags \cup raised] \in MachineOf(p.config)
  <2>1. s.m \in MachineOf(p.config)
    BY DEF Timed
  <2> HIDE DEF raised
  <2> QED BY <1>6, <2>1 DEF MachineOf, Machine
<1>10. d \in Timed(p)
  <2> HIDE DEF d, tx, raised
  <2> QED BY <1>7, <1>8, <1>9 DEF Timed
<1>11. Room(p, d) = 0 \/ after = L
  <2>1. d.tx = tx
    BY <1>7 DEF Timed
  <2> HIDE DEF d, tx
  <2>2. CASE room <= L - next
    <3>1. Len(tx) >= p.tx_depth
      BY <1>1, <1>2, <1>8, <2>2 DEF Smaller
    <3> QED BY <1>1, <1>8, <2>1, <3>1 DEF Room
  <2>3. CASE ~(room <= L - next)
    BY <1>1, <1>2, <1>5, <2>3 DEF Smaller
  <2> QED BY <2>2, <2>3
<1>12. Room(p, d) \in Nat
  BY <1>1, <1>10, LenProperties DEF Room, Timed
<1>13. NextInput(p, d, after) = after
  BY <1>1, <1>5, <1>11, <1>12 DEF NextInput, Smaller
<1>14. First(SubSeq(p.inputs, after + 1, L), Room(p, d)) = << >>
  <2> DEFINE left == SubSeq(p.inputs, after + 1, L)
  <2>1. left \in Seq(Word) /\ (after = L => Len(left) = 0)
    <3>1. \A i \in after + 1 .. L : p.inputs[i] \in Word
      BY <1>1, <1>5
    <3>2. /\ left \in Seq(Word)
          /\ Len(left) = IF after + 1 <= L THEN L - (after + 1) + 1 ELSE 0
      <4> HIDE DEF L, after
      <4> QED BY <1>1, <1>5, <3>1, SubSeqProperties
    <3> QED BY <1>1, <1>5, <3>2
  <2> DEFINE f == First(left, Room(p, d))
  <2> HIDE DEF left, d, after
  <2>2. f \in Seq(Word) /\ Len(f) = Smaller(Room(p, d), Len(left))
    BY <1>12, <2>1, FirstIs
  <2>3. Len(f) = 0
    BY <1>11, <1>12, <2>1, <2>2 DEF Smaller
  <2> HIDE DEF f
  <2>4. f = << >>
    BY <2>2, <2>3, EmptySeq
  <2> QED BY <2>4 DEF f, left
<1>15. Driven(p, d, cycle, after) = d
  <2>1. Driven(p, d, cycle, after) = [d EXCEPT !.m = [d.m EXCEPT !.irq_flags = d.m.irq_flags \cup raised], !.tx = d.tx \o << >>]
    <3> HIDE DEF d, after
    <3> QED BY <1>10, <1>14 DEF Driven, Timed
  <2>2. d.tx \o << >> = d.tx
    <3> HIDE DEF d
    <3> QED BY <1>10, ConcatEmptySeq DEF Timed
  <2>3. d.m.irq_flags = s.m.irq_flags \cup raised
    BY <1>7 DEF Timed, MachineOf, Machine
  <2>4. [d.m EXCEPT !.irq_flags = d.m.irq_flags \cup raised] = d.m
    <3> HIDE DEF d, raised
    <3>1. d.m \in Machine
      BY <1>10 DEF Timed, MachineOf
    <3> QED BY <2>3, <3>1 DEF Machine
  <2> HIDE DEF d
  <2> QED BY <1>10, <2>1, <2>2, <2>4 DEF Timed
<1> QED BY <1>5, <1>10, <1>13, <1>15
(***************************************************************************)
(* What a cycle reads, and what executing a word leaves.                   *)
(***************************************************************************)
LEMMA LeastOf ==
    ASSUME NEW n \in Nat, NEW T \in SUBSET (1 .. n), T # {}
    PROVE  \E i \in T : \A j \in 1 .. i - 1 : j \notin T
<1>1. PICK i \in T : \A j \in T : i <= j
  BY LeastNumber
<1>2. ASSUME NEW j \in 1 .. i - 1, j \in T PROVE FALSE
  <2>1. i <= j /\ i \in 1 .. n /\ j \in Int
    BY <1>1, <1>2
  <2> QED BY <1>2, <2>1
<1> QED BY <1>1, <1>2

\* A representative of a class is one of its values.
LEMMA AnyOfIs ==
    ASSUME NEW S, NEW all \in Seq(S), NEW values, values \cap Seqs!ToSet(all) # {}
    PROVE  AnyOf(values, all) \in values /\ AnyOf(values, all) \in Seqs!ToSet(all)
<1> DEFINE T == {i \in DOMAIN all : all[i] \in values}
           Least(i) == all[i] \in values /\ \A j \in 1 .. i - 1 : all[j] \notin values
           k == CHOOSE i \in DOMAIN all : Least(i)
<1>1. DOMAIN all = 1 .. Len(all) /\ Len(all) \in Nat
  BY LenProperties
<1>2. T # {}
  <2>1. PICK v : v \in values /\ v \in Seqs!ToSet(all)
    OBVIOUS
  <2>2. PICK i \in DOMAIN all : all[i] = v
    BY <2>1, ToSetIs
  <2> QED BY <2>1, <2>2
<1>3. PICK i \in T : \A j \in 1 .. i - 1 : j \notin T
  <2> HIDE DEF T
  <2>1. T \in SUBSET (1 .. Len(all))
    BY <1>1 DEF T
  <2> QED BY <1>1, <1>2, <2>1, LeastOf
<1>4. i \in DOMAIN all /\ Least(i)
  <2> SUFFICES ASSUME NEW j \in 1 .. i - 1 PROVE all[j] \notin values
    BY <1>3
  <2>1. i \in 1 .. Len(all) /\ j \notin T
    BY <1>1, <1>3
  <2>2. j \in DOMAIN all
    BY <1>1, <2>1
  <2> QED BY <2>1, <2>2
<1> HIDE DEF Least
<1>5. k \in DOMAIN all /\ Least(k)
  BY <1>4
<1> HIDE DEF k
<1>6. all[k] \in values /\ all[k] \in Seqs!ToSet(all)
  BY <1>5, ToSetIs DEF Least
<1> QED BY <1>6 DEF AnyOf, k, Least

\* What is on the pins, and at the head of the TX FIFO.
LEMMA WhatIsRead ==
    ASSUME NEW p, ProblemOK(p), NEW s \in Timed(p), NEW cycle \in Nat
    PROVE  /\ GpioAt(p, s, cycle) \in Word /\ NextWord(s.tx) \in Word \cup {NoWord}
           /\ NextWord(s.tx) # NoWord => s.tx # << >> /\ Tail(s.tx) \in Seq(Word)
<1> DEFINE exts == p.exts
           ext == ExtAt(p, cycle)
           m == s.m
<1>1. exts \in Seq(Word) /\ p.mask \in Word /\ m \in Machine /\ s.tx \in Seq(Word)
  BY ProblemTypes DEF Timed, MachineOf
<1>2. ext \in Word
  <2>1. CASE exts = << >>
    BY <2>1 DEF ExtAt, Zero, Word
  <2>2. CASE exts # << >>
    <3>1. Smaller(cycle + 1, Len(exts)) \in 1 .. Len(exts)
      BY <1>1, <2>2 DEF Smaller
    <3>2. exts[Smaller(cycle + 1, Len(exts))] \in Word
      BY <1>1, <3>1
    <3> QED BY <2>2, <3>2 DEF ExtAt
  <2> QED BY <2>1, <2>2
<1>3. GpioAt(p, s, cycle) \in Word
  <2>1. m.out_latch \in Word /\ m.dir_latch \in Word
    BY <1>1 DEF Machine
  <2> HIDE DEF ext, m
  <2>2. \A b \in Bits : (IF p.mask[b] = 1 THEN ext[b] ELSE m.out_latch[b] * m.dir_latch[b]) \in {0, 1}
    <3> SUFFICES ASSUME NEW b \in Bits PROVE ext[b] \in {0, 1} /\ m.out_latch[b] * m.dir_latch[b] \in {0, 1}
      OBVIOUS
    <3>1. m.out_latch[b] \in {0, 1} /\ m.dir_latch[b] \in {0, 1} /\ ext[b] \in {0, 1}
      BY <1>2, <2>1 DEF Word
    <3> QED BY <3>1
  <2> QED BY <2>2 DEF GpioAt, Compose, Word, ext, m
<1>4. NextWord(s.tx) \in Word \cup {NoWord} /\ (NextWord(s.tx) # NoWord => s.tx # << >> /\ Tail(s.tx) \in Seq(Word))
  BY <1>1 DEF NextWord
<1> QED BY <1>3, <1>4

\* The configuration that a cycle runs under.
LEMMA LoadingType ==
    ASSUME NEW p, ProblemOK(p), NEW words, \A i \in Slots : Partial(words[i])
    PROVE  /\ Loading(p, words) \in Config /\ MachineOf(Loading(p, words)) = MachineOf(p.config)
           /\ Loading(p, words) = [p.config EXCEPT !.code = [i \in Slots |-> AsInsn(words[i])]]
<1>1. p.config \in Config
  BY ProblemTypes
<1>2. \A i \in Slots : AsInsn(words[i]) \in Insn
  <2> SUFFICES ASSUME NEW i \in Slots PROVE AsInsn(words[i]) \in Insn
    OBVIOUS
  <2>1. Meaning(words[i]) \in Do
    BY MeaningType
  <2>2. Get(words[i], "side", NoWord) \in Word \cup {NoWord}
    BY DEF Partial, Get, Decided
  <2> QED BY <2>1, <2>2 DEF AsInsn, Insn
<1>3. [i \in Slots |-> AsInsn(words[i])] \in [Slots -> Insn]
  BY <1>2
<1>4. Loading(p, words) \in Config /\ Loading(p, words).rx_depth = p.config.rx_depth
  <2> DEFINE code == [i \in Slots |-> AsInsn(words[i])]
  <2>1. Loading(p, words) = [p.config EXCEPT !.code = code]
    BY DEF Loading
  <2> HIDE DEF code
  <2> QED BY <1>1, <1>3, <2>1 DEF code, Config
<1> QED BY <1>4 DEF MachineOf, Loading

\* One clock leaves a timed state.
LEMMA ClockedType ==
    ASSUME NEW p, ProblemOK(p), NEW s \in Timed(p), NEW words, \A i \in Slots : Partial(words[i]), NEW gpio \in Word
    PROVE  Clocked(p, s, words, gpio) \in Timed(p)
<1> DEFINE c == Loading(p, words)
           m == Execute(s.m, c, gpio, NextWord(s.tx))
           n == Ran(p, s, words, c, m)
<1>1. s.m \in MachineOf(p.config) /\ s.tx \in Seq(Word) /\ s.delay \in Nat /\ s.acc \in Int /\ p.divisor \in Nat
  BY ProblemTypes DEF Timed
<1>2. c \in Config /\ MachineOf(c) = MachineOf(p.config)
  BY LoadingType
<1>3. NextWord(s.tx) \in Word \cup {NoWord} /\ (NextWord(s.tx) # NoWord => s.tx # << >> /\ Tail(s.tx) \in Seq(Word))
  BY <1>1, WhatIsRead
<1>4. m \in MachineOf(p.config)
  <2> HIDE DEF c
  <2> QED BY <1>1, <1>2, <1>3, ExecuteType
<1>5. n \in Timed(p)
  <2>1. (IF Pops(s.m, c, Fetch(s.m, c).do, NextWord(s.tx)) THEN Tail(s.tx) ELSE s.tx) \in Seq(Word)
    BY <1>1, <1>3 DEF Pops
  <2>2. s.m.pc \in Slots /\ s.m.pending_exec \in Word \cup {NoWord}
    BY <1>1 DEF MachineOf, Machine
  <2>3. Get(words[s.m.pc], "delay", 0) \in Nat
    BY <2>2 DEF Partial, Get, Decided
  <2>4. Forced(s.m) => ForcedDelay[s.m.pending_exec] \in Nat
    BY <2>2, SearchAssumption DEF Forced
  <2>5. s.acc + 256 - p.divisor \in Int
    BY <1>1
  <2> HIDE DEF m, c
  <2> QED BY <1>4, <2>1, <2>3, <2>4, <2>5 DEF Ran, Timed
<1> HIDE DEF n
<1>6. Clocked(p, s, words, gpio) = n \/ \E a \in Int, d \in Nat : Clocked(p, s, words, gpio) = [s EXCEPT !.acc = a, !.delay = d]
  <2>1. s = [m |-> s.m, tx |-> s.tx, delay |-> s.delay, acc |-> s.acc]
    BY DEF Timed
  <2>2. \A a \in Int : [s EXCEPT !.acc = a] = [s EXCEPT !.acc = a, !.delay = s.delay]
    BY <2>1
  <2>3. s.acc + 256 \in Int /\ s.acc + 256 - p.divisor \in Int /\ (s.delay > 0 => s.delay - 1 \in Nat)
    BY <1>1
  <2>4. CASE ~Ticks(p, s)
    <3>1. Clocked(p, s, words, gpio) = [s EXCEPT !.acc = s.acc + 256]
      BY <2>4 DEF Clocked
    <3> DEFINE a == s.acc + 256
    <3>2. Clocked(p, s, words, gpio) = [s EXCEPT !.acc = a] /\ a \in Int
      BY <2>3, <3>1
    <3> HIDE DEF a
    <3> QED BY <1>1, <2>2, <3>2
  <2>5. CASE Ticks(p, s) /\ s.delay > 0
    <3>1. Clocked(p, s, words, gpio) = [s EXCEPT !.acc = s.acc + 256 - p.divisor, !.delay = s.delay - 1]
      BY <2>1, <2>5 DEF Clocked
    <3> QED BY <2>3, <2>5, <3>1
  <2>6. CASE Ticks(p, s) /\ s.delay = 0 /\ Blocked(p, s, gpio)
    <3>1. ~(s.delay > 0)
      BY <2>6
    <3>2. Clocked(p, s, words, gpio) = [s EXCEPT !.acc = s.acc + 256 - p.divisor]
      BY <2>1, <2>6, <3>1 DEF Clocked
    <3> DEFINE a == s.acc + 256 - p.divisor
    <3>3. Clocked(p, s, words, gpio) = [s EXCEPT !.acc = a] /\ a \in Int
      BY <2>3, <3>2
    <3> HIDE DEF a
    <3> QED BY <1>1, <2>2, <3>3
  <2>7. CASE Ticks(p, s) /\ ~(s.delay > 0) /\ ~(s.delay = 0 /\ Blocked(p, s, gpio))
    BY <2>7 DEF Clocked, n
  <2> QED BY <2>4, <2>5, <2>6, <2>7
<1> QED BY <1>5, <1>6 DEF Timed
(***************************************************************************)
(* An item in its cycle.                                                   *)
(***************************************************************************)
LEMMA ReadyOK ==
    ASSUME ProblemOK(P), NEW it, ItemOK(P, it)
    PROVE  /\ ItemOK(P, Ready(it)) /\ Ready(Ready(it)) = Ready(it)
           /\ \A f \in ItemFields \ {"s", "next"} : Ready(it)[f] = it[f]
<1> DEFINE s == Driven(P, it.s, it.cycle, it.next)
           next == NextInput(P, it.s, it.next)
<1>1. it.s \in Timed(P) /\ it.cycle \in Nat /\ it.next \in 0 .. Len(P.inputs) /\ DOMAIN it = ItemFields
  BY DEF ItemOK
<1>2. /\ s \in Timed(P) /\ next \in 0 .. Len(P.inputs)
      /\ Driven(P, s, it.cycle, next) = s /\ NextInput(P, s, next) = next
  BY <1>1, DrivenIs
<1> HIDE DEF s, next
<1>3. CASE it.cycle < horizon
  <2> DEFINE r == [it EXCEPT !.s = s, !.next = next]
  <2>1. Ready(it) = r
    BY <1>3 DEF Ready, s, next
  <2>2. DOMAIN r = ItemFields /\ r.s = s /\ r.next = next /\ \A f \in ItemFields \ {"s", "next"} : r[f] = it[f]
    BY <1>1 DEF ItemFields
  <2>3. ItemOK(P, r)
    BY <1>2, <2>2 DEF ItemOK, ItemFields
  <2>4. Ready(r) = r
    <3>1. Ready(r) = [r EXCEPT !.s = s, !.next = next]
      <4>1. r.cycle = it.cycle
        BY <2>2 DEF ItemFields
      <4> HIDE DEF r
      <4> QED BY <1>2, <1>3, <2>2, <4>1 DEF Ready
    <3>2. r = [x \in ItemFields |-> r[x]]
      BY <1>1
    <3> HIDE DEF r
    <3> QED BY <2>2, <3>1, <3>2
  <2> QED BY <2>1, <2>2, <2>3, <2>4
<1>4. CASE ~(it.cycle < horizon)
  BY <1>4 DEF Ready
<1> QED BY <1>3, <1>4

\* What is fetched is a slot of the program, unless the program leaves its footprint.
Inside(it) == ~OutOfFootprint(P, it.s, Gpio(it))

\* What is fetched is a partial word of the problem, at a slot.
LEMMA FetchedIs ==
    ASSUME ProblemOK(P), NEW it, ItemOK(P, it)
    PROVE  /\ Pc(it) \in Slots /\ Partial(Here(it)) /\ it.s.m.pc = Pc(it)
           /\ Inside(it) /\ Fetching(it) => Pc(it) < P.slots /\ SlotOK(P, Here(it))
           /\ \A i \in Slots : Partial(it.words[i])
<1>1. it.s.m.pc \in Slots
  BY DEF ItemOK, Timed, MachineOf, Machine
<1>2. Pc(it) \in Slots /\ it.s.m.pc = Pc(it)
  BY <1>1 DEF Pc
<1>3. \A i \in Slots : Partial(it.words[i])
  <2>1. Partial(Filler)
    BY DEF Partial, Filler, Decided, Fields, Operands, Domain, Opcodes, Seqs!ToSet
  <2> QED BY <2>1 DEF ItemOK, WordsOK, SlotOK
<1>4. ASSUME Inside(it), Fetching(it) PROVE Pc(it) < P.slots /\ SlotOK(P, Here(it))
  <2>1. ~(it.s.m.pc >= P.slots)
    BY <1>4 DEF Inside, OutOfFootprint, Fetching
  <2>2. Pc(it) < P.slots
    BY <1>1, <1>2, <2>1, ProblemTypes DEF Slots
  <2> QED BY <1>2, <2>2 DEF ItemOK, WordsOK, Here
<1> QED BY <1>2, <1>3, <1>4 DEF Here

\* The classes of what is fetched.
LEMMA ClassesAre ==
    ASSUME ProblemOK(P), NEW it, ItemOK(P, it)
    PROVE  /\ SideAllowed(it) \subseteq Seqs!ToSet(P.side) /\ SideSame(it) \subseteq SideAllowed(it)
           /\ WaitAllowed(it) \subseteq Seqs!ToSet(P.index) /\ WaitMet(it) \subseteq WaitAllowed(it)
           /\ Inside(it) /\ SideAsked(it) => SideAllowed(it) # {} /\ "side" \notin DOMAIN Here(it)
           /\ Inside(it) /\ WaitAsked(it) => /\ WaitAllowed(it) # {} /\ "index" \notin DOMAIN Here(it)
                                             /\ "op" \in DOMAIN Here(it) /\ Here(it).op = "wait"
<1>1. NarrowOK(P, it.words, it.constraints)
  BY DEF ItemOK
<1>2. /\ SideAllowed(it) \subseteq Whole.side /\ WaitAllowed(it) \subseteq Whole.index
      /\ Whole.side = Seqs!ToSet(P.side) /\ Whole.index = Seqs!ToSet(P.index)
  BY <1>1, AllowedIs DEF SideAllowed, WaitAllowed, Whole, WholeOf
<1>3. SideSame(it) \subseteq SideAllowed(it) /\ WaitMet(it) \subseteq WaitAllowed(it)
  BY DEF SideSame, WaitMet, Unchanging, MetNow
<1>4. \A S : \A q \in Seq(S) : q # << >> => Seqs!ToSet(q) # {}
  <2> SUFFICES ASSUME NEW S, NEW q \in Seq(S), q # << >> PROVE Seqs!ToSet(q) # {}
    OBVIOUS
  <2>1. Len(q) >= 1 /\ 1 \in DOMAIN q
    BY EmptySeq, LenProperties
  <2> QED BY <2>1, ToSetIs
<1>5. \A f : Constrained(it.constraints, Pc(it), f) => Allowed(it.constraints, Pc(it), f, {}) # {}
  <2> SUFFICES ASSUME NEW f, Constrained(it.constraints, Pc(it), f) PROVE Allowed(it.constraints, Pc(it), f, {}) # {}
    OBVIOUS
  <2> DEFINE e == it.constraints[AllowedBy(it.constraints, Pc(it), f)]
  <2>1. EntryOK(P, it.words, e)
    BY <1>1, AllowedIs
  <2>2. Cardinality(e.allowed) >= 2
    BY <2>1 DEF EntryOK
  <2>3. e.allowed # {}
    <3> HIDE DEF e
    <3>1. Cardinality({}) = 0
      BY FS_EmptySet
    <3> QED BY <2>2, <3>1
  <2> QED BY <2>3 DEF Allowed
<1>6. ASSUME Inside(it), SideAsked(it) PROVE SideAllowed(it) # {} /\ "side" \notin DOMAIN Here(it)
  <2>1. Fetching(it) /\ "side" \notin DOMAIN Here(it)
    BY <1>6 DEF SideAsked, SideGroupable, Decided
  <2>2. P.side # << >>
    BY <1>6, <2>1, FetchedIs DEF SlotOK
  <2>3. Whole.side # {}
    BY <1>2, <1>4, <2>2, ProblemTypes
  <2>4. SideAllowed(it) # {}
    BY <1>5, <2>3 DEF SideAllowed, Allowed
  <2> QED BY <2>1, <2>4
<1>7. ASSUME Inside(it), WaitAsked(it)
      PROVE  /\ WaitAllowed(it) # {} /\ "index" \notin DOMAIN Here(it)
             /\ "op" \in DOMAIN Here(it) /\ Here(it).op = "wait"
  <2>1. Fetching(it) /\ "index" \notin DOMAIN Here(it) /\ "op" \in DOMAIN Here(it) /\ Here(it).op = "wait"
    BY <1>7 DEF WaitAsked, WaitGroupable, Decided, Get
  <2>2. "wait" \in DOMAIN P.operands
    BY <1>7, <2>1, FetchedIs DEF SlotOK
  <2>3. Whole.index # {}
    BY <1>2, <1>4, <2>2, ProblemTypes
  <2>4. WaitAllowed(it) # {}
    BY <1>5, <2>3 DEF WaitAllowed, Allowed
  <2> QED BY <2>1, <2>4
<1> QED BY <1>2, <1>3, <1>6, <1>7

\* What is executed: the word that is fetched, and a class that is held stands in for its field.
LEMMA ExecutableIs ==
    ASSUME ProblemOK(P), NEW it, ItemOK(P, it), Inside(it)
    PROVE  /\ DOMAIN Executable(it) = Slots
           /\ \A i \in Slots : i # Pc(it) => Executable(it)[i] = it.words[i]
           /\ \A i \in Slots : Partial(Executable(it)[i])
           /\ ~Fetching(it) => \A i \in Slots : Executable(it)[i] = it.words[i]
           /\ DOMAIN Executable(it)[Pc(it)] = DOMAIN Here(it) \cup (IF SideHeld(it) THEN {"side"} ELSE {})
                                                              \cup (IF WaitHeld(it) THEN {"index"} ELSE {})
           /\ \A f \in DOMAIN Here(it) : Executable(it)[Pc(it)][f] = Here(it)[f]
           /\ SideHeld(it) => Executable(it)[Pc(it)].side \in SideSame(it)
           /\ WaitHeld(it) => Executable(it)[Pc(it)].index \in WaitMet(it)
<1> DEFINE w == Here(it)
           a == AnyOf(SideSame(it), P.side)
           b == AnyOf(WaitMet(it), P.index)
           s == IF SideHeld(it) THEN Decide(w, "side", a) ELSE w
           u == IF WaitHeld(it) THEN Decide(s, "index", b) ELSE s
<1>1. DOMAIN it.words = Slots /\ Pc(it) \in Slots /\ w = it.words[Pc(it)] /\ Partial(w)
  BY FetchedIs DEF ItemOK, WordsOK, Here
<1>2. Executable(it) = [it.words EXCEPT ![Pc(it)] = u]
  BY DEF Executable
<1>3. SideHeld(it) => Fetching(it) /\ SideAsked(it) /\ a \in SideSame(it) /\ a \in Word \cup {NoWord} /\ "side" \notin DOMAIN w
  <2> SUFFICES ASSUME SideHeld(it)
               PROVE  Fetching(it) /\ SideAsked(it) /\ a \in SideSame(it) /\ a \in Word \cup {NoWord} /\ "side" \notin DOMAIN w
    OBVIOUS
  <2>1. SideAsked(it) /\ SideSame(it) = SideAllowed(it)
    BY DEF SideHeld
  <2>2. SideSame(it) \cap Seqs!ToSet(P.side) # {} /\ "side" \notin DOMAIN w
    BY <2>1, ClassesAre
  <2>3. P.side \in Seq(Word \cup {NoWord})
    BY ProblemTypes
  <2>4. a \in SideSame(it) /\ a \in Seqs!ToSet(P.side)
    BY <2>2, <2>3, AnyOfIs
  <2>5. PICK i \in DOMAIN P.side : P.side[i] = a
    BY <2>3, <2>4, ToSetIs
  <2> HIDE DEF a
  <2> QED BY <2>1, <2>2, <2>3, <2>4, <2>5 DEF SideAsked
<1>4. WaitHeld(it) => /\ Fetching(it) /\ b \in WaitMet(it) /\ b \in 0 .. 31 /\ "index" \notin DOMAIN w
                      /\ "op" \in DOMAIN w /\ w.op = "wait"
  <2> SUFFICES ASSUME WaitHeld(it)
               PROVE  /\ Fetching(it) /\ b \in WaitMet(it) /\ b \in 0 .. 31 /\ "index" \notin DOMAIN w
                      /\ "op" \in DOMAIN w /\ w.op = "wait"
    OBVIOUS
  <2>1. WaitAsked(it) /\ WaitMet(it) = WaitAllowed(it)
    BY DEF WaitHeld
  <2>2. WaitMet(it) \cap Seqs!ToSet(P.index) # {} /\ "index" \notin DOMAIN w /\ "op" \in DOMAIN w /\ w.op = "wait"
    BY <2>1, ClassesAre
  <2>3. P.index \in Seq(0 .. 31)
    BY ProblemTypes
  <2>4. b \in WaitMet(it) /\ b \in Seqs!ToSet(P.index)
    BY <2>2, <2>3, AnyOfIs
  <2>5. PICK i \in DOMAIN P.index : P.index[i] = b
    BY <2>3, <2>4, ToSetIs
  <2>6. P.index[i] \in 0 .. 31
    BY <2>3, <2>5, ElementOfSeq, LenProperties
  <2>7. Fetching(it)
    BY <2>1 DEF WaitAsked
  <2> HIDE DEF b
  <2> QED BY <2>2, <2>4, <2>5, <2>6, <2>7
<1> HIDE DEF a, b
<1>5. /\ DOMAIN s = DOMAIN w \cup (IF SideHeld(it) THEN {"side"} ELSE {})
      /\ \A f \in DOMAIN w : s[f] = w[f]
      /\ SideHeld(it) => s.side = a
  BY <1>3, Zenon DEF Decide
<1> HIDE DEF s
<1>6. /\ DOMAIN u = DOMAIN s \cup (IF WaitHeld(it) THEN {"index"} ELSE {})
      /\ \A f \in DOMAIN s : (f # "index" \/ ~WaitHeld(it)) => u[f] = s[f]
      /\ WaitHeld(it) => u.index = b
  BY Zenon DEF Decide
<1> HIDE DEF u, w
<1>7. /\ DOMAIN u = DOMAIN w \cup (IF SideHeld(it) THEN {"side"} ELSE {}) \cup (IF WaitHeld(it) THEN {"index"} ELSE {})
      /\ \A f \in DOMAIN w : u[f] = w[f]
      /\ SideHeld(it) => u.side = a
      /\ WaitHeld(it) => u.index = b
  <2>1. \A f \in DOMAIN w : u[f] = w[f]
    BY <1>4, <1>5, <1>6
  <2>2. SideHeld(it) => u.side = a
    BY <1>5, <1>6
  <2> QED BY <1>5, <1>6, <2>1, <2>2
<1>8. Partial(u)
  <2>1. /\ "op" \in DOMAIN u <=> "op" \in DOMAIN w
        /\ "op" \in DOMAIN w => u.op = w.op
    BY <1>7
  <2>2. WaitHeld(it) => "index" \in Fields("wait") /\ b \in Domain("wait", "index")
    BY <1>4 DEF Fields, Operands, Seqs!ToSet, Domain
  <2>3. DOMAIN u \subseteq {"side", "op", "delay"} \cup (IF Decided(u, "op") THEN Fields(u.op) ELSE {})
    BY <1>1, <1>4, <1>7, <2>1, <2>2 DEF Partial, Decided, Fields
  <2>4. \A f \in DOMAIN u \ {"side", "op", "delay"} : u[f] \in Domain(u.op, f)
    <3> SUFFICES ASSUME NEW f \in DOMAIN u \ {"side", "op", "delay"} PROVE u[f] \in Domain(u.op, f)
      OBVIOUS
    <3>1. CASE f \in DOMAIN w
      <4>1. w[f] \in Domain(w.op, f) /\ "op" \in DOMAIN w
        BY <1>1, <3>1 DEF Partial, Decided
      <4> QED BY <1>7, <2>1, <3>1, <4>1
    <3>2. CASE f \notin DOMAIN w
      <4>1. WaitHeld(it) /\ f = "index"
        BY <1>7, <3>2
      <4> QED BY <1>4, <1>7, <2>1, <2>2, <4>1
    <3> QED BY <3>1, <3>2
  <2>5. /\ Decided(u, "side") => u.side \in Word \cup {NoWord}
        /\ Decided(u, "delay") => u.delay \in Nat
        /\ Decided(u, "op") => u.op \in Opcodes
    BY <1>1, <1>3, <1>7 DEF Partial, Decided
  <2> QED BY <2>3, <2>4, <2>5 DEF Partial, Fields
<1>9. DOMAIN Executable(it) = Slots /\ \A i \in Slots : Executable(it)[i] = IF i = Pc(it) THEN u ELSE it.words[i]
  BY <1>1, <1>2
<1>10. ~Fetching(it) => \A i \in Slots : Executable(it)[i] = it.words[i]
  <2> SUFFICES ASSUME ~Fetching(it) PROVE \A i \in Slots : Executable(it)[i] = it.words[i]
    OBVIOUS
  <2>1. u = w
    BY <1>3, <1>4 DEF u, s
  <2> QED BY <1>1, <1>9, <2>1
<1> QED BY <1>1, <1>3, <1>4, <1>7, <1>8, <1>9, <1>10, FetchedIs DEF w

\* When nothing more is wanted, all that the fetch consults of the executed word is known.
LEMMA NothingWanted ==
    ASSUME ProblemOK(P), NEW it, ItemOK(P, it), Inside(it), Fetching(it), Wanted(it) = "none"
    PROVE  /\ "side" \in DOMAIN Executable(it)[Pc(it)] /\ "op" \in DOMAIN Here(it)
           /\ \A f \in Fields(Here(it).op) :
                 f \in DOMAIN Executable(it)[Pc(it)] \/ (f \notin DOMAIN Here(it) /\ Deferred(Here(it), f))
<1> DEFINE w == Here(it)
           s == IF SideHeld(it) THEN Decide(w, "side", NoWord) ELSE w
           e == Executable(it)[Pc(it)]
<1>1. DOMAIN e = DOMAIN w \cup (IF SideHeld(it) THEN {"side"} ELSE {}) \cup (IF WaitHeld(it) THEN {"index"} ELSE {})
  BY ExecutableIs
<1>2. Partial(w)
  BY FetchedIs
<1> HIDE DEF e
<1>3. CASE WaitHeld(it)
  <2>1. WaitAsked(it)
    BY <1>3 DEF WaitHeld
  <2>2. /\ "side" \in DOMAIN w \/ SideHeld(it)
        /\ "op" \in DOMAIN w /\ w.op = "wait" /\ "pol" \in DOMAIN w /\ "src" \in DOMAIN w
    BY <2>1, ClassesAre DEF WaitAsked, WaitGroupable, Decided
  <2>3. Fields("wait") = {"pol", "src", "index"}
    BY FieldsAre
  <2> QED BY <1>1, <1>3, <2>2, <2>3 DEF e
<1>4. CASE ~WaitHeld(it)
  <2>1. Demand(s) = "none"
    BY <1>4 DEF Wanted
  <2>2. /\ DOMAIN s = DOMAIN w \cup (IF SideHeld(it) THEN {"side"} ELSE {})
        /\ \A f \in DOMAIN w : f # "side" => s[f] = w[f]
        /\ SideHeld(it) => s.side = NoWord
        /\ ~SideHeld(it) => s = w
    BY Zenon DEF Decide
  <2> HIDE DEF s
  <2>3. Partial(s)
    <3>1. CASE SideHeld(it)
      <4>1. "op" \in DOMAIN s <=> "op" \in DOMAIN w
        BY <2>2
      <4>2. "op" \in DOMAIN w => s.op = w.op
        BY <2>2
      <4>3. DOMAIN s \subseteq {"side", "op", "delay"} \cup (IF Decided(s, "op") THEN Seqs!ToSet(Operands(s.op)) ELSE {})
        BY <1>2, <2>2, <4>1, <4>2 DEF Partial, Decided
      <4>4. \A f \in DOMAIN s \ {"side", "op", "delay"} : s[f] \in Domain(s.op, f)
        <5> SUFFICES ASSUME NEW f \in DOMAIN s \ {"side", "op", "delay"} PROVE s[f] \in Domain(s.op, f)
          OBVIOUS
        <5>1. f \in DOMAIN w \ {"side", "op", "delay"}
          BY <2>2
        <5>2. "op" \in DOMAIN w
          BY <1>2, <5>1 DEF Partial, Decided
        <5>3. w[f] \in Domain(w.op, f)
          BY <1>2, <5>1 DEF Partial
        <5> QED BY <2>2, <4>2, <5>1, <5>2, <5>3
      <4>5. /\ Decided(s, "side") => s.side \in Word \cup {NoWord}
            /\ Decided(s, "delay") => s.delay \in Nat
            /\ Decided(s, "op") => s.op \in Opcodes
        BY <1>2, <2>2, <3>1 DEF Partial, Decided
      <4> QED BY <4>3, <4>4, <4>5 DEF Partial
    <3>2. CASE ~SideHeld(it)
      BY <1>2, <2>2, <3>2
    <3> QED BY <3>1, <3>2
  <2>4. /\ "side" \in DOMAIN s /\ "op" \in DOMAIN s
        /\ \A f \in Fields(s.op) : f \in DOMAIN s \/ Deferred(s, f)
    BY <2>1, <2>3, DemandNone
  <2>5. "op" \in DOMAIN w /\ s.op = w.op
    BY <2>2, <2>4
  <2>6. \A f : Deferred(s, f) <=> Deferred(w, f)
    <3>1. Get(s, "dst", "pins") = Get(w, "dst", "pins")
      BY <2>2 DEF Get, Decided
    <3> QED BY <3>1 DEF Deferred
  <2>7. "side" \notin Fields(w.op)
    <3>1. w.op \in Opcodes
      BY <1>2, <2>5 DEF Partial, Decided
    <3> QED BY <3>1, FieldsAre DEF Opcodes
  <2>8. DOMAIN s \subseteq DOMAIN e
    BY <1>1, <2>2
  <2>9. \A f \in Fields(w.op) : f \in DOMAIN s => f \in DOMAIN w
    BY <2>2, <2>7
  <2>10. DOMAIN w \subseteq DOMAIN e
    BY <1>1
  <2>11. ASSUME NEW f \in Fields(w.op) PROVE f \in DOMAIN e \/ (f \notin DOMAIN w /\ Deferred(w, f))
    BY <2>4, <2>5, <2>6, <2>8, <2>9, <2>10
  <2>12. "side" \in DOMAIN e
    BY <2>4, <2>8
  <2> HIDE DEF w
  <2> QED BY <2>5, <2>11, <2>12 DEF e, w
<1> QED BY <1>3, <1>4

\* The cycle leaves a timed state.
LEMMA SteppedType ==
    ASSUME ProblemOK(P), NEW it, ItemOK(P, it), Inside(it)
    PROVE  Stepped(it) \in Timed(P) /\ Gpio(it) \in Word
<1>1. it.s \in Timed(P) /\ it.cycle \in Nat
  BY DEF ItemOK
<1>2. Gpio(it) \in Word
  BY <1>1, WhatIsRead DEF Gpio
<1>3. \A i \in Slots : Partial(Executable(it)[i])
  BY ExecutableIs
<1> QED BY <1>1, <1>2, <1>3, ClockedType DEF Stepped

\* An instruction that completes was executed in this cycle.
LEMMA CompletesIs ==
    ASSUME ProblemOK(P), NEW it, ItemOK(P, it), Inside(it), Completes(it, Stepped(it))
    PROVE  Active(it) /\ WillExecute(P, it.s, Gpio(it)) /\ (Fetching(it) \/ Forced(it.s.m))
<1>1. it.s \in Timed(P) /\ Ticks(P, it.s) /\ it.s.delay = 0 /\ Stepped(it).m.stall = NotStalled
  BY DEF ItemOK, Completes, Active
<1>2. ~Blocked(P, it.s, Gpio(it))
  <2> SUFFICES ASSUME Blocked(P, it.s, Gpio(it)) PROVE FALSE
    OBVIOUS
  <2>1. Stepped(it) = [it.s EXCEPT !.acc = @ + 256 - P.divisor]
    BY <1>1 DEF Stepped, Clocked
  <2>2. Stepped(it).m.stall = it.s.m.stall
    BY <1>1, <2>1 DEF Timed
  <2>3. it.s.m.stall.why = "none"
    BY <1>1, <2>2 DEF NotStalled
  <2> QED BY <2>3 DEF Blocked
<1> QED BY <1>1, <1>2 DEF WillExecute, Fetching, WillFetch, Active

\* The tags after an instruction.
LEMMA TagsAfterOK ==
    ASSUME ProblemOK(P), NEW it, ItemOK(P, it), Inside(it), Fetching(it) => Wanted(it) = "none",
           Completes(it, Stepped(it))
    PROVE  TagsOK(it.words, TagsAfter(it))
<1> DEFINE i == Executed(it)
           r == Writes(i)
           tag == CASE i.op = "set" /\ ~Forced(it.s.m) /\ ~Decided(Here(it), "data") -> Pc(it)
                    [] i.op = "mov" /\ i.how = "none" /\ i.src \in {"x", "y"} -> it.tags[i.src]
                    [] OTHER -> None
<1>1. TagsOK(it.words, it.tags)
  BY DEF ItemOK
<1>2. TagsAfter(it) = IF r = "none" \/ i.op = "jmp" THEN it.tags ELSE [it.tags EXCEPT ![r] = tag]
  BY DEF TagsAfter
<1> SUFFICES ASSUME r # "none", i.op # "jmp" PROVE TagsOK(it.words, [it.tags EXCEPT ![r] = tag])
  BY <1>1, <1>2
<1>3. r \in {"x", "y"} /\ i.op \in {"out", "mov", "set"} /\ r = i.dst
  BY DEF Writes
<1>4. tag = None \/ (tag \in Slots /\ Awaited(it.words[tag]))
  <2>1. CASE i.op = "set" /\ ~Forced(it.s.m) /\ ~Decided(Here(it), "data")
    <3> DEFINE w == Here(it)
    <3>1. Fetching(it) /\ Wanted(it) = "none"
      BY <2>1, CompletesIs
    <3>2. "op" \in DOMAIN w /\ Partial(w) /\ Pc(it) \in Slots /\ i = Meaning(w) /\ w = it.words[Pc(it)]
      BY <2>1, <3>1, NothingWanted, FetchedIs DEF Executed, Here
    <3>3. \A f \in Fields(w.op) : f \in DOMAIN Executable(it)[Pc(it)] \/ Deferred(w, f)
      BY <3>1, NothingWanted
    <3> HIDE DEF w, i
    <3>4. w.op = "set"
      <4>1. w.op \in Opcodes
        BY <3>2 DEF Partial, Decided
      <4>2. \A a, b, c : MovDo(a, b, c).op = "mov"
        BY DEF MovDo
      <4> QED BY <2>1, <3>2, <4>1, <4>2 DEF Meaning, Opcodes, Get, Decided
    <3>5. "dst" \in Fields(w.op) /\ ~Deferred(w, "dst")
      BY <3>4, FieldsAre DEF Deferred
    <3>6. "dst" \in DOMAIN w
      <4>1. DOMAIN Executable(it)[Pc(it)] = DOMAIN w \cup (IF SideHeld(it) THEN {"side"} ELSE {})
                                                     \cup (IF WaitHeld(it) THEN {"index"} ELSE {})
        BY ExecutableIs DEF w
      <4> QED BY <3>3, <3>5, <4>1
    <3>7. i.dst = w.dst
      BY <3>2, <3>4, <3>6 DEF Meaning, Get, Decided
    <3>8. Awaited(w)
      BY <1>3, <2>1, <3>2, <3>4, <3>6, <3>7 DEF Awaited, Decided, w
    <3> QED BY <2>1, <3>2, <3>8
  <2>2. CASE ~(i.op = "set" /\ ~Forced(it.s.m) /\ ~Decided(Here(it), "data"))
             /\ i.op = "mov" /\ i.how = "none" /\ i.src \in {"x", "y"}
    <3>1. tag = it.tags[i.src]
      BY <2>2
    <3> HIDE DEF tag
    <3> QED BY <1>1, <2>2, <3>1 DEF TagsOK
  <2>3. CASE ~(i.op = "set" /\ ~Forced(it.s.m) /\ ~Decided(Here(it), "data"))
             /\ ~(i.op = "mov" /\ i.how = "none" /\ i.src \in {"x", "y"})
    BY <2>3
  <2> QED BY <2>1, <2>2, <2>3
<1> HIDE DEF tag, r
<1> QED BY <1>1, <1>3, <1>4 DEF TagsOK

\* The item after its cycle.
LEMMA AdvancedOK ==
    ASSUME ProblemOK(P), NEW it, ItemOK(P, it), Inside(it), Fetching(it) => Wanted(it) = "none"
    PROVE  /\ ItemOK(P, Advanced(it, Stepped(it)))
           /\ \A f \in ItemFields \ {"s", "cycle", "tags"} : Advanced(it, Stepped(it))[f] = it[f]
           /\ Advanced(it, Stepped(it)).s = Stepped(it) /\ Advanced(it, Stepped(it)).cycle = it.cycle + 1
           /\ Advanced(it, Stepped(it)).tags = IF Completes(it, Stepped(it)) THEN TagsAfter(it) ELSE it.tags
<1> DEFINE after == Stepped(it)
           a == Advanced(it, after)
           tags == IF Completes(it, after) THEN TagsAfter(it) ELSE it.tags
<1>1. after \in Timed(P)
  BY SteppedType
<1>2. TagsOK(it.words, tags)
  BY TagsAfterOK DEF ItemOK
<1>3. DOMAIN it = ItemFields
  BY DEF ItemOK
<1> HIDE DEF after
<1>4. a = [it EXCEPT !.s = after, !.cycle = it.cycle + 1, !.tags = tags]
  BY <1>3 DEF Advanced, ItemFields
<1> HIDE DEF tags, a
<1>5. /\ \A f \in ItemFields \ {"s", "cycle", "tags"} : a[f] = it[f]
      /\ a.s = after /\ a.cycle = it.cycle + 1 /\ a.tags = tags /\ DOMAIN a = ItemFields
  BY <1>3, <1>4 DEF ItemFields
<1>6. ItemOK(P, a)
  BY <1>1, <1>2, <1>5 DEF ItemOK, ItemFields
<1> QED BY <1>5, <1>6 DEF a, after, tags

(***************************************************************************)
(* The children of an item.                                                *)
(***************************************************************************)
\* The field f of `slot' is one whose values are kept in classes.
Groups(it, slot, f) ==
    /\ slot \in Slots /\ slot < P.slots
    /\ f = "side" \/ f = "index"
    /\ IF f = "index" THEN WaitGroupable(it.words[slot]) ELSE SideGroupable(it.words[slot], P)

\* The values of a field that is not constrained.
LEMMA WholeIs ==
    ASSUME ProblemOK(P)
    PROVE  /\ Whole.side = Seqs!ToSet(P.side) /\ Whole.side \subseteq Word \cup {NoWord} /\ IsFiniteSet(Whole.side)
           /\ Whole.index = Seqs!ToSet(P.index) /\ Whole.index \subseteq 0 .. 31 /\ IsFiniteSet(Whole.index)
<1>1. P.side \in Seq(Word \cup {NoWord}) /\ P.index \in Seq(0 .. 31)
  BY ProblemTypes
<1>2. \A S : \A q \in Seq(S) : Seqs!ToSet(q) \subseteq S /\ IsFiniteSet(Seqs!ToSet(q))
  <2> SUFFICES ASSUME NEW S, NEW q \in Seq(S) PROVE Seqs!ToSet(q) \subseteq S /\ IsFiniteSet(Seqs!ToSet(q))
    OBVIOUS
  <2>1. Seqs!ToSet(q) \subseteq S
    BY ToSetIs, ElementOfSeq, LenProperties
  <2>2. IsFiniteSet({q[i] : i \in 1 .. Len(q)})
    <3>1. IsFiniteSet(1 .. Len(q))
      BY LenProperties, FS_Interval
    <3>2. {q[i] : i \in 1 .. Len(q)} = {q[i] : i \in DOMAIN q}
      BY LenProperties
    <3>3. q \in [1 .. Len(q) -> S]
      BY LenProperties
    <3> DEFINE f == [i \in 1 .. Len(q) |-> q[i]]
               T == {q[i] : i \in 1 .. Len(q)}
    <3>4. f \in Surjection(1 .. Len(q), T)
      BY DEF Surjection
    <3> HIDE DEF f, T
    <3>5. IsFiniteSet(T)
      BY <3>1, <3>4, FS_Surjection
    <3> QED BY <3>5 DEF T
  <2>3. Seqs!ToSet(q) = {q[i] : i \in 1 .. Len(q)}
    BY LenProperties DEF Seqs!ToSet
  <2> QED BY <2>1, <2>2, <2>3
<1> QED BY <1>1, <1>2 DEF Whole, WholeOf

\* Deciding such a field, or keeping some of its values together.
LEMMA ClassOK ==
    ASSUME ProblemOK(P), NEW it, ItemOK(P, it), NEW slot, NEW f, Groups(it, slot, f)
    PROVE  /\ \A v \in Whole[f] : ItemOK(P, Settling(it, slot, f, v))
           /\ \A same : /\ same \subseteq Whole[f] /\ same # Whole[f] /\ Cardinality(same) > 1
                        /\ Constrained(it.constraints, slot, f) \/ Len(it.constraints) < ConstraintCap
                        => ItemOK(P, [it EXCEPT !.constraints = Constrain(it.constraints, slot, f, same)])
<1> DEFINE w == it.words[slot]
<1>1. slot \in Slots /\ slot < P.slots /\ (f = "side" \/ f = "index")
  BY DEF Groups
<1>2. SlotOK(P, w) /\ NarrowOK(P, it.words, it.constraints) /\ DOMAIN it = ItemFields
  BY <1>1 DEF ItemOK, WordsOK
<1>3. f = "index" => "index" \notin DOMAIN w /\ "op" \in DOMAIN w /\ w.op = "wait"
  BY DEF Groups, WaitGroupable, Get, Decided
<1>4. f = "side" => "side" \notin DOMAIN w
  BY DEF Groups, SideGroupable, Decided
<1>5. ASSUME NEW v \in Whole[f] PROVE ItemOK(P, Settling(it, slot, f, v))
  <2>1. May(P, w, f, v)
    <3>1. CASE f = "side"
      BY <1>4, <1>5, <3>1, WholeIs DEF May
    <3>2. CASE f = "index"
      <4>1. "index" \in Fields("wait") /\ Domain("wait", "index") = 0 .. 31
        BY FieldsAre DEF Domain
      <4> QED BY <1>3, <1>5, <3>2, <4>1, WholeIs DEF May
    <3> QED BY <1>1, <3>1, <3>2
  <2> QED BY <1>1, <2>1, SettlingOK
<1>6. ASSUME NEW same, same \subseteq Whole[f], same # Whole[f], Cardinality(same) > 1,
             Constrained(it.constraints, slot, f) \/ Len(it.constraints) < ConstraintCap
      PROVE  ItemOK(P, [it EXCEPT !.constraints = Constrain(it.constraints, slot, f, same)])
  <2> DEFINE e == [slot |-> slot, field |-> f, allowed |-> same]
             cs == Constrain(it.constraints, slot, f, same)
  <2>1. IsFiniteSet(same) /\ same \in (SUBSET (0 .. 31)) \cup (SUBSET (Word \cup {NoWord}))
    <3>1. IsFiniteSet(same)
      BY <1>1, <1>6, WholeIs, FS_Subset
    <3>2. same \subseteq 0 .. 31 \/ same \subseteq Word \cup {NoWord}
      BY <1>1, <1>6, WholeIs
    <3> QED BY <3>1, <3>2, InEither
  <2>2. Cardinality(same) >= 2
    BY <1>6, <2>1, FS_CardinalityType
  <2>3. e \in Entry
    BY <1>1, <2>1 DEF Entry
  <2>4. EntryOK(P, it.words, e)
    BY <1>1, <1>6, <2>2, <2>3 DEF EntryOK, Groups, Whole
  <2>5. NarrowOK(P, it.words, cs)
    BY <1>2, <1>6, <2>4, ConstrainIs
  <2> HIDE DEF cs
  <2> QED BY <1>2, <2>5 DEF ItemOK, ItemFields, cs
<1> QED BY <1>5, <1>6

\* A fetch whose classes need no fork: the fields that are fetched are not constrained when they
\* are wanted, and a wanted immediate is not awaited by a register.
LEMMA WantedIs ==
    ASSUME ProblemOK(P), NEW it, ItemOK(P, it), Inside(it), Fetching(it),
           SideAsked(it) => SideHeld(it), WaitAsked(it) => WaitHeld(it), Wanted(it) # "none"
    PROVE  /\ Wanted(it) \notin DOMAIN Here(it)
           /\ Wanted(it) \in {"side", "op"} \/ ("op" \in DOMAIN Here(it) /\ Wanted(it) \in Fields(Here(it).op)
                                                /\ Wanted(it) # "target")
           /\ Wanted(it) \in {"side", "index"} => ~Constrained(it.constraints, Pc(it), Wanted(it))
           /\ Wanted(it) = "data" => it.tags.x # Pc(it) /\ it.tags.y # Pc(it)
<1> DEFINE w == Here(it)
           s == IF SideHeld(it) THEN Decide(w, "side", NoWord) ELSE w
           f == Wanted(it)
<1>1. Partial(w) /\ Pc(it) \in Slots /\ Pc(it) < P.slots /\ SlotOK(P, w) /\ w = it.words[Pc(it)]
  BY FetchedIs DEF Here
<1>2. ~WaitHeld(it) /\ f = Demand(s)
  BY DEF Wanted
<1>3. SideHeld(it) => "side" \notin DOMAIN w
  BY DEF SideHeld, SideAsked, SideGroupable, Decided
<1>4. Partial(s)
  <2>1. CASE SideHeld(it)
    <3>1. May(P, w, "side", NoWord)
      BY <1>3, <2>1 DEF May
    <3> HIDE DEF w
    <3>2. SlotOK(P, Decide(w, "side", NoWord))
      BY <1>1, <3>1, Decides
    <3> QED BY <2>1, <3>2 DEF SlotOK
  <2>2. CASE ~SideHeld(it)
    BY <1>1, <2>2
  <2> QED BY <2>1, <2>2
<1>5. /\ DOMAIN s = DOMAIN w \cup (IF SideHeld(it) THEN {"side"} ELSE {})
      /\ \A g \in DOMAIN w : g # "side" => s[g] = w[g]
  BY Zenon DEF Decide
<1>6. f # "none"
  OBVIOUS
<1> HIDE DEF s, w, f
<1>7. /\ f \notin DOMAIN s /\ ("side" \notin DOMAIN s => f = "side")
      /\ f \in {"side", "op"} \/ ("op" \in DOMAIN s /\ f \in Fields(s.op) /\ ~Deferred(s, f))
  BY <1>2, <1>4, <1>6, DemandSome
<1>8. f \notin DOMAIN w
  BY <1>5, <1>7
<1>9. f \in {"side", "op"} \/ ("op" \in DOMAIN w /\ f \in Fields(w.op) /\ f # "target")
  <2>1. "op" \in DOMAIN s => "op" \in DOMAIN w /\ s.op = w.op
    BY <1>5
  <2>2. ~Deferred(s, f) => f # "target"
    BY DEF Deferred
  <2> QED BY <1>7, <2>1, <2>2
<1>10. NarrowOK(P, it.words, it.constraints)
  BY DEF ItemOK
<1>11. ASSUME f = "side", Constrained(it.constraints, Pc(it), f) PROVE FALSE
  <2>1. EntryOK(P, it.words, it.constraints[AllowedBy(it.constraints, Pc(it), f)])
        /\ it.constraints[AllowedBy(it.constraints, Pc(it), f)].slot = Pc(it)
        /\ it.constraints[AllowedBy(it.constraints, Pc(it), f)].field = f
    BY <1>10, <1>11, AllowedIs
  <2>2. SideGroupable(w, P)
    BY <1>1, <1>11, <2>1 DEF EntryOK
  <2>3. SideHeld(it)
    BY <2>2 DEF SideAsked, w
  <2> QED BY <1>5, <1>7, <1>11, <2>3
<1>12. ASSUME f = "index", Constrained(it.constraints, Pc(it), f) PROVE FALSE
  <2>1. EntryOK(P, it.words, it.constraints[AllowedBy(it.constraints, Pc(it), f)])
        /\ it.constraints[AllowedBy(it.constraints, Pc(it), f)].slot = Pc(it)
        /\ it.constraints[AllowedBy(it.constraints, Pc(it), f)].field = f
    BY <1>10, <1>12, AllowedIs
  <2>2. WaitGroupable(w)
    BY <1>1, <1>12, <2>1 DEF EntryOK
  <2>3. "side" \in DOMAIN s
    BY <1>7, <1>12
  <2>4. WaitAsked(it)
    BY <1>5, <2>2, <2>3 DEF WaitAsked, Decided, w
  <2> QED BY <1>2, <2>4
<1>13. ASSUME f = "data", it.tags.x = Pc(it) \/ it.tags.y = Pc(it) PROVE FALSE
  <2>1. TagsOK(it.words, it.tags) /\ Pc(it) # None
    BY <1>1 DEF ItemOK, None, Slots
  <2>2. Awaited(w)
    BY <1>1, <1>13, <2>1 DEF TagsOK
  <2>3. Get(s, "dst", "pins") \in {"x", "y"}
    BY <1>5, <2>2 DEF Awaited, Get, Decided
  <2> QED BY <1>7, <1>13, <2>3 DEF Deferred
<1> QED BY <1>8, <1>9, <1>11, <1>12, <1>13 DEF f, w

\* What a field may be decided as.
LEMMA ChoicesAre ==
    ASSUME ProblemOK(P), NEW w, SlotOK(P, w), NEW f, f \notin DOMAIN w,
           f \in {"side", "op"} \/ ("op" \in DOMAIN w /\ f \in Fields(w.op) /\ f # "target")
    PROVE  /\ \E S : Choices(w, f) \in Seq(S)
           /\ \A v \in Seqs!ToSet(Choices(w, f)) : May(P, w, f, v)
<1>1. /\ P.side \in Seq(Word \cup {NoWord}) /\ P.index \in Seq(0 .. 31) /\ P.ops \in Seq(DOMAIN P.operands)
  BY ProblemTypes
<1>2. \A S : \A q \in Seq(S) : \A v \in Seqs!ToSet(q) : v \in S
  BY ToSetIs, ElementOfSeq, LenProperties
<1>3. CASE f = "side"
  <2>1. Choices(w, f) = P.side
    BY <1>3 DEF Choices
  <2> QED BY <1>1, <1>2, <1>3, <2>1 DEF May
<1>4. CASE f = "op"
  <2>1. Choices(w, f) = P.ops
    BY <1>4 DEF Choices
  <2> QED BY <1>1, <1>2, <1>4, <2>1 DEF May
<1>5. CASE f \notin {"side", "op"}
  <2>1. "op" \in DOMAIN w /\ f \in Fields(w.op) /\ f # "target" /\ w.op \in DOMAIN P.operands /\ w.op \in Opcodes
    BY <1>5, ProblemOps DEF SlotOK
  <2>2. f # "delay"
    BY <2>1, FieldsAre DEF Opcodes
  <2>3. CASE f = "index"
    <3>1. Choices(w, f) = P.index
      BY <2>3 DEF Choices
    <3>2. Domain(w.op, f) = 0 .. 31
      BY <2>3 DEF Domain
    <3> DEFINE I == 0 .. 31
    <3>3. P.index \in Seq(I) /\ Domain(w.op, f) = I
      BY <1>1, <3>2
    <3> HIDE DEF I
    <3>4. \A v \in Seqs!ToSet(P.index) : v \in Domain(w.op, f)
      BY <1>2, <3>3
    <3>5. \A v \in Seqs!ToSet(P.index) : May(P, w, f, v)
      BY <1>5, <2>1, <2>2, <3>4 DEF May
    <3> QED BY <3>1, <3>3, <3>5
  <2>4. CASE f # "index"
    <3>1. Choices(w, f) = P.operands[w.op][f]
      BY <1>5, <2>4 DEF Choices
    <3>2. P.operands[w.op][f] \in Seq(Domain(w.op, f))
      <4>1. \A op \in DOMAIN P.operands : \A g \in Seqs!ToSet(Operands(op)) \ {"target", "index"} :
               P.operands[op][g] \in Seq(Domain(op, g))
        BY DEF ProblemOK
      <4> QED BY <2>1, <2>4, <4>1 DEF Fields
    <3> QED BY <1>2, <1>5, <2>1, <2>2, <2>4, <3>1, <3>2 DEF May
  <2> QED BY <2>3, <2>4
<1> QED BY <1>3, <1>4, <1>5

\* The children of a fork over a field.
LEMMA FieldChildOK ==
    ASSUME ProblemOK(P), NEW it, ItemOK(P, it), Inside(it), Fetching(it),
           SideAsked(it) => SideHeld(it), WaitAsked(it) => WaitHeld(it), Wanted(it) # "none",
           NEW v \in Seqs!ToSet(Choices(Here(it), Wanted(it))), NEW named
    PROVE  ItemOK(P, [Deciding(it, Pc(it), Wanted(it), v) EXCEPT !.named = named])
<1> DEFINE f == Wanted(it)
           d == Deciding(it, Pc(it), f, v)
<1>1. Pc(it) \in Slots /\ Pc(it) < P.slots /\ SlotOK(P, Here(it)) /\ Here(it) = it.words[Pc(it)]
  BY FetchedIs DEF Here
<1>2. May(P, it.words[Pc(it)], f, v)
  BY <1>1, WantedIs, ChoicesAre
<1>3. ItemOK(P, d)
  BY <1>1, <1>2, WantedIs, DecidingOK
<1> HIDE DEF d
<1> QED BY <1>3 DEF ItemOK, ItemFields, d

\* ... over the target of a jump that is taken.
LEMMA TargetChildOK ==
    ASSUME ProblemOK(P), NEW it, ItemOK(P, it), Inside(it), Fetching(it) => Wanted(it) = "none",
           Jumps(it), ~Decided(Here(it), "target"), NEW t \in 0 .. P.slots - 1
    PROVE  ItemOK(P, Deciding(it, Pc(it), "target", t))
<1> DEFINE w == Here(it)
<1>1. Fetching(it) /\ Meaning(w).op = "jmp"
  BY DEF Jumps
<1>2. Pc(it) \in Slots /\ Pc(it) < P.slots /\ SlotOK(P, w) /\ w = it.words[Pc(it)]
  BY <1>1, FetchedIs DEF Here
<1>3. "op" \in DOMAIN w /\ w.op \in Opcodes
  BY <1>1, <1>2, NothingWanted DEF SlotOK, Partial, Decided
<1> HIDE DEF w
<1>4. w.op = "jmp"
  <2>1. \A a, b, c : MovDo(a, b, c).op = "mov"
    BY DEF MovDo
  <2> QED BY <1>1, <1>3, <2>1 DEF Meaning, Opcodes, Get, Decided
<1>5. "target" \in Fields("jmp") /\ t \in Domain("jmp", "target")
  <2>1. t \in Slots
    <3>1. P.slots \in 1 .. N /\ N \in Nat
      BY ProblemTypes, IsaAssumption
    <3> QED BY <3>1 DEF Slots
  <2> QED BY <2>1, FieldsAre DEF Domain
<1>6. May(P, w, "target", t)
  BY <1>3, <1>4, <1>5 DEF May, Decided, w
<1> QED BY <1>2, <1>6, DecidingOK

\* ... over the immediate that registers stand for.
TagChild(it, slot, v, x, y, tags) == [Deciding(it, slot, "data", v) EXCEPT !.s.m.x = x, !.s.m.y = y, !.tags = tags]

\* An item whose tagged immediate is decided, placeholders replaced, is an item.
LEMMA TagChildOK ==
    ASSUME ProblemOK(P), NEW it, ItemOK(P, it), NEW r \in Tagged(it.tags), NEW slot, slot = it.tags[r],
           NEW v \in Seqs!ToSet(P.operands["set"]["data"]), NEW x \in {it.s.m.x, v}, NEW y \in {it.s.m.y, v},
           NEW tags, DOMAIN tags = {"x", "y"},
           \A u \in {"x", "y"} : tags[u] = (IF it.tags[u] = slot THEN None ELSE it.tags[u])
    PROVE  ItemOK(P, TagChild(it, slot, v, x, y, tags))
<1> DEFINE w == it.words[slot]
           m == [it.s.m EXCEPT !.x = x, !.y = y]
           s == [it.s EXCEPT !.m = m]
           i == [it EXCEPT !.s = s, !.tags = tags]
<1>1. TagsOK(it.words, it.tags) /\ WordsOK(P, it.words) /\ DOMAIN it = ItemFields /\ it.s \in Timed(P)
  BY DEF ItemOK
<1>2. slot \in Slots /\ Awaited(w) /\ slot # None
  BY <1>1 DEF TagsOK, Tagged, None, Slots
<1>3. slot < P.slots /\ SlotOK(P, w)
  <2>1. w # Filler
    BY <1>2 DEF Awaited, Filler
  <2> QED BY <1>1, <1>2, <2>1 DEF WordsOK
<1>4. v \in Word /\ May(P, w, "data", v)
  <2>1. "op" \in DOMAIN w /\ w.op = "set" /\ "set" \in DOMAIN P.operands /\ "data" \notin DOMAIN w
    BY <1>2, <1>3 DEF Awaited, SlotOK
  <2>2. Choices(w, "data") = P.operands["set"]["data"]
    BY <2>1 DEF Choices
  <2>3. "data" \in Fields("set")
    BY FieldsAre
  <2>4. May(P, w, "data", v)
    BY <1>3, <2>1, <2>2, <2>3, ChoicesAre
  <2> QED BY <2>1, <2>4 DEF May, Domain
<1>5. m \in MachineOf(P.config)
  BY <1>1, <1>4 DEF Timed, MachineOf, Machine
<1> HIDE DEF m
<1>6. s \in Timed(P)
  BY <1>1, <1>5 DEF Timed
<1> HIDE DEF s
<1>7. TagsOK(it.words, tags)
  BY <1>1 DEF TagsOK
<1>8. /\ i.s = s /\ i.tags = tags /\ DOMAIN i = ItemFields /\ \A f \in ItemFields \ {"s", "tags"} : i[f] = it[f]
  BY <1>1 DEF ItemFields
<1> HIDE DEF i
<1>9. ItemOK(P, i)
  BY <1>6, <1>7, <1>8 DEF ItemOK, ItemFields
<1>10. i.words = it.words /\ i.tags.x # slot /\ i.tags.y # slot
  <2>1. tags.x # slot /\ tags.y # slot
    BY <1>2
  <2> QED BY <1>8, <2>1 DEF ItemFields
<1>11. ItemOK(P, Deciding(i, slot, "data", v))
  BY <1>2, <1>3, <1>4, <1>9, <1>10, DecidingOK DEF w
<1>12. [Deciding(it, slot, "data", v) EXCEPT !.s.m.x = x, !.s.m.y = y, !.tags = tags] = Deciding(i, slot, "data", v)
  <2> DEFINE words == [it.words EXCEPT ![slot] = Decide(@, "data", v)]
  <2>1. Deciding(it, slot, "data", v) = [it EXCEPT !.words = words]
    BY DEF Deciding
  <2>2. Deciding(i, slot, "data", v) = [i EXCEPT !.words = words]
    BY <1>10 DEF Deciding
  <2> HIDE DEF words
  <2> DEFINE a == [it EXCEPT !.words = words]
  <2>3. DOMAIN a = ItemFields /\ a.s = it.s /\ a.words = words /\ \A f \in ItemFields \ {"words"} : a[f] = it[f]
    BY <1>1 DEF ItemFields
  <2> HIDE DEF a
  <2>4. [a EXCEPT !.s.m.x = x, !.s.m.y = y, !.tags = tags] = [a EXCEPT !.s = s, !.tags = tags]
    <3> DEFINE sx == [a.s EXCEPT !.m.x = x]
               sy == [sx EXCEPT !.m.y = y]
               b == [a EXCEPT !.s = sx]
    <3>1. sy = s
      BY <1>1, <2>3 DEF s, m, Timed
    <3>2. [a EXCEPT !.s.m.x = x] = b
      OBVIOUS
    <3>3. b.s = sx
      BY <2>3 DEF ItemFields
    <3> HIDE DEF sx
    <3>4. [b EXCEPT !.s.m.y = y] = [b EXCEPT !.s = sy]
      <4> HIDE DEF b
      <4> QED BY <3>3
    <3>5. [b EXCEPT !.s = sy] = [a EXCEPT !.s = sy]
      BY <2>3 DEF ItemFields
    <3>6. [a EXCEPT !.s.m.x = x, !.s.m.y = y, !.tags = tags] = [[[a EXCEPT !.s.m.x = x] EXCEPT !.s.m.y = y] EXCEPT !.tags = tags]
      OBVIOUS
    <3> QED BY <3>1, <3>2, <3>4, <3>5, <3>6
  <2>5. [a EXCEPT !.s = s, !.tags = tags] = [i EXCEPT !.words = words]
    <3>1. [a EXCEPT !.s = s, !.tags = tags] = [it EXCEPT !.words = words, !.s = s, !.tags = tags]
      BY DEF a
    <3>2. [i EXCEPT !.words = words] = [it EXCEPT !.s = s, !.tags = tags, !.words = words]
      BY DEF i
    <3>3. [it EXCEPT !.words = words, !.s = s, !.tags = tags] = [it EXCEPT !.s = s, !.tags = tags, !.words = words]
      BY <1>1 DEF ItemFields
    <3> QED BY <3>1, <3>2, <3>3
  <2> QED BY <2>1, <2>2, <2>4, <2>5 DEF a
<1> QED BY <1>11, <1>12 DEF TagChild

\* ... over the delay of an instruction that completed.
LEMMA DelayChildOK ==
    ASSUME ProblemOK(P), NEW it, ItemOK(P, it), NEW slot \in Slots, slot < P.slots, "delay" \notin DOMAIN it.words[slot],
           NEW d \in Nat, NEW submax
    PROVE  ItemOK(P, [Deciding(it, slot, "delay", d) EXCEPT !.s.delay = d, !.nop_submax = submax])
<1> DEFINE i == Deciding(it, slot, "delay", d)
           s == [i.s EXCEPT !.delay = d]
<1>1. May(P, it.words[slot], "delay", d)
  BY DEF May
<1>2. ItemOK(P, i)
  BY <1>1, DecidingOK
<1> HIDE DEF i
<1>3. s \in Timed(P) /\ DOMAIN i = ItemFields
  BY <1>2 DEF ItemOK, Timed
<1>4. [i EXCEPT !.s.delay = d, !.nop_submax = submax] = [i EXCEPT !.s = s, !.nop_submax = submax]
  BY <1>3 DEF ItemFields
<1> HIDE DEF s
<1>5. ItemOK(P, [i EXCEPT !.s = s, !.nop_submax = submax])
  BY <1>2, <1>3 DEF ItemOK, ItemFields
<1> QED BY <1>4, <1>5 DEF i

\* A class that is held changes what the word does in its index only.
LEMMA HeldMeaning ==
    ASSUME ProblemOK(P), NEW it, ItemOK(P, it), Inside(it)
    PROVE  /\ ~WaitHeld(it) => Meaning(Executable(it)[Pc(it)]) = Meaning(Here(it))
           /\ WaitHeld(it) => /\ Meaning(Here(it)).op = "wait"
                              /\ Meaning(Executable(it)[Pc(it)]) =
                                    Meaning(Decide(Here(it), "index", Executable(it)[Pc(it)].index))
<1> DEFINE w == Here(it)
           e == Executable(it)[Pc(it)]
<1>1. /\ DOMAIN e = DOMAIN w \cup (IF SideHeld(it) THEN {"side"} ELSE {}) \cup (IF WaitHeld(it) THEN {"index"} ELSE {})
      /\ \A f \in DOMAIN w : e[f] = w[f]
  BY ExecutableIs
<1>2. WaitHeld(it) => "op" \in DOMAIN w /\ w.op = "wait" /\ "index" \notin DOMAIN w
  BY ClassesAre DEF WaitHeld
<1> HIDE DEF e, w
<1>3. ASSUME ~WaitHeld(it) PROVE Meaning(e) = Meaning(w)
  <2>1. \A f, d : f # "side" => Get(e, f, d) = Get(w, f, d)
    BY <1>1, <1>3 DEF Get, Decided
  <2> QED BY <2>1 DEF Meaning
<1>4. ASSUME WaitHeld(it) PROVE Meaning(w).op = "wait" /\ Meaning(e) = Meaning(Decide(w, "index", e.index))
  <2> DEFINE u == Decide(w, "index", e.index)
  <2>1. DOMAIN u = DOMAIN w \cup {"index"} /\ u["index"] = e.index /\ \A f \in DOMAIN w : f # "index" => u[f] = w[f]
    BY DEF Decide
  <2> HIDE DEF u
  <2>2. \A f, d : f # "side" => Get(e, f, d) = Get(u, f, d)
    BY <1>1, <1>2, <1>4, <2>1 DEF Get, Decided
  <2>3. Meaning(e) = Meaning(u)
    BY <2>2 DEF Meaning
  <2>4. Meaning(w).op = "wait"
    BY <1>2, <1>4 DEF Meaning, Get, Decided
  <2> QED BY <2>3, <2>4 DEF u
<1> QED BY <1>3, <1>4 DEF e, w

\* When a program and its mirror image part, no register stands for an immediate.
LEMMA PartUntagged ==
    ASSUME ProblemOK(P), NEW it, ItemOK(P, it), Inside(it), TellsTwinsApart(it), TagsNeeded(it) = {}
    PROVE  Tagged(it.tags) = {}
<1> DEFINE m == it.s.m
           word == NextWord(it.s.tx)
           i == Loaded(it).code[m.pc].do
<1>1. it.unbound /\ Asymmetric(m, Loaded(it), word)
  BY DEF TellsTwinsApart
<1> SUFFICES ASSUME NEW r \in Tagged(it.tags) PROVE FALSE
  OBVIOUS
<1>2. r \notin TagsNeeded(it)
  OBVIOUS
<1>3. CASE Forced(m)
  BY <1>1, <1>2, <1>3 DEF TagsNeeded, Asymmetric, Executed
<1>4. CASE ~Forced(m)
  <2>1. Pc(it) \in Slots /\ m.pc = Pc(it)
    BY FetchedIs
  <2>2. /\ Loaded(it) = [P.config EXCEPT !.code = [k \in Slots |-> AsInsn(Executable(it)[k])]] /\ P.config \in Config
    BY ExecutableIs, LoadingType, ProblemTypes DEF Loaded
  <2>3. i = Meaning(Executable(it)[Pc(it)]) /\ Loaded(it).pull_threshold = P.config.pull_threshold
    BY <2>1, <2>2 DEF Config, AsInsn
  <2>4. ReadsPhysicalX(m, Loaded(it), i, word)
    BY <1>1, <1>4 DEF Asymmetric
  <2> HIDE DEF i
  <2>5. i.op = "pull"
    BY <2>4 DEF ReadsPhysicalX
  <2>6. i = Meaning(Here(it))
    <3>1. CASE WaitHeld(it)
      <4> DEFINE u == Decide(Here(it), "index", Executable(it)[Pc(it)].index)
      <4>1. i = Meaning(u) /\ "op" \in DOMAIN Here(it) /\ Here(it).op = "wait"
        BY <2>3, <3>1, HeldMeaning, ClassesAre DEF WaitHeld
      <4>2. "op" \in DOMAIN u /\ u.op = "wait"
        BY <4>1 DEF Decide
      <4> HIDE DEF u
      <4>3. Meaning(u).op = "wait"
        BY <4>2 DEF Meaning, Get, Decided
      <4> QED BY <2>5, <4>1, <4>3
    <3>2. CASE ~WaitHeld(it)
      BY <2>3, <3>2, HeldMeaning
    <3> QED BY <3>1, <3>2
  <2>7. Executed(it) = i
    BY <1>4, <2>6 DEF Executed
  <2>8. ReadsPhysicalX(m, P.config, i, word)
    BY <2>3, <2>4 DEF ReadsPhysicalX, Held
  <2>9. NeedsValue(Executed(it), r, m, P.config, word)
    BY <2>5, <2>7, <2>8 DEF NeedsValue
  <2> QED BY <1>2, <2>9 DEF TagsNeeded
<1> QED BY <1>3, <1>4

(***************************************************************************)
(* Mirror images.                                                          *)
(***************************************************************************)
LEMMA SwapIs ==
    /\ \A r : SwapName(SwapName(r)) = r /\ SwapCond(SwapCond(r)) = r
    /\ \A r : (SwapName(r) = "x" <=> r = "y") /\ (SwapName(r) = "y" <=> r = "x") /\ (r \notin {"x", "y"} => SwapName(r) = r)
    /\ \A op \in Opcodes : \A f : \A v \in Domain(op, f) :
          /\ f = "cond" => SwapCond(v) \in Domain(op, f)
          /\ f \in {"dst", "src"} /\ f \in Fields(op) => SwapName(v) \in Domain(op, f)
<1>1. \A r : SwapName(SwapName(r)) = r /\ SwapCond(SwapCond(r)) = r
  BY DEF SwapName, SwapCond
<1>2. \A r : (SwapName(r) = "x" <=> r = "y") /\ (SwapName(r) = "y" <=> r = "x") /\ (r \notin {"x", "y"} => SwapName(r) = r)
  BY DEF SwapName
<1>3. ASSUME NEW op \in Opcodes, NEW f, NEW v \in Domain(op, f)
      PROVE  /\ f = "cond" => SwapCond(v) \in Domain(op, f)
             /\ f \in {"dst", "src"} /\ f \in Fields(op) => SwapName(v) \in Domain(op, f)
  <2>1. CASE f = "cond"
    BY <1>3, <2>1 DEF Domain, SwapCond
  <2>2. CASE f = "dst" /\ f \in Fields(op)
    <3>1. op \in {"out", "mov", "set"}
      BY <2>2, FieldsAre DEF Opcodes
    <3> QED BY <1>3, <2>2, <3>1 DEF Domain, SwapName
  <2>3. CASE f = "src" /\ f \in Fields(op)
    <3>1. op \in {"wait", "in", "mov"}
      BY <2>3, FieldsAre DEF Opcodes
    <3> QED BY <1>3, <2>3, <3>1 DEF Domain, SwapName
  <2> QED BY <2>1, <2>2, <2>3
<1> QED BY <1>1, <1>2, <1>3

\* The mirror image of a word has its fields, and is grouped as it is.
LEMMA MirrorIs ==
    ASSUME NEW p, NEW w
    PROVE  /\ DOMAIN MirrorWord(w) = DOMAIN w
           /\ \A f \in DOMAIN w : MirrorWord(w)[f] = CASE f = "cond" -> SwapCond(w[f])
                                                       [] f \in {"dst", "src"} -> SwapName(w[f])
                                                       [] OTHER -> w[f]
           /\ WaitGroupable(w) => WaitGroupable(MirrorWord(w))
           /\ SideGroupable(w, p) => SideGroupable(MirrorWord(w), p)
           /\ Partial(w) => Partial(MirrorWord(w))
           /\ SlotOK(p, w) => SlotOK(p, MirrorWord(w))
<1> DEFINE u == MirrorWord(w)
<1>1. /\ DOMAIN u = DOMAIN w
      /\ \A f \in DOMAIN w : u[f] = CASE f = "cond" -> SwapCond(w[f])
                                      [] f \in {"dst", "src"} -> SwapName(w[f])
                                      [] OTHER -> w[f]
  BY DEF MirrorWord
<1> HIDE DEF u
<1>2. \A f \in DOMAIN w : f \notin {"cond", "dst", "src"} => u[f] = w[f]
  BY <1>1
<1>3. \A f \in DOMAIN w : f \in {"dst", "src"} => u[f] = SwapName(w[f])
  BY <1>1
<1>4. ASSUME WaitGroupable(w) PROVE WaitGroupable(u)
  BY <1>1, <1>2, <1>3, <1>4, SwapIs DEF WaitGroupable, Get, Decided
<1>5. ASSUME SideGroupable(w, p) PROVE SideGroupable(u, p)
  <2> DEFINE c == p.config
             side == Window(c.sideset_base, c.side_bits)
             outs == side \cap Window(c.out_base, c.out_count) # {}
             sets == side \cap Window(c.set_base, c.set_count) # {}
             spares(z) == Decided(z, "dst") /\ Get(z, "dst", "pins") # "pins"
  <2>1. \A z : SideGroupable(z, p) <=>
                 /\ ~Decided(z, "side") /\ p.optional_side /\ ~c.side_pindir
                 /\ \/ ~outs /\ ~sets
                    \/ Decided(z, "op") /\ (z.op \in {"out", "mov"} /\ outs => spares(z)) /\ (z.op = "set" /\ sets => spares(z))
    BY DEF SideGroupable
  <2>2. spares(w) => spares(u)
    <3> SUFFICES ASSUME "dst" \in DOMAIN w, w["dst"] # "pins" PROVE "dst" \in DOMAIN u /\ u["dst"] # "pins"
      BY DEF Decided, Get
    <3>1. u["dst"] = SwapName(w["dst"])
      BY <1>3
    <3> QED BY <1>1, <3>1 DEF SwapName
  <2>3. Decided(w, "op") => Decided(u, "op") /\ u.op = w.op
    BY <1>1, <1>2 DEF Decided
  <2>4. ~Decided(w, "side") => ~Decided(u, "side")
    BY <1>1 DEF Decided
  <2> HIDE DEF outs, sets, spares
  <2> QED BY <1>5, <2>1, <2>2, <2>3, <2>4
<1>6. ASSUME Partial(w) PROVE Partial(u)
  <2>1. /\ "op" \in DOMAIN u => "op" \in DOMAIN w /\ u.op = w.op /\ w.op \in Opcodes
        /\ "op" \in DOMAIN w => "op" \in DOMAIN u
    BY <1>1, <1>2, <1>6 DEF Partial, Decided
  <2>2. DOMAIN u \subseteq {"side", "op", "delay"} \cup (IF Decided(u, "op") THEN Seqs!ToSet(Operands(u.op)) ELSE {})
    BY <1>1, <1>6, <2>1 DEF Partial, Decided
  <2>3. \A f \in DOMAIN u \ {"side", "op", "delay"} : u[f] \in Domain(u.op, f)
    <3> SUFFICES ASSUME NEW f \in DOMAIN u \ {"side", "op", "delay"} PROVE u[f] \in Domain(u.op, f)
      OBVIOUS
    <3>1. "op" \in DOMAIN w /\ f \in Fields(w.op) /\ w[f] \in Domain(w.op, f)
      BY <1>1, <1>6 DEF Partial, Decided, Fields
    <3>2. u.op = w.op /\ w.op \in Opcodes
      BY <1>1, <2>1, <3>1
    <3>3. CASE f = "cond"
      <4>1. u[f] = SwapCond(w[f])
        BY <1>1, <3>3
      <4> QED BY <3>1, <3>2, <3>3, <4>1, SwapIs
    <3>4. CASE f \in {"dst", "src"}
      <4>1. u[f] = SwapName(w[f])
        BY <1>1, <1>3, <3>4
      <4> QED BY <3>1, <3>2, <3>4, <4>1, SwapIs
    <3>5. CASE f \notin {"cond", "dst", "src"}
      BY <1>1, <1>2, <3>1, <3>2, <3>5
    <3> QED BY <3>3, <3>4, <3>5
  <2>4. /\ Decided(u, "side") => u.side \in Word \cup {NoWord}
        /\ Decided(u, "delay") => u.delay \in Nat
        /\ Decided(u, "op") => u.op \in Opcodes
    BY <1>1, <1>2, <1>6, <2>1 DEF Partial, Decided
  <2> QED BY <2>2, <2>3, <2>4 DEF Partial
<1>7. ASSUME SlotOK(p, w) PROVE SlotOK(p, u)
  BY <1>1, <1>2, <1>6, <1>7 DEF SlotOK
<1> QED BY <1>1, <1>4, <1>5, <1>6, <1>7 DEF u

\* An item's mirror image is an item, when no register stands for an immediate.
LEMMA TwinOK ==
    ASSUME ProblemOK(P), NEW it, ItemOK(P, it), Tagged(it.tags) = {}
    PROVE  ItemOK(P, Twin(it))
<1> DEFINE words == [i \in Slots |-> IF i < P.slots THEN MirrorWord(it.words[i]) ELSE it.words[i]]
           s == [it.s EXCEPT !.m = Swapped(it.s.m)]
           t == Twin(it)
<1>1. /\ DOMAIN it = ItemFields /\ WordsOK(P, it.words) /\ NarrowOK(P, it.words, it.constraints)
      /\ TagsOK(it.words, it.tags) /\ it.s \in Timed(P)
  BY DEF ItemOK
<1>2. t = [it EXCEPT !.words = words, !.s = s]
  BY <1>1 DEF Twin, ItemFields
<1>3. s \in Timed(P)
  <2>1. Swapped(it.s.m) \in MachineOf(P.config)
    BY <1>1 DEF Timed, Swapped, MachineOf, Machine
  <2> QED BY <1>1, <2>1 DEF Timed
<1> HIDE DEF s
<1>4. WordsOK(P, words)
  BY <1>1, MirrorIs DEF WordsOK
<1>5. NarrowOK(P, words, it.constraints)
  <2> SUFFICES ASSUME NEW i \in DOMAIN it.constraints PROVE EntryOK(P, words, it.constraints[i])
    BY <1>1 DEF NarrowOK
  <2> DEFINE e == it.constraints[i]
  <2>1. EntryOK(P, it.words, e)
    BY <1>1 DEF NarrowOK
  <2>2. e.slot \in Slots /\ e.slot < P.slots
    BY <2>1 DEF EntryOK, Entry
  <2>3. words[e.slot] = MirrorWord(it.words[e.slot])
    BY <2>2
  <2> HIDE DEF words, e
  <2> QED BY <2>1, <2>3, MirrorIs DEF EntryOK, e
<1>6. TagsOK(words, it.tags)
  BY <1>1 DEF TagsOK, Tagged
<1> HIDE DEF words, t
<1>7. DOMAIN t = ItemFields /\ t.words = words /\ t.s = s /\ \A f \in ItemFields \ {"words", "s"} : t[f] = it[f]
  BY <1>1, <1>2 DEF ItemFields
<1>8. ItemOK(P, t)
  BY <1>3, <1>4, <1>5, <1>6, <1>7 DEF ItemOK, ItemFields
<1> QED BY <1>8 DEF t

(***************************************************************************)
(* How far a cycle gets, and the children it can end in.                   *)
(***************************************************************************)
Classed(it) == Inside(it) /\ (SideAsked(it) => SideHeld(it)) /\ (WaitAsked(it) => WaitHeld(it))
Fetched(it) == Classed(it) /\ (Fetching(it) => Wanted(it) = "none")
Untagged(it) == Fetched(it) /\ (Active(it) => TagsNeeded(it) = {})
Aimed(it) == Untagged(it) /\ (Jumps(it) => Decided(Here(it), "target"))
Proceeds(it) == Aimed(it) /\ ~TellsTwinsApart(it) /\ Agrees(Stepped(it), it.cycle)

\* What each edge of a cycle says of the item.
LEMMA EdgeIs ==
    ASSUME NEW it, NEW edge, edge = Edge(it, Stepped(it))
    PROVE  /\ edge # "champion" => it.cycle < horizon \/ ~(it.cycle \in Int /\ horizon \in Int)
           /\ edge = "champion" => it.cycle >= horizon
           /\ edge = "side" => Inside(it) /\ SideAsked(it) /\ ~SideHeld(it)
           /\ edge = "wait" => Inside(it) /\ WaitAsked(it) /\ ~WaitHeld(it)
           /\ edge = "field" => Classed(it) /\ Fetching(it) /\ Wanted(it) # "none"
           /\ edge = "tag" => Fetched(it) /\ TagsNeeded(it) # {}
           /\ edge = "target" => Untagged(it) /\ Jumps(it) /\ ~Decided(Here(it), "target")
           /\ edge = "bind" => Aimed(it) /\ TellsTwinsApart(it)
           /\ edge = "step" => Proceeds(it)
<1> DEFINE a == it.cycle >= horizon
           b == OutOfFootprint(P, it.s, Gpio(it))
           c == SideAsked(it) /\ ~SideHeld(it)
           d == WaitAsked(it) /\ ~WaitHeld(it)
           e == Fetching(it) /\ Wanted(it) # "none"
           f == Active(it) /\ TagsNeeded(it) # {}
           g == Jumps(it) /\ ~Decided(Here(it), "target")
           h == TellsTwinsApart(it)
           i == ~Agrees(Stepped(it), it.cycle)
<1>1. edge = IF a THEN "champion" ELSE IF b THEN "out" ELSE IF c THEN "side" ELSE IF d THEN "wait" ELSE IF e THEN "field"
             ELSE IF f THEN "tag" ELSE IF g THEN "target" ELSE IF h THEN "bind" ELSE IF i THEN "mismatch" ELSE "step"
  BY DEF Edge
<1>2. ~a => it.cycle < horizon \/ ~(it.cycle \in Int /\ horizon \in Int)
  OBVIOUS
<1>3. /\ Inside(it) <=> ~b
      /\ Classed(it) <=> ~b /\ ~c /\ ~d
      /\ Fetched(it) <=> ~b /\ ~c /\ ~d /\ ~e
      /\ Untagged(it) <=> ~b /\ ~c /\ ~d /\ ~e /\ ~f
      /\ Aimed(it) <=> ~b /\ ~c /\ ~d /\ ~e /\ ~f /\ ~g
      /\ Proceeds(it) <=> ~b /\ ~c /\ ~d /\ ~e /\ ~f /\ ~g /\ ~h /\ ~i
  BY DEF Inside, Classed, Fetched, Untagged, Aimed, Proceeds
<1> HIDE DEF a, b
<1>4. /\ edge # "champion" => ~a
      /\ edge = "champion" => a
      /\ edge = "side" => ~b /\ c
      /\ edge = "wait" => ~b /\ d
      /\ edge = "field" => ~b /\ ~c /\ ~d /\ e
      /\ edge = "tag" => ~b /\ ~c /\ ~d /\ ~e /\ f
      /\ edge = "target" => ~b /\ ~c /\ ~d /\ ~e /\ ~f /\ g
      /\ edge = "bind" => ~b /\ ~c /\ ~d /\ ~e /\ ~f /\ ~g /\ h
      /\ edge = "step" => ~b /\ ~c /\ ~d /\ ~e /\ ~f /\ ~g /\ ~h /\ ~i
  <2> HIDE DEF c, d, e, f, g, h, i
  <2> QED BY <1>1
<1> QED BY <1>2, <1>3, <1>4 DEF a

\* A child of `it': one field is decided, or confined to some of its values, or the names of the
\* registers are.
Settles(it, c) == \E slot, f : Groups(it, slot, f) /\
                     \E v \in Allowed(it.constraints, slot, f, Whole[f]) : c = Settling(it, slot, f, v)
Confines(it, c) == \E slot, f, same :
                      /\ Groups(it, slot, f)
                      /\ same \subseteq Allowed(it.constraints, slot, f, Whole[f]) /\ same # Allowed(it.constraints, slot, f, Whole[f])
                      /\ Cardinality(same) > 1
                      /\ Constrained(it.constraints, slot, f) \/ Len(it.constraints) < ConstraintCap
                      /\ c = [it EXCEPT !.constraints = Constrain(it.constraints, slot, f, same)]
Chooses(it, c) == /\ Classed(it) /\ Fetching(it) /\ Wanted(it) # "none"
                  /\ \E v \in Seqs!ToSet(Choices(Here(it), Wanted(it))) :
                        c = [Deciding(it, Pc(it), Wanted(it), v) EXCEPT !.named = it.named \/ Names(Wanted(it), v) # {}]
Collapses(it, c) == \E slot : (\E r \in Tagged(it.tags) : it.tags[r] = slot) /\
                      \E v \in Seqs!ToSet(P.operands["set"]["data"]) :
                         c = TagChild(it, slot, v, IF it.tags.x = slot THEN v ELSE it.s.m.x,
                                      IF it.tags.y = slot THEN v ELSE it.s.m.y,
                                      [r \in {"x", "y"} |-> IF it.tags[r] = slot THEN None ELSE it.tags[r]])
Aims(it, c) == /\ Untagged(it) /\ Jumps(it) /\ ~Decided(Here(it), "target")
               /\ \E t \in 0 .. P.slots - 1 : c = Deciding(it, Pc(it), "target", t)
Bound(it) == [it EXCEPT !.unbound = FALSE]
Parts1(it, c) == Aimed(it) /\ TellsTwinsApart(it) /\ c \in {Bound(it), Twin(Bound(it))}
Delays1(it, c) == /\ Proceeds(it) /\ ForksDelay(it, Stepped(it))
                  /\ \E d \in 0 .. P.max_delay : \E submax :
                       c = [Deciding(Advanced(it, Stepped(it)), Pc(it), "delay", d) EXCEPT !.s.delay = d, !.nop_submax = submax]
Offspring(it, c) == Settles(it, c) \/ Confines(it, c) \/ Chooses(it, c) \/ Collapses(it, c) \/ Aims(it, c)
                    \/ Parts1(it, c) \/ Delays1(it, c)

\* A child is an item.
LEMMA OffspringOK ==
    ASSUME ProblemOK(P), NEW it, ItemOK(P, it), NEW c, Offspring(it, c)
    PROVE  ItemOK(P, c)
<1>1. NarrowOK(P, it.words, it.constraints)
  BY DEF ItemOK
<1>2. \A slot, f : Allowed(it.constraints, slot, f, Whole[f]) \subseteq Whole[f]
  BY <1>1, AllowedIs DEF Whole
<1>3. CASE Settles(it, c)
  BY <1>2, <1>3, ClassOK DEF Settles
<1>4. CASE Confines(it, c)
  <2>1. PICK slot, f, same :
           /\ Groups(it, slot, f)
           /\ same \subseteq Allowed(it.constraints, slot, f, Whole[f]) /\ same # Allowed(it.constraints, slot, f, Whole[f])
           /\ Cardinality(same) > 1
           /\ Constrained(it.constraints, slot, f) \/ Len(it.constraints) < ConstraintCap
           /\ c = [it EXCEPT !.constraints = Constrain(it.constraints, slot, f, same)]
    BY <1>4, Zenon DEF Confines
  <2>2. same \subseteq Whole[f] /\ same # Whole[f]
    BY <1>2, <2>1
  <2> QED BY <2>1, <2>2, ClassOK
<1>5. CASE Chooses(it, c)
  BY <1>5, FieldChildOK DEF Chooses, Classed
<1>6. CASE Collapses(it, c)
  <2> DEFINE x(slot, v) == IF it.tags.x = slot THEN v ELSE it.s.m.x
             y(slot, v) == IF it.tags.y = slot THEN v ELSE it.s.m.y
             tags(slot) == [r \in {"x", "y"} |-> IF it.tags[r] = slot THEN None ELSE it.tags[r]]
  <2>1. PICK slot : (\E r \in Tagged(it.tags) : it.tags[r] = slot)
                    /\ (\E v \in Seqs!ToSet(P.operands["set"]["data"]) : c = TagChild(it, slot, v, x(slot, v), y(slot, v), tags(slot)))
    BY <1>6, Zenon DEF Collapses
  <2>2. PICK r \in Tagged(it.tags) : it.tags[r] = slot
    BY <2>1, Zenon
  <2>3. PICK v \in Seqs!ToSet(P.operands["set"]["data"]) : c = TagChild(it, slot, v, x(slot, v), y(slot, v), tags(slot))
    BY <2>1, Zenon
  <2>4. x(slot, v) \in {it.s.m.x, v} /\ y(slot, v) \in {it.s.m.y, v} /\ DOMAIN tags(slot) = {"x", "y"}
        /\ \A u \in {"x", "y"} : tags(slot)[u] = (IF it.tags[u] = slot THEN None ELSE it.tags[u])
    OBVIOUS
  <2> HIDE DEF x, y, tags
  <2> QED BY <2>2, <2>3, <2>4, TagChildOK
<1>7. CASE Aims(it, c)
  BY <1>7, TargetChildOK DEF Aims, Untagged, Fetched, Classed
<1>8. CASE Parts1(it, c)
  <2> DEFINE me == Bound(it)
  <2>1. Active(it)
    BY <1>8 DEF Parts1, TellsTwinsApart, WillExecute, Active
  <2>2. Tagged(it.tags) = {}
    BY <1>8, <2>1, PartUntagged DEF Parts1, Aimed, Untagged, Fetched, Classed
  <2>3. ItemOK(P, me) /\ me.tags = it.tags
    BY DEF ItemOK, ItemFields, Bound
  <2> HIDE DEF me
  <2>4. ItemOK(P, Twin(me))
    BY <2>2, <2>3, TwinOK
  <2> QED BY <1>8, <2>3, <2>4 DEF Parts1, me
<1>9. CASE Delays1(it, c)
  <2> DEFINE next == Advanced(it, Stepped(it))
  <2>1. Inside(it) /\ (Fetching(it) => Wanted(it) = "none") /\ Fetching(it) /\ "delay" \notin DOMAIN Here(it)
    BY <1>9 DEF Delays1, Proceeds, Aimed, Untagged, Fetched, Classed, ForksDelay, Delays, Decided
  <2>2. ItemOK(P, next) /\ next.words = it.words
    BY <2>1, AdvancedOK DEF ItemFields
  <2>3. Pc(it) \in Slots /\ Pc(it) < P.slots /\ "delay" \notin DOMAIN next.words[Pc(it)]
    BY <2>1, <2>2, FetchedIs DEF Here
  <2>4. \A d \in 0 .. P.max_delay : d \in Nat
    BY ProblemTypes
  <2>a. PICK d \in 0 .. P.max_delay : \E submax :
           c = [Deciding(next, Pc(it), "delay", d) EXCEPT !.s.delay = d, !.nop_submax = submax]
    BY <1>9, Zenon DEF Delays1
  <2>5. PICK submax : c = [Deciding(next, Pc(it), "delay", d) EXCEPT !.s.delay = d, !.nop_submax = submax]
    BY <2>a, Zenon
  <2> HIDE DEF next
  <2> QED BY <2>2, <2>3, <2>4, <2>5, DelayChildOK
<1> QED BY <1>3, <1>4, <1>5, <1>6, <1>7, <1>8, <1>9 DEF Offspring

(***************************************************************************)
(* Two children of one item have no program in common: they confine one    *)
(* field to values that do not meet, or the item parts from its mirror     *)
(* image.                                                                  *)
(***************************************************************************)
MirrorField(f, v) == CASE f = "cond" -> SwapCond(v) [] f \in {"dst", "src"} -> SwapName(v) [] OTHER -> v
Only(c, slot, f, U) ==
    \/ f \in DOMAIN c.words[slot] /\ c.words[slot][f] \in U
    \/ \E k \in DOMAIN c.constraints :
          c.constraints[k].slot = slot /\ c.constraints[k].field = f /\ c.constraints[k].allowed \subseteq U
Differ(it, c, d, slot, f, U, V) ==
    /\ slot \in 0 .. P.slots - 1 /\ (f = "side" => HasSide) /\ c.unbound = it.unbound /\ d.unbound = it.unbound
    /\ Only(c, slot, f, U) /\ Only(d, slot, f, V) /\ U \cap V = {}
    /\ ~it.named /\ it.unbound => \A u \in U : MirrorField(f, u) \notin V
Partners(it, c, d) == /\ Aimed(it) /\ TellsTwinsApart(it) /\ Twin(Bound(it)) # Bound(it)
                      /\ c \in {Bound(it), Twin(Bound(it))} /\ d \in {Bound(it), Twin(Bound(it))} /\ c # d
Siblings(it, c, d) == Partners(it, c, d) \/ \E slot, f, U, V : Differ(it, c, d, slot, f, U, V)

\* One field of c is decided that is not of `it'.
TurnedTo(it, c, slot, f, v) == /\ c.words = [it.words EXCEPT ![slot] = Decide(it.words[slot], f, v)]
                               /\ c.unbound = it.unbound

\* Deciding a field confines it to the value.
LEMMA DecidedOnly ==
    ASSUME NEW it, DOMAIN it.words = Slots, NEW slot \in Slots, NEW f, NEW v, NEW c, TurnedTo(it, c, slot, f, v)
    PROVE  Only(c, slot, f, {v})
<1>1. c.words[slot] = Decide(it.words[slot], f, v)
  BY DEF TurnedTo
<1>2. f \in DOMAIN c.words[slot] /\ c.words[slot][f] = v
  BY <1>1 DEF Decide
<1> QED BY <1>2 DEF Only

\* Two children that decide one field differently.
LEMMA ValuesDiffer ==
    ASSUME ProblemOK(P), NEW it, ItemOK(P, it), NEW slot \in Slots, slot < P.slots,
           NEW f, f = "side" => HasSide, NEW u, NEW v, u # v, ~it.named /\ it.unbound => MirrorField(f, u) # v,
           NEW c, TurnedTo(it, c, slot, f, u),
           NEW d, TurnedTo(it, d, slot, f, v)
    PROVE  Siblings(it, c, d)
<1>1. DOMAIN it.words = Slots /\ slot \in 0 .. P.slots - 1
  <2>1. P.slots \in 1 .. N /\ slot \in Nat
    BY ProblemTypes DEF Slots
  <2> QED BY <2>1 DEF ItemOK, WordsOK
<1>2. Only(c, slot, f, {u}) /\ Only(d, slot, f, {v})
  BY <1>1, DecidedOnly
<1>3. {u} \cap {v} = {} /\ (~it.named /\ it.unbound => \A a \in {u} : MirrorField(f, a) \notin {v})
  OBVIOUS
<1>4. Differ(it, c, d, slot, f, {u}, {v})
  BY <1>1, <1>2, <1>3 DEF Differ, TurnedTo
<1> QED BY <1>4, Zenon DEF Siblings

\* ... that no mirror image changes.
LEMMA PlainDiffer ==
    ASSUME ProblemOK(P), NEW it, ItemOK(P, it), NEW slot \in Slots, slot < P.slots,
           NEW f \in {"data", "target", "delay"}, NEW u, NEW v, u # v,
           NEW c, TurnedTo(it, c, slot, f, u),
           NEW d, TurnedTo(it, d, slot, f, v)
    PROVE  Siblings(it, c, d)
<1>1. f = "side" => HasSide
  OBVIOUS
<1>2. ~it.named /\ it.unbound => MirrorField(f, u) # v
  BY DEF MirrorField
<1> QED BY <1>1, <1>2, ValuesDiffer, Zenon

\* Of two values under which a program and its mirror image are told apart by the first name, none
\* is the other's mirror image.
LEMMA FirstNamed ==
    ASSUME NEW f, NEW u, NEW v, u # v, Names(f, u) # {"y"}, Names(f, v) # {"y"}
    PROVE  MirrorField(f, u) # v
BY DEF MirrorField, SwapCond, SwapName, Names

\* What is kept of a sequence of distinct elements is one.
LEMMA KeepsDistinct ==
    ASSUME NEW A, NEW s \in Seq(A), NEW S, Seqs!IsInjective(s)
    PROVE  Seqs!IsInjective(Keeping(s, S))
<1> DEFINE q == Keeping(s, S)
<1>1. PICK h : Ordered(h, q, s, Len(s))
  BY KeepingOrder
<1>2. q \in Seq(A)
  BY KeepingIs
<1> HIDE DEF q
<1>3. DOMAIN q = 1 .. Len(q) /\ DOMAIN s = 1 .. Len(s) /\ Len(q) \in Nat /\ Len(s) \in Nat
  BY <1>2, LenProperties
<1>4. SUFFICES ASSUME NEW i \in 1 .. Len(q), NEW j \in 1 .. Len(q), q[i] = q[j] PROVE i = j
  BY <1>3 DEF Seqs!IsInjective, q
<1>5. h[i] \in 1 .. Len(s) /\ h[j] \in 1 .. Len(s) /\ s[h[i]] = s[h[j]]
  BY <1>1, <1>4 DEF Ordered
<1>6. h[i] = h[j]
  BY <1>3, <1>5 DEF Seqs!IsInjective
<1>7. (i < j => h[i] < h[j]) /\ (j < i => h[j] < h[i])
  BY <1>1 DEF Ordered
<1> QED BY <1>3, <1>5, <1>6, <1>7

\* The values of a field are told once each.
LEMMA ChoicesDistinct ==
    ASSUME ProblemOK(P), NEW w, SlotOK(P, w), NEW f,
           f \in {"side", "op"} \/ ("op" \in DOMAIN w /\ f \in Fields(w.op) /\ f # "target")
    PROVE  Seqs!IsInjective(Choices(w, f))
<1>1. Seqs!IsInjective(P.ops) /\ Seqs!IsInjective(P.side) /\ Seqs!IsInjective(P.index)
  BY Zenon DEF ProblemOK
<1>2. CASE f \in {"side", "op", "index"}
  BY <1>1, <1>2 DEF Choices
<1>3. CASE f \notin {"side", "op", "index"}
  <2>1. Choices(w, f) = P.operands[w.op][f]
    BY <1>3 DEF Choices
  <2>2. w.op \in DOMAIN P.operands /\ f \in Seqs!ToSet(Operands(w.op)) \ {"target", "index"}
    BY <1>3 DEF SlotOK, Fields
  <2>3. \A op \in DOMAIN P.operands : \A g \in Seqs!ToSet(Operands(op)) \ {"target", "index"} :
           Seqs!IsInjective(P.operands[op][g])
    BY Zenon DEF ProblemOK
  <2> QED BY <2>1, <2>2, <2>3
<1> QED BY <1>2, <1>3

\* A constraint is entered, or replaces that on the same field; the others stay.
LEMMA ConstrainHas ==
    ASSUME NEW cs \in Seq(Entry), NEW slot, NEW f, NEW allowed
    PROVE  /\ \E k \in DOMAIN Constrain(cs, slot, f, allowed) :
                 /\ Constrain(cs, slot, f, allowed)[k].slot = slot /\ Constrain(cs, slot, f, allowed)[k].field = f
                 /\ Constrain(cs, slot, f, allowed)[k].allowed = allowed
           /\ \A i \in DOMAIN cs : i # AllowedBy(cs, slot, f) \/ ~Constrained(cs, slot, f) =>
                 i \in DOMAIN Constrain(cs, slot, f, allowed) /\ Constrain(cs, slot, f, allowed)[i] = cs[i]
<1> DEFINE k == AllowedBy(cs, slot, f)
           e == [slot |-> slot, field |-> f, allowed |-> allowed]
           u == Constrain(cs, slot, f, allowed)
<1>1. Len(cs) \in Nat /\ DOMAIN cs = 1 .. Len(cs) /\ \A i \in DOMAIN cs : cs[i] \in Entry
  BY LenProperties, ElementOfSeq
<1>2. CASE Constrained(cs, slot, f)
  <2>1. u = [cs EXCEPT ![k].allowed = allowed]
    BY <1>2 DEF Constrain
  <2>2. k \in DOMAIN cs /\ cs[k].slot = slot /\ cs[k].field = f
    BY <1>2 DEF Constrained, AllowedBy
  <2> HIDE DEF k, u
  <2>3. u[k] = [cs[k] EXCEPT !.allowed = allowed] /\ DOMAIN u = DOMAIN cs /\ \A i \in DOMAIN cs : i # k => u[i] = cs[i]
    BY <2>1, <2>2
  <2>4. u[k].slot = slot /\ u[k].field = f /\ u[k].allowed = allowed
    BY <1>1, <2>2, <2>3 DEF Entry
  <2> QED BY <1>2, <2>2, <2>3, <2>4 DEF u, k
<1>3. CASE ~Constrained(cs, slot, f)
  <2>1. u = Append(cs, e)
    BY <1>3 DEF Constrain
  <2>2. Len(Append(cs, e)) = Len(cs) + 1 /\ DOMAIN Append(cs, e) = 1 .. Len(cs) + 1 /\ Append(cs, e)[Len(cs) + 1] = e
        /\ \A i \in 1 .. Len(cs) : Append(cs, e)[i] = cs[i]
    <3> DEFINE T == Entry \cup {e}
    <3>1. cs \in Seq(T) /\ e \in T
      BY SeqMonotonic
    <3> HIDE DEF e, T
    <3>2. Len(Append(cs, e)) = Len(cs) + 1 /\ Append(cs, e)[Len(cs) + 1] = e /\ Append(cs, e) \in Seq(T)
          /\ \A i \in 1 .. Len(cs) : Append(cs, e)[i] = cs[i]
      BY <3>1, AppendProperties
    <3> QED BY <3>2, LenProperties
  <2>3. e.slot = slot /\ e.field = f /\ e.allowed = allowed
    OBVIOUS
  <2>4. Len(cs) + 1 \in 1 .. Len(cs) + 1 /\ \A i \in 1 .. Len(cs) : i \in 1 .. Len(cs) + 1
    BY <1>1
  <2> HIDE DEF e, u
  <2> QED BY <1>1, <1>3, <2>1, <2>2, <2>3, <2>4 DEF u
<1> QED BY <1>2, <1>3

\* Deciding a field, of a constrained one or not, changes that word only.
LEMMA DecidedWords ==
    ASSUME NEW it, ItemOK(P, it), NEW slot \in Slots, NEW f, NEW v
    PROVE  /\ TurnedTo(it, Deciding(it, slot, f, v), slot, f, v)
           /\ TurnedTo(it, Settling(it, slot, f, v), slot, f, v)
<1>1. DOMAIN it = ItemFields /\ DOMAIN it.words = Slots
  BY DEF ItemOK, WordsOK
<1> DEFINE d == Deciding(it, slot, f, v)
<1>2. TurnedTo(it, d, slot, f, v) /\ DOMAIN d = ItemFields
  BY <1>1 DEF TurnedTo, Deciding, ItemFields
<1>3. Settling(it, slot, f, v) = [d EXCEPT !.constraints = Unconstrain(@, slot, f)]
  BY DEF Settling
<1> HIDE DEF d
<1>4. LET e == [d EXCEPT !.constraints = Unconstrain(@, slot, f)] IN e.words = d.words /\ e.unbound = d.unbound
  BY <1>2 DEF ItemFields
<1> QED BY <1>2, <1>3, <1>4 DEF d, TurnedTo

\* A field that is kept in classes is not one that a mirror image changes.
LEMMA GroupsIs ==
    ASSUME NEW it, ItemOK(P, it), NEW slot, NEW f, Groups(it, slot, f)
    PROVE  /\ slot \in Slots /\ slot < P.slots /\ (f = "side" => HasSide) /\ f \notin DOMAIN it.words[slot]
           /\ \A v : MirrorField(f, v) = v
<1>1. slot \in Slots /\ slot < P.slots /\ (f = "side" \/ f = "index")
  BY DEF Groups
<1>2. SlotOK(P, it.words[slot])
  BY <1>1 DEF ItemOK, WordsOK
<1>3. f \notin DOMAIN it.words[slot]
  BY DEF Groups, WaitGroupable, SideGroupable, Decided
<1>4. f = "side" => HasSide
  BY <1>2, <1>3 DEF SlotOK, HasSide
<1>5. \A v : MirrorField(f, v) = v
  BY <1>1 DEF MirrorField
<1> QED BY <1>1, <1>3, <1>4, <1>5

\* Two values of such a field, and a value that is not in a class of values.
LEMMA SettledDiffer ==
    ASSUME ProblemOK(P), NEW it, ItemOK(P, it), NEW slot, NEW f, Groups(it, slot, f), NEW u, NEW v, u # v
    PROVE  Siblings(it, Settling(it, slot, f, u), Settling(it, slot, f, v))
<1>1. slot \in Slots /\ slot < P.slots /\ (f = "side" => HasSide) /\ MirrorField(f, u) # v
  BY GroupsIs
<1> DEFINE c == Settling(it, slot, f, u)  d == Settling(it, slot, f, v)
<1>2. TurnedTo(it, c, slot, f, u) /\ TurnedTo(it, d, slot, f, v)
  BY <1>1, DecidedWords
<1> HIDE DEF c, d
<1>3. Siblings(it, c, d)
  BY <1>1, <1>2, ValuesDiffer
<1> QED BY <1>3 DEF c, d

\* ... of which a class is kept.
LEMMA ClassDiffers ==
    ASSUME ProblemOK(P), NEW it, ItemOK(P, it), NEW slot, NEW f, Groups(it, slot, f), NEW same, NEW v, v \notin same
    PROVE  /\ Siblings(it, [it EXCEPT !.constraints = Constrain(it.constraints, slot, f, same)], Settling(it, slot, f, v))
           /\ Siblings(it, Settling(it, slot, f, v), [it EXCEPT !.constraints = Constrain(it.constraints, slot, f, same)])
<1> DEFINE c == [it EXCEPT !.constraints = Constrain(it.constraints, slot, f, same)]  d == Settling(it, slot, f, v)
           cs == it.constraints
<1>1. slot \in Slots /\ slot < P.slots /\ (f = "side" => HasSide) /\ \A u : MirrorField(f, u) = u
  BY GroupsIs
<1>2. TurnedTo(it, d, slot, f, v) /\ DOMAIN it.words = Slots
  <2>1. TurnedTo(it, d, slot, f, v)
    BY <1>1, DecidedWords
  <2> QED BY <2>1 DEF ItemOK, WordsOK
<1>3. c.constraints = Constrain(cs, slot, f, same) /\ cs \in Seq(Entry) /\ c.unbound = it.unbound /\ d.unbound = it.unbound
  BY <1>2 DEF ItemOK, ItemFields, NarrowOK, TurnedTo
<1> HIDE DEF c, d, cs
<1>4. Only(c, slot, f, same)
  <2>1. PICK k \in DOMAIN Constrain(cs, slot, f, same) :
           /\ Constrain(cs, slot, f, same)[k].slot = slot /\ Constrain(cs, slot, f, same)[k].field = f
           /\ Constrain(cs, slot, f, same)[k].allowed = same
    BY <1>3, ConstrainHas
  <2> QED BY <1>3, <2>1 DEF Only
<1>5. Only(d, slot, f, {v})
  BY <1>1, <1>2, DecidedOnly
<1>6. slot \in 0 .. P.slots - 1
  BY <1>1, ProblemTypes DEF Slots
<1>7. same \cap {v} = {} /\ {v} \cap same = {} /\ (\A u \in same : MirrorField(f, u) \notin {v}) /\ \A u \in {v} : MirrorField(f, u) \notin same
  BY <1>1
<1>8. Differ(it, c, d, slot, f, same, {v}) /\ Differ(it, d, c, slot, f, {v}, same)
  BY <1>1, <1>3, <1>4, <1>5, <1>6, <1>7 DEF Differ
<1>9. Siblings(it, c, d) /\ Siblings(it, d, c)
  BY <1>8, Zenon DEF Siblings
<1> QED BY <1>9 DEF c, d, cs

(***************************************************************************)
(* What a step of the search does to the items.                            *)
(***************************************************************************)
IsSeq(q) == \E S : q \in Seq(S)
Ends == run' = NoRun /\ stack' = stack /\ champions' = champions /\ cap_hit' = cap_hit
Kids(it, children) == /\ IsSeq(children) /\ \A i \in DOMAIN children : Offspring(it, children[i])
                      /\ \A i, j \in DOMAIN children : i # j => Siblings(it, children[i], children[j])
Forks(it) == \E children : /\ Kids(it, children) /\ stack' = stack \o children
                           /\ run' = NoRun /\ champions' = champions /\ cap_hit' = cap_hit

\* A table over 1 .. n is a sequence.
LEMMA TableIsSeq ==
    ASSUME NEW n \in Nat, NEW g, g = [i \in 1 .. n |-> g[i]]
    PROVE  g \in Seq({g[i] : i \in 1 .. n}) /\ Len(g) = n /\ DOMAIN g = 1 .. n /\ IsSeq(g)
<1> DEFINE S == {g[i] : i \in 1 .. n}
<1>1. g \in [1 .. n -> S]
  OBVIOUS
<1> HIDE DEF S
<1>2. g \in Seq(S) /\ Len(g) = n
  BY <1>1
<1> QED BY <1>1, <1>2 DEF S, IsSeq

\* An item that is split ends, or is replaced by items.
LEMMA SplitForks ==
    ASSUME NEW it, NEW seg, NEW children, NEW consulted, NEW reads, Kids(it, children),
           Split(it, seg, children, consulted, reads)
    PROVE  Ends \/ Forks(it)
<1>1. CASE children = << >>
  BY <1>1 DEF Split, Refute, Ends
<1>2. CASE children # << >>
  BY <1>2 DEF Split, Fork, Forks
<1> QED BY <1>1, <1>2

\* The children of a partition.
LEMMA PartitionForks ==
    ASSUME ProblemOK(P), ItemOK(P, It), NEW f, NEW allowed, NEW same, NEW all,
           Groups(It, Pc(It), f), allowed = Allowed(It.constraints, Pc(It), f, Whole[f]),
           same \subseteq allowed, same # allowed, IsSeq(all), Seqs!IsInjective(all), Partition(f, allowed, same, all)
    PROVE  Ends \/ Forks(It)
<1> DEFINE slot == Pc(It)
           rep == AnyOf(same, all)
           V == {v \in allowed : v \in same => v = rep}
           kept == Keeping(all, V)
           child(v) == IF v \in same /\ Cardinality(same) > 1
                       THEN [It EXCEPT !.constraints = Constrain(@, slot, f, same)]
                       ELSE Settling(It, slot, f, v)
           classes == Classes(f, allowed, same, all)
<1>0. NarrowOK(P, It.words, It.constraints) /\ DOMAIN It = ItemFields
  BY DEF ItemOK
<1>1. classes = [i \in DOMAIN kept |-> child(kept[i])]
  BY DEF Classes, Each
<1>2. PICK S : all \in Seq(S)
  BY DEF IsSeq
<1>3. kept \in Seq(S) /\ Seqs!ToSet(kept) = Seqs!ToSet(all) \cap V /\ Seqs!IsInjective(kept)
  <2> HIDE DEF V
  <2> QED BY <1>2, KeepingIs, KeepsDistinct
<1> HIDE DEF kept
<1>4. DOMAIN kept = 1 .. Len(kept) /\ Len(kept) \in Nat
  BY <1>3, LenProperties
<1>5. \A i \in DOMAIN kept : kept[i] \in V
  <2> SUFFICES ASSUME NEW i \in DOMAIN kept PROVE kept[i] \in V
    OBVIOUS
  <2>1. kept[i] \in Seqs!ToSet(kept)
    BY ToSetIs
  <2> QED BY <1>3, <2>1
<1>6. ASSUME ~Overflows(f, same) PROVE Kids(It, classes)
  <2>1. classes = [i \in 1 .. Len(kept) |-> classes[i]] /\ \A i \in 1 .. Len(kept) : classes[i] = child(kept[i])
    BY <1>1, <1>4
  <2> HIDE DEF classes
  <2>2. IsSeq(classes) /\ DOMAIN classes = 1 .. Len(kept)
    BY <1>4, <2>1, TableIsSeq
  <2>3. ASSUME NEW v \in allowed PROVE Offspring(It, child(v))
    <3>1. CASE v \in same /\ Cardinality(same) > 1
      <4>1. Constrained(It.constraints, slot, f) \/ Len(It.constraints) < ConstraintCap
        <5>1. Constrained(It.constraints, slot, f) \/ Len(It.constraints) # ConstraintCap
          BY <1>6, <3>1 DEF Overflows
        <5>2. Len(It.constraints) <= ConstraintCap /\ ConstraintCap \in Nat /\ Len(It.constraints) \in Nat
          BY <1>0, SearchAssumption, LenProperties DEF NarrowOK
        <5> QED BY <5>1, <5>2
      <4>2. child(v) = [It EXCEPT !.constraints = Constrain(It.constraints, slot, f, same)]
        BY <1>0, <3>1 DEF ItemFields
      <4> HIDE DEF child
      <4>3. Confines(It, child(v))
        BY <3>1, <4>1, <4>2, Zenon DEF Confines
      <4> QED BY <4>3 DEF Offspring
    <3>2. CASE ~(v \in same /\ Cardinality(same) > 1)
      <4>1. child(v) = Settling(It, slot, f, v)
        BY <3>2
      <4> HIDE DEF child
      <4>2. Settles(It, child(v))
        BY <4>1, Zenon DEF Settles
      <4> QED BY <4>2 DEF Offspring
    <3> QED BY <3>1, <3>2
  <2>4. ASSUME NEW u \in V, NEW v \in V, u # v PROVE Siblings(It, child(u), child(v))
    <3> DEFINE class == [It EXCEPT !.constraints = Constrain(It.constraints, slot, f, same)]
               big == Cardinality(same) > 1
    <3>1. \A z : child(z) = IF z \in same /\ big THEN class ELSE Settling(It, slot, f, z)
      BY <1>0 DEF ItemFields
    <3>2. ~(u \in same /\ v \in same)
      BY <2>4
    <3> HIDE DEF child, class, big
    <3>3. CASE u \in same /\ big
      BY <3>1, <3>2, <3>3, ClassDiffers DEF class
    <3>4. CASE v \in same /\ big
      BY <3>1, <3>2, <3>4, ClassDiffers DEF class
    <3>5. CASE ~(u \in same /\ big) /\ ~(v \in same /\ big)
      BY <2>4, <3>1, <3>5, SettledDiffer
    <3> QED BY <3>3, <3>4, <3>5
  <2>5. \A i \in 1 .. Len(kept) : kept[i] \in V /\ kept[i] \in allowed
    BY <1>4, <1>5
  <2>6. \A i, j \in 1 .. Len(kept) : i # j => kept[i] # kept[j]
    BY <1>3, <1>4 DEF Seqs!IsInjective
  <2> HIDE DEF child, V
  <2>7. \A i \in DOMAIN classes : Offspring(It, classes[i])
    BY <2>1, <2>2, <2>3, <2>5
  <2>8. \A i, j \in DOMAIN classes : i # j => Siblings(It, classes[i], classes[j])
    BY <2>1, <2>2, <2>4, <2>5, <2>6
  <2> QED BY <2>2, <2>7, <2>8 DEF Kids
<1>7. ASSUME Overflows(f, same) PROVE Kids(It, Oldest)
  <2> DEFINE old == It.constraints[1]
             g == old.field
             every == IF g = "side" THEN P.side ELSE P.index
             left == Keeping(every, old.allowed)
             kids == Oldest
  <2>1. 1 \in DOMAIN It.constraints /\ It.constraints \in Seq(Entry) /\ EntryOK(P, It.words, old)
    <3>1. Len(It.constraints) >= 1 /\ It.constraints \in Seq(Entry)
      BY <1>0, <1>7, SearchAssumption DEF Overflows, NarrowOK
    <3>2. 1 \in DOMAIN It.constraints
      BY <3>1, LenProperties
    <3> QED BY <1>0, <3>1, <3>2 DEF NarrowOK
  <2>2. Groups(It, old.slot, g)
    BY <2>1 DEF EntryOK, Entry, Groups
  <2>3. Allowed(It.constraints, old.slot, g, Whole[g]) = old.allowed
    <3>1. Constrained(It.constraints, old.slot, g)
      BY <2>1 DEF Constrained
    <3>2. AllowedBy(It.constraints, old.slot, g) = 1
      BY <1>0, <2>1, <3>1, AllowedIs
    <3> QED BY <3>1, <3>2 DEF Allowed
  <2>4. kids = [i \in DOMAIN left |-> Settling(It, old.slot, g, left[i])]
    BY DEF Oldest, Each
  <2>5. PICK T : every \in Seq(T) /\ Seqs!IsInjective(every)
    <3>1. P.side \in Seq(Word \cup {NoWord}) /\ P.index \in Seq(0 .. 31)
      BY ProblemTypes
    <3>2. Seqs!IsInjective(P.side) /\ Seqs!IsInjective(P.index)
      BY Zenon DEF ProblemOK
    <3> HIDE DEF g
    <3> QED BY <3>1, <3>2
  <2> HIDE DEF every, old, kids
  <2>6. left \in Seq(T) /\ Seqs!ToSet(left) \subseteq old.allowed /\ Seqs!IsInjective(left)
    BY <2>5, KeepingIs, KeepsDistinct
  <2> HIDE DEF left, g
  <2>7. DOMAIN left = 1 .. Len(left) /\ Len(left) \in Nat /\ \A i \in DOMAIN left : left[i] \in old.allowed
    BY <2>6, LenProperties, ToSetIs
  <2>8. kids = [i \in 1 .. Len(left) |-> kids[i]] /\ \A i \in 1 .. Len(left) : kids[i] = Settling(It, old.slot, g, left[i])
    BY <2>4, <2>7
  <2>9. IsSeq(kids) /\ DOMAIN kids = 1 .. Len(left)
    BY <2>7, <2>8, TableIsSeq
  <2>10. ASSUME NEW i \in DOMAIN kids PROVE Offspring(It, kids[i])
    <3>1. left[i] \in old.allowed /\ kids[i] = Settling(It, old.slot, g, left[i])
      BY <2>7, <2>8, <2>9
    <3>2. Settles(It, kids[i])
      BY <2>2, <2>3, <3>1, Zenon DEF Settles
    <3> QED BY <3>2 DEF Offspring
  <2>11. ASSUME NEW i \in DOMAIN kids, NEW j \in DOMAIN kids, i # j PROVE Siblings(It, kids[i], kids[j])
    <3>1. left[i] # left[j]
      BY <2>6, <2>7, <2>9, <2>11 DEF Seqs!IsInjective
    <3>2. kids[i] = Settling(It, old.slot, g, left[i]) /\ kids[j] = Settling(It, old.slot, g, left[j])
      BY <2>8, <2>9
    <3> QED BY <2>2, <3>1, <3>2, SettledDiffer
  <2> QED BY <2>9, <2>10, <2>11 DEF Kids, kids
<1> DEFINE kids == IF Overflows(f, same) THEN Oldest ELSE classes
<1>8. Kids(It, kids)
  BY <1>6, <1>7
<1>9. \E seg, consulted, reads : Split(It, seg, kids, consulted, reads)
  BY Zenon DEF Partition
<1> HIDE DEF kids
<1> QED BY <1>8, <1>9, SplitForks

\* The children of a fork over a field.
LEMMA FieldForks ==
    ASSUME ProblemOK(P), ItemOK(P, It), Classed(It), Fetching(It), Wanted(It) # "none", ForkField
    PROVE  Ends \/ Forks(It)
<1> DEFINE w == Here(It)
           f == Wanted(It)
           values == Choices(w, f)
           good == {v \in Seqs!ToSet(values) : f = "side" => SideShows(v)}
           considered == Considered(w, f)
           some == {v \in Seqs!ToSet(considered) : ~NamesSecond(f, v) /\ ~CopiesY(w, f, v)}
           canonical == Canonical(w, f, considered)
           first == {canonical[i] : i \in {j \in DOMAIN canonical :
                        \A k \in 1 .. j - 1 : ~SameCompletions(w, f, canonical[k], canonical[j], P.config)}}
           distinct == Unlike(w, f, canonical)
           passing == {v \in Seqs!ToSet(distinct) : ~(TriedOut(Decide(w, f, v)) /\ ShowsWrong(Decide(w, f, v)))}
           kept == Keeping(distinct, passing)
           child(v) == [Deciding(It, Pc(It), f, v) EXCEPT !.named = @ \/ Names(f, v) # {}]
           kids == Each(kept, child)
<1>0. SlotOK(P, w) /\ f \notin DOMAIN w /\ Pc(It) \in Slots /\ Pc(It) < P.slots /\ w = It.words[Pc(It)]
      /\ (f \in {"side", "op"} \/ ("op" \in DOMAIN w /\ f \in Fields(w.op) /\ f # "target"))
  <2>1. SlotOK(P, w) /\ Pc(It) \in Slots /\ Pc(It) < P.slots
    BY FetchedIs DEF Classed
  <2>2. f \notin DOMAIN w /\ (f \in {"side", "op"} \/ ("op" \in DOMAIN w /\ f \in Fields(w.op) /\ f # "target"))
    BY WantedIs DEF Classed
  <2> HIDE DEF f
  <2> QED BY <2>1, <2>2 DEF Here
<1>1. PICK S : values \in Seq(S) /\ Seqs!IsInjective(values)
  <2> HIDE DEF w, f
  <2>1. \E S : values \in Seq(S)
    BY <1>0, ChoicesAre
  <2>2. Seqs!IsInjective(values)
    BY <1>0, ChoicesDistinct
  <2> QED BY <2>1, <2>2
<1>2. considered \in Seq(S) /\ Seqs!ToSet(considered) \subseteq Seqs!ToSet(values) /\ Seqs!IsInjective(considered)
  <2>1. considered = Keeping(values, good)
    BY DEF Considered
  <2> HIDE DEF values, good, considered
  <2> QED BY <1>1, <2>1, KeepingIs, KeepsDistinct
<1>3. canonical \in Seq(S) /\ Seqs!ToSet(canonical) \subseteq Seqs!ToSet(values) \cap some /\ Seqs!IsInjective(canonical)
  <2>1. canonical = Keeping(considered, some)
    BY DEF Canonical
  <2> HIDE DEF some, considered, canonical, values
  <2> QED BY <1>2, <2>1, KeepingIs, KeepsDistinct
<1>4. distinct \in Seq(S) /\ Seqs!ToSet(distinct) \subseteq Seqs!ToSet(values) \cap some /\ Seqs!IsInjective(distinct)
  <2>1. distinct = Keeping(canonical, first)
    BY DEF Unlike
  <2> HIDE DEF first, canonical, distinct, values, some
  <2> QED BY <1>3, <2>1, KeepingIs, KeepsDistinct
<1>5. kept \in Seq(S) /\ Seqs!ToSet(kept) \subseteq Seqs!ToSet(values) \cap some /\ Seqs!IsInjective(kept)
  <2> HIDE DEF distinct, passing, values, some
  <2> QED BY <1>4, KeepingIs, KeepsDistinct
<1>6. \E seg, consulted, reads : Split(It, seg, kids, consulted, reads)
  <2>1. \E seg, kill : ForkOver(f, seg, distinct, kill)
    BY Zenon DEF ForkField
  <2> HIDE DEF distinct, f
  <2> QED BY <2>1, Zenon DEF ForkOver
<1>7. kids = [i \in DOMAIN kept |-> child(kept[i])]
  BY DEF Each
<1> HIDE DEF kept, kids
<1>8. DOMAIN kept = 1 .. Len(kept) /\ Len(kept) \in Nat
  BY <1>5, LenProperties
<1>9. kids = [i \in 1 .. Len(kept) |-> kids[i]] /\ \A i \in 1 .. Len(kept) : kids[i] = child(kept[i])
  BY <1>7, <1>8
<1>10. IsSeq(kids) /\ DOMAIN kids = 1 .. Len(kept)
  BY <1>8, <1>9, TableIsSeq
<1>11. ASSUME NEW i \in DOMAIN kids PROVE Offspring(It, kids[i])
  <2> DEFINE v == kept[i]
             named == It.named \/ Names(f, v) # {}
  <2>1. v \in Seqs!ToSet(kept)
    BY <1>8, <1>10, ToSetIs
  <2>2. v \in Seqs!ToSet(values)
    <3> HIDE DEF v, values, some
    <3> QED BY <1>5, <2>1
  <2>3. kids[i] = [Deciding(It, Pc(It), f, v) EXCEPT !.named = named]
    <3>1. Deciding(It, Pc(It), f, v).named = It.named /\ "named" \in DOMAIN Deciding(It, Pc(It), f, v)
      BY DEF Deciding, ItemOK, ItemFields
    <3> DEFINE d == Deciding(It, Pc(It), f, v)
    <3>2. kids[i] = [d EXCEPT !.named = @ \/ Names(f, v) # {}]
      BY <1>9, <1>10
    <3> HIDE DEF d, v, f
    <3> QED BY <3>1, <3>2 DEF d
  <2> HIDE DEF named, v
  <2>4. Chooses(It, kids[i])
    BY <2>2, <2>3, Zenon DEF Chooses, named
  <2> QED BY <2>4 DEF Offspring
<1>12. ASSUME NEW i \in DOMAIN kids, NEW j \in DOMAIN kids, i # j PROVE Siblings(It, kids[i], kids[j])
  <2> DEFINE u == kept[i]  v == kept[j]
  <2>1. kids[i] = child(u) /\ kids[j] = child(v)
    BY <1>9, <1>10
  <2>2. u # v
    BY <1>5, <1>8, <1>10, <1>12 DEF Seqs!IsInjective
  <2>3. u \in some /\ v \in some
    <3>1. u \in Seqs!ToSet(kept) /\ v \in Seqs!ToSet(kept)
      BY <1>8, <1>10, ToSetIs
    <3> HIDE DEF u, v, some, values
    <3> QED BY <1>5, <3>1
  <2>4. f = "side" => HasSide
    <3> HIDE DEF f, w
    <3> QED BY <1>0 DEF SlotOK, HasSide
  <2>5. ~It.named /\ It.unbound => MirrorField(f, u) # v
    <3>1. ~It.named /\ It.unbound => Names(f, u) # {"y"} /\ Names(f, v) # {"y"}
      BY <2>3 DEF NamesSecond
    <3> HIDE DEF f, u, v
    <3> QED BY <2>2, <3>1, FirstNamed
  <2>6. \A z : TurnedTo(It, child(z), Pc(It), f, z)
    <3> TAKE z
    <3> DEFINE d == Deciding(It, Pc(It), f, z)
    <3>1. TurnedTo(It, d, Pc(It), f, z)
      BY <1>0, DecidedWords
    <3>2. DOMAIN d = ItemFields
      BY DEF Deciding, ItemOK
    <3> HIDE DEF d, f
    <3>3. [d EXCEPT !.named = @ \/ Names(f, z) # {}].words = d.words
      BY <3>2 DEF ItemFields
    <3> QED BY <3>1, <3>3 DEF d, TurnedTo
  <2> DEFINE c == kids[i]  d == kids[j]
  <2>7. /\ TurnedTo(It, c, Pc(It), f, u)
        /\ TurnedTo(It, d, Pc(It), f, v)
    <3> HIDE DEF child, f, u, v
    <3> QED BY <2>1, <2>6
  <2>8. Pc(It) \in Slots /\ Pc(It) < P.slots
    BY <1>0
  <2> HIDE DEF f, u, v, c, d
  <2>9. Siblings(It, c, d)
    BY <2>2, <2>4, <2>5, <2>7, <2>8, ValuesDiffer, Zenon
  <2> QED BY <2>9 DEF c, d
<1>13. Kids(It, kids)
  BY <1>10, <1>11, <1>12 DEF Kids
<1> QED BY <1>6, <1>13, SplitForks

\* What a collapsed tag decides.
LEMMA TagChildWords ==
    ASSUME NEW it, NEW slot, NEW v, NEW x, NEW y, NEW tags
    PROVE  /\ TagChild(it, slot, v, x, y, tags).words = Deciding(it, slot, "data", v).words
           /\ TagChild(it, slot, v, x, y, tags).unbound = Deciding(it, slot, "data", v).unbound
           /\ TagChild(it, slot, v, x, y, tags).named = Deciding(it, slot, "data", v).named
           /\ TagChild(it, slot, v, x, y, tags).constraints = Deciding(it, slot, "data", v).constraints
<1> DEFINE d == Deciding(it, slot, "data", v)
<1> HIDE DEF d
<1>1. LET e == [d EXCEPT !.s.m.x = x, !.s.m.y = y, !.tags = tags]
      IN  e.words = d.words /\ e.unbound = d.unbound /\ e.named = d.named /\ e.constraints = d.constraints
  OBVIOUS
<1> QED BY <1>1 DEF TagChild, d

\* ... over an immediate.
LEMMA TagForks ==
    ASSUME ProblemOK(P), ItemOK(P, It), TagsNeeded(It) # {}, CollapseTag
    PROVE  Ends \/ Forks(It)
<1> DEFINE r == IF "x" \in TagsNeeded(It) THEN "x" ELSE "y"
           slot == It.tags[r]
           values == P.operands["set"]["data"]
           same == {q \in {"x", "y"} : It.tags[q] = slot}
           tags == [q \in {"x", "y"} |-> IF It.tags[q] = slot THEN None ELSE It.tags[q]]
           child(v) == [Deciding(It, slot, "data", v) EXCEPT
                          !.s.m.x = IF "x" \in same THEN v ELSE @, !.s.m.y = IF "y" \in same THEN v ELSE @,
                          !.tags = [q \in {"x", "y"} |-> IF q \in same THEN None ELSE It.tags[q]]]
           kids == Each(values, child)
<1>1. r \in Tagged(It.tags)
  BY DEF TagsNeeded, Tagged
<1>2. \E seg, consulted, reads : Split(It, seg, kids, consulted, reads)
  BY Zenon DEF CollapseTag
<1>20. slot \in Slots /\ slot < P.slots /\ SlotOK(P, It.words[slot]) /\ Awaited(It.words[slot])
  <2>1. TagsOK(It.words, It.tags) /\ WordsOK(P, It.words)
    BY DEF ItemOK
  <2>2. slot \in Slots /\ Awaited(It.words[slot])
    BY <1>1, <2>1 DEF TagsOK, Tagged
  <2>3. It.words[slot] # Filler
    BY <2>2 DEF Awaited, Filler
  <2>4. slot < P.slots /\ SlotOK(P, It.words[slot])
    BY <2>1, <2>2, <2>3 DEF WordsOK
  <2> QED BY <2>2, <2>4
<1>3. PICK S : values \in Seq(S) /\ Seqs!IsInjective(values)
  <2>2. slot \in Slots /\ Awaited(It.words[slot])
    BY <1>20
  <2>4. SlotOK(P, It.words[slot])
    BY <1>20
  <2> DEFINE w == It.words[slot]
  <2>5. Choices(w, "data") = values /\ "data" \notin DOMAIN w /\ "op" \in DOMAIN w /\ "data" \in Fields(w.op)
    BY <2>2, FieldsAre DEF Awaited, Choices
  <2> HIDE DEF w, values
  <2>6. (\E S : Choices(w, "data") \in Seq(S)) /\ Seqs!IsInjective(Choices(w, "data"))
    BY <2>4, <2>5, ChoicesAre, ChoicesDistinct DEF w
  <2> QED BY <2>5, <2>6
<1>4. kids = [i \in DOMAIN values |-> child(values[i])]
  BY DEF Each
<1> HIDE DEF values, kids, child
<1>5. DOMAIN values = 1 .. Len(values) /\ Len(values) \in Nat
  BY <1>3, LenProperties
<1>6. kids = [i \in 1 .. Len(values) |-> kids[i]] /\ \A i \in 1 .. Len(values) : kids[i] = child(values[i])
  BY <1>4, <1>5
<1>7. IsSeq(kids) /\ DOMAIN kids = 1 .. Len(values)
  BY <1>5, <1>6, TableIsSeq
<1>8. ASSUME NEW i \in DOMAIN kids
      PROVE  /\ Offspring(It, kids[i])
             /\ TurnedTo(It, kids[i], slot, "data", values[i])
  <2> DEFINE v == values[i]
             x == IF It.tags.x = slot THEN v ELSE It.s.m.x
             y == IF It.tags.y = slot THEN v ELSE It.s.m.y
             d == Deciding(It, slot, "data", v)
  <2>1. v \in Seqs!ToSet(values)
    BY <1>5, <1>7, ToSetIs
  <2>2. kids[i] = child(v)
    BY <1>6, <1>7
  <2>3. child(v) = TagChild(It, slot, v, x, y, tags)
    <3>1. [q \in {"x", "y"} |-> IF q \in same THEN None ELSE It.tags[q]] = tags
      OBVIOUS
    <3>2. ("x" \in same <=> It.tags.x = slot) /\ ("y" \in same <=> It.tags.y = slot)
      OBVIOUS
    <3>3. d.s = It.s /\ "s" \in DOMAIN d
      BY DEF Deciding, ItemOK, ItemFields
    <3>4. It.s.m \in Machine /\ "m" \in DOMAIN It.s
      BY DEF ItemOK, Timed, MachineOf
    <3> HIDE DEF d, v, slot, same, tags
    <3>5. [d EXCEPT !.s.m.x = IF "x" \in same THEN v ELSE @, !.s.m.y = IF "y" \in same THEN v ELSE @, !.tags = tags] =
             [d EXCEPT !.s.m.x = x, !.s.m.y = y, !.tags = tags]
      <4> DEFINE e == [d EXCEPT !.s.m.x = x]
      <4>1. [d EXCEPT !.s.m.x = IF "x" \in same THEN v ELSE @] = e
        BY <3>2, <3>3
      <4>2. "s" \in DOMAIN e /\ e.s.m.y = It.s.m.y
        BY <3>3, <3>4 DEF Machine
      <4> HIDE DEF e
      <4>3. [e EXCEPT !.s.m.y = IF "y" \in same THEN v ELSE @] = [e EXCEPT !.s.m.y = y]
        BY <3>2, <4>2
      <4>4. [d EXCEPT !.s.m.x = IF "x" \in same THEN v ELSE @, !.s.m.y = IF "y" \in same THEN v ELSE @, !.tags = tags] =
              [[[d EXCEPT !.s.m.x = IF "x" \in same THEN v ELSE @] EXCEPT !.s.m.y = IF "y" \in same THEN v ELSE @] EXCEPT !.tags = tags]
        BY ZenonT(40)
      <4>5. [d EXCEPT !.s.m.x = x, !.s.m.y = y, !.tags = tags] = [[e EXCEPT !.s.m.y = y] EXCEPT !.tags = tags]
        BY DEF e
      <4>6. [[[d EXCEPT !.s.m.x = IF "x" \in same THEN v ELSE @] EXCEPT !.s.m.y = IF "y" \in same THEN v ELSE @] EXCEPT !.tags = tags] =
              [[e EXCEPT !.s.m.y = IF "y" \in same THEN v ELSE @] EXCEPT !.tags = tags]
        BY <4>1, ZenonT(30)
      <4>7. [[e EXCEPT !.s.m.y = IF "y" \in same THEN v ELSE @] EXCEPT !.tags = tags] = [[e EXCEPT !.s.m.y = y] EXCEPT !.tags = tags]
        BY <4>3, Zenon
      <4> QED BY <4>4, <4>5, <4>6, <4>7, Zenon
    <3> QED BY <3>1, <3>5, Zenon DEF TagChild, d, child
  <2>4. Collapses(It, kids[i])
    <3> HIDE DEF v
    <3> QED BY <1>1, <2>1, <2>2, <2>3, Zenon DEF Collapses, values
  <2>5. TurnedTo(It, kids[i], slot, "data", v)
    <3>1. TurnedTo(It, d, slot, "data", v)
      BY <1>20, DecidedWords
    <3>2. TagChild(It, slot, v, x, y, tags).words = d.words /\ TagChild(It, slot, v, x, y, tags).unbound = d.unbound
      <4> HIDE DEF v, slot, x, y, tags
      <4> QED BY Zenon, TagChildWords DEF d
    <3> HIDE DEF d, v, slot, x, y, tags
    <3>3. child(v).words = d.words /\ child(v).unbound = d.unbound
      BY <2>3, <3>2
    <3> HIDE DEF child
    <3> QED BY <2>2, <3>1, <3>3 DEF TurnedTo
  <2> QED BY <2>4, <2>5 DEF Offspring
<1>9. ASSUME NEW i \in DOMAIN kids, NEW j \in DOMAIN kids, i # j PROVE Siblings(It, kids[i], kids[j])
  <2> DEFINE u == values[i]  v == values[j]  c == kids[i]  e == kids[j]
  <2>1. /\ TurnedTo(It, c, slot, "data", u)
        /\ TurnedTo(It, e, slot, "data", v)
    BY <1>8
  <2>2. u # v
    BY <1>3, <1>5, <1>7, <1>9 DEF Seqs!IsInjective
  <2>4. slot \in Slots /\ slot < P.slots
    BY <1>20
  <2> HIDE DEF slot, u, v, c, e
  <2>5. Siblings(It, c, e)
    BY <2>1, <2>2, <2>4, PlainDiffer
  <2> QED BY <2>5 DEF c, e
<1>10. Kids(It, kids)
  BY <1>7, <1>8, <1>9 DEF Kids
<1> QED BY <1>2, <1>10, SplitForks

\* ... over a target.
LEMMA TargetForks ==
    ASSUME ProblemOK(P), ItemOK(P, It), Untagged(It), Jumps(It), ~Decided(Here(It), "target"), ForkTarget
    PROVE  Ends \/ Forks(It)
<1> DEFINE all == [t \in 1 .. P.slots |-> t - 1]
           rest == Slots \ {FallsThrough(Here(It), Pc(It))}
           targets == Keeping(all, rest)
           kids == Each(targets, LAMBDA t : Deciding(It, Pc(It), "target", t))
<1>1. \E seg, consulted, reads : Split(It, seg, kids, consulted, reads)
  BY Zenon DEF ForkTarget
<1>2. P.slots \in Nat
  BY ProblemTypes
<1>3. all \in Seq(0 .. P.slots - 1)
  <2> DEFINE T == 0 .. P.slots - 1
             n == P.slots
  <2>1. all \in [1 .. n -> T]
    BY <1>2
  <2>2. n \in Nat
    BY <1>2
  <2> HIDE DEF T, all, n
  <2>3. all \in Seq(T)
    BY <2>1, <2>2
  <2> QED BY <2>3 DEF T, n
<1>4. kids = [i \in DOMAIN targets |-> Deciding(It, Pc(It), "target", targets[i])]
  BY DEF Each
<1>5. targets \in Seq(0 .. P.slots - 1) /\ Seqs!IsInjective(targets)
  <2>1. Seqs!IsInjective(all)
    BY <1>2 DEF Seqs!IsInjective
  <2> HIDE DEF all, rest
  <2> QED BY <1>3, <2>1, KeepingIs, KeepsDistinct
<1> HIDE DEF targets, kids
<1>6. DOMAIN targets = 1 .. Len(targets) /\ Len(targets) \in Nat /\ \A i \in DOMAIN targets : targets[i] \in 0 .. P.slots - 1
  BY <1>5, LenProperties, ElementOfSeq
<1>7. /\ kids = [i \in 1 .. Len(targets) |-> kids[i]]
      /\ \A i \in 1 .. Len(targets) : kids[i] = Deciding(It, Pc(It), "target", targets[i])
  BY <1>4, <1>6
<1>8. IsSeq(kids) /\ DOMAIN kids = 1 .. Len(targets)
  BY <1>6, <1>7, TableIsSeq
<1>9. ASSUME NEW i \in DOMAIN kids PROVE Offspring(It, kids[i])
  <2> DEFINE t == targets[i]
  <2>1. kids[i] = Deciding(It, Pc(It), "target", t) /\ t \in 0 .. P.slots - 1
    BY <1>6, <1>7, <1>8
  <2> HIDE DEF t
  <2>2. Aims(It, kids[i])
    BY <2>1, Zenon DEF Aims
  <2> QED BY <2>2 DEF Offspring
<1>10. ASSUME NEW i \in DOMAIN kids, NEW j \in DOMAIN kids, i # j PROVE Siblings(It, kids[i], kids[j])
  <2> DEFINE u == targets[i]  v == targets[j]  c == kids[i]  e == kids[j]
  <2>1. Pc(It) \in Slots /\ Pc(It) < P.slots
    BY FetchedIs DEF Untagged, Fetched, Classed, Jumps
  <2>2. /\ TurnedTo(It, c, Pc(It), "target", u)
        /\ TurnedTo(It, e, Pc(It), "target", v)
    BY <1>7, <1>8, <2>1, DecidedWords
  <2>3. u # v
    BY <1>5, <1>6, <1>8, <1>10 DEF Seqs!IsInjective
  <2> HIDE DEF u, v, c, e
  <2>5. Siblings(It, c, e)
    BY <2>1, <2>2, <2>3, PlainDiffer
  <2> QED BY <2>5 DEF c, e
<1>11. Kids(It, kids)
  BY <1>8, <1>9, <1>10 DEF Kids
<1> QED BY <1>1, <1>11, SplitForks

\* The children of a program that parts from its mirror image.
LEMMA BindForks ==
    ASSUME ItemOK(P, It), Aimed(It), TellsTwinsApart(It), Bind
    PROVE  Forks(It)
<1> DEFINE me == Bound(It)
           kids == IF Twin(me) = me THEN <<me>> ELSE <<me, Twin(me)>>
<1>1. Fork(me, AtExecution(It, Seg), kids, << >>, {}, TRUE)
  BY Zenon DEF Bind, Bound
<1>2. Offspring(It, me) /\ Offspring(It, Twin(me))
  BY DEF Offspring, Parts1
<1> HIDE DEF me
<1>3. Kids(It, kids)
  <2> DEFINE t == Twin(me)
  <2>0. <<me>> \in Seq({me, t}) /\ <<me, t>> \in Seq({me, t})
    <3> HIDE DEF t
    <3> QED OBVIOUS
  <2>1. kids \in Seq({me, t}) /\ \A i \in DOMAIN kids : kids[i] \in {me, t}
    <3>1. kids \in Seq({me, t})
      BY <2>0
    <3> HIDE DEF kids, t
    <3> QED BY <3>1, ElementOfSeq, LenProperties
  <2> HIDE DEF kids
  <2>2. IsSeq(kids)
    BY <2>1 DEF IsSeq
  <2>3. ASSUME NEW i \in DOMAIN kids, NEW j \in DOMAIN kids, i # j PROVE Siblings(It, kids[i], kids[j])
    <3>1. DOMAIN <<me>> = {1} /\ DOMAIN <<me, t>> = {1, 2} /\ <<me, t>>[1] = me /\ <<me, t>>[2] = t
      OBVIOUS
    <3> HIDE DEF t
    <3>2. t # me /\ kids = <<me, t>>
      BY <2>3, <3>1 DEF kids, t
    <3>3. kids[i] \in {me, t} /\ kids[j] \in {me, t} /\ kids[i] # kids[j]
      BY <2>3, <3>1, <3>2
    <3>4. Partners(It, kids[i], kids[j])
      BY <3>2, <3>3 DEF Partners, me, t
    <3> QED BY <3>4 DEF Siblings
  <2>4. \A i \in DOMAIN kids : Offspring(It, kids[i])
    BY <1>2, <2>1
  <2> QED BY <2>2, <2>3, <2>4 DEF Kids
<1> HIDE DEF kids
<1> QED BY <1>1, <1>3 DEF Fork, Forks

\* The children of a delay, unless the look-ahead shows that there is no point.
LEMMA DelayForks ==
    ASSUME ProblemOK(P), ItemOK(P, It), Proceeds(It), Delay(Stepped(It))
    PROVE  Ends \/ Forks(It)
<1> DEFINE after == Stepped(It)
           nop == RunsNop(It, after)
           most == IF nop /\ It.nop_submax THEN 0 ELSE P.max_delay
           next == Advanced(It, after)
           kids == [d \in 1 .. most + 1 |-> Delayed(next, nop, d - 1)]
<1>1. ForksDelay(It, after) /\ \E seg, walk : JunkRefute(walk) \/ ForkDelay(walk, nop, next, seg)
  BY Zenon DEF Delay
<1>2. PICK seg, walk : JunkRefute(walk) \/ ForkDelay(walk, nop, next, seg)
  BY <1>1, Zenon
<1>3. CASE JunkRefute(walk)
  BY <1>3 DEF JunkRefute, Refute, Ends
<1>4. CASE ForkDelay(walk, nop, next, seg)
  <2>1. Fork(next, seg, kids, << >>, {}, FALSE)
    BY <1>4, Zenon DEF ForkDelay
  <2>2. most \in Nat /\ most <= P.max_delay
    BY ProblemTypes
  <2> HIDE DEF most
  <2>3. \A d \in 1 .. most + 1 : kids[d] = Delayed(next, nop, d - 1)
    OBVIOUS
  <2> DEFINE n == most + 1
  <2>4. kids = [d \in 1 .. n |-> kids[d]] /\ n \in Nat
    BY <2>2
  <2> HIDE DEF kids, n
  <2>5. IsSeq(kids) /\ DOMAIN kids = 1 .. n
    BY <2>4, TableIsSeq
  <2>0. ItemOK(P, next) /\ next.words = It.words /\ next.unbound = It.unbound /\ Pc(It) \in Slots /\ Pc(It) < P.slots
    <3>1. Inside(It) /\ (Fetching(It) => Wanted(It) = "none") /\ Fetching(It)
      BY <1>1 DEF Proceeds, Aimed, Untagged, Fetched, Classed, ForksDelay, Delays
    <3>2. ItemOK(P, next) /\ next.words = It.words /\ next.unbound = It.unbound
      BY <3>1, AdvancedOK DEF ItemFields
    <3> QED BY <3>1, <3>2, FetchedIs
  <2>6. ASSUME NEW i \in DOMAIN kids
        PROVE  /\ Offspring(It, kids[i])
               /\ TurnedTo(It, kids[i], Pc(It), "delay", i - 1)
    <3> DEFINE d == i - 1
               submax == nop /\ (Deciding(next, Pc(It), "delay", d).nop_submax \/ d < P.max_delay)
    <3>1. d \in 0 .. P.max_delay /\ kids[i] = Delayed(next, nop, d)
      BY <2>2, <2>3, <2>5, ProblemTypes DEF n
    <3> HIDE DEF d
    <3>2. Delayed(next, nop, d) =
             [Deciding(next, Pc(It), "delay", d) EXCEPT !.s.delay = d, !.nop_submax = submax]
      <4> DEFINE c == Deciding(next, Pc(It), "delay", d)
                 e == [c EXCEPT !.s.delay = d]
      <4>1. e.nop_submax = c.nop_submax \/ "nop_submax" \notin DOMAIN e
        <5> HIDE DEF c
        <5> QED OBVIOUS
      <4> HIDE DEF e, nop
      <4>2. [e EXCEPT !.nop_submax = nop /\ (@ \/ d < P.max_delay)] = [e EXCEPT !.nop_submax = nop /\ (c.nop_submax \/ d < P.max_delay)]
        <5> HIDE DEF c
        <5> QED BY <4>1
      <4>3. Delayed(next, nop, d) = [e EXCEPT !.nop_submax = nop /\ (@ \/ d < P.max_delay)]
        BY Zenon DEF Delayed, e
      <4>4. [c EXCEPT !.s.delay = d, !.nop_submax = submax] = [e EXCEPT !.nop_submax = submax]
        BY Zenon DEF e
      <4> QED BY <4>2, <4>3, <4>4, Zenon
    <3>3. Delays1(It, kids[i])
      <4> HIDE DEF submax, nop
      <4>1. \E v : kids[i] = [Deciding(next, Pc(It), "delay", d) EXCEPT !.s.delay = d, !.nop_submax = v]
        BY <3>1, <3>2, Zenon
      <4> QED BY <1>1, <3>1, <4>1, Zenon DEF Delays1
    <3>4. TurnedTo(It, kids[i], Pc(It), "delay", d)
      <4> DEFINE c == Deciding(next, Pc(It), "delay", d)
      <4>1. TurnedTo(It, c, Pc(It), "delay", d)
        <5> HIDE DEF next
        <5>1. TurnedTo(next, c, Pc(It), "delay", d)
          BY <2>0, DecidedWords
        <5> HIDE DEF c
        <5> QED BY <2>0, <5>1 DEF TurnedTo
      <4>2. [c EXCEPT !.s.delay = d, !.nop_submax = submax].words = c.words
        <5> HIDE DEF c, submax
        <5> QED OBVIOUS
      <4> HIDE DEF c, submax
      <4> QED BY <3>1, <3>2, <4>1, <4>2 DEF c, TurnedTo
    <3>5. Offspring(It, kids[i])
      BY <3>3 DEF Offspring
    <3> QED BY <3>4, <3>5 DEF d
  <2>7. ASSUME NEW i \in DOMAIN kids, NEW j \in DOMAIN kids, i # j PROVE Siblings(It, kids[i], kids[j])
    <3> DEFINE u == i - 1  v == j - 1  c == kids[i]  e == kids[j]
    <3>1. /\ TurnedTo(It, c, Pc(It), "delay", u)
          /\ TurnedTo(It, e, Pc(It), "delay", v)
      BY <2>6
    <3>2. u # v
      BY <2>5, <2>7
    <3>4. Pc(It) \in Slots /\ Pc(It) < P.slots
      BY <2>0
    <3> HIDE DEF u, v, c, e
    <3>5. Siblings(It, c, e)
      BY <3>1, <3>2, <3>4, PlainDiffer
    <3> QED BY <3>5 DEF c, e
  <2>8. Kids(It, kids)
    BY <2>5, <2>6, <2>7 DEF Kids
  <2> QED BY <2>1, <2>8 DEF Fork, Forks
<1> QED BY <1>2, <1>3, <1>4

\* A partition of the side values, and of the indices, of what is fetched.
LEMMA SidePartition ==
    ASSUME ProblemOK(P), ItemOK(P, It), Inside(It), SideAsked(It), ~SideHeld(It), PartitionSide
    PROVE  Ends \/ Forks(It)
<1>1. Groups(It, Pc(It), "side")
  BY FetchedIs DEF Groups, SideAsked, Here
<1>2. SideAllowed(It) = Allowed(It.constraints, Pc(It), "side", Whole["side"])
  BY Zenon DEF SideAllowed
<1>3. SideSame(It) \subseteq SideAllowed(It) /\ SideSame(It) # SideAllowed(It)
  BY ClassesAre DEF SideHeld
<1>4. IsSeq(P.side)
  BY ProblemTypes, Zenon DEF IsSeq
<1>5. Seqs!IsInjective(P.side)
  BY Zenon DEF ProblemOK
<1> QED BY <1>1, <1>2, <1>3, <1>4, <1>5, PartitionForks DEF PartitionSide

\* Splitting by the pins that let a WAIT pass leaves items.
LEMMA WaitPartition ==
    ASSUME ProblemOK(P), ItemOK(P, It), Inside(It), WaitAsked(It), ~WaitHeld(It), PartitionWait
    PROVE  Ends \/ Forks(It)
<1>1. Groups(It, Pc(It), "index")
  BY FetchedIs DEF Groups, WaitAsked, Here
<1>2. WaitAllowed(It) = Allowed(It.constraints, Pc(It), "index", Whole["index"])
  BY Zenon DEF WaitAllowed
<1>3. WaitMet(It) \subseteq WaitAllowed(It) /\ WaitMet(It) # WaitAllowed(It)
  BY ClassesAre DEF WaitHeld
<1>4. IsSeq(P.index)
  BY ProblemTypes, Zenon DEF IsSeq
<1>5. Seqs!IsInjective(P.index)
  BY Zenon DEF ProblemOK
<1> QED BY <1>1, <1>2, <1>3, <1>4, <1>5, PartitionForks DEF PartitionWait

\* What one step of the search does to the items.
Takes == /\ ~Running /\ stack # << >> /\ stack' = SubSeq(stack, 1, Len(stack) - 1)
         /\ champions' = champions /\ cap_hit' = cap_hit
         /\ (run' = run \/ (run'.it = Ready(stack[Len(stack)]) /\ run' # NoRun))
Wins(it) == /\ it.cycle >= horizon /\ run' = NoRun /\ stack' = stack
            /\ \/ /\ Len(champions) < cap /\ cap_hit' = cap_hit
                  /\ champions' = Append(champions, [words |-> it.words, free |-> it.unbound, constraints |-> it.constraints])
               \/ ~(Len(champions) < cap) /\ champions' = champions /\ cap_hit' = TRUE
Goes(it) == /\ Proceeds(it) /\ ~ForksDelay(it, Stepped(it)) /\ run' # NoRun
            /\ \E submax : run'.it = Ready([Advanced(it, Stepped(it)) EXCEPT !.nop_submax = submax])
            /\ stack' = stack /\ champions' = champions /\ cap_hit' = cap_hit

\* A step of the search takes an item, or goes on with the one that runs, which wins, ends, forks
\* or is a cycle further.
LEMMA StepKinds ==
    ASSUME ProblemOK(P), Running => ItemOK(P, It), horizon \in Nat, SearchStep
    PROVE  /\ UNCHANGED fixed
           /\ \/ Takes
              \/ Running /\ (Wins(It) \/ (It.cycle < horizon /\ (Ends \/ Forks(It) \/ Goes(It))))
<1>1. CASE Pop \/ MemoHit
  <2>1. Take /\ (run' = run \/ run' = [it |-> Popped, seg |-> Fresh])
    BY <1>1, Zenon DEF Pop, MemoHit
  <2>2. Popped = Ready(stack[Len(stack)])
    BY DEF Popped
  <2>3. ASSUME run' = [it |-> Popped, seg |-> Fresh] PROVE run'.it = Popped /\ run' # NoRun
    <3> HIDE DEF Popped
    <3>1. DOMAIN run' # DOMAIN NoRun
      BY <2>3 DEF NoRun
    <3> QED BY <2>3, <3>1
  <2> QED BY <2>1, <2>2, <2>3 DEF Take, Takes
<1>2. CASE Running /\ \E after \in {Stepped(It)} : \E edge \in {Edge(It, after)} : RunCycle(edge, after)
  <2> DEFINE after == Stepped(It)
             edge == Edge(It, after)
  <2>1. RunCycle(edge, after) /\ ItemOK(P, It) /\ Running
    BY <1>2, Zenon
  <2>2. It.cycle \in Nat
    BY <2>1 DEF ItemOK
  <2> DEFINE word == edge
  <2>3. /\ word # "champion" => It.cycle < horizon
        /\ word = "champion" => It.cycle >= horizon
        /\ word = "side" => Inside(It) /\ SideAsked(It) /\ ~SideHeld(It)
        /\ word = "wait" => Inside(It) /\ WaitAsked(It) /\ ~WaitHeld(It)
        /\ word = "field" => Classed(It) /\ Fetching(It) /\ Wanted(It) # "none"
        /\ word = "tag" => Fetched(It) /\ TagsNeeded(It) # {}
        /\ word = "target" => Untagged(It) /\ Jumps(It) /\ ~Decided(Here(It), "target")
        /\ word = "bind" => Aimed(It) /\ TellsTwinsApart(It)
        /\ word = "step" => Proceeds(It)
    <3>1. edge = Edge(It, Stepped(It))
      OBVIOUS
    <3> HIDE DEF word
    <3> QED BY <2>2, <3>1, EdgeIs DEF word
  <2> HIDE DEF word
  <2>4. RunCycle(word, after)
    BY <2>1 DEF word
  <2>5. \/ word = "champion" /\ Finish
        \/ word = "out" /\ LeaveFootprint
        \/ word = "side" /\ PartitionSide
        \/ word = "wait" /\ PartitionWait
        \/ word = "field" /\ ForkField
        \/ word = "tag" /\ CollapseTag
        \/ word = "target" /\ ForkTarget
        \/ word = "bind" /\ Bind
        \/ word = "mismatch" /\ Mismatch
        \/ word = "step" /\ (Step(after) \/ Delay(after))
    BY <2>4, Zenon DEF RunCycle
  <2>6. CASE word = "champion" /\ Finish
    BY <2>1, <2>3, <2>6, Zenon DEF Finish, Wins
  <2>7. CASE word = "out" /\ LeaveFootprint
    BY <2>1, <2>3, <2>7 DEF LeaveFootprint, Refute, Ends
  <2>8. CASE word = "mismatch" /\ Mismatch
    BY <2>1, <2>3, <2>8 DEF Mismatch, Refute, Ends
  <2>9. ASSUME NEW seg, NEW children, NEW consulted, NEW reads, Split(It, seg, children, consulted, reads)
        PROVE  UNCHANGED fixed
    BY <2>9, Zenon DEF Split, Refute, Fork
  <2>10. CASE word = "side" /\ PartitionSide
    <3>1. UNCHANGED fixed
      BY <2>9, <2>10, Zenon DEF PartitionSide, Partition
    <3>2. Ends \/ Forks(It)
      BY <2>1, <2>3, <2>10, SidePartition
    <3> QED BY <2>1, <2>3, <2>10, <3>1, <3>2
  <2>11. CASE word = "wait" /\ PartitionWait
    <3>1. UNCHANGED fixed
      BY <2>9, <2>11, Zenon DEF PartitionWait, Partition
    <3>2. Ends \/ Forks(It)
      BY <2>1, <2>3, <2>11, WaitPartition
    <3> QED BY <2>1, <2>3, <2>11, <3>1, <3>2
  <2>12. CASE word = "field" /\ ForkField
    <3>1. UNCHANGED fixed
      <4>1. PICK f, seg, distinct, kill : ForkOver(f, seg, distinct, kill)
        BY <2>12, Zenon DEF ForkField
      <4>2. PICK s, children, consulted, reads : Split(It, s, children, consulted, reads)
        BY <4>1, Zenon DEF ForkOver
      <4> QED BY <2>9, <4>2
    <3>2. Ends \/ Forks(It)
      BY <2>1, <2>3, <2>12, FieldForks
    <3> QED BY <2>1, <2>3, <2>12, <3>1, <3>2
  <2>13. CASE word = "tag" /\ CollapseTag
    <3>1. UNCHANGED fixed
      BY <2>9, <2>13, Zenon DEF CollapseTag
    <3>2. Ends \/ Forks(It)
      BY <2>1, <2>3, <2>13, TagForks
    <3> QED BY <2>1, <2>3, <2>13, <3>1, <3>2
  <2>14. CASE word = "target" /\ ForkTarget
    <3>1. UNCHANGED fixed
      BY <2>9, <2>14, Zenon DEF ForkTarget
    <3>2. Ends \/ Forks(It)
      BY <2>1, <2>3, <2>14, TargetForks
    <3> QED BY <2>1, <2>3, <2>14, <3>1, <3>2
  <2>15. CASE word = "bind" /\ Bind
    <3>1. UNCHANGED fixed
      BY <2>15, Zenon DEF Bind, Fork
    <3>2. Forks(It)
      BY <2>1, <2>3, <2>15, BindForks
    <3> QED BY <2>1, <2>3, <2>15, <3>1, <3>2
  <2>16. CASE word = "step" /\ Step(after)
    <3>1. UNCHANGED fixed
      BY <2>16, Zenon DEF Step
    <3>2. Goes(It)
      <4> DEFINE next == Advanced(It, after)
                 r == Ready([next EXCEPT !.nop_submax = @ /\ ~Completes(It, after)])
                 submax == next.nop_submax /\ ~Completes(It, after)
      <4>1. run' = [it |-> r, seg |-> AtEnd(It, Seg, after)] /\ ~ForksDelay(It, after)
            /\ stack' = stack /\ champions' = champions /\ cap_hit' = cap_hit
        BY <2>16, Zenon DEF Step
      <4>2. r = Ready([next EXCEPT !.nop_submax = submax])
        OBVIOUS
      <4>3. run'.it = r /\ run' # NoRun
        <5> HIDE DEF r
        <5>1. DOMAIN run' # DOMAIN NoRun
          BY <4>1 DEF NoRun
        <5> QED BY <4>1, <5>1
      <4> HIDE DEF submax, r
      <4>4. \E v : run'.it = Ready([next EXCEPT !.nop_submax = v])
        BY <4>2, <4>3, Zenon
      <4> QED BY <2>3, <2>16, <4>1, <4>3, <4>4, Zenon DEF Goes
    <3> QED BY <2>1, <2>3, <2>16, <3>1, <3>2
  <2>17. CASE word = "step" /\ Delay(after)
    <3>1. UNCHANGED fixed
      BY <2>17, Zenon DEF Delay, JunkRefute, Refute, ForkDelay, Fork
    <3>2. Ends \/ Forks(It)
      BY <2>1, <2>3, <2>17, DelayForks
    <3> QED BY <2>1, <2>3, <2>17, <3>1, <3>2
  <2> HIDE DEF after
  <2> QED BY <2>5, <2>6, <2>7, <2>8, <2>10, <2>11, <2>12, <2>13, <2>14, <2>15, <2>16, <2>17
<1> QED BY <1>1, <1>2, Zenon DEF SearchStep

(***************************************************************************)
(* What is in a sequence.                                                  *)
(***************************************************************************)

\* The elements of a sequence, one by one.
LEMMA Elements ==
    ASSUME NEW q, IsSeq(q)
    PROVE  /\ Len(q) \in Nat /\ DOMAIN q = 1 .. Len(q) /\ q \in Seq(Seqs!ToSet(q))
           /\ Seqs!ToSet(q) = {q[i] : i \in 1 .. Len(q)} /\ \A i \in DOMAIN q : q[i] \in Seqs!ToSet(q)
           /\ q # << >> => Len(q) > 0 /\ q[Len(q)] \in Seqs!ToSet(q)
<1>1. PICK S : q \in Seq(S)
  BY DEF IsSeq
<1>2. Len(q) \in Nat /\ q \in [1 .. Len(q) -> S] /\ DOMAIN q = 1 .. Len(q)
  BY <1>1, LenProperties
<1>3. q # << >> => Len(q) \in Nat \ {0}
  BY <1>1, EmptySeq
<1>4. Seqs!ToSet(q) = {q[i] : i \in 1 .. Len(q)} /\ \A i \in DOMAIN q : q[i] \in Seqs!ToSet(q)
  BY <1>2, ToSetIs
<1> DEFINE n == Len(q)
           T == Seqs!ToSet(q)
<1>5. q \in [1 .. n -> T] /\ n \in Nat
  BY <1>2, <1>4
<1> HIDE DEF T, n
<1>6. q \in Seq(T)
  BY <1>5
<1> QED BY <1>2, <1>3, <1>4, <1>6 DEF n, T

\* Two sequences one after the other, one more element, a beginning.
LEMMA Concatenated ==
    ASSUME NEW a, IsSeq(a), NEW b, IsSeq(b)
    PROVE  /\ IsSeq(a \o b) /\ Seqs!ToSet(a \o b) = Seqs!ToSet(a) \cup Seqs!ToSet(b)
           /\ Len(a \o b) = Len(a) + Len(b)
<1> DEFINE S == Seqs!ToSet(a) \cup Seqs!ToSet(b)
           A == Seqs!ToSet(a)
           B == Seqs!ToSet(b)
           c == a \o b
<1>1. a \in Seq(S) /\ b \in Seq(S)
  <2>1. a \in Seq(A) /\ b \in Seq(B) /\ A \subseteq S /\ B \subseteq S
    BY Elements
  <2> HIDE DEF S, A, B
  <2> QED BY <2>1, SeqMonotonic
<1>2. /\ c \in Seq(S) /\ Len(c) = Len(a) + Len(b) /\ Len(a) \in Nat /\ Len(b) \in Nat
      /\ \A i \in 1 .. Len(a) + Len(b) : c[i] = IF i <= Len(a) THEN a[i] ELSE b[i - Len(a)]
  <2> HIDE DEF S
  <2> QED BY <1>1, ConcatProperties, LenProperties
<1> HIDE DEF c, S
<1>3. IsSeq(c)
  BY <1>2 DEF IsSeq
<1>4. Seqs!ToSet(c) = {c[i] : i \in 1 .. Len(a) + Len(b)}
  BY <1>2, <1>3, Elements
<1>5. Seqs!ToSet(a) = {a[i] : i \in 1 .. Len(a)} /\ Seqs!ToSet(b) = {b[i] : i \in 1 .. Len(b)}
  BY Elements
<1>6. \A i \in 1 .. Len(a) : i \in 1 .. Len(a) + Len(b) /\ c[i] = a[i]
  BY <1>2
<1>7. \A i \in 1 .. Len(b) : i + Len(a) \in 1 .. Len(a) + Len(b) /\ c[i + Len(a)] = b[i]
  BY <1>2
<1>8. \A i \in 1 .. Len(a) + Len(b) : (i \in 1 .. Len(a) /\ c[i] = a[i]) \/ (i - Len(a) \in 1 .. Len(b) /\ c[i] = b[i - Len(a)])
  BY <1>2
<1>9. Seqs!ToSet(c) = Seqs!ToSet(a) \cup Seqs!ToSet(b)
  BY <1>4, <1>5, <1>6, <1>7, <1>8
<1> QED BY <1>2, <1>3, <1>9 DEF c

\* One element more.
LEMMA Appended ==
    ASSUME NEW a, IsSeq(a), NEW x
    PROVE  IsSeq(Append(a, x)) /\ Seqs!ToSet(Append(a, x)) = Seqs!ToSet(a) \cup {x} /\ Len(Append(a, x)) = Len(a) + 1
<1> DEFINE c == Append(a, x)
           A == Seqs!ToSet(a)
           S == A \cup {x}
<1>1. a \in Seq(S)
  <2>1. a \in Seq(A) /\ A \subseteq S
    BY Elements
  <2> HIDE DEF S, A
  <2> QED BY <2>1, SeqMonotonic
<1>2. c \in Seq(S) /\ Len(c) = Len(a) + 1 /\ Len(a) \in Nat /\ c[Len(a) + 1] = x /\ \A i \in 1 .. Len(a) : c[i] = a[i]
  <2>1. x \in S
    OBVIOUS
  <2> HIDE DEF S
  <2> QED BY <1>1, <2>1, AppendProperties, LenProperties
<1> HIDE DEF c, S
<1>3. IsSeq(c)
  BY <1>2 DEF IsSeq
<1>4. Seqs!ToSet(c) = {c[i] : i \in 1 .. Len(a) + 1} /\ Seqs!ToSet(a) = {a[i] : i \in 1 .. Len(a)}
  BY <1>2, <1>3, Elements
<1>5. 1 .. Len(a) + 1 = 1 .. Len(a) \cup {Len(a) + 1}
  BY <1>2
<1>6. Seqs!ToSet(c) = Seqs!ToSet(a) \cup {x}
  BY <1>2, <1>4, <1>5
<1> QED BY <1>2, <1>3, <1>6 DEF c

\* A first part of a sequence.
LEMMA Shortened ==
    ASSUME NEW a, IsSeq(a), NEW n \in Int, n <= Len(a)
    PROVE  /\ IsSeq(SubSeq(a, 1, n)) /\ Seqs!ToSet(SubSeq(a, 1, n)) \subseteq Seqs!ToSet(a)
           /\ Len(SubSeq(a, 1, n)) = IF n > 0 THEN n ELSE 0
<1> DEFINE c == SubSeq(a, 1, n)
           S == Seqs!ToSet(a)
<1>1. Len(a) \in Nat /\ \A i \in 1 .. n : a[i] \in S
  BY Elements
<1> HIDE DEF S
<1>2. c \in Seq(S) /\ Len(c) = (IF 1 <= n THEN n - 1 + 1 ELSE 0) /\ 1 \in Int
  BY <1>1, SubSeqProperties
<1> HIDE DEF c
<1>3. IsSeq(c) /\ \A i \in DOMAIN c : c[i] \in S
  BY <1>2, ElementOfSeq, LenProperties DEF IsSeq
<1>4. Len(c) = IF n > 0 THEN n ELSE 0
  BY <1>2
<1> QED BY <1>3, <1>4, ToSetIs DEF c, S

\* The last of a sequence, which is the rest and it.
LEMMA Lasts ==
    ASSUME NEW a, IsSeq(a), a # << >>
    PROVE  /\ IsSeq(SubSeq(a, 1, Len(a) - 1)) /\ Seqs!ToSet(SubSeq(a, 1, Len(a) - 1)) \subseteq Seqs!ToSet(a)
           /\ a[Len(a)] \in Seqs!ToSet(a) /\ Len(SubSeq(a, 1, Len(a) - 1)) = Len(a) - 1
<1> DEFINE n == Len(a) - 1
<1>1. n \in Nat /\ n <= Len(a) /\ a[Len(a)] \in Seqs!ToSet(a)
  BY Elements
<1> HIDE DEF n
<1> DEFINE c == SubSeq(a, 1, n)
<1>2. Len(c) = (IF n > 0 THEN n ELSE 0) /\ IsSeq(c) /\ Seqs!ToSet(c) \subseteq Seqs!ToSet(a)
  <2>1. n \in Int
    BY <1>1
  <2> QED BY <1>1, <2>1, Shortened
<1> HIDE DEF c
<1>3. Len(c) = n
  BY <1>1, <1>2
<1> QED BY <1>1, <1>2, <1>3 DEF n, c

\* The elements of sequences put together, by their places.
LEMMA ConcatAt ==
    ASSUME NEW a, IsSeq(a), NEW b, IsSeq(b)
    PROVE  /\ Len(a) \in Nat /\ DOMAIN a = 1 .. Len(a) /\ Len(b) \in Nat /\ DOMAIN b = 1 .. Len(b)
           /\ DOMAIN (a \o b) = 1 .. Len(a) + Len(b)
           /\ \A i \in 1 .. Len(a) + Len(b) : (a \o b)[i] = IF i <= Len(a) THEN a[i] ELSE b[i - Len(a)]
<1> DEFINE A == Seqs!ToSet(a)
           B == Seqs!ToSet(b)
           S == A \cup B
           c == a \o b
<1>1. a \in Seq(S) /\ b \in Seq(S)
  <2>1. a \in Seq(A) /\ b \in Seq(B) /\ A \subseteq S /\ B \subseteq S
    BY Elements
  <2> HIDE DEF S, A, B
  <2> QED BY <2>1, SeqMonotonic
<1>2. Len(a) \in Nat /\ DOMAIN a = 1 .. Len(a) /\ Len(b) \in Nat /\ DOMAIN b = 1 .. Len(b)
  BY Elements
<1>3. /\ c \in Seq(S) /\ Len(c) = Len(a) + Len(b)
      /\ \A i \in 1 .. Len(a) + Len(b) : c[i] = IF i <= Len(a) THEN a[i] ELSE b[i - Len(a)]
  <2> HIDE DEF S
  <2> QED BY <1>1, ConcatProperties
<1> HIDE DEF c, S
<1>4. DOMAIN c = 1 .. Len(a) + Len(b)
  BY <1>3, LenProperties
<1> QED BY <1>2, <1>3, <1>4 DEF c

\* Sequences are put together one by one.
LEMMA FlatSteps ==
    ASSUME NEW q, IsSeq(q), Len(q) # 0, \A i \in DOMAIN q : IsSeq(q[i])
    PROVE  \E flat : /\ Seqs!FlattenSeq(q) = flat[Len(q)]
                     /\ \A k \in 1 .. Len(q) : flat[k] = IF k = 1 THEN q[k] ELSE flat[k - 1] \o q[k]
                     /\ \A k \in 1 .. Len(q) : flat[k] \in Seq(UNION {Seqs!ToSet(q[i]) : i \in DOMAIN q})
<1> DEFINE n == Len(q)
           Eq(g) == g = [i \in 1 .. n |-> IF i = 1 THEN q[i] ELSE g[i - 1] \o q[i]]
           flat == CHOOSE g : Eq(g)
           A == UNION {Seqs!ToSet(q[i]) : i \in DOMAIN q}
<1>1. n \in Nat /\ DOMAIN q = 1 .. n
  BY Elements
<1>2. Seqs!FlattenSeq(q) = IF n = 0 THEN q ELSE flat[n]
  BY DEF Seqs!FlattenSeq
<1>4. n # 0
  OBVIOUS
<1>5. QED
  <2>1. \A i \in 1 .. n : q[i] \in Seq(A)
    <3> TAKE i \in 1 .. n
    <3> DEFINE T == Seqs!ToSet(q[i])
    <3>1. q[i] \in Seq(T) /\ T \subseteq A
      BY <1>1, Elements
    <3> HIDE DEF T, A
    <3> QED BY <3>1, SeqMonotonic
  <2> HIDE DEF A
  <2> DEFINE F == [k \in 1 .. n |-> [s \in Seq(A) |-> IF k = 1 THEN q[k] ELSE s \o q[k]]]
  <2>2. \E g \in [0 .. n -> Seq(A)] : \A k \in 1 .. n : g[k] = F[k][g[k - 1]]
    <3> DEFINE B == Seq(A)  a == << >>
    <3>1. n \in Nat /\ F \in Steps(B, n) /\ a \in B
      <4>1. \A k \in 1 .. n : \A s \in B : (IF k = 1 THEN q[k] ELSE s \o q[k]) \in B
        BY <2>1, ConcatProperties
      <4> HIDE DEF B
      <4>2. F \in [1 .. n -> [B -> B]]
        BY <4>1 DEF B
      <4> QED BY <1>1, <4>2, EmptySeq DEF Steps, B
    <3> HIDE DEF F, n, B, a
    <3>2. \E g : Iteration(g, B, n, a, F)
      BY <3>1, Iterates
    <3> QED BY <3>2 DEF Iteration, B
  <2>3. PICK g \in [0 .. n -> Seq(A)] : \A k \in 1 .. n : g[k] = F[k][g[k - 1]]
    BY <2>2
  <2> DEFINE h == [k \in 1 .. n |-> g[k]]
  <2>4. Eq(h)
    <3>1. \A k \in 1 .. n : g[k - 1] \in Seq(A) /\ F[k][g[k - 1]] = IF k = 1 THEN q[k] ELSE g[k - 1] \o q[k]
      <4> DEFINE B == Seq(A)
      <4>1. \A k \in 1 .. n : k - 1 \in 0 .. n
        BY <1>1
      <4>2. \A k \in 1 .. n : \A s \in B : F[k][s] = IF k = 1 THEN q[k] ELSE s \o q[k]
        <5> HIDE DEF B
        <5> QED BY DEF B
      <4>3. g \in [0 .. n -> B]
        BY <2>3
      <4> HIDE DEF B, F
      <4>4. \A k \in 1 .. n : g[k - 1] \in B
        BY <4>1, <4>3
      <4> QED BY <4>2, <4>4 DEF B
    <3>2. \A k \in 1 .. n : h[k] = IF k = 1 THEN q[k] ELSE h[k - 1] \o q[k]
      <4> TAKE k \in 1 .. n
      <4>1. h[k] = g[k] /\ (k # 1 => h[k - 1] = g[k - 1])
        BY <1>1
      <4> HIDE DEF h, F
      <4> QED BY <2>3, <3>1, <4>1
    <3> QED BY <3>2
  <2>5. Eq(flat)
    <3> HIDE DEF Eq, h
    <3> QED BY <2>4
  <2>6. \A k \in 1 .. n : flat[k] = IF k = 1 THEN q[k] ELSE flat[k - 1] \o q[k]
    <3> HIDE DEF flat
    <3> QED BY <2>5
  <2> HIDE DEF flat, Eq
  <2> DEFINE T == {k \in 0 .. n : k > 0 => flat[k] \in Seq(A)}
  <2>7. T = 0 .. n
    <3>1. 0 \in T
      BY <1>1
    <3>2. ASSUME NEW k \in T, k < n PROVE k + 1 \in T
      <4>1. k + 1 \in 1 .. n /\ (k + 1) - 1 = k /\ k \in 0 .. n
        BY <1>1, <3>2
      <4>2. CASE k = 0
        BY <2>1, <2>6, <4>1, <4>2
      <4>3. CASE k # 0
        <5>1. flat[k + 1] = flat[k] \o q[k + 1] /\ flat[k] \in Seq(A) /\ q[k + 1] \in Seq(A)
          <6>1. k > 0 /\ k + 1 # 1
            BY <4>1, <4>3
          <6>2. flat[k] \in Seq(A)
            BY <6>1
          <6>3. flat[k + 1] = flat[(k + 1) - 1] \o q[k + 1]
            BY <2>6, <4>1, <6>1
          <6>4. q[k + 1] \in Seq(A)
            BY <2>1, <4>1
          <6> QED BY <4>1, <6>2, <6>3, <6>4
        <5>2. flat[k] \o q[k + 1] \in Seq(A)
          BY <5>1, ConcatProperties
        <5>3. k + 1 \in 0 .. n
          BY <1>1, <4>1
        <5> QED BY <5>1, <5>2, <5>3
      <4> QED BY <4>2, <4>3
    <3> HIDE DEF T
    <3>3. T \in SUBSET (0 .. n)
      BY DEF T
    <3> QED BY <1>1, <3>1, <3>2, <3>3, IntervalSet
  <2>8. \A k \in 1 .. n : flat[k] \in Seq(A)
    <3> TAKE k \in 1 .. n
    <3>1. k \in T /\ k > 0
      BY <1>1, <2>7
    <3> QED BY <3>1
  <2>9. Seqs!FlattenSeq(q) = flat[n]
    BY <1>2, <1>4
  <2> HIDE DEF T
  <2> QED BY <2>6, <2>8, <2>9 DEF A

\* What is in a sequence of sequences, one after the other.
LEMMA Flattened ==
    ASSUME NEW q, IsSeq(q), \A i \in DOMAIN q : IsSeq(q[i])
    PROVE  /\ IsSeq(Seqs!FlattenSeq(q))
           /\ \A x \in Seqs!ToSet(Seqs!FlattenSeq(q)) : \E i \in DOMAIN q : x \in Seqs!ToSet(q[i])
<1> DEFINE n == Len(q)
           A == UNION {Seqs!ToSet(q[i]) : i \in DOMAIN q}
<1>1. n \in Nat /\ DOMAIN q = 1 .. n
  BY Elements
<1>2. CASE n = 0
  <2>1. Seqs!FlattenSeq(q) = q
    BY <1>2 DEF Seqs!FlattenSeq
  <2> QED BY <1>1, <1>2, <2>1, ToSetIs
<1>3. CASE n # 0
  <2>1. PICK flat : Seqs!FlattenSeq(q) = flat[n] /\ \A k \in 1 .. n : flat[k] \in Seq(A)
    <3> HIDE DEF A
    <3> QED BY <1>3, FlatSteps DEF A
  <2>2. n \in 1 .. n
    BY <1>1, <1>3
  <2> HIDE DEF A
  <2>3. flat[n] \in Seq(A)
    BY <2>1, <2>2
  <2>4. IsSeq(flat[n]) /\ \A i \in DOMAIN flat[n] : flat[n][i] \in A
    BY <2>3, ElementOfSeq, LenProperties DEF IsSeq
  <2> QED BY <2>1, <2>4, ToSetIs DEF A
<1> QED BY <1>2, <1>3

\* Relations between what is at different places hold in the whole if they hold in the parts and between
\* them.
LEMMA FlatPairs ==
    ASSUME NEW q, IsSeq(q), \A i \in DOMAIN q : IsSeq(q[i]), NEW R,
           \A i \in DOMAIN q : \A a, b \in DOMAIN q[i] : a # b => <<q[i][a], q[i][b]>> \in R,
           \A i, j \in DOMAIN q : i # j => \A a \in DOMAIN q[i] : \A b \in DOMAIN q[j] : <<q[i][a], q[j][b]>> \in R
    PROVE  LET all == Seqs!FlattenSeq(q) IN \A a, b \in DOMAIN all : a # b => <<all[a], all[b]>> \in R
<1> DEFINE n == Len(q)
           all == Seqs!FlattenSeq(q)
           Mine(s, k) == \A a \in DOMAIN s : \E i \in 1 .. k : \E b \in DOMAIN q[i] : s[a] = q[i][b]
           Pairs(s) == \A a, b \in DOMAIN s : a # b => <<s[a], s[b]>> \in R
<1>1. n \in Nat /\ DOMAIN q = 1 .. n
  BY Elements
<1>2. CASE n = 0
  <2>1. all = q
    BY <1>2 DEF Seqs!FlattenSeq
  <2> QED BY <1>1, <1>2, <2>1
<1>3. CASE n # 0
  <2>1. PICK flat : /\ all = flat[n]
                    /\ \A k \in 1 .. n : flat[k] = IF k = 1 THEN q[k] ELSE flat[k - 1] \o q[k]
                    /\ \A k \in 1 .. n : IsSeq(flat[k])
    <3>1. PICK flat : /\ Seqs!FlattenSeq(q) = flat[Len(q)]
                      /\ \A k \in 1 .. Len(q) : flat[k] = IF k = 1 THEN q[k] ELSE flat[k - 1] \o q[k]
                      /\ \A k \in 1 .. Len(q) : flat[k] \in Seq(UNION {Seqs!ToSet(q[i]) : i \in DOMAIN q})
      BY <1>3, FlatSteps, Zenon
    <3>2. \A k \in 1 .. n : IsSeq(flat[k])
      BY <3>1, Zenon DEF IsSeq
    <3> QED BY <3>1, <3>2
  <2> HIDE DEF all
  <2> DEFINE T == {k \in 0 .. n : k > 0 => Mine(flat[k], k) /\ Pairs(flat[k])}
  <2>2. 0 \in T
    BY <1>1
  <2>3. ASSUME NEW k \in T, k < n PROVE k + 1 \in T
    <3> DEFINE s == flat[k]
               t == q[k + 1]
    <3>1. k + 1 \in 1 .. n /\ (k + 1) - 1 = k /\ k \in 0 .. n /\ k + 1 \in 0 .. n
      BY <1>1, <2>3
    <3>2. Pairs(t) /\ Mine(t, k + 1)
      BY <1>1, <3>1
    <3>3. CASE k = 0
      <4>1. flat[k + 1] = t
        BY <2>1, <3>1, <3>3
      <4> HIDE DEF Pairs, Mine, t
      <4> QED BY <3>1, <3>2, <4>1
    <3>4. CASE k # 0
      <4>1. k \in 1 .. n /\ k + 1 # 1
        BY <3>1, <3>4
      <4>2. IsSeq(s) /\ IsSeq(t) /\ flat[k + 1] = s \o t
        BY <1>1, <2>1, <3>1, <4>1
      <4>3. Mine(s, k) /\ Pairs(s)
        <5> HIDE DEF Mine, Pairs
        <5>1. k > 0 /\ (k > 0 => Mine(flat[k], k) /\ Pairs(flat[k]))
          BY <4>1, <2>3
        <5> QED BY <5>1
      <4>4. \A a \in DOMAIN s : \A b \in DOMAIN t : <<s[a], t[b]>> \in R /\ <<t[b], s[a]>> \in R
        <5> TAKE a \in DOMAIN s
        <5> TAKE b \in DOMAIN t
        <5>1. PICK i \in 1 .. k : \E c \in DOMAIN q[i] : s[a] = q[i][c]
          BY <4>3
        <5>2. PICK c \in DOMAIN q[i] : s[a] = q[i][c]
          BY <5>1
        <5>3. i \in DOMAIN q /\ k + 1 \in DOMAIN q /\ i # k + 1
          BY <1>1, <3>1, <5>1
        <5> HIDE DEF s
        <5> QED BY <5>2, <5>3
      <4> DEFINE u == s \o t
                 l == Len(s)
      <4>5. /\ l \in Nat /\ DOMAIN s = 1 .. l /\ Len(t) \in Nat /\ DOMAIN t = 1 .. Len(t)
            /\ DOMAIN u = 1 .. l + Len(t)
            /\ \A i \in 1 .. l + Len(t) : u[i] = IF i <= l THEN s[i] ELSE t[i - l]
        <5> HIDE DEF s, t
        <5> QED BY <4>2, ConcatAt
      <4> HIDE DEF s, t, u, l
      <4>6. \A a \in DOMAIN u : (a \in DOMAIN s /\ u[a] = s[a]) \/ (a - l \in DOMAIN t /\ u[a] = t[a - l])
        BY <4>5
      <4>7. Pairs(u)
        <5> SUFFICES ASSUME NEW a \in DOMAIN u, NEW b \in DOMAIN u, a # b PROVE <<u[a], u[b]>> \in R
          OBVIOUS
        <5>1. CASE a \in DOMAIN s /\ u[a] = s[a] /\ b \in DOMAIN s /\ u[b] = s[b]
          BY <4>3, <5>1
        <5>2. CASE a \in DOMAIN s /\ u[a] = s[a] /\ b - l \in DOMAIN t /\ u[b] = t[b - l]
          BY <4>4, <5>2
        <5>3. CASE b \in DOMAIN s /\ u[b] = s[b] /\ a - l \in DOMAIN t /\ u[a] = t[a - l]
          BY <4>4, <5>3
        <5>4. CASE a - l \in DOMAIN t /\ u[a] = t[a - l] /\ b - l \in DOMAIN t /\ u[b] = t[b - l]
          <6>1. a - l # b - l
            BY <4>5
          <6> QED BY <3>2, <5>4, <6>1
        <5> QED BY <4>6, <5>1, <5>2, <5>3, <5>4
      <4>8. Mine(u, k + 1)
        <5> SUFFICES ASSUME NEW a \in DOMAIN u PROVE \E i \in 1 .. k + 1 : \E b \in DOMAIN q[i] : u[a] = q[i][b]
          OBVIOUS
        <5>1. CASE a \in DOMAIN s /\ u[a] = s[a]
          <6>1. PICK i \in 1 .. k : \E b \in DOMAIN q[i] : s[a] = q[i][b]
            BY <4>3, <5>1
          <6>2. i \in 1 .. k + 1
            BY <3>1, <6>1
          <6> QED BY <5>1, <6>1, <6>2
        <5>2. CASE a - l \in DOMAIN t /\ u[a] = t[a - l]
          BY <3>2, <5>2
        <5> QED BY <4>6, <5>1, <5>2
      <4>9. flat[k + 1] = u
        BY <4>2 DEF u
      <4> HIDE DEF Pairs, Mine
      <4> QED BY <3>1, <4>7, <4>8, <4>9
    <3> QED BY <3>3, <3>4
  <2>4. T \in SUBSET (0 .. n)
    <3> HIDE DEF Mine, Pairs
    <3> QED OBVIOUS
  <2> HIDE DEF T
  <2>5. T = 0 .. n
    BY <1>1, <2>2, <2>3, <2>4, IntervalSet
  <2>6. Pairs(flat[n])
    <3>1. n \in T /\ n > 0
      BY <1>1, <1>3, <2>5
    <3> HIDE DEF Mine, Pairs
    <3> QED BY <3>1 DEF T
  <2>7. Pairs(all)
    <3> HIDE DEF Pairs
    <3> QED BY <2>1, <2>6
  <2> QED BY <2>7 DEF all
<1> QED BY <1>2, <1>3

(***************************************************************************)
(* What a search starts from, and the units that it leaves.                *)
(***************************************************************************)
SeedOK(p, s) == /\ DOMAIN s.words = 0 .. p.slots - 1 /\ s.constraints \in Seq(Entry) /\ ValidSeed(p, s)
                /\ \A slot \in DOMAIN s.words : "op" \in DOMAIN s.words[slot] => s.words[slot].op \in DOMAIN p.operands

\* The caller's seed is one.
LEMMA CallersSeed == ASSUME NEW p, ProblemOK(p) PROVE SeedOK(p, p.seed)
  BY Zenon DEF ProblemOK, SeedOK, Decided

\* The power-up state.
LEMMA PoweredType ==
    ASSUME NEW p, ProblemOK(p) PROVE Powered(p) \in Timed(p) /\ FirstInput(p) \in 0 .. Len(p.inputs)
<1>1. Reset(p.outputs) \in Machine /\ Reset(p.outputs).rx = << >>
  <2>1. p.outputs \in Word /\ Zero \in Word /\ Ones \in Word
    BY ProblemTypes DEF Zero, Ones, Word
  <2>2. 0 \in 0 .. W /\ W \in 0 .. W /\ 0 \in Slots /\ NotStalled \in Stalls /\ << >> \in Seq(Word)
    BY IsaAssumption DEF Slots, Stalls
  <2> QED BY <2>1, <2>2 DEF Reset, Machine
<1>2. Len(Reset(p.outputs).rx) <= p.config.rx_depth
  BY <1>1, ProblemTypes DEF Config
<1>3. p.inputs \in Seq(Word) /\ p.tx_depth \in Nat
  BY ProblemTypes
<1>4. First(p.inputs, p.tx_depth) \in Seq(Word) /\ Len(p.inputs) \in Nat
  BY <1>3, FirstIs, LenProperties
<1>5. FirstInput(p) \in 0 .. Len(p.inputs)
  BY <1>4 DEF FirstInput
<1> DEFINE tx == IF p.preload THEN First(p.inputs, p.tx_depth) ELSE << >>
<1>6. tx \in Seq(Word)
  BY <1>4
<1>7. Powered(p) = [m |-> Reset(p.outputs), tx |-> tx, delay |-> 0, acc |-> 0]
  BY DEF Powered
<1> HIDE DEF tx
<1>8. Powered(p) \in Timed(p)
  BY <1>1, <1>2, <1>6, <1>7 DEF Timed, MachineOf
<1> QED BY <1>5, <1>8

\* Where there is no side-set, "side" is decided, as none, and asked of no one.
LEMMA SideOutside ==
    ASSUME NEW w, Partial(w), NEW u, DOMAIN u \cup {"side"} = DOMAIN w \cup {"side"},
           \A f \in DOMAIN w \ {"side"} : u[f] = w[f], "side" \in DOMAIN u => u["side"] = NoWord
    PROVE  Partial(u) /\ (WaitGroupable(w) => WaitGroupable(u))
<1>1. \A f : f # "side" => (Decided(w, f) <=> Decided(u, f)) /\ (Decided(w, f) => u[f] = w[f])
  BY DEF Decided
<1>2. Decided(u, "side") => u.side = NoWord
  BY DEF Decided
<1>3. WaitGroupable(w) => WaitGroupable(u)
  BY <1>1 DEF WaitGroupable, Get
<1>4. Decided(w, "op") => w.op \in Opcodes /\ "side" \notin Fields(w.op)
  BY FieldsAre DEF Partial, Opcodes
<1>5. /\ DOMAIN w \subseteq {"side", "op", "delay"} \cup (IF Decided(w, "op") THEN Seqs!ToSet(Operands(w.op)) ELSE {})
      /\ Decided(w, "delay") => w.delay \in Nat
      /\ \A f \in DOMAIN w \ {"side", "op", "delay"} : w[f] \in Domain(w.op, f)
  BY DEF Partial
<1>6. DOMAIN u \subseteq {"side", "op", "delay"} \cup (IF Decided(u, "op") THEN Seqs!ToSet(Operands(u.op)) ELSE {})
  BY <1>1, <1>5
<1>7. \A f \in DOMAIN u \ {"side", "op", "delay"} : u[f] \in Domain(u.op, f)
  <2> SUFFICES ASSUME NEW f \in DOMAIN u \ {"side", "op", "delay"} PROVE u[f] \in Domain(u.op, f)
    OBVIOUS
  <2>1. f \in DOMAIN w \ {"side", "op", "delay"} /\ u[f] = w[f]
    OBVIOUS
  <2>2. Decided(w, "op")
    BY <1>5, <2>1
  <2> QED BY <1>1, <1>5, <2>1, <2>2
<1> QED BY <1>1, <1>2, <1>3, <1>4, <1>5, <1>6, <1>7 DEF Partial

\* Constraints of a problem without side-set are on indices.
LEMMA OnIndices ==
    ASSUME NEW p, NEW words, NEW e, EntryOK(p, words, e), p.side = << >> PROVE e.field = "index"
<1>1. CASE e.field = "side"
  <2>1. WholeOf(p)["side"] = {}
    BY ToSetIs DEF WholeOf
  <2>2. e.allowed = {}
    BY <1>1, <2>1 DEF EntryOK
  <2>3. Cardinality({}) = 0
    BY FS_EmptySet
  <2> QED BY <2>2, <2>3 DEF EntryOK
<1> QED BY <1>1 DEF EntryOK, Entry

\* The constraints of a seed.
LEMMA SeedConstraints ==
    ASSUME NEW p, NEW s, s.constraints \in Seq(Entry), DOMAIN s.words = 0 .. p.slots - 1, p.slots \in 1 .. N
    PROVE  ValidSeed(p, s) <=> (\A slot \in DOMAIN s.words : Partial(s.words[slot])) /\ NarrowOK(p, s.words, s.constraints)
<1> DEFINE cs == s.constraints
           Good(i) == LET e == cs[i]
                          w == s.words[e.slot]
                      IN  /\ e.slot \in DOMAIN s.words
                          /\ CASE e.field = "index" -> WaitGroupable(w) [] e.field = "side" -> SideGroupable(w, p)
                          /\ e.allowed \subseteq WholeOf(p)[e.field] /\ Cardinality(e.allowed) >= 2 /\ e.allowed # WholeOf(p)[e.field]
                          /\ \A j \in DOMAIN cs : j # i => cs[j].slot # e.slot \/ cs[j].field # e.field
           Single(i) == \A j \in DOMAIN cs : j # i => cs[j].slot # cs[i].slot \/ cs[j].field # cs[i].field
<1>1. ValidSeed(p, s) <=> (\A slot \in DOMAIN s.words : Partial(s.words[slot])) /\ Len(cs) <= ConstraintCap /\ \A i \in DOMAIN cs : Good(i)
  BY DEF ValidSeed
<1>2. ASSUME NEW i \in DOMAIN cs PROVE Good(i) <=> EntryOK(p, s.words, cs[i]) /\ Single(i)
  <2>1. cs[i] \in Entry
    BY LenProperties, ElementOfSeq
  <2>2. cs[i].slot \in DOMAIN s.words <=> cs[i].slot < p.slots
    BY <2>1, IsaAssumption DEF Entry, Slots
  <2>3. cs[i].field \in {"side", "index"}
    BY <2>1 DEF Entry
  <2> HIDE DEF cs
  <2> QED BY <2>1, <2>2, <2>3 DEF EntryOK
<1>3. Apart(cs) <=> \A i \in DOMAIN cs : Single(i)
  <2> HIDE DEF cs
  <2> QED BY DEF Apart
<1> HIDE DEF Good, Single, cs
<1> QED BY <1>1, <1>2, <1>3 DEF NarrowOK, cs

\* What a search starts from is an item.
LEMMA RootOK ==
    ASSUME ProblemOK(P), NEW h, NEW s, SeedOK(P, s)
    PROVE  ItemOK(P, Root(h, s)) /\ Root(h, s).cycle = 0
<1> DEFINE n == P.slots
           spelled == [i \in 0 .. n - 1 |-> Padded(s.words[i])]
           words == Filled(P, spelled)
<1>1. /\ DOMAIN s.words = 0 .. n - 1 /\ s.constraints \in Seq(Entry) /\ ValidSeed(P, s) /\ n \in 1 .. N /\ N \in Nat
      /\ \A slot \in DOMAIN s.words : "op" \in DOMAIN s.words[slot] => s.words[slot].op \in DOMAIN P.operands
  BY ProblemTypes, IsaAssumption DEF SeedOK
<1>2. (\A slot \in DOMAIN s.words : Partial(s.words[slot])) /\ NarrowOK(P, s.words, s.constraints)
  BY <1>1, SeedConstraints
<1>3. \A i \in Slots : words[i] = IF i < n THEN Padded(s.words[i]) ELSE Filler
  <2>1. \A i \in Slots : i < n => i \in 0 .. n - 1
    BY <1>1 DEF Slots
  <2> QED BY <2>1 DEF Filled
<1>4. DOMAIN words = Slots
  BY DEF Filled
<1> HIDE DEF words
<1>5. ASSUME NEW i \in Slots, i < n
      PROVE  /\ SlotOK(P, words[i])
             /\ WaitGroupable(s.words[i]) => WaitGroupable(words[i])
             /\ HasSide => words[i] = s.words[i]
  <2> DEFINE w == s.words[i]
             u == Padded(w)
  <2>1. i \in DOMAIN s.words /\ Partial(w) /\ ("op" \in DOMAIN w => w.op \in DOMAIN P.operands) /\ words[i] = u
    BY <1>1, <1>2, <1>3, <1>5 DEF Slots
  <2>2. CASE HasSide
    <3>1. u = w
      BY <2>2 DEF Padded
    <3> QED BY <2>1, <2>2, <3>1 DEF SlotOK, HasSide
  <2>3. CASE ~HasSide
    <3>1. u = Decide(w, "side", NoWord)
      BY <2>3 DEF Padded
    <3>2. DOMAIN u = DOMAIN w \cup {"side"} /\ u["side"] = NoWord /\ \A f \in DOMAIN w : f # "side" => u[f] = w[f]
      BY <3>1 DEF Decide
    <3> HIDE DEF u, w
    <3>3. Partial(u) /\ (WaitGroupable(w) => WaitGroupable(u))
      BY <2>1, <3>2, SideOutside
    <3>4. "op" \in DOMAIN u => u.op \in DOMAIN P.operands
      BY <2>1, <3>2
    <3>5. SlotOK(P, u)
      BY <3>2, <3>3, <3>4 DEF SlotOK
    <3> QED BY <2>1, <2>3, <3>3, <3>5 DEF w
  <2> QED BY <2>2, <2>3
<1>6. WordsOK(P, words)
  BY <1>3, <1>4, <1>5 DEF WordsOK
<1>7. NarrowOK(P, words, s.constraints)
  <2> SUFFICES ASSUME NEW i \in DOMAIN s.constraints PROVE EntryOK(P, words, s.constraints[i])
    BY <1>2 DEF NarrowOK
  <2> DEFINE e == s.constraints[i]
  <2>1. EntryOK(P, s.words, e)
    BY <1>2 DEF NarrowOK
  <2>2. e.slot \in Slots /\ e.slot < n
    BY <2>1 DEF EntryOK, Entry
  <2>3. (WaitGroupable(s.words[e.slot]) => WaitGroupable(words[e.slot])) /\ (HasSide => words[e.slot] = s.words[e.slot])
    BY <1>5, <2>2
  <2>4. P.side = << >> => e.field = "index"
    BY <2>1, OnIndices
  <2> HIDE DEF e, words
  <2>5. /\ e \in Entry /\ e.slot < P.slots /\ e.allowed \subseteq WholeOf(P)[e.field]
        /\ Cardinality(e.allowed) >= 2 /\ e.allowed # WholeOf(P)[e.field]
        /\ IF e.field = "index" THEN WaitGroupable(s.words[e.slot]) ELSE SideGroupable(s.words[e.slot], P)
    BY <2>1, Zenon DEF EntryOK
  <2>6. IF e.field = "index" THEN WaitGroupable(words[e.slot]) ELSE SideGroupable(words[e.slot], P)
    <3>1. CASE e.field = "index"
      BY <2>3, <2>5, <3>1
    <3>2. CASE e.field # "index"
      BY <2>3, <2>4, <2>5, <3>2 DEF HasSide
    <3> QED BY <3>1, <3>2
  <2>7. EntryOK(P, words, e)
    BY <2>5, <2>6, Zenon DEF EntryOK
  <2> QED BY <2>7 DEF e
<1>8. TagsOK(words, NoTags)
  BY DEF TagsOK, NoTags
<1> DEFINE named == \E i \in DOMAIN s.words : s.words[i] # Blank /\ (~Decided(s.words[i], "op") \/ TouchesRegisters(Meaning(s.words[i])))
           it == [words |-> words, s |-> Powered(P), cycle |-> 0, next |-> FirstInput(P), named |-> named,
                  nop_submax |-> FALSE, unbound |-> TRUE, tags |-> NoTags, constraints |-> s.constraints]
<1>9. Root(h, s) = it
  BY DEF Root, words
<1>10. Powered(P) \in Timed(P) /\ FirstInput(P) \in 0 .. Len(P.inputs)
  BY PoweredType
<1> HIDE DEF named
<1>11. ItemOK(P, it) /\ it.cycle = 0
  BY <1>6, <1>7, <1>8, <1>10 DEF ItemOK, ItemFields
<1> QED BY <1>9, <1>11

\* A champion is a program of which some fields are left undecided.
ChampionOK(p, c) == WordsOK(p, c.words) /\ NarrowOK(p, c.words, c.constraints) /\ c.free \in BOOLEAN

\* The item that won is one.
LEMMA WinnerOK ==
    ASSUME NEW p, NEW it, ItemOK(p, it)
    PROVE  ChampionOK(p, [words |-> it.words, free |-> it.unbound, constraints |-> it.constraints])
  BY DEF ItemOK, ChampionOK

\* Words with the same fields are alike in every respect.

SameWord(w, u) == DOMAIN u = DOMAIN w /\ \A f \in DOMAIN w : u[f] = w[f]

\* Words with the same fields mean the same, and are grouped alike.
LEMMA SameGroups ==
    ASSUME NEW p, NEW w, NEW u, SameWord(w, u)
    PROVE  /\ Partial(w) => Partial(u)
           /\ WaitGroupable(w) => WaitGroupable(u)
           /\ SideGroupable(w, p) => SideGroupable(u, p)
           /\ Meaning(u) = Meaning(w)
<1>1. \A f, d : (Decided(u, f) <=> Decided(w, f)) /\ Get(u, f, d) = Get(w, f, d)
  BY DEF SameWord, Decided, Get
<1>2. \A f : Decided(w, f) => u[f] = w[f]
  BY DEF SameWord, Decided
<1>3. Partial(w) => Partial(u)
  <2> SUFFICES ASSUME Partial(w) PROVE Partial(u)
    OBVIOUS
  <2>1. /\ DOMAIN w \subseteq {"side", "op", "delay"} \cup (IF Decided(w, "op") THEN Seqs!ToSet(Operands(w.op)) ELSE {})
        /\ Decided(w, "side") => w.side \in Word \cup {NoWord}
        /\ Decided(w, "delay") => w.delay \in Nat
        /\ Decided(w, "op") => w.op \in Opcodes
        /\ \A f \in DOMAIN w \ {"side", "op", "delay"} : Decided(w, "op") /\ w[f] \in Domain(w.op, f)
    BY DEF Partial
  <2>2. DOMAIN u = DOMAIN w
    BY DEF SameWord
  <2>3. DOMAIN u \subseteq {"side", "op", "delay"} \cup (IF Decided(u, "op") THEN Seqs!ToSet(Operands(u.op)) ELSE {})
    BY <1>1, <1>2, <2>1, <2>2
  <2>4. \A f \in DOMAIN u \ {"side", "op", "delay"} : u[f] \in Domain(u.op, f)
    BY <1>2, <2>1, <2>2 DEF SameWord
  <2> QED BY <1>1, <1>2, <2>1, <2>3, <2>4 DEF Partial
<1>4. WaitGroupable(w) => WaitGroupable(u)
  BY <1>1, <1>2 DEF WaitGroupable
<1>5. SideGroupable(w, p) => SideGroupable(u, p)
  <2> DEFINE c == p.config
             side == Window(c.sideset_base, c.side_bits)
             outs == side \cap Window(c.out_base, c.out_count) # {}
             sets == side \cap Window(c.set_base, c.set_count) # {}
             spares(z) == Decided(z, "dst") /\ Get(z, "dst", "pins") # "pins"
  <2>1. \A z : SideGroupable(z, p) <=>
                 /\ ~Decided(z, "side") /\ p.optional_side /\ ~c.side_pindir
                 /\ \/ ~outs /\ ~sets
                    \/ Decided(z, "op") /\ (z.op \in {"out", "mov"} /\ outs => spares(z)) /\ (z.op = "set" /\ sets => spares(z))
    BY DEF SideGroupable
  <2>2. spares(w) => spares(u)
    BY <1>1
  <2> HIDE DEF outs, sets, spares
  <2> QED BY <1>1, <1>2, <2>1, <2>2
<1>6. Meaning(u) = Meaning(w)
  BY <1>1, Zenon DEF Meaning
<1> QED BY <1>3, <1>4, <1>5, <1>6

\* As a seed, in either spelling, a champion is one that a search lets pass.
LEMMA ChampionSeeds ==
    ASSUME ProblemOK(P), NEW c, ChampionOK(P, c)
    PROVE  SeedOK(P, SeedOf(c)) /\ SeedOK(P, MirrorSeed(SeedOf(c)))
<1> DEFINE n == P.slots
           cs == c.constraints
           words == Searched(c.words)
           mirror == [i \in 0 .. n - 1 |-> MirrorWord(words[i])]
<1>1. n \in 1 .. N /\ N \in Nat /\ WordsOK(P, c.words) /\ NarrowOK(P, c.words, cs)
  BY ProblemTypes, IsaAssumption DEF ChampionOK
<1>2. SeedOf(c) = [words |-> words, constraints |-> cs] /\ DOMAIN words = 0 .. n - 1
  BY DEF SeedOf, Searched
<1>3. MirrorSeed(SeedOf(c)) = [words |-> mirror, constraints |-> cs]
  <2> HIDE DEF words, cs, n
  <2> DEFINE sd == SeedOf(c)
             all == [i \in DOMAIN sd.words |-> MirrorWord(sd.words[i])]
  <2>1. MirrorSeed(sd) = [sd EXCEPT !.words = all]
    BY DEF MirrorSeed
  <2>2. sd.words = words /\ DOMAIN words = 0 .. n - 1
    BY <1>2
  <2> HIDE DEF sd
  <2>3. all = mirror
    BY <2>2
  <2> HIDE DEF all, mirror
  <2>4. [sd EXCEPT !.words = all] = [words |-> all, constraints |-> cs]
    BY <1>2 DEF sd
  <2> QED BY <2>1, <2>3, <2>4 DEF sd
<1>4. ASSUME NEW i \in 0 .. n - 1
      PROVE  /\ Partial(words[i]) /\ ("op" \in DOMAIN words[i] => words[i].op \in DOMAIN P.operands)
             /\ (WaitGroupable(c.words[i]) => WaitGroupable(words[i])) /\ (HasSide => SameWord(c.words[i], words[i]))
  <2> DEFINE w == c.words[i]
             u == words[i]
  <2>1. i \in Slots /\ i < n
    BY <1>1 DEF Slots
  <2>2. SlotOK(P, w)
    BY <1>1, <2>1 DEF WordsOK
  <2>3. u = [f \in DOMAIN w \ (IF HasSide THEN {} ELSE {"side"}) |-> w[f]]
    BY <2>1 DEF Searched
  <2>4. Partial(w) /\ ("op" \in DOMAIN w => w.op \in DOMAIN P.operands) /\ (~HasSide => "side" \in DOMAIN w)
    BY <2>2 DEF SlotOK, HasSide
  <2> HIDE DEF u, w
  <2>5. CASE HasSide
    <3>1. SameWord(w, u)
      BY <2>3, <2>5 DEF SameWord
    <3>2. Partial(u) /\ (WaitGroupable(w) => WaitGroupable(u))
      BY <2>4, <3>1, SameGroups
    <3>3. "op" \in DOMAIN u => u.op \in DOMAIN P.operands
      BY <2>4, <3>1 DEF SameWord
    <3> QED BY <3>1, <3>2, <3>3 DEF u, w
  <2>6. CASE ~HasSide
    <3>1. DOMAIN u = DOMAIN w \ {"side"} /\ \A f \in DOMAIN w : f # "side" => u[f] = w[f]
      BY <2>3, <2>6
    <3>2. Partial(u) /\ (WaitGroupable(w) => WaitGroupable(u))
      BY <2>4, <3>1, SideOutside
    <3> QED BY <2>4, <2>6, <3>1, <3>2 DEF u, w
  <2> QED BY <2>5, <2>6
<1> DEFINE seed1 == [words |-> words, constraints |-> cs]
           seed2 == [words |-> mirror, constraints |-> cs]
<1>5. \A i \in 0 .. n - 1 : mirror[i] = MirrorWord(words[i])
  OBVIOUS
<1>6. DOMAIN mirror = 0 .. n - 1
  OBVIOUS
<1> HIDE DEF words, mirror, n
<1>7. ASSUME NEW i \in DOMAIN cs
      PROVE  EntryOK(P, words, cs[i]) /\ EntryOK(P, mirror, cs[i])
  <2> DEFINE e == cs[i]
             k == e.slot
  <2>1. EntryOK(P, c.words, e)
    BY <1>1 DEF NarrowOK
  <2>2. k \in 0 .. n - 1
    BY <1>1, <2>1 DEF EntryOK, Entry, Slots, n
  <2>3. P.side = << >> => e.field = "index"
    BY <2>1, OnIndices
  <2> HIDE DEF e
  <2>4. IF e.field = "index" THEN WaitGroupable(words[k]) ELSE SideGroupable(words[k], P)
    BY <1>4, <2>1, <2>2, <2>3, SameGroups DEF EntryOK, HasSide
  <2>5. IF e.field = "index" THEN WaitGroupable(mirror[k]) ELSE SideGroupable(mirror[k], P)
    <3>1. /\ WaitGroupable(words[k]) => WaitGroupable(MirrorWord(words[k]))
          /\ SideGroupable(words[k], P) => SideGroupable(MirrorWord(words[k]), P)
      <4> DEFINE w == words[k]
      <4> HIDE DEF w
      <4>1. /\ WaitGroupable(w) => WaitGroupable(MirrorWord(w))
            /\ SideGroupable(w, P) => SideGroupable(MirrorWord(w), P)
        BY MirrorIs, Zenon
      <4> QED BY <4>1 DEF w
    <3>2. mirror[k] = MirrorWord(words[k])
      BY <1>5, <2>2, Zenon
    <3> QED BY <2>4, <3>1, <3>2, Zenon
  <2> QED BY <2>1, <2>4, <2>5 DEF EntryOK, e
<1>8. NarrowOK(P, words, cs) /\ NarrowOK(P, mirror, cs)
  BY <1>1, <1>7 DEF NarrowOK
<1>9. SeedOK(P, seed1)
  <2>1. ValidSeed(P, seed1)
    <3>1. P.slots \in 1 .. N /\ seed1.constraints \in Seq(Entry) /\ DOMAIN seed1.words = 0 .. P.slots - 1
      BY <1>1, <1>2, <1>8 DEF NarrowOK, n
    <3> QED BY <1>2, <1>4, <1>8, <3>1, SeedConstraints
  <2> QED BY <1>2, <1>4, <1>8, <2>1 DEF SeedOK, NarrowOK, n
<1>10. SeedOK(P, seed2)
  <2>1. \A i \in 0 .. n - 1 : Partial(mirror[i]) /\ ("op" \in DOMAIN mirror[i] => mirror[i].op \in DOMAIN P.operands)
    <3> TAKE i \in 0 .. n - 1
    <3>1. DOMAIN mirror[i] = DOMAIN words[i] /\ Partial(mirror[i]) /\ ("op" \in DOMAIN words[i] => mirror[i].op = words[i].op)
      <4> DEFINE w == words[i]
                 u == MirrorWord(w)
      <4>1. Partial(w) /\ mirror[i] = u
        BY <1>4, <1>5, Zenon
      <4> HIDE DEF w
      <4>2. /\ DOMAIN u = DOMAIN w /\ (Partial(w) => Partial(u))
            /\ \A f \in DOMAIN w : u[f] = CASE f = "cond" -> SwapCond(w[f])
                                             [] f \in {"dst", "src"} -> SwapName(w[f])
                                             [] OTHER -> w[f]
        BY MirrorIs, Zenon
      <4> HIDE DEF u
      <4>3. "op" \in DOMAIN w => u["op"] = w["op"]
        BY <4>2
      <4> QED BY <4>1, <4>2, <4>3 DEF w
    <3> QED BY <1>4, <3>1
  <2>2. ValidSeed(P, seed2)
    <3>1. P.slots \in 1 .. N /\ seed2.constraints \in Seq(Entry) /\ DOMAIN seed2.words = 0 .. P.slots - 1
      BY <1>1, <1>6, <1>8 DEF NarrowOK, n
    <3> QED BY <1>6, <1>8, <2>1, <3>1, SeedConstraints
  <2> QED BY <1>6, <1>8, <2>1, <2>2 DEF SeedOK, NarrowOK, n
<1> QED BY <1>2, <1>3, <1>9, <1>10

(***************************************************************************)
(* Every item of a search is a partial program in a state of the machine,  *)
(* and every unit is a seed.                                               *)
(***************************************************************************)
AllItems == IsSeq(stack) /\ \A it \in Seqs!ToSet(stack) : ItemOK(P, it)
AllChampions(q) == IsSeq(q) /\ \A c \in Seqs!ToSet(q) : ChampionOK(P, c)
Working == Running => ItemOK(P, It) /\ Ready(It) = It
AllUnits == IsSeq(units) /\ \A u \in Seqs!ToSet(units) : SeedOK(P, u)
AllSettled == IsSeq(settled) /\ \A o \in Seqs!ToSet(settled) : AllChampions(o.champions)
Posed == name \in DOMAIN Problems /\ problem = Problems[name] /\ horizon \in Nat /\ cap \in Nat
Planned == /\ phase \in {"plan", "frontier", "units", "unit", "whole", "panic", "done"}
           /\ prefix \in 1 .. P.cycles + P.cycles \div 2 /\ (phase = "frontier" => prefix < P.cycles)
SearchOK == /\ Posed /\ Planned /\ AllItems /\ Working
            /\ AllChampions(champions) /\ AllChampions(fallback) /\ AllUnits /\ AllSettled

\* The problem being searched is one that the caller saw to.
LEMMA PosedOK == ASSUME Posed PROVE ProblemOK(P)
  BY SearchAssumption DEF Posed, P

\* The empty sequence.
LEMMA NothingIn == IsSeq(<< >>) /\ Seqs!ToSet(<< >>) = {} /\ Len(<< >>) = 0
<1>1. << >> \in Seq({})
  OBVIOUS
<1>2. DOMAIN << >> = {}
  OBVIOUS
<1>3. Seqs!ToSet(<< >>) = {}
  BY <1>2, ToSetIs
<1> QED BY <1>1, <1>3 DEF IsSeq

\* The sequence of one element.
LEMMA OneIn == \A x : IsSeq(<<x>>) /\ Seqs!ToSet(<<x>>) = {x} /\ Len(<<x>>) = 1
<1> TAKE x
<1>1. <<x>> \in Seq({x}) /\ Len(<<x>>) = 1 /\ DOMAIN <<x>> = {1} /\ <<x>>[1] = x
  OBVIOUS
<1>2. Seqs!ToSet(<<x>>) = {x}
  BY <1>1, ToSetIs
<1> QED BY <1>1, <1>2 DEF IsSeq

\* A search starts with one item.
LEMMA BeginsOK ==
    ASSUME Posed, NEW h \in Nat, NEW s, SeedOK(P, s), NEW c \in Nat, Begins(h, s, c)
    PROVE  /\ Posed' /\ P' = P /\ AllItems' /\ Working' /\ AllChampions(champions)' /\ ~Running'
           /\ stack' = <<Root(h, s)>> /\ champions' = << >>
<1>1. /\ horizon' = h /\ cap' = c /\ name' = name /\ problem' = problem /\ stack' = <<Root(h, s)>> /\ run' = NoRun
      /\ champions' = << >>
  BY Zenon DEF Begins
<1>2. ItemOK(P, Root(h, s))
  BY PosedOK, RootOK
<1>3. P' = P
  BY <1>1 DEF P
<1>4. AllItems'
  BY <1>1, <1>2, <1>3, OneIn DEF AllItems
<1>5. AllChampions(champions)'
  BY <1>1, NothingIn DEF AllChampions
<1>6. ~Running'
  BY <1>1 DEF Running, NoRun
<1> QED BY <1>1, <1>3, <1>4, <1>5, <1>6 DEF Posed, Working

\* A step of the search.
LEMMA SearchStepOK ==
    ASSUME Posed, AllItems, Working, AllChampions(champions), SearchStep
    PROVE  Posed' /\ P' = P /\ AllItems' /\ Working' /\ AllChampions(champions)'
<1>1. ProblemOK(P) /\ horizon \in Nat /\ (Running => ItemOK(P, It) /\ Ready(It) = It)
  BY PosedOK DEF Posed, Working
<1>2. /\ UNCHANGED fixed
      /\ \/ Takes
         \/ Running /\ (Wins(It) \/ (It.cycle < horizon /\ (Ends \/ Forks(It) \/ Goes(It))))
  BY <1>1, StepKinds
<1>3. P' = P /\ Posed' /\ horizon' = horizon
  BY <1>2 DEF P, Posed, fixed
<1>4. Ready(It)' = Ready(run'.it) /\ It' = run'.it /\ (Running' <=> run' # NoRun)
  <2>1. It' = run'.it /\ (Running' <=> run' # NoRun)
    BY Zenon DEF It, Running, NoRun
  <2> QED BY <1>3, <2>1, Zenon DEF Ready
<1>5. CASE Takes
  <2> DEFINE top == stack[Len(stack)]
  <2>1. ~Running /\ stack # << >> /\ stack' = SubSeq(stack, 1, Len(stack) - 1) /\ champions' = champions
        /\ (run' = run \/ (run'.it = Ready(stack[Len(stack)]) /\ run' # NoRun))
    BY <1>5, Zenon DEF Takes
  <2>2. IsSeq(stack') /\ Seqs!ToSet(stack') \subseteq Seqs!ToSet(stack) /\ top \in Seqs!ToSet(stack)
    BY <2>1, Lasts DEF AllItems
  <2>3. ItemOK(P, top)
    BY <2>2 DEF AllItems
  <2>4. ItemOK(P, Ready(top)) /\ Ready(Ready(top)) = Ready(top)
    BY <1>1, <2>3, ReadyOK
  <2>5. AllItems'
    BY <1>3, <2>2 DEF AllItems
  <2>6. AllChampions(champions)'
    BY <1>3, <2>1 DEF AllChampions
  <2>7. Working'
    <3>1. CASE run' = run
      BY <1>4, <2>1, <3>1 DEF Working, Running
    <3>2. CASE run'.it = Ready(top)
      BY <1>3, <1>4, <2>4, <3>2 DEF Working
    <3> QED BY <2>1, <3>1, <3>2
  <2> QED BY <1>3, <2>5, <2>6, <2>7
<1>6. CASE Running /\ Wins(It)
  <2> DEFINE c == [words |-> It.words, free |-> It.unbound, constraints |-> It.constraints]
  <2>1. run' = NoRun /\ stack' = stack /\ (champions' = champions \/ champions' = Append(champions, c))
    BY <1>6, Zenon DEF Wins
  <2>2. ChampionOK(P, c)
    BY <1>1, <1>6, WinnerOK
  <2>3. AllItems' /\ Working'
    BY <1>3, <1>4, <2>1 DEF AllItems, Working
  <2> HIDE DEF c
  <2>4. IsSeq(Append(champions, c)) /\ Seqs!ToSet(Append(champions, c)) = Seqs!ToSet(champions) \cup {c}
    BY Appended DEF AllChampions
  <2>5. AllChampions(champions)'
    BY <1>3, <2>1, <2>2, <2>4 DEF AllChampions
  <2> QED BY <1>3, <2>3, <2>5
<1>7. CASE Running /\ Ends
  BY <1>3, <1>4, <1>7 DEF Ends, AllItems, Working, AllChampions
<1>8. CASE Running /\ Forks(It)
  <2>1. PICK children : Kids(It, children) /\ stack' = stack \o children /\ run' = NoRun /\ champions' = champions
    BY <1>8, Zenon DEF Forks
  <2>2. IsSeq(children) /\ \A c \in Seqs!ToSet(children) : ItemOK(P, c)
    <3>1. IsSeq(children) /\ \A i \in DOMAIN children : Offspring(It, children[i])
      BY <2>1 DEF Kids
    <3>2. \A i \in DOMAIN children : ItemOK(P, children[i])
      BY <1>1, <1>8, <3>1, OffspringOK
    <3> QED BY <3>1, <3>2, ToSetIs
  <2>3. IsSeq(stack \o children) /\ Seqs!ToSet(stack \o children) = Seqs!ToSet(stack) \cup Seqs!ToSet(children)
    BY <2>2, Concatenated DEF AllItems
  <2>4. AllItems'
    BY <1>3, <2>1, <2>2, <2>3 DEF AllItems
  <2> QED BY <1>3, <1>4, <2>1, <2>4 DEF Working, AllChampions
<1>9. CASE Running /\ Goes(It)
  <2> DEFINE a == Advanced(It, Stepped(It))
  <2>1. Proceeds(It) /\ stack' = stack /\ champions' = champions
    BY <1>9, Zenon DEF Goes
  <2>2. PICK submax : run'.it = Ready([a EXCEPT !.nop_submax = submax])
    BY <1>9, Zenon DEF Goes
  <2>3. ItemOK(P, a)
    BY <1>1, <1>9, <2>1, AdvancedOK DEF Proceeds, Aimed, Untagged, Fetched, Classed
  <2> HIDE DEF a
  <2> DEFINE b == [a EXCEPT !.nop_submax = submax]
  <2>4. ItemOK(P, b)
    BY <2>3 DEF ItemOK, ItemFields
  <2> HIDE DEF b
  <2>5. ItemOK(P, Ready(b)) /\ Ready(Ready(b)) = Ready(b)
    BY <1>1, <2>4, ReadyOK
  <2>6. Working'
    BY <1>3, <1>4, <2>2, <2>5 DEF Working, b
  <2> QED BY <1>3, <2>1, <2>6 DEF AllItems, AllChampions
<1> QED BY <1>2, <1>5, <1>6, <1>7, <1>8, <1>9

\* The units of a frontier.
LEMMA UnitsOK ==
    ASSUME ProblemOK(P), NEW q, AllChampions(q)
    PROVE  IsSeq(UnitsOf(q)) /\ \A u \in Seqs!ToSet(UnitsOf(q)) : SeedOK(P, u)
<1> DEFINE parts == [i \in DOMAIN q |-> Expanded(q[i])]
<1>1. Len(q) \in Nat /\ DOMAIN q = 1 .. Len(q) /\ \A i \in DOMAIN q : ChampionOK(P, q[i])
  BY Elements DEF AllChampions
<1>2. ASSUME NEW i \in DOMAIN q PROVE IsSeq(parts[i]) /\ \A u \in Seqs!ToSet(parts[i]) : SeedOK(P, u)
  <2> DEFINE s == SeedOf(q[i])
             t == MirrorSeed(s)
  <2>1. SeedOK(P, s) /\ SeedOK(P, t)
    BY <1>1, ChampionSeeds
  <2>2. parts[i] \in {<<s>>, <<s, t>>}
    BY Zenon DEF Expanded
  <2> HIDE DEF s, t, parts
  <2>3. <<s>> \in Seq({s, t}) /\ <<s, t>> \in Seq({s, t})
    OBVIOUS
  <2>4. parts[i] \in Seq({s, t})
    BY <2>2, <2>3
  <2>5. IsSeq(parts[i]) /\ \A k \in DOMAIN parts[i] : parts[i][k] \in {s, t}
    BY <2>4, ElementOfSeq, LenProperties DEF IsSeq
  <2> QED BY <2>1, <2>5, ToSetIs
<1>3. \A i \in 1 .. Len(q) : parts[i] = Expanded(q[i])
  BY <1>1
<1>4. parts = [i \in 1 .. Len(q) |-> parts[i]] /\ UnitsOf(q) = Seqs!FlattenSeq(parts)
  BY <1>1, Zenon DEF UnitsOf
<1> HIDE DEF parts
<1>5. IsSeq(parts) /\ DOMAIN parts = DOMAIN q
  BY <1>1, <1>4, TableIsSeq
<1> QED BY <1>2, <1>4, <1>5, Flattened

\* What the units found, cut to the cap.
LEMMA MergeOK ==
    ASSUME ProblemOK(P), AllSettled
    PROVE  /\ AllChampions(First(Seqs!FlattenSeq([i \in DOMAIN settled |-> settled[i].champions]), P.champion_cap))
           /\ \A c \in Seqs!ToSet(First(Seqs!FlattenSeq([i \in DOMAIN settled |-> settled[i].champions]), P.champion_cap)) :
                 \E o \in Seqs!ToSet(settled) : c \in Seqs!ToSet(o.champions)
           /\ IsSeq(Seqs!FlattenSeq([i \in DOMAIN settled |-> settled[i].champions]))
<1> DEFINE parts == [i \in DOMAIN settled |-> settled[i].champions]
           all == Seqs!FlattenSeq(parts)
           some == First(all, P.champion_cap)
<1>1. Len(settled) \in Nat /\ DOMAIN settled = 1 .. Len(settled) /\ \A i \in DOMAIN settled : settled[i] \in Seqs!ToSet(settled)
  BY Elements DEF AllSettled
<1>2. \A i \in 1 .. Len(settled) : parts[i] = settled[i].champions /\ IsSeq(parts[i]) /\ \A c \in Seqs!ToSet(parts[i]) : ChampionOK(P, c)
  BY <1>1 DEF AllSettled, AllChampions
<1>3. parts = [i \in 1 .. Len(settled) |-> parts[i]]
  BY <1>1
<1> HIDE DEF parts
<1>4. IsSeq(parts) /\ DOMAIN parts = 1 .. Len(settled)
  BY <1>1, <1>3, TableIsSeq
<1>5. IsSeq(all) /\ \A c \in Seqs!ToSet(all) : \E i \in DOMAIN parts : c \in Seqs!ToSet(parts[i])
  BY <1>2, <1>4, Flattened
<1>6. P.champion_cap \in Nat
  BY Zenon DEF ProblemOK
<1> HIDE DEF all
<1>7. IsSeq(some) /\ Seqs!ToSet(some) \subseteq Seqs!ToSet(all)
  <2> DEFINE k == Smaller(P.champion_cap, Len(all))
  <2>1. k \in Int /\ k <= Len(all)
    BY <1>5, <1>6, Elements DEF Smaller
  <2>2. some = SubSeq(all, 1, k)
    BY DEF First
  <2> HIDE DEF k, some
  <2> QED BY <1>5, <2>1, <2>2, Shortened
<1> HIDE DEF some
<1>8. \A c \in Seqs!ToSet(some) : \E i \in 1 .. Len(settled) : c \in Seqs!ToSet(parts[i])
  BY <1>4, <1>5, <1>7
<1>9. AllChampions(some)
  BY <1>2, <1>7, <1>8 DEF AllChampions
<1>10. \A c \in Seqs!ToSet(some) : \E o \in Seqs!ToSet(settled) : c \in Seqs!ToSet(o.champions)
  BY <1>1, <1>2, <1>8
<1> QED BY <1>5, <1>9, <1>10 DEF some, all, parts

\* Nothing is held at first.
LEMMA SearchInit == Init => SearchOK
<1> SUFFICES ASSUME Init PROVE SearchOK
  OBVIOUS
<1>1. /\ name \in DOMAIN Problems /\ problem = Problems[name] /\ horizon = 0 /\ cap = 0
      /\ stack = << >> /\ run = NoRun /\ champions = << >> /\ fallback = << >> /\ units = << >> /\ settled = << >>
  BY DEF Init, NoFrontier
<1>2. Planned
  <2>1. ProblemOK(P)
    BY <1>1, SearchAssumption DEF P
  <2>2. P.cycles \in Nat \ {0}
    BY <2>1, ProblemTypes
  <2>3. phase = "plan" /\ prefix = 1
    BY DEF Init
  <2> QED BY <2>2, <2>3 DEF Planned
<1> QED BY <1>1, <1>2, NothingIn DEF SearchOK, Posed, AllItems, Working, Running, AllChampions, AllUnits, AllSettled

\* The plan's own variables.
LEMMA PlannedNext == Posed /\ AllItems /\ Working /\ Planned /\ AllSettled /\ [Next]_vars => problem' = problem /\ Planned'
<1> SUFFICES ASSUME Posed, AllItems, Working, Planned, [Next]_vars PROVE problem' = problem /\ Planned'
  OBVIOUS
<1>1. P.cycles \in Nat \ {0} /\ horizon \in Nat /\ ProblemOK(P)
  BY PosedOK, ProblemTypes DEF Posed
<1>2. phase \in {"plan", "frontier", "units", "unit", "whole", "panic", "done"}
      /\ prefix \in 1 .. P.cycles + P.cycles \div 2 /\ (phase = "frontier" => prefix < P.cycles)
  BY DEF Planned
<1>3. ASSUME UNCHANGED problem, prefix' = prefix,
             phase' \in {"plan", "frontier", "units", "unit", "whole", "panic", "done"}, phase' = "frontier" => prefix < P.cycles
      PROVE  problem' = problem /\ Planned'
  <2>1. P' = P
    BY <1>3 DEF P
  <2> QED BY <1>2, <1>3, <2>1 DEF Planned
<1>4. ASSUME NEW h, NEW s, NEW c, Begins(h, s, c) PROVE UNCHANGED problem
  BY <1>4, Zenon DEF Begins
<1>5. CASE SearchWhole \/ SearchUnit
  BY <1>3, <1>4, <1>5 DEF SearchWhole, SearchUnit
<1>6. CASE SearchPrefix
  BY <1>3, <1>4, <1>6 DEF SearchPrefix
<1>7. CASE Explore
  <2>1. UNCHANGED fixed
    BY <1>1, <1>7, StepKinds DEF Explore, Working
  <2>2. prefix' = prefix /\ phase' = phase
    BY <1>7 DEF Explore, splitVars
  <2> QED BY <1>2, <1>3, <2>1, <2>2 DEF fixed
<1>8. CASE PlanUnits \/ RefuteAll \/ SettleUnit \/ Conclude
  BY <1>3, <1>8 DEF PlanUnits, RefuteAll, SettleUnit, Conclude, searchVars
<1>9. CASE Merge
  BY <1>3, <1>9, Zenon DEF Merge, fixed
<1>10. CASE Widen
  <2>1. prefix' = Wider(prefix) /\ phase' = "plan" /\ problem' = problem /\ phase = "frontier"
    BY <1>10 DEF Widen, searchVars
  <2>2. P' = P
    BY <2>1 DEF P
  <2>3. prefix < P.cycles /\ prefix \in Nat /\ prefix >= 1
    BY <1>1, <1>2, <2>1
  <2> DEFINE n == P.cycles
  <2>4. n \in Nat /\ prefix < n
    BY <1>1, <2>3
  <2> HIDE DEF n
  <2>5. prefix' \in 1 .. n + n \div 2
    BY <2>1, <2>3, <2>4 DEF Wider
  <2> QED BY <2>1, <2>2, <2>5 DEF Planned, n
<1>11. CASE Rest \/ UNCHANGED vars
  BY <1>2, <1>3, <1>11 DEF Rest, vars, searchVars, splitVars
<1> QED BY <1>5, <1>6, <1>7, <1>8, <1>9, <1>10, <1>11 DEF Next

\* Every step leaves items, champions and units of the problem (search_impl and search_split).
LEMMA SearchNext == SearchOK /\ [Next]_vars => SearchOK'
<1> SUFFICES ASSUME SearchOK, [Next]_vars PROVE SearchOK'
  OBVIOUS
<1>1. /\ Posed /\ AllItems /\ Working /\ AllChampions(champions) /\ AllChampions(fallback) /\ AllUnits /\ AllSettled
      /\ ProblemOK(P)
  BY PosedOK DEF SearchOK
<1>2. P.cycles \in Nat /\ P.champion_cap \in Nat /\ P.frontier_cap \in Nat /\ prefix \in Nat
  <2>1. P.cycles \in Nat \ {0} /\ P.champion_cap \in Nat /\ P.frontier_cap \in Nat
    BY <1>1, Zenon DEF ProblemOK
  <2> QED BY <2>1 DEF SearchOK, Planned
\* A step that leaves the search alone.
<1>3. ASSUME UNCHANGED searchVars PROVE Posed' /\ P' = P /\ AllItems' /\ Working' /\ AllChampions(champions)'
  <2>1. name' = name /\ problem' = problem /\ horizon' = horizon /\ cap' = cap /\ stack' = stack /\ run' = run /\ champions' = champions
    BY <1>3 DEF searchVars
  <2>2. P' = P
    BY <2>1 DEF P
  <2> QED BY <1>1, <2>1, <2>2 DEF Posed, AllItems, Working, Running, It, Ready, AllChampions
<1>4. ASSUME P' = P, fallback' = fallback PROVE AllChampions(fallback)'
  BY <1>1, <1>4 DEF AllChampions
<1>5. ASSUME P' = P, units' = units PROVE AllUnits'
  BY <1>1, <1>5 DEF AllUnits
<1>6. ASSUME P' = P, settled' = settled PROVE AllSettled'
  BY <1>1, <1>6 DEF AllSettled, AllChampions
<1>7. problem' = problem /\ Planned'
  BY PlannedNext DEF SearchOK
<1>8. ASSUME NEW h \in Nat, NEW s, SeedOK(P, s), NEW c \in Nat, Begins(h, s, c), UNCHANGED <<fallback, units, settled>> PROVE SearchOK'
  <2>1. Posed' /\ P' = P /\ AllItems' /\ Working' /\ AllChampions(champions)'
    BY <1>1, <1>8, BeginsOK
  <2>2. fallback' = fallback /\ units' = units /\ settled' = settled
    BY <1>8
  <2> QED BY <1>4, <1>5, <1>6, <1>7, <2>1, <2>2 DEF SearchOK
<1>9. ASSUME UNCHANGED <<searchVars, fallback, units, settled>> PROVE SearchOK'
  <2>1. Posed' /\ P' = P /\ AllItems' /\ Working' /\ AllChampions(champions)'
    BY <1>3, <1>9
  <2>2. fallback' = fallback /\ units' = units /\ settled' = settled
    BY <1>9
  <2> QED BY <1>4, <1>5, <1>6, <1>7, <2>1, <2>2 DEF SearchOK
<1>10. CASE SearchWhole
  <2>1. Begins(P.cycles, P.seed, P.champion_cap) /\ UNCHANGED <<fallback, units, settled>>
    BY <1>10 DEF SearchWhole
  <2> QED BY <1>1, <1>2, <1>8, <2>1, CallersSeed
<1>11. CASE SearchPrefix
  <2>1. Begins(prefix, P.seed, P.frontier_cap) /\ UNCHANGED <<fallback, units, settled>>
    BY <1>11 DEF SearchPrefix
  <2> QED BY <1>1, <1>2, <1>8, <2>1, CallersSeed
<1>12. CASE Explore
  <2>1. SearchStep /\ fallback' = fallback /\ units' = units /\ settled' = settled
    BY <1>12 DEF Explore, splitVars
  <2>2. Posed' /\ P' = P /\ AllItems' /\ Working' /\ AllChampions(champions)'
    BY <1>1, <2>1, SearchStepOK
  <2> QED BY <1>4, <1>5, <1>6, <1>7, <2>1, <2>2 DEF SearchOK
<1>13. CASE PlanUnits
  <2> DEFINE cover == IF cap_hit THEN fallback ELSE champions
  <2>1. units' = UnitsOf(cover) /\ UNCHANGED <<searchVars, fallback, settled>>
    BY <1>13 DEF PlanUnits
  <2>2. AllChampions(cover)
    BY <1>1
  <2> HIDE DEF cover
  <2>3. IsSeq(UnitsOf(cover)) /\ \A u \in Seqs!ToSet(UnitsOf(cover)) : SeedOK(P, u)
    BY <1>1, <2>2, UnitsOK
  <2>4. Posed' /\ P' = P /\ AllItems' /\ Working' /\ AllChampions(champions)'
    BY <1>3, <2>1
  <2>5. AllUnits'
    BY <2>1, <2>3, <2>4 DEF AllUnits
  <2> QED BY <1>4, <1>6, <1>7, <2>1, <2>4, <2>5 DEF SearchOK
<1>14. CASE Widen
  <2>1. fallback' = champions /\ UNCHANGED <<searchVars, units, settled>>
    BY <1>14 DEF Widen
  <2>2. Posed' /\ P' = P /\ AllItems' /\ Working' /\ AllChampions(champions)'
    BY <1>3, <2>1
  <2>3. AllChampions(fallback)'
    BY <1>1, <2>1, <2>2 DEF AllChampions
  <2> QED BY <1>5, <1>6, <1>7, <2>1, <2>2, <2>3 DEF SearchOK
<1>15. CASE RefuteAll \/ Conclude
  BY <1>9, <1>15 DEF RefuteAll, Conclude
<1>16. CASE SearchUnit
  <2> DEFINE s == units[Len(settled) + 1]
  <2>1. Begins(P.cycles, s, P.champion_cap) /\ Len(settled) < Len(units) /\ UNCHANGED <<fallback, units, settled>>
    BY <1>16 DEF SearchUnit
  <2>2. Len(settled) \in Nat /\ Len(units) \in Nat /\ DOMAIN units = 1 .. Len(units)
        /\ \A i \in DOMAIN units : units[i] \in Seqs!ToSet(units)
    BY <1>1, Elements DEF AllUnits, AllSettled
  <2>3. Len(settled) + 1 \in DOMAIN units
    BY <2>1, <2>2
  <2>4. SeedOK(P, s)
    BY <1>1, <2>2, <2>3 DEF AllUnits
  <2> HIDE DEF s
  <2> QED BY <1>2, <1>8, <2>1, <2>4
<1>17. CASE SettleUnit
  <2>1. settled' = Append(settled, Outcome) /\ UNCHANGED <<searchVars, fallback, units>>
    BY <1>17 DEF SettleUnit
  <2>2. Posed' /\ P' = P /\ AllItems' /\ Working' /\ AllChampions(champions)'
    BY <1>3, <2>1
  <2>3. IsSeq(settled') /\ Seqs!ToSet(settled') = Seqs!ToSet(settled) \cup {Outcome}
    BY <1>1, <2>1, Appended DEF AllSettled
  <2>4. Outcome.champions = champions
    BY DEF Outcome
  <2>5. AllSettled'
    BY <1>1, <2>2, <2>3, <2>4 DEF AllSettled, AllChampions
  <2> QED BY <1>4, <1>5, <1>7, <2>1, <2>2, <2>5 DEF SearchOK
<1>18. CASE Merge
  <2> DEFINE some == First(Seqs!FlattenSeq([i \in DOMAIN settled |-> settled[i].champions]), P.champion_cap)
  <2>1. champions' = some /\ UNCHANGED <<fixed, stack, run, fallback, units, settled>>
    BY <1>18, Zenon DEF Merge
  <2>2. AllChampions(some)
    BY <1>1, MergeOK
  <2> HIDE DEF some
  <2>3. P' = P /\ Posed'
    BY <1>1, <2>1 DEF P, Posed, fixed
  <2>4. AllChampions(champions)'
    BY <2>1, <2>2, <2>3 DEF AllChampions
  <2>5. AllItems' /\ Working'
    BY <1>1, <2>1, <2>3 DEF AllItems, Working, Running, It, Ready, fixed
  <2> QED BY <1>4, <1>5, <1>6, <1>7, <2>1, <2>3, <2>4, <2>5 DEF SearchOK
<1>19. CASE Rest \/ UNCHANGED vars
  BY <1>9, <1>19 DEF Rest, vars, splitVars
<1> QED BY <1>10, <1>11, <1>12, <1>13, <1>14, <1>15, <1>16, <1>17, <1>18, <1>19 DEF Next

\* What holds of the items, the champions and the units at all times.
THEOREM SearchesPrograms == Spec => []SearchOK
<1>1. Init => SearchOK
  BY SearchInit
<1>2. SearchOK /\ [Next]_vars => SearchOK'
  BY SearchNext
<1> QED BY <1>1, <1>2, PTL DEF Spec

\* A register that carries a tag is that of an undecided immediate, and none does when a program and
\* its mirror image part (TagsAreOpen; the tags of engine.rs:5819-5921), for every problem.
THEOREM TagsStayOpen == Spec => []TagsAreOpen
<1>1. SearchOK => TagsAreOpen
  <2> SUFFICES ASSUME SearchOK, Running
               PROVE  /\ \A r \in Tagged(It.tags) : It.words[It.tags[r]].op = "set" /\ ~Decided(It.words[It.tags[r]], "data")
                      /\ Edge(It, Stepped(It)) = "bind" => Tagged(It.tags) = {}
    BY DEF TagsAreOpen
  <2>1. ProblemOK(P) /\ ItemOK(P, It)
    BY PosedOK DEF SearchOK, Working
  <2>2. TagsOK(It.words, It.tags)
    BY <2>1 DEF ItemOK
  <2>3. \A r \in Tagged(It.tags) : It.words[It.tags[r]].op = "set" /\ ~Decided(It.words[It.tags[r]], "data")
    BY <2>2 DEF TagsOK, Tagged, Awaited, Decided
  <2>4. ASSUME Edge(It, Stepped(It)) = "bind" PROVE Tagged(It.tags) = {}
    <3>1. Aimed(It) /\ TellsTwinsApart(It)
      BY <2>4, EdgeIs
    <3>2. Inside(It) /\ TagsNeeded(It) = {}
      BY <3>1 DEF Aimed, Untagged, Fetched, Classed, TellsTwinsApart, WillExecute, Active
    <3> QED BY <2>1, <3>1, <3>2, PartUntagged
  <2> QED BY <2>3, <2>4
<1> QED BY <1>1, SearchesPrograms, PTL

\* No unit is refused as a seed, for every problem (UnitsAreValidSeeds; validate_seed,
\* engine.rs:1438-1571).
THEOREM UnitsAreSeeds == Spec => []UnitsAreValidSeeds
<1>1. SearchOK => UnitsAreValidSeeds
  <2> SUFFICES ASSUME SearchOK, NEW i \in DOMAIN units PROVE ValidSeed(P, units[i])
    BY DEF UnitsAreValidSeeds
  <2>1. units[i] \in Seqs!ToSet(units)
    BY Elements DEF SearchOK, AllUnits
  <2> QED BY <2>1 DEF SearchOK, AllUnits, SeedOK
<1> QED BY <1>1, SearchesPrograms, PTL

(***************************************************************************)
(* The failure memo keeps to its cap.                                      *)
(***************************************************************************)

\* One element replaced, and one taken out.
LEMMA Replaced ==
    ASSUME NEW a, IsSeq(a), NEW i \in DOMAIN a, NEW x
    PROVE  /\ IsSeq([a EXCEPT ![i] = x]) /\ Len([a EXCEPT ![i] = x]) = Len(a)
           /\ Seqs!ToSet([a EXCEPT ![i] = x]) \subseteq Seqs!ToSet(a) \cup {x}
<1> DEFINE A == Seqs!ToSet(a)
           S == A \cup {x}
           c == [a EXCEPT ![i] = x]
<1>1. a \in Seq(S) /\ i \in 1 .. Len(a) /\ x \in S
  <2>1. a \in Seq(A) /\ A \subseteq S /\ i \in 1 .. Len(a)
    BY Elements
  <2>2. x \in S
    OBVIOUS
  <2> HIDE DEF S, A
  <2> QED BY <2>1, <2>2, SeqMonotonic
<1> HIDE DEF S
<1>2. c \in Seq(S) /\ Len(c) = Len(a)
  BY <1>1, ExceptSeq
<1> HIDE DEF c
<1>3. IsSeq(c) /\ \A k \in DOMAIN c : c[k] \in S
  BY <1>2, ElementOfSeq, LenProperties DEF IsSeq
<1>4. Seqs!ToSet(c) \subseteq S
  BY <1>3, ToSetIs
<1> QED BY <1>2, <1>3, <1>4 DEF c, S

\* One element less.
LEMMA Removed ==
    ASSUME NEW a, IsSeq(a), NEW i \in DOMAIN a
    PROVE  /\ IsSeq(Seqs!RemoveAt(a, i)) /\ Len(Seqs!RemoveAt(a, i)) = Len(a) - 1
           /\ Seqs!ToSet(Seqs!RemoveAt(a, i)) \subseteq Seqs!ToSet(a)
<1> DEFINE A == Seqs!ToSet(a)
           n == Len(a)
           b == SubSeq(a, 1, i - 1)
           c == SubSeq(a, i + 1, n)
<1>1. n \in Nat /\ i \in 1 .. n /\ \A k \in 1 .. n : a[k] \in A
  BY Elements
<1> HIDE DEF A, n
<1>2. b \in Seq(A) /\ Len(b) = i - 1
  <2>1. 1 \in Int /\ i - 1 \in Int /\ \A k \in 1 .. i - 1 : a[k] \in A
    BY <1>1
  <2>2. b \in Seq(A) /\ Len(b) = (IF 1 <= i - 1 THEN i - 1 - 1 + 1 ELSE 0)
    BY <2>1, SubSeqProperties
  <2> HIDE DEF b
  <2> QED BY <1>1, <2>2
<1>3. c \in Seq(A) /\ Len(c) = n - i
  <2>1. i + 1 \in Int /\ n \in Int /\ \A k \in i + 1 .. n : a[k] \in A
    BY <1>1
  <2>2. c \in Seq(A) /\ Len(c) = (IF i + 1 <= n THEN n - (i + 1) + 1 ELSE 0)
    BY <2>1, SubSeqProperties
  <2> HIDE DEF c
  <2> QED BY <1>1, <2>2
<1> HIDE DEF b, c
<1>4. b \o c \in Seq(A) /\ Len(b \o c) = n - 1
  <2>1. b \o c \in Seq(A) /\ Len(b \o c) = Len(b) + Len(c)
    BY <1>2, <1>3, ConcatProperties
  <2> QED BY <1>1, <1>2, <1>3, <2>1
<1>5. Seqs!RemoveAt(a, i) = b \o c
  BY DEF Seqs!RemoveAt, b, c, n
<1> DEFINE d == b \o c
<1> HIDE DEF d
<1>6. IsSeq(d) /\ (\A k \in DOMAIN d : d[k] \in A) /\ Len(d) = n - 1
  <2>1. d \in Seq(A) /\ Len(d) = n - 1
    BY <1>4 DEF d
  <2> QED BY <2>1, ElementOfSeq, LenProperties DEF IsSeq
<1>7. Seqs!ToSet(d) \subseteq A
  BY <1>6, ToSetIs
<1> QED BY <1>5, <1>6, <1>7 DEF d, A, n

\* What is kept of a sequence, and that there is no more of it.
LEMMA Kept2 ==
    ASSUME NEW a, IsSeq(a), NEW S
    PROVE  /\ IsSeq(Keeping(a, S)) /\ Len(Keeping(a, S)) <= Len(a) /\ Seqs!ToSet(Keeping(a, S)) \subseteq Seqs!ToSet(a)
           /\ Seqs!ToSet(Keeping(a, S)) \subseteq S
<1>1. PICK A : a \in Seq(A)
  BY DEF IsSeq
<1> QED BY <1>1, KeepingIs DEF IsSeq

\* The greatest of some numbers up to n.
LEMMA GreatestOf ==
    ASSUME NEW n \in Nat, NEW T \in SUBSET (0 .. n), T # {}
    PROVE  \E x \in T : \A y \in T : y <= x
<1> DEFINE U == {n - y : y \in T}
<1>1. U \in SUBSET Nat /\ U # {}
  <2>1. \A y \in T : n - y \in Nat
    OBVIOUS
  <2> QED BY <2>1
<1>2. PICK u \in U : \A v \in U : u <= v
  <2> HIDE DEF U
  <2> QED BY <1>1, LeastNumber
<1>3. PICK x \in T : u = n - x
  OBVIOUS
<1>4. \A y \in T : y <= x
  <2> TAKE y \in T
  <2>1. n - y \in U /\ y \in 0 .. n /\ x \in 0 .. n
    OBVIOUS
  <2> HIDE DEF U
  <2> QED BY <1>2, <1>3, <2>1
<1> QED BY <1>4

RecordOK(r) == "benefit" \in DOMAIN r /\ r.benefit \in 0 .. TopBar

\* One more record takes at most one more place.
LEMMA InsertOK ==
    ASSUME NEW mm, IsSeq(mm), \A s \in Seqs!ToSet(mm) : RecordOK(s), NEW r, RecordOK(r)
    PROVE  /\ IsSeq(Insert(mm, r)) /\ Len(Insert(mm, r)) <= Len(mm) + 1
           /\ \A s \in Seqs!ToSet(Insert(mm, r)) : RecordOK(s)
<1> DEFINE over == {i \in DOMAIN mm : Absorbs(mm[i], r)}
           under == {i \in DOMAIN mm : Absorbs(r, mm[i])}
           list == {i \in DOMAIN mm : SameKey(mm[i], r)}
           Worst(i) == \A j \in list : ~Weaker(mm[j], mm[i]) /\ (Weaker(mm[i], mm[j]) \/ i <= j)
           worst == CHOOSE i \in list : Worst(i)
           first == CHOOSE i \in over : \A j \in over : i <= j
           all == {r.benefit} \cup {mm[i].benefit : i \in under}
           Best(b) == b >= r.benefit /\ \A i \in under : b >= mm[i].benefit
           best == CHOOSE b \in all : Best(b)
           raised == [mm EXCEPT ![first].benefit = r.benefit]
           swapped == Append(Seqs!RemoveAt(mm, worst), r)
           added == Append(Keeping(mm, {s \in Seqs!ToSet(mm) : ~Absorbs(r, s)}), [r EXCEPT !.benefit = best])
<1>1. Insert(mm, r) = CASE over # {} -> IF Weaker(mm[first], r) THEN raised ELSE mm
                        [] over = {} /\ under = {} /\ Cardinality(list) >= ListCap ->
                              IF Weaker(mm[worst], r) THEN swapped ELSE mm
                        [] OTHER -> added
  BY DEF Insert
<1>2. Len(mm) \in Nat /\ DOMAIN mm = 1 .. Len(mm) /\ \A i \in DOMAIN mm : RecordOK(mm[i])
  BY Elements
<1>3. TopBar \in Nat
  BY MemoAssumption
<1>4. \A s, t : RecordOK(s) /\ t \in 0 .. TopBar => RecordOK([s EXCEPT !.benefit = t])
  BY DEF RecordOK
<1>5. CASE over # {}
  <2>1. first \in over
    <3>1. over \in SUBSET Nat
      BY <1>2
    <3>2. \E i \in over : \A j \in over : i <= j
      <4> HIDE DEF over
      <4> QED BY <1>5, <3>1, LeastNumber
    <3> HIDE DEF over
    <3> QED BY <3>2
  <2> DEFINE x == [mm[first] EXCEPT !.benefit = r.benefit]
  <2>2. first \in DOMAIN mm /\ RecordOK(x)
    <3>1. first \in DOMAIN mm
      BY <2>1
    <3> HIDE DEF first
    <3> QED BY <1>2, <1>4, <3>1 DEF RecordOK
  <2>3. raised = [mm EXCEPT ![first] = x]
    <3> HIDE DEF first
    <3> QED BY <2>2
  <2> HIDE DEF x, first
  <2>4. /\ IsSeq(raised) /\ Len(raised) = Len(mm) /\ \A s \in Seqs!ToSet(raised) : RecordOK(s)
    <3> DEFINE y == [mm EXCEPT ![first] = x]
    <3>1. IsSeq(y) /\ Len(y) = Len(mm) /\ Seqs!ToSet(y) \subseteq Seqs!ToSet(mm) \cup {x}
      BY <2>2, Replaced
    <3> HIDE DEF y
    <3>2. \A s \in Seqs!ToSet(y) : RecordOK(s)
      BY <2>2, <3>1
    <3>3. raised = y
      BY <2>3 DEF y
    <3> HIDE DEF raised
    <3> QED BY <3>1, <3>2, <3>3
  <2>5. Insert(mm, r) \in {raised, mm}
    BY <1>1, <1>5, Zenon
  <2> HIDE DEF raised
  <2> QED BY <1>2, <2>4, <2>5
<1>6. CASE over = {} /\ under = {} /\ Cardinality(list) >= ListCap
  <2>1. list # {}
    <3>1. Cardinality({}) = 0 /\ ListCap \in Nat \ {0}
      BY FS_EmptySet, MemoAssumption
    <3> HIDE DEF list
    <3> QED BY <1>6, <3>1
  <2>2. worst \in list
    <3> DEFINE B == {mm[i].benefit : i \in list}
    <3>1. B \in SUBSET Nat /\ B # {}
      BY <1>2, <1>3, <2>1 DEF RecordOK
    <3>2. PICK b \in B : \A c \in B : b <= c
      <4> HIDE DEF B
      <4> QED BY <3>1, LeastNumber
    <3> DEFINE T == {i \in list : mm[i].benefit = b}
    <3>3. T \in SUBSET Nat /\ T # {}
      BY <1>2
    <3>4. PICK i \in T : \A j \in T : i <= j
      <4> HIDE DEF T
      <4> QED BY <3>3, LeastNumber
    <3>5. i \in list /\ Worst(i)
      <4>1. i \in list /\ mm[i].benefit = b
        BY <3>4
      <4>2. \A j \in list : b <= mm[j].benefit /\ mm[j].benefit \in Nat /\ b \in Nat
        BY <3>1, <3>2
      <4>3. \A j \in list : b = mm[j].benefit => i <= j
        BY <3>4
      <4> HIDE DEF list
      <4> QED BY <4>1, <4>2, <4>3 DEF Weaker
    <3> HIDE DEF Worst, list
    <3> QED BY <3>5
  <2>3. worst \in DOMAIN mm
    BY <2>2
  <2> HIDE DEF worst
  <2> DEFINE rest == Seqs!RemoveAt(mm, worst)
  <2>4. IsSeq(rest) /\ Len(rest) = Len(mm) - 1 /\ \A s \in Seqs!ToSet(rest) : RecordOK(s)
    BY <2>3, Removed
  <2> HIDE DEF rest
  <2>5. IsSeq(Append(rest, r)) /\ Len(Append(rest, r)) = Len(mm) /\ \A s \in Seqs!ToSet(Append(rest, r)) : RecordOK(s)
    <3> DEFINE y == Append(rest, r)
    <3>1. IsSeq(y) /\ Len(y) = Len(rest) + 1 /\ Seqs!ToSet(y) = Seqs!ToSet(rest) \cup {r}
      BY <2>4, Appended
    <3> HIDE DEF y
    <3>2. (Len(mm) - 1) + 1 = Len(mm)
      BY <1>2
    <3> QED BY <2>4, <3>1, <3>2 DEF y
  <2> DEFINE y == Append(rest, r)
  <2>6. Insert(mm, r) \in {y, mm}
    BY <1>1, <1>6, Zenon DEF rest
  <2>7. IsSeq(y) /\ Len(y) = Len(mm) /\ \A s \in Seqs!ToSet(y) : RecordOK(s)
    BY <2>5
  <2> HIDE DEF y
  <2>8. CASE Insert(mm, r) = y
    BY <1>2, <2>7, <2>8
  <2>9. CASE Insert(mm, r) = mm
    BY <1>2, <2>9
  <2> QED BY <2>6, <2>8, <2>9
<1>7. CASE over = {} /\ ~(under = {} /\ Cardinality(list) >= ListCap)
  <2> DEFINE kept == Keeping(mm, {s \in Seqs!ToSet(mm) : ~Absorbs(r, s)})
             x == [r EXCEPT !.benefit = best]
  <2>1. best \in 0 .. TopBar
    <3>1. all \in SUBSET (0 .. TopBar) /\ all # {}
      BY <1>2 DEF RecordOK
    <3>2. PICK b \in all : \A c \in all : c <= b
      <4> HIDE DEF all
      <4> QED BY <1>3, <3>1, GreatestOf
    <3>3. \A c \in all : c \in Int
      BY <3>1
    <3>4. Best(b)
      BY <3>2, <3>3
    <3> HIDE DEF Best, all
    <3> QED BY <3>1, <3>2, <3>4
  <2> HIDE DEF best
  <2>2. RecordOK(x)
    BY <1>4, <2>1
  <2>3. IsSeq(kept) /\ Len(kept) <= Len(mm) /\ \A s \in Seqs!ToSet(kept) : RecordOK(s)
    BY Kept2
  <2> HIDE DEF kept, x
  <2>4. IsSeq(Append(kept, x)) /\ Len(Append(kept, x)) = Len(kept) + 1 /\ \A s \in Seqs!ToSet(Append(kept, x)) : RecordOK(s)
    BY <2>2, <2>3, Appended
  <2>5. Len(kept) \in Nat
    BY <2>3, Elements
  <2>6. Insert(mm, r) = Append(kept, x)
    BY <1>1, <1>7, Zenon DEF kept, x
  <2> QED BY <1>2, <2>3, <2>4, <2>5, <2>6
<1> QED BY <1>5, <1>6, <1>7

\* The bar of a table that is purged doubles until there is room, or until it is at the top.
LEMMA PurgeOK ==
    ASSUME NEW mm, IsSeq(mm), \A s \in Seqs!ToSet(mm) : RecordOK(s), NEW b \in 0 .. TopBar, NEW most \in Nat
    PROVE  /\ IsSeq(Purge(mm, b, most).memo) /\ (\A s \in Seqs!ToSet(Purge(mm, b, most).memo) : RecordOK(s))
           /\ Len(Purge(mm, b, most).memo) <= most - (most \div 8) /\ Purge(mm, b, most).bar \in 0 .. TopBar
           /\ b = 0 => Purge(mm, b, most).bar = 0 /\ Purge(mm, b, most).memo = << >>
<1> DEFINE n == TopBar
           Eq(g) == g = [k \in 0 .. n |-> IF k = 0 THEN b ELSE Smaller(2 * g[k - 1], n)]
           doubled == CHOOSE g : Eq(g)
           ends(k) == doubled[k] = doubled[k - 1] \/ Len(Kept(mm, doubled[k])) <= most - (most \div 8)
           Last(k) == ends(k) /\ \A j \in 1 .. k - 1 : ~ends(j)
           rounds == CHOOSE k \in 1 .. n : Last(k)
           to == doubled[rounds]
           left == IF to = doubled[rounds - 1] THEN << >> ELSE Kept(mm, to)
<1>1. n \in Nat \ {0}
  BY MemoAssumption
<1>2. Purge(mm, b, most) = [bar |-> to, memo |-> left]
  BY DEF Purge
<1>3. /\ doubled \in [0 .. n -> 0 .. n] /\ doubled[0] = b
      /\ \A k \in 1 .. n : doubled[k] = Smaller(2 * doubled[k - 1], n)
  <2> DEFINE B == 0 .. n
             F == [k \in 1 .. n |-> [v \in B |-> Smaller(2 * v, n)]]
  <2>1. n \in Nat /\ F \in Steps(B, n) /\ b \in B
    <3>1. \A v \in B : Smaller(2 * v, n) \in B
      BY <1>1 DEF Smaller
    <3> HIDE DEF B
    <3>2. F \in [1 .. n -> [B -> B]]
      BY <3>1
    <3> QED BY <1>1, <3>2 DEF Steps, B
  <2>2. PICK g : g \in [0 .. n -> B] /\ g[0] = b /\ \A k \in 1 .. n : g[k] = F[k][g[k - 1]]
    <3> HIDE DEF F, n, B
    <3> QED BY <2>1, Iterates DEF Iteration
  <2>3. \A k \in 1 .. n : k - 1 \in 0 .. n /\ k \in 0 .. n /\ k # 0 /\ g[k - 1] \in B
    BY <1>1, <2>2
  <2>4. \A k \in 1 .. n : g[k] = Smaller(2 * g[k - 1], n)
    <3> HIDE DEF B
    <3> QED BY <2>2, <2>3
  <2>5. Eq(g)
    <3>1. \A k \in 0 .. n : k = 0 \/ k \in 1 .. n
      BY <1>1
    <3>2. \A k \in 0 .. n : g[k] = IF k = 0 THEN b ELSE Smaller(2 * g[k - 1], n)
      BY <2>2, <2>4, <3>1
    <3> HIDE DEF B
    <3> QED BY <2>2, <3>2
  <2>6. Eq(doubled)
    <3> HIDE DEF Eq
    <3> QED BY <2>5
  <2> HIDE DEF doubled
  <2>7. DOMAIN doubled = 0 .. n /\ doubled[0] = b /\ \A k \in 1 .. n : doubled[k] = Smaller(2 * doubled[k - 1], n)
    <3>1. 0 \in 0 .. n
      BY <1>1
    <3> QED BY <2>3, <2>6, <3>1
  <2>8. \A k \in 0 .. n : doubled[k] = g[k]
    <3> DEFINE T == {k \in 0 .. n : doubled[k] = g[k]}
    <3>1. 0 \in T
      BY <1>1, <2>2, <2>7
    <3>2. ASSUME NEW k \in T, k < n PROVE k + 1 \in T
      <4>1. k + 1 \in 1 .. n /\ (k + 1) - 1 = k /\ k + 1 \in 0 .. n
        BY <1>1, <3>2
      <4> QED BY <2>4, <2>7, <4>1
    <3> HIDE DEF T
    <3>3. T \in SUBSET (0 .. n)
      BY DEF T
    <3>4. T = 0 .. n
      BY <1>1, <3>1, <3>2, <3>3, IntervalSet
    <3> QED BY <3>4 DEF T
  <2> QED BY <2>2, <2>6, <2>7, <2>8
<1> HIDE DEF doubled
<1>4. \A k \in 1 .. n : k - 1 \in 0 .. n /\ k \in 0 .. n /\ doubled[k] \in 0 .. n /\ doubled[k - 1] \in 0 .. n
  BY <1>1, <1>3
<1>5. \E k \in 1 .. n : ends(k)
  <2> SUFFICES ASSUME \A k \in 1 .. n : ~ends(k) PROVE FALSE
    OBVIOUS
  <2>1. \A k \in 1 .. n : doubled[k] # doubled[k - 1]
    OBVIOUS
  <2> DEFINE T == {k \in 0 .. n : doubled[k] >= k + 1}
  <2>2. 0 \in T
    <3>1. 1 \in 1 .. n /\ 1 - 1 = 0 /\ 0 \in 0 .. n
      BY <1>1
    <3>2. doubled[1] = Smaller(2 * doubled[0], n) /\ doubled[1] # doubled[0] /\ doubled[0] \in 0 .. n
      BY <1>3, <2>1, <3>1
    <3>3. doubled[0] # 0
      BY <1>1, <3>2 DEF Smaller
    <3> QED BY <3>1, <3>2, <3>3
  <2>3. ASSUME NEW k \in T, k < n PROVE k + 1 \in T
    <3>1. k + 1 \in 1 .. n /\ (k + 1) - 1 = k /\ k \in 0 .. n /\ doubled[k] >= k + 1
      BY <1>1, <2>3
    <3>2. doubled[k + 1] = Smaller(2 * doubled[k], n) /\ doubled[k + 1] # doubled[k] /\ doubled[k] \in 0 .. n /\ doubled[k + 1] \in 0 .. n
      BY <1>3, <1>4, <2>1, <3>1
    <3>3. doubled[k + 1] > doubled[k]
      BY <1>1, <3>1, <3>2 DEF Smaller
    <3>4. doubled[k + 1] >= (k + 1) + 1 /\ k + 1 \in 0 .. n
      BY <1>1, <3>1, <3>2, <3>3
    <3> QED BY <3>4
  <2>4. n \in T
    <3> HIDE DEF T
    <3>1. T \in SUBSET (0 .. n)
      BY DEF T
    <3>2. T = 0 .. n
      BY <1>1, <2>2, <2>3, <3>1, IntervalSet
    <3> QED BY <1>1, <3>2
  <2>5. doubled[n] \in 0 .. n /\ doubled[n] >= n + 1
    BY <1>1, <1>3, <2>4
  <2> QED BY <1>1, <2>5
<1> HIDE DEF ends
<1>6. rounds \in 1 .. n /\ Last(rounds)
  <2> DEFINE T == {k \in 1 .. n : ends(k)}
  <2>1. T \in SUBSET (1 .. n) /\ T # {}
    BY <1>5
  <2>2. PICK k \in T : \A j \in 1 .. k - 1 : j \notin T
    <3> HIDE DEF T
    <3> QED BY <1>1, <2>1, LeastOf
  <2>3. \A j \in 1 .. k - 1 : j \in 1 .. n
    BY <1>1, <2>2
  <2>4. k \in 1 .. n /\ Last(k)
    BY <2>2, <2>3
  <2> HIDE DEF Last
  <2> QED BY <2>4
<1> HIDE DEF rounds
<1>7. to \in 0 .. n /\ ends(rounds)
  BY <1>4, <1>6
<1>8. /\ IsSeq(left) /\ (\A s \in Seqs!ToSet(left) : RecordOK(s)) /\ Len(left) <= most - (most \div 8)
  <2>1. most - (most \div 8) >= 0
    OBVIOUS
  <2>2. CASE to = doubled[rounds - 1]
    <3>1. left = << >>
      BY <2>2
    <3> HIDE DEF left
    <3> QED BY <2>1, <3>1, NothingIn
  <2>3. CASE to # doubled[rounds - 1]
    <3>1. left = Kept(mm, to) /\ Len(Kept(mm, to)) <= most - (most \div 8)
      BY <1>7, <2>3 DEF ends
    <3>2. IsSeq(Kept(mm, to)) /\ Seqs!ToSet(Kept(mm, to)) \subseteq Seqs!ToSet(mm)
      BY Kept2 DEF Kept
    <3> HIDE DEF left
    <3> QED BY <3>1, <3>2
  <2> QED BY <2>2, <2>3
<1>9. ASSUME b = 0 PROVE to = 0 /\ left = << >>
  <2> DEFINE T == {k \in 0 .. n : doubled[k] = 0}
  <2>1. 0 \in T
    BY <1>1, <1>3, <1>9
  <2>2. ASSUME NEW k \in T, k < n PROVE k + 1 \in T
    <3>1. k + 1 \in 1 .. n /\ (k + 1) - 1 = k /\ k + 1 \in 0 .. n /\ doubled[k] = 0
      BY <1>1, <2>2
    <3>2. doubled[k + 1] = 0
      BY <1>1, <1>3, <3>1 DEF Smaller
    <3> QED BY <3>1, <3>2
  <2>3. T = 0 .. n
    <3> HIDE DEF T
    <3>1. T \in SUBSET (0 .. n)
      BY DEF T
    <3> QED BY <1>1, <2>1, <2>2, <3>1, IntervalSet
  <2>4. doubled[rounds] = 0 /\ doubled[rounds - 1] = 0
    BY <1>4, <1>6, <2>3
  <2> QED BY <2>4
<1> HIDE DEF to, left
<1> QED BY <1>2, <1>7, <1>8, <1>9
(***************************************************************************)
(* The table of a search, and the frames over its forks.                   *)
(***************************************************************************)
MemoIs(mm, b) ==
    /\ IsSeq(mm) /\ (\A s \in Seqs!ToSet(mm) : RecordOK(s))
    /\ Len(mm) <= P.memo_cap + SpareRecords(P)
    /\ b \in 0 .. TopBar /\ (P.first_bar = 0 => b = 0)
FrameOK(f) == "opened" \in DOMAIN f /\ f.opened \in 0 .. items
FramesAre(fs) == IsSeq(fs) /\ Len(fs) > 0 /\ \A f \in Seqs!ToSet(fs) : FrameOK(f)

\* A frame that leaves its record keeps the table within its cap, but for the one record too many of
\* a table with no eighth to free.
LEMMA RecordedOK ==
    ASSUME ProblemOK(P), Remembers, items \in Nat, NEW f, FrameOK(f), NEW mm, NEW b, MemoIs(mm, b)
    PROVE  MemoIs(Recorded(f, mm, b).memo, Recorded(f, mm, b).bar)
<1> DEFINE most == P.memo_cap
           r == RecordOf(f)
           worth == ~f.champion /\ f.recordable
           full == Len(mm) >= most
           room == IF worth /\ r.benefit >= b /\ full THEN Purge(mm, b, most) ELSE [memo |-> mm, bar |-> b]
           left == Recorded(f, mm, b)
<1>1. most \in Nat \ {0} /\ TopBar \in Nat
  <2>1. most \in Nat
    BY Zenon DEF ProblemOK
  <2> HIDE DEF most
  <2> QED BY <2>1, MemoAssumption DEF Remembers, most
<1>2. left = IF worth /\ r.benefit >= room.bar THEN [room EXCEPT !.memo = Insert(@, r)] ELSE room
  BY DEF Recorded
<1>3. RecordOK(r)
  <2>1. r.benefit = Smaller(items - f.opened, TopBar) /\ "benefit" \in DOMAIN r
    BY DEF RecordOf
  <2> HIDE DEF r
  <2> QED BY <1>1, <2>1 DEF RecordOK, FrameOK, Smaller
<1>4. Len(mm) \in Nat /\ b \in 0 .. TopBar
  BY Elements DEF MemoIs
<1>5. r.benefit \in Nat
  BY <1>1, <1>3 DEF RecordOK
<1> HIDE DEF left
<1>6. CASE worth /\ r.benefit >= b /\ full
  <2> DEFINE purged == Purge(mm, b, most)
  <2>1. /\ IsSeq(purged.memo) /\ (\A s \in Seqs!ToSet(purged.memo) : RecordOK(s))
        /\ Len(purged.memo) <= most - (most \div 8) /\ purged.bar \in 0 .. TopBar
        /\ (b = 0 => purged.bar = 0 /\ purged.memo = << >>)
    <3>1. most \in Nat /\ b \in 0 .. TopBar /\ IsSeq(mm) /\ \A s \in Seqs!ToSet(mm) : RecordOK(s)
      BY <1>1 DEF MemoIs
    <3> HIDE DEF most
    <3> QED BY <3>1, PurgeOK
  <2>2. DOMAIN purged = {"bar", "memo"}
    BY DEF Purge
  <2>3. room = purged
    BY <1>6
  <2> DEFINE ins == Insert(purged.memo, r)
  <2>4. left \in {purged, [purged EXCEPT !.memo = ins]}
    BY <1>2, <2>3, Zenon
  <2>5. IsSeq(ins) /\ Len(ins) <= Len(purged.memo) + 1 /\ (\A s \in Seqs!ToSet(ins) : RecordOK(s))
    <3> HIDE DEF purged, r
    <3> QED BY <1>3, <2>1, InsertOK
  <2>6. left.bar = purged.bar /\ left.memo \in {purged.memo, ins}
    <3> HIDE DEF purged, ins
    <3> QED BY <2>2, <2>4
  <2>7. Len(purged.memo) \in Nat /\ Len(ins) \in Nat
    <3> HIDE DEF purged, ins
    <3> QED BY <2>1, <2>5, Elements
  <2> HIDE DEF purged, ins, left, most
  <2>8. P.first_bar = 0 => b = 0 /\ Len(purged.memo) = 0
    BY <2>1 DEF MemoIs
  <2>9. SpareRecords(P) \in {0, 1} /\ (most < 8 /\ P.first_bar > 0 => SpareRecords(P) = 1)
    BY DEF SpareRecords, most
  <2>10. P.first_bar \in Nat
    <3>1. P.first_bar \in 0 .. TopBar
      BY Zenon DEF ProblemOK
    <3> QED BY <1>1, <3>1
  <2>11. Len(left.memo) <= most + SpareRecords(P)
    <3>1. Len(left.memo) <= Len(purged.memo) + 1 /\ Len(left.memo) \in Nat
      BY <2>5, <2>6, <2>7
    <3> DEFINE e == most \div 8
    <3>5. e \in Nat /\ (most >= 8 => e >= 1) /\ Len(purged.memo) <= most - e
      <4>1. e \in Nat /\ (most >= 8 => e >= 1)
        <5> DEFINE n == most
        <5>1. n \in Nat /\ e = n \div 8
          BY <1>1
        <5> HIDE DEF n, e
        <5>2. n >= 8 => e >= 1
          BY <5>1
        <5>3. e \in Nat
          BY <5>1
        <5> QED BY <5>2, <5>3 DEF n
      <4> QED BY <2>1, <4>1
    <3> HIDE DEF e
    <3>2. CASE most >= 8
      BY <1>1, <2>7, <2>9, <3>1, <3>2, <3>5
    <3>3. CASE most < 8 /\ P.first_bar > 0
      BY <1>1, <2>7, <2>9, <3>1, <3>3, <3>5
    <3>4. CASE P.first_bar = 0
      BY <1>1, <2>7, <2>8, <2>9, <3>1, <3>4
    <3> QED BY <1>1, <2>10, <3>2, <3>3, <3>4
  <2>12. MemoIs(left.memo, left.bar)
    <3>1. IsSeq(left.memo) /\ (\A s \in Seqs!ToSet(left.memo) : RecordOK(s))
      BY <2>1, <2>5, <2>6
    <3> QED BY <2>1, <2>6, <2>8, <2>11, <3>1 DEF MemoIs, most
  <2> QED BY <2>12 DEF left
<1>7. CASE ~(worth /\ r.benefit >= b /\ full)
  <2>1. room = [memo |-> mm, bar |-> b]
    BY <1>7
  <2> DEFINE ins == Insert(mm, r)
  <2>2. left.bar = b /\ (left.memo = mm \/ (left.memo = ins /\ ~full))
    <3> HIDE DEF worth, r, full, ins
    <3>1. left = [memo |-> mm, bar |-> b] \/ (worth /\ r.benefit >= b /\ left = [memo |-> ins, bar |-> b])
      BY <1>2, <2>1 DEF ins
    <3> QED BY <1>7, <3>1
  <2>3. IsSeq(ins) /\ Len(ins) <= Len(mm) + 1 /\ (\A s \in Seqs!ToSet(ins) : RecordOK(s))
    <3> HIDE DEF r
    <3> QED BY <1>3, InsertOK DEF MemoIs
  <2>4. Len(ins) \in Nat /\ SpareRecords(P) \in {0, 1}
    <3> HIDE DEF ins
    <3> QED BY <2>3, Elements DEF SpareRecords
  <2> HIDE DEF ins, left, most
  <2>5. ~full => Len(ins) <= most + SpareRecords(P)
    BY <1>1, <1>4, <2>3, <2>4
  <2>6. MemoIs(left.memo, left.bar)
    <3>1. CASE left.memo = mm
      BY <2>2, <3>1 DEF MemoIs
    <3>2. CASE left.memo = ins /\ ~full
      <4> HIDE DEF full
      <4> QED BY <2>2, <2>3, <2>5, <3>2 DEF MemoIs, most
    <3> QED BY <2>2, <3>1, <3>2
  <2> QED BY <2>6 DEF left
<1> QED BY <1>6, <1>7 DEF left
\* What is charged to a frame does not change when it was opened.
LEMMA MergedOK ==
    ASSUME NEW f, FrameOK(f), NEW consulted, NEW reads PROVE FrameOK(Merged(f, consulted, reads))
BY DEF Merged, FrameOK

\* The top frame is replaced by a frame.
LEMMA TopOK ==
    ASSUME NEW fs, FramesAre(fs), NEW f, FrameOK(f)
    PROVE  FramesAre(WithTop(fs, f)) /\ Len(WithTop(fs, f)) = Len(fs)
<1> DEFINE n == Len(fs)
           c == [fs EXCEPT ![n] = f]
<1>1. IsSeq(fs) /\ n \in DOMAIN fs /\ n > 0
  BY Elements DEF FramesAre
<1>2. WithTop(fs, f) = c
  BY DEF WithTop
<1>3. IsSeq(c) /\ Len(c) = Len(fs) /\ Seqs!ToSet(c) \subseteq Seqs!ToSet(fs) \cup {f}
  <2> HIDE DEF n
  <2> QED BY <1>1, Replaced
<1> HIDE DEF c
<1> QED BY <1>1, <1>2, <1>3 DEF FramesAre

\* The top frame is a frame.
LEMMA LastFrame ==
    ASSUME NEW fs, FramesAre(fs) PROVE FrameOK(fs[Len(fs)]) /\ Len(fs) \in Nat
<1>1. Len(fs) \in Nat /\ DOMAIN fs = 1 .. Len(fs) /\ \A i \in DOMAIN fs : fs[i] \in Seqs!ToSet(fs)
  BY Elements DEF FramesAre
<1> QED BY <1>1 DEF FramesAre

TableOK(t) == FramesAre(t.frames) /\ MemoIs(t.memo, t.bar)

\* A frame whose last child is done leaves its record, and its parent in its place.
LEMMA PropagatedOK ==
    ASSUME ProblemOK(P), Remembers, items \in Nat, NEW t, TableOK(t)
    PROVE  TableOK(Propagated(t))
<1> DEFINE n == Len(t.frames)
           f == t.frames[n]
           rest == SubSeq(t.frames, 1, n - 1)
           kept == Recorded(f, t.memo, t.bar)
           m == Len(rest)
           top == ChildDone(Inherits(rest[m], f), f.champion)
<1>1. Propagated(t) = IF f.left > 0 \/ n = 1 THEN t
                      ELSE [frames |-> WithTop(rest, top), memo |-> kept.memo, bar |-> kept.bar]
  BY DEF Propagated
<1>2. FramesAre(t.frames) /\ n \in Nat /\ n > 0 /\ FrameOK(f) /\ MemoIs(t.memo, t.bar)
  BY LastFrame DEF TableOK, FramesAre
<1>3. CASE f.left > 0 \/ n = 1
  <2>1. Propagated(t) = t
    BY <1>1, <1>3, Zenon
  <2> QED BY <2>1
<1>4. CASE ~(f.left > 0 \/ n = 1)
  <2>1. MemoIs(kept.memo, kept.bar)
    <3> HIDE DEF f
    <3> QED BY <1>2, RecordedOK
  <2>2. FramesAre(rest)
    <3>1. n - 1 \in Int /\ n - 1 <= n /\ n - 1 > 0 /\ IsSeq(t.frames)
      <4>1. IsSeq(t.frames)
        BY <1>2 DEF FramesAre
      <4>2. n # 1
        BY <1>4
      <4> HIDE DEF n
      <4>3. n \in Nat /\ n > 0
        BY <1>2
      <4> QED BY <4>1, <4>2, <4>3
    <3>2. IsSeq(rest) /\ Len(rest) = n - 1 /\ Seqs!ToSet(rest) \subseteq Seqs!ToSet(t.frames)
      <4>1. n - 1 \in Int /\ n - 1 <= Len(t.frames) /\ n - 1 >= 0
        BY <3>1
      <4> DEFINE k == n - 1
      <4>2. k \in Int /\ k <= Len(t.frames) /\ k >= 0 /\ rest = SubSeq(t.frames, 1, k)
        BY <4>1
      <4> HIDE DEF k, rest
      <4>3. IsSeq(rest) /\ Len(rest) = k /\ Seqs!ToSet(rest) \subseteq Seqs!ToSet(t.frames)
        BY <3>1, <4>2, Shortened
      <4> QED BY <4>3 DEF k
    <3> HIDE DEF rest
    <3> QED BY <1>2, <3>1, <3>2 DEF FramesAre
  <2> HIDE DEF rest, f
  <2>3. FrameOK(top)
    <3>1. FrameOK(rest[m])
      BY <2>2, LastFrame
    <3> DEFINE x == Inherits(rest[m], f)
    <3>2. FrameOK(x)
      <4>1. \A c, r : FrameOK(Merged(rest[m], c, r))
        BY <3>1, MergedOK
      <4> QED BY <4>1 DEF Inherits, FrameOK
    <3> HIDE DEF x
    <3>3. FrameOK(ChildDone(x, f.champion))
      BY <3>2 DEF ChildDone, FrameOK
    <3> QED BY <3>3 DEF x
  <2> HIDE DEF top, kept
  <2>4. FramesAre(WithTop(rest, top))
    BY <2>2, <2>3, TopOK
  <2> QED BY <1>1, <1>4, <2>1, <2>4 DEF TableOK
<1> QED BY <1>3, <1>4

\* An item that ends closes every frame that it was the last child of.
LEMMA ClosedOK ==
    ASSUME ProblemOK(P), Remembers, items \in Nat, NEW fs, FramesAre(fs), NEW mm, NEW b, MemoIs(mm, b), NEW champion
    PROVE  TableOK(Closed(fs, mm, b, champion))
<1> DEFINE n == Len(fs)
           t0 == [frames |-> WithTop(fs, ChildDone(fs[Len(fs)], champion)), memo |-> mm, bar |-> b]
           Eq(g) == g = [k \in 0 .. n |-> IF k = 0 THEN t0 ELSE Propagated(g[k - 1])]
           closed == CHOOSE g : Eq(g)
<1>1. Closed(fs, mm, b, champion) = closed[n]
  BY DEF Closed
<1>2. n \in Nat /\ TableOK(t0)
  <2>1. n \in Nat /\ FrameOK(fs[Len(fs)])
    BY LastFrame
  <2>2. FrameOK(ChildDone(fs[Len(fs)], champion))
    BY <2>1 DEF ChildDone, FrameOK
  <2> DEFINE top == ChildDone(fs[Len(fs)], champion)
  <2> HIDE DEF top
  <2>3. FramesAre(WithTop(fs, top))
    BY <2>2, TopOK DEF top
  <2> QED BY <2>1, <2>3 DEF TableOK, top
<1> HIDE DEF t0, n
<1> DEFINE Upto(k, g) == DOMAIN g = 0 .. k /\ g[0] = t0 /\ \A j \in 1 .. k : g[j] = Propagated(g[j - 1])
           T == {k \in 0 .. n : \E g : Upto(k, g)}
<1>3. T = 0 .. n
  <2>1. 0 \in T
    <3> DEFINE g == [j \in 0 .. 0 |-> t0]
    <3>1. Upto(0, g)
      OBVIOUS
    <3> HIDE DEF Upto
    <3>2. \E h : Upto(0, h)
      BY <3>1
    <3> QED BY <1>2, <3>2
  <2>2. ASSUME NEW k \in T, k < n PROVE k + 1 \in T
    <3>1. k \in 0 .. n /\ k + 1 \in 0 .. n
      BY <1>2, <2>2
    <3>2. PICK g : Upto(k, g)
      BY <2>2, Zenon
    <3> DEFINE h == [j \in 0 .. k + 1 |-> IF j = k + 1 THEN Propagated(g[k]) ELSE g[j]]
    <3>3. DOMAIN h = 0 .. k + 1 /\ h[0] = t0
      BY <3>1, <3>2
    <3>4. ASSUME NEW j \in 1 .. k + 1 PROVE h[j] = Propagated(h[j - 1])
      <4>1. j - 1 \in 0 .. k + 1 /\ j - 1 # k + 1 /\ j \in 0 .. k + 1
        BY <3>1
      <4>2. h[j - 1] = g[j - 1]
        BY <4>1
      <4>3. CASE j = k + 1
        <5>1. j - 1 = k /\ h[j] = Propagated(g[k])
          BY <3>1, <4>1, <4>3
        <5> HIDE DEF h
        <5> QED BY <4>2, <5>1
      <4>4. CASE j # k + 1
        <5>1. j \in 1 .. k /\ h[j] = g[j]
          BY <3>1, <4>1, <4>4
        <5>2. g[j] = Propagated(g[j - 1])
          BY <3>2, <5>1
        <5> HIDE DEF h
        <5> QED BY <4>2, <5>1, <5>2
      <4> QED BY <4>3, <4>4
    <3> HIDE DEF h
    <3>5. \E x : Upto(k + 1, x)
      BY <3>3, <3>4
    <3> HIDE DEF Upto
    <3> QED BY <3>1, <3>5
  <2> HIDE DEF T
  <2>3. T \in SUBSET (0 .. n)
    BY DEF T
  <2> QED BY <1>2, <2>1, <2>2, <2>3, IntervalSet
<1>4. PICK g : Upto(n, g)
  <2>1. n \in T
    BY <1>2, <1>3
  <2> QED BY <2>1, Zenon
<1>5. Eq(closed)
  <2>1. DOMAIN g = 0 .. n /\ g[0] = t0 /\ \A j \in 1 .. n : g[j] = Propagated(g[j - 1])
    BY <1>4
  <2> DEFINE h == [j \in 0 .. n |-> g[j]]
  <2>2. \A j \in 0 .. n : (j = 0 \/ (j \in 1 .. n /\ j - 1 \in 0 .. n)) /\ h[j] = g[j]
    BY <1>2
  <2>3. \A j \in 0 .. n : h[j] = IF j = 0 THEN t0 ELSE Propagated(h[j - 1])
    <3> HIDE DEF h
    <3> QED BY <2>1, <2>2
  <2>4. Eq(h)
    <3>1. h = [j \in 0 .. n |-> h[j]]
      OBVIOUS
    <3> HIDE DEF h
    <3> QED BY <2>3, <3>1
  <2> HIDE DEF Eq, h
  <2> QED BY <2>4
<1> HIDE DEF closed
<1>6. closed[0] = t0 /\ \A k \in 1 .. n : closed[k] = Propagated(closed[k - 1])
  <2>1. 0 \in 0 .. n /\ \A k \in 1 .. n : k \in 0 .. n /\ k # 0
    BY <1>2
  <2> QED BY <1>5, <2>1
<1>7. \A k \in 0 .. n : TableOK(closed[k])
  <2> DEFINE U == {k \in 0 .. n : TableOK(closed[k])}
  <2>1. 0 \in U
    BY <1>2, <1>6
  <2>2. ASSUME NEW k \in U, k < n PROVE k + 1 \in U
    <3>1. k + 1 \in 1 .. n /\ (k + 1) - 1 = k /\ k + 1 \in 0 .. n
      BY <1>2, <2>2
    <3>2. closed[k + 1] = Propagated(closed[k]) /\ TableOK(closed[k])
      BY <1>6, <3>1
    <3>3. TableOK(Propagated(closed[k]))
      BY <3>2, PropagatedOK
    <3> QED BY <3>1, <3>2, <3>3
  <2> HIDE DEF U
  <2>3. U \in SUBSET (0 .. n)
    BY DEF U
  <2>4. U = 0 .. n
    BY <1>2, <2>1, <2>2, <2>3, IntervalSet
  <2> QED BY <2>4 DEF U
<1> QED BY <1>1, <1>2, <1>7
\* What a search keeps of what is done.
Books == items \in Nat /\ FramesAre(frames) /\ MemoIs(memo, bar)
\* A step leaves them in order (read in the state that it starts in).
Booked == FramesAre(frames') /\ MemoIs(memo', bar')

\* Closing leaves a table of records and frames (close_child).
LEMMA CloseOK ==
    ASSUME ProblemOK(P), Books, NEW fs, FramesAre(fs), NEW champion, Close(fs, champion) PROVE Booked
<1> DEFINE t == Closed(fs, memo, bar, champion)
<1>1. CASE Remembers
  <2>1. frames' = t.frames /\ memo' = t.memo /\ bar' = t.bar
    BY <1>1, Zenon DEF Close
  <2>2. TableOK(t)
    BY <1>1, ClosedOK DEF Books
  <2> HIDE DEF t
  <2> QED BY <2>1, <2>2 DEF TableOK, Booked
<1>2. CASE ~Remembers
  <2>1. frames' = frames /\ memo' = memo /\ bar' = bar
    BY <1>2 DEF Close
  <2> QED BY <2>1 DEF Books, Booked
<1> QED BY <1>1, <1>2

\* Charging what a segment consulted leaves frames.
LEMMA ChargedOK ==
    ASSUME Books, NEW it, NEW seg PROVE FramesAre(Charged(it, seg))
<1> DEFINE f == Merged(frames[Len(frames)], ValuesOf(it.words, Flush(seg).fields), seg.reads)
<1>1. FrameOK(f)
  <2>1. FrameOK(frames[Len(frames)])
    BY LastFrame DEF Books
  <2> QED BY <2>1, MergedOK
<1>2. Charged(it, seg) = WithTop(frames, f)
  BY DEF Charged
<1> HIDE DEF f
<1> QED BY <1>1, <1>2, TopOK DEF Books

\* An item that is refuted leaves the books in order ...
LEMMA RefuteBooked ==
    ASSUME ProblemOK(P), Books, NEW it, NEW seg, Refute(it, seg) PROVE Booked /\ items' = items
<1>1. Close(Charged(it, seg), FALSE) /\ items' = items
  BY Zenon DEF Refute
<1>2. FramesAre(Charged(it, seg))
  BY ChargedOK
<1> DEFINE fs == Charged(it, seg)
<1> HIDE DEF fs
<1> QED BY <1>1, <1>2, CloseOK DEF fs

\* ... and so does one that forks ...
LEMMA ForkBooked ==
    ASSUME ProblemOK(P), Books, NEW it, NEW seg, NEW children, NEW consulted, NEW reads, NEW bound,
           Fork(it, seg, children, consulted, reads, bound)
    PROVE  Booked /\ items' = items
<1> DEFINE fs == Charged(it, seg)
           f == FrameOf(it, Len(children), consulted, reads, bound \/ ~it.unbound, TRUE)
<1>1. memo' = memo /\ bar' = bar /\ items' = items /\ frames' = IF Remembers THEN Append(fs, f) ELSE frames
  BY Zenon DEF Fork
<1>2. FramesAre(fs)
  BY ChargedOK
<1>3. FrameOK(f)
  BY DEF FrameOf, FrameOK, Books
<1> HIDE DEF fs, f
<1>4. FramesAre(Append(fs, f))
  <2> DEFINE y == Append(fs, f)
  <2>1. IsSeq(y) /\ Len(y) = Len(fs) + 1 /\ Seqs!ToSet(y) = Seqs!ToSet(fs) \cup {f}
    BY <1>2, Appended DEF FramesAre
  <2>2. Len(fs) \in Nat
    BY <1>2, LastFrame
  <2> HIDE DEF y
  <2>3. FramesAre(y)
    BY <1>2, <1>3, <2>1, <2>2 DEF FramesAre
  <2> QED BY <2>3 DEF y
<1> QED BY <1>1, <1>4 DEF Books, Booked

\* ... or is split.
LEMMA SplitBooked ==
    ASSUME ProblemOK(P), Books, NEW it, NEW seg, NEW children, NEW consulted, NEW reads,
           Split(it, seg, children, consulted, reads)
    PROVE  Booked /\ items' = items
<1>1. Refute(it, seg) \/ Fork(it, seg, children, consulted, reads, FALSE)
  BY Zenon DEF Split
<1> QED BY <1>1, RefuteBooked, ForkBooked

\* No step of a search loses a frame, or lets the table grow past its cap.
LEMMA BooksNext ==
    ASSUME ProblemOK(P), P' = P, Books, SearchStep PROVE Books'
<1>1. ASSUME Booked, items' \in {items, items + 1} PROVE Books'
  <2>1. items' \in Nat /\ items' >= items
    BY <1>1 DEF Books
  <2>2. FramesAre(frames)'
    BY <1>1, <2>1 DEF Booked, FramesAre, FrameOK, Books
  <2>3. MemoIs(memo, bar)'
    <3>1. SpareRecords(P)' = SpareRecords(P)
      BY Zenon
    <3> QED BY <1>1, <3>1 DEF Booked, MemoIs
  <2> QED BY <2>1, <2>2, <2>3 DEF Books
<1>2. ASSUME UNCHANGED <<memo, bar, frames>> PROVE Booked
  BY <1>2 DEF Booked, Books
<1>3. CASE Pop
  BY <1>1, <1>2, <1>3, Zenon DEF Pop, Take
<1>4. CASE MemoHit
  <2>1. PICK i \in Hits : Close(WithTop(frames, Merged(frames[Len(frames)], Adopted(memo[i]), memo[i].reads)), FALSE)
    BY <1>4, Zenon DEF MemoHit
  <2>2. items' = items + 1
    BY <1>4, Zenon DEF MemoHit, Take
  <2> DEFINE f == Merged(frames[Len(frames)], Adopted(memo[i]), memo[i].reads)
             fs == WithTop(frames, f)
  <2>3. FrameOK(f)
    <3>1. FrameOK(frames[Len(frames)])
      BY LastFrame DEF Books
    <3> QED BY <3>1, MergedOK
  <2> HIDE DEF f
  <2>4. FramesAre(fs)
    BY <2>3, TopOK DEF Books
  <2>5. Close(fs, FALSE)
    BY <2>1, Zenon DEF f
  <2> HIDE DEF fs
  <2>6. Booked
    BY <2>4, <2>5, CloseOK
  <2> QED BY <1>1, <2>2, <2>6
<1>5. CASE \E after \in {Stepped(It)} : \E edge \in {Edge(It, after)} : RunCycle(edge, after)
  <2>1. PICK after, edge : RunCycle(edge, after)
    BY <1>5, Zenon
  <2> SUFFICES Booked /\ items' = items
    BY <1>1
  <2>2. CASE Finish
    <3> DEFINE fs == Charged(It, Seg)
    <3>1. Close(fs, TRUE) /\ items' = items
      BY <2>2, Zenon DEF Finish
    <3>2. FramesAre(fs)
      BY ChargedOK
    <3> HIDE DEF fs
    <3> QED BY <3>1, <3>2, CloseOK
  <2>3. CASE LeaveFootprint \/ Mismatch
    BY <2>3, RefuteBooked DEF LeaveFootprint, Mismatch
  <2>4. ASSUME NEW f, NEW allowed, NEW same, NEW all, Partition(f, allowed, same, all) PROVE Booked /\ items' = items
    <3>1. PICK seg, children, consulted, reads : Split(It, seg, children, consulted, reads)
      BY <2>4, Zenon DEF Partition
    <3> QED BY <3>1, SplitBooked
  <2>5. CASE PartitionSide \/ PartitionWait
    BY <2>4, <2>5, Zenon DEF PartitionSide, PartitionWait
  <2>6. CASE ForkField \/ CollapseTag \/ ForkTarget
    <3>1. PICK seg, children, consulted, reads : Split(It, seg, children, consulted, reads)
      <4>1. CASE ForkField
        <5>1. PICK f, seg, distinct, kill : ForkOver(f, seg, distinct, kill)
          BY <4>1, Zenon DEF ForkField
        <5> QED BY <5>1, Zenon DEF ForkOver
      <4>2. CASE CollapseTag
        BY <4>2, Zenon DEF CollapseTag
      <4>3. CASE ForkTarget
        BY <4>3, Zenon DEF ForkTarget
      <4> QED BY <2>6, <4>1, <4>2, <4>3
    <3> QED BY <3>1, SplitBooked
  <2>7. CASE Bind
    <3>1. PICK it, seg, children, consulted, reads, bound : Fork(it, seg, children, consulted, reads, bound)
      BY <2>7, Zenon DEF Bind
    <3> QED BY <3>1, ForkBooked
  <2>8. CASE Step(after)
    BY <1>2, <2>8, Zenon DEF Step
  <2>9. CASE Delay(after)
    <3>1. \/ \E seg : Refute(It, seg)
          \/ \E it, seg, children, consulted, reads, bound : Fork(it, seg, children, consulted, reads, bound)
      BY <2>9, Zenon DEF Delay, JunkRefute, ForkDelay
    <3> QED BY <3>1, RefuteBooked, ForkBooked
  <2>10. \/ Finish \/ LeaveFootprint \/ PartitionSide \/ PartitionWait \/ ForkField \/ CollapseTag \/ ForkTarget
         \/ Bind \/ Mismatch \/ Step(after) \/ Delay(after)
    BY <2>1, Zenon DEF RunCycle
  <2> QED BY <2>2, <2>3, <2>5, <2>6, <2>7, <2>8, <2>9, <2>10
<1> QED BY <1>3, <1>4, <1>5, Zenon DEF SearchStep
\* Before the first search there is nothing to search, and no frame.
Ledger == items \in Nat /\ MemoIs(memo, bar) /\ (FramesAre(frames) \/ (frames = << >> /\ stack = << >> /\ ~Running))
Counts == /\ Len(champions) <= cap \/ phase = "done"
          /\ Len(settled) <= Len(units) /\ (phase = "unit" => Len(settled) < Len(units))
          /\ phase \in {"plan", "frontier"} => Len(settled) = 0
TypeInv == SearchOK /\ Ledger /\ Counts

\* An empty table is within its cap.
LEMMA EmptyMemo ==
    ASSUME ProblemOK(P), NEW b, b = 0 \/ b = P.first_bar PROVE MemoIs(<< >>, b)
<1>1. P.first_bar \in 0 .. TopBar /\ P.memo_cap \in Nat
  BY Zenon DEF ProblemOK
<1>2. SpareRecords(P) \in {0, 1} /\ TopBar \in Nat
  BY MemoAssumption DEF SpareRecords
<1> QED BY <1>1, <1>2, NothingIn DEF MemoIs

\* A search begins with an empty table, and one frame below its root.
LEMMA BeginsBooked ==
    ASSUME Posed, NEW h, NEW s, NEW c, Begins(h, s, c) PROVE Ledger'
<1>1. ProblemOK(P) /\ P' = P
  BY PosedOK, Zenon DEF Begins, P
<1>2. items' = 0 /\ memo' = << >> /\ bar' = P.first_bar
  BY Zenon DEF Begins
<1>3. MemoIs(memo', bar')
  BY <1>1, <1>2, EmptyMemo
<1>4. MemoIs(memo, bar)'
  <2>1. SpareRecords(P)' = SpareRecords(P)
    BY <1>1, Zenon
  <2> QED BY <1>1, <1>3, <2>1 DEF MemoIs
<1> DEFINE f == [FrameOf(Root(h, s), 1, << >>, {}, FALSE, FALSE) EXCEPT !.opened = 0]
<1>5. frames' = <<f>>
  BY Zenon DEF Begins
<1>6. "opened" \in DOMAIN f /\ f.opened = 0
  BY DEF FrameOf
<1> HIDE DEF f
<1>7. IsSeq(<<f>>) /\ Len(<<f>>) = 1 /\ Seqs!ToSet(<<f>>) = {f}
  BY OneIn
<1>8. FramesAre(frames)'
  BY <1>2, <1>5, <1>6, <1>7 DEF FramesAre, FrameOK
<1> QED BY <1>2, <1>4, <1>8 DEF Ledger

\* A step of the search keeps the champions within their cap.
LEMMA CapKept ==
    ASSUME Posed, Working, AllChampions(champions), Len(champions) <= cap, SearchStep
    PROVE  Len(champions') <= cap' /\ P' = P
<1>1. ProblemOK(P) /\ horizon \in Nat /\ cap \in Nat /\ (Running => ItemOK(P, It))
  BY PosedOK DEF Posed, Working
<1>2. UNCHANGED fixed /\ (champions' = champions \/ Wins(It))
  BY <1>1, StepKinds DEF Takes, Ends, Forks, Goes, Wins
<1>3. Len(champions) \in Nat
  BY Elements DEF AllChampions
<1>4. cap' = cap /\ problem' = problem
  BY <1>2 DEF fixed
<1>5. CASE champions' = champions
  BY <1>4, <1>5 DEF P
<1>6. CASE Wins(It)
  <2> DEFINE c == [words |-> It.words, free |-> It.unbound, constraints |-> It.constraints]
             more == Append(champions, c)
  <2>1. champions' = champions \/ (Len(champions) < cap /\ champions' = more)
    BY <1>6, Zenon DEF Wins
  <2>2. Len(more) = Len(champions) + 1
    <3> HIDE DEF c
    <3> QED BY Appended DEF AllChampions
  <2> HIDE DEF more
  <2> QED BY <1>1, <1>3, <1>4, <2>1, <2>2 DEF P
<1> QED BY <1>2, <1>5, <1>6

\* The books are in order at first.
LEMMA TypeInit == Init => TypeInv
<1> SUFFICES ASSUME Init PROVE TypeInv
  OBVIOUS
<1>1. SearchOK
  BY SearchInit
<1>2. ProblemOK(P)
  BY <1>1, PosedOK DEF SearchOK
<1>3. MemoIs(<< >>, 0)
  BY <1>2, EmptyMemo
<1>4. /\ items = 0 /\ memo = << >> /\ bar = 0 /\ frames = << >> /\ stack = << >> /\ run = NoRun /\ champions = << >>
      /\ cap = 0 /\ phase = "plan" /\ settled = << >> /\ units = << >>
  BY DEF Init
<1>5. Ledger
  BY <1>3, <1>4 DEF Ledger, Running
<1>6. Counts
  BY <1>4, NothingIn DEF Counts
<1> QED BY <1>1, <1>5, <1>6 DEF TypeInv

\* Every step keeps the books in order and the counts within their bounds.
LEMMA TypeNext == TypeInv /\ [Next]_vars => TypeInv'
<1> SUFFICES ASSUME TypeInv, [Next]_vars PROVE TypeInv'
  OBVIOUS
<1>1. /\ Posed /\ AllItems /\ Working /\ AllChampions(champions) /\ AllUnits /\ AllSettled /\ Planned
      /\ ProblemOK(P) /\ SearchOK /\ Ledger /\ Counts
  BY PosedOK DEF SearchOK, TypeInv
<1>2. SearchOK'
  BY <1>1, SearchNext
<1>3. Len(settled) \in Nat /\ Len(units) \in Nat /\ Len(champions) \in Nat /\ cap \in Nat
  BY <1>1, Elements DEF AllSettled, AllUnits, AllChampions, Posed
<1>4. SUFFICES Ledger' /\ Counts'
  BY <1>2 DEF TypeInv
\* A search begins.
<1>5. ASSUME NEW h, NEW s, NEW c, Begins(h, s, c), UNCHANGED <<units, settled>>,
             phase' = "unit" => Len(settled) < Len(units), phase' \in {"plan", "frontier"} => Len(settled) = 0
      PROVE  Ledger' /\ Counts'
  <2>1. champions' = << >>
    BY <1>5, Zenon DEF Begins
  <2>2. cap' \in Nat
    BY <1>2 DEF SearchOK, Posed
  <2>3. Counts'
    BY <1>1, <1>3, <1>5, <2>1, <2>2, NothingIn DEF Counts
  <2> QED BY <1>1, <1>5, <2>3, BeginsBooked
<1>6. CASE SearchWhole
  <2>1. Begins(P.cycles, P.seed, P.champion_cap) /\ phase' = "whole" /\ UNCHANGED <<units, settled>>
    BY <1>6 DEF SearchWhole
  <2> QED BY <1>5, <2>1
<1>7. CASE SearchPrefix
  <2>1. Begins(prefix, P.seed, P.frontier_cap) /\ phase = "plan" /\ phase' = "frontier" /\ UNCHANGED <<units, settled>>
    BY <1>7 DEF SearchPrefix
  <2>2. Len(settled) = 0
    BY <1>1, <2>1 DEF Counts
  <2> QED BY <1>5, <2>1, <2>2
<1>8. CASE SearchUnit
  <2> DEFINE s == units[Len(settled) + 1]
  <2>1. Begins(P.cycles, s, P.champion_cap) /\ phase' = "unit" /\ Len(settled) < Len(units) /\ UNCHANGED <<units, settled>>
    BY <1>8 DEF SearchUnit
  <2> HIDE DEF s
  <2> QED BY <1>5, <2>1
\* A step of it.
<1>9. CASE Explore
  <2>1. SearchStep /\ phase' = phase /\ settled' = settled /\ units' = units /\ phase \in {"frontier", "whole", "unit"}
    BY <1>9 DEF Explore, splitVars
  <2>2. Len(champions) <= cap
    BY <1>1, <2>1 DEF Counts
  <2>3. Len(champions') <= cap' /\ P' = P
    BY <1>1, <2>1, <2>2, CapKept
  <2>4. stack # << >> \/ Running
    BY <2>1, Zenon DEF SearchStep, Pop, MemoHit, Take
  <2>5. Books'
    <3>1. Books
      BY <1>1, <2>4 DEF Ledger, Books
    <3> QED BY <1>1, <2>1, <2>3, <3>1, BooksNext
  <2> QED BY <1>1, <2>1, <2>3, <2>5 DEF Ledger, Books, Counts
\* The driver's own steps.
<1>10. ASSUME UNCHANGED <<name, problem, memo, bar, frames, items, stack, run>> PROVE Ledger'
  <2>1. P' = P /\ memo' = memo /\ bar' = bar /\ frames' = frames /\ items' = items /\ stack' = stack /\ run' = run
    BY <1>10 DEF P
  <2>2. SpareRecords(P)' = SpareRecords(P)
    BY <2>1, Zenon
  <2>3. MemoIs(memo, bar)'
    BY <1>1, <2>1, <2>2 DEF Ledger, MemoIs
  <2>4. FramesAre(frames)' <=> FramesAre(frames)
    BY <2>1 DEF FramesAre, FrameOK
  <2>5. Running' <=> Running
    BY <2>1 DEF Running, NoRun
  <2> QED BY <1>1, <2>1, <2>3, <2>4, <2>5 DEF Ledger
<1>11. ASSUME UNCHANGED searchVars PROVE Ledger' /\ champions' = champions /\ cap' = cap
  BY <1>10, <1>11 DEF searchVars
<1>12. CASE PlanUnits
  <2>1. phase = "frontier" /\ phase' \in {"panic", "units"} /\ settled' = settled /\ UNCHANGED searchVars
    BY <1>12 DEF PlanUnits
  <2>2. Len(units') \in Nat
    BY <1>2, Elements DEF SearchOK, AllUnits
  <2>3. Len(settled) = 0 /\ Len(champions) <= cap
    BY <1>1, <2>1 DEF Counts
  <2>4. Ledger' /\ champions' = champions /\ cap' = cap
    BY <1>11, <2>1
  <2> QED BY <2>1, <2>2, <2>3, <2>4 DEF Counts
<1>13. CASE Widen
  <2>1. phase = "frontier" /\ phase' = "plan" /\ settled' = settled /\ units' = units /\ UNCHANGED searchVars
    BY <1>13 DEF Widen
  <2> QED BY <1>1, <1>11, <2>1 DEF Counts
<1>14. CASE RefuteAll \/ Conclude
  <2>1. phase' = "done" /\ settled' = settled /\ units' = units /\ UNCHANGED searchVars
    BY <1>14 DEF RefuteAll, Conclude
  <2> QED BY <1>1, <1>11, <2>1 DEF Counts
<1>15. CASE SettleUnit
  <2> DEFINE o == Outcome
  <2>1. phase = "unit" /\ phase' = "units" /\ settled' = Append(settled, o) /\ units' = units /\ UNCHANGED searchVars
    BY <1>15 DEF SettleUnit
  <2> HIDE DEF o
  <2>2. Len(Append(settled, o)) = Len(settled) + 1
    BY <1>1, Appended DEF AllSettled
  <2>3. Len(settled') <= Len(units')
    BY <1>1, <1>3, <2>1, <2>2 DEF Counts
  <2> QED BY <1>1, <1>11, <2>1, <2>3 DEF Counts
<1>16. CASE Merge
  <2>1. phase' = "done" /\ UNCHANGED <<fixed, stack, run, memo, bar, frames, items, units, settled>>
    BY <1>16, Zenon DEF Merge
  <2>2. name' = name /\ problem' = problem
    BY <2>1 DEF fixed
  <2> QED BY <1>1, <1>10, <2>1, <2>2 DEF Counts
<1>17. CASE Rest \/ UNCHANGED vars
  <2>1. UNCHANGED vars
    BY <1>17 DEF Rest
  <2>2. UNCHANGED searchVars /\ phase' = phase /\ settled' = settled /\ units' = units
    BY <2>1 DEF vars, splitVars
  <2> QED BY <1>1, <1>11, <2>2 DEF Counts
<1> QED BY <1>6, <1>7, <1>8, <1>9, <1>12, <1>13, <1>14, <1>15, <1>16, <1>17 DEF Next

\* The memo never holds more records than its cap - one more in a table too small to be purged by an
\* eighth - and no item is taken without a frame to charge it to; no unit settles that was not
\* planned, and no search keeps more champions than it was told to (Memo::insert and Memo::purge,
\* engine.rs, and search_split).
THEOREM SearchTypeOK == Spec => []TypeOK
<1>1. Init => TypeInv
  BY TypeInit
<1>2. TypeInv /\ [Next]_vars => TypeInv'
  BY TypeNext
<1>3. TypeInv => TypeOK
  <2> SUFFICES ASSUME TypeInv PROVE TypeOK
    OBVIOUS
  <2>1. problem = Problems[name] /\ phase \in {"plan", "frontier", "units", "unit", "whole", "panic", "done"}
        /\ prefix \in 1 .. P.cycles + P.cycles \div 2
    BY DEF TypeInv, SearchOK, Posed, Planned
  <2>2. Len(settled) <= Len(units) /\ (Len(champions) <= cap \/ phase = "done")
    BY DEF TypeInv, Counts
  <2>3. Len(memo) <= P.memo_cap + SpareRecords(P)
    BY DEF TypeInv, Ledger, MemoIs
  <2>4. stack # << >> => frames # << >>
    BY NothingIn DEF TypeInv, Ledger, FramesAre
  <2> QED BY <2>1, <2>2, <2>3, <2>4, Zenon DEF TypeOK
<1> QED BY <1>1, <1>2, <1>3, PTL DEF Spec
(***************************************************************************)
(* No program belongs to two units.  What an item stands for is its card:  *)
(* what a champion is made of.  A program is had by a card when the card's *)
(* decided fields and constraints admit it; a free card stands for the     *)
(* mirror images of what it has, too.                                      *)
(***************************************************************************)
Own == 0 .. P.slots - 1
Visible(f) == f = "side" => HasSide
Has(c, q) ==
    /\ DOMAIN q = Own
    /\ \A i \in Own :
          /\ \A f \in DOMAIN c.words[i] : Visible(f) => f \in DOMAIN q[i] /\ q[i][f] = c.words[i][f]
          /\ \A k \in DOMAIN c.constraints :
                c.constraints[k].slot = i => /\ c.constraints[k].field \in DOMAIN q[i]
                                             /\ q[i][c.constraints[k].field] \in c.constraints[k].allowed
Both(c) == \E i \in Own : Get(c.words[i], "cond", "always") = "x!=y"
CardOf(it) == [words |-> it.words, free |-> it.unbound, constraints |-> it.constraints]

\* Two cards keep clear of one another: they have no program in common, and neither has the mirror
\* image of a program of the other where that would count - unless both name both registers at once.
Meets(a, b, q) == Has(a, q) /\ Has(b, q)
Crosses(a, b, q) == (a.free \/ b.free) /\ ((Has(a, q) /\ Has(b, MirrorProgram(q))) \/ (Has(a, MirrorProgram(q)) /\ Has(b, q)))
Clear(a, b) == (Both(a) /\ Both(b)) \/ \A q : ~Meets(a, b, q) /\ ~Crosses(a, b, q)

\* Every program of b is one of a, or b is bound and has the mirror images of what a has.
From(a, b) == /\ b.free => a.free
              /\ Both(a) => Both(b)
              /\ \/ \A q : Has(b, q) => Has(a, q)
                 \/ /\ a.free /\ ~b.free
                    /\ \A q : Has(b, q) => Has(a, MirrorProgram(q))

\* A program's mirror image, field by field; and twice is not at all.
LEMMA MirrorFields ==
    /\ \A f, v : MirrorField(f, MirrorField(f, v)) = v
    /\ \A f \in {"side", "op", "delay", "index", "data", "target"} : \A v : MirrorField(f, v) = v
    /\ \A q : DOMAIN MirrorProgram(q) = DOMAIN q
    /\ \A q : \A i \in DOMAIN q : /\ DOMAIN MirrorProgram(q)[i] = DOMAIN q[i]
                                  /\ \A f \in DOMAIN q[i] : MirrorProgram(q)[i][f] = MirrorField(f, q[i][f])
<1>1. \A f, v : MirrorField(f, MirrorField(f, v)) = v
  BY SwapIs DEF MirrorField
<1>2. \A f \in {"side", "op", "delay", "index", "data", "target"} : \A v : MirrorField(f, v) = v
  BY DEF MirrorField
<1>3. \A q : DOMAIN MirrorProgram(q) = DOMAIN q
  BY DEF MirrorProgram
<1>4. ASSUME NEW q, NEW i \in DOMAIN q
      PROVE  /\ DOMAIN MirrorProgram(q)[i] = DOMAIN q[i]
             /\ \A f \in DOMAIN q[i] : MirrorProgram(q)[i][f] = MirrorField(f, q[i][f])
  <2>1. MirrorProgram(q)[i] = MirrorWord(q[i])
    BY DEF MirrorProgram
  <2> QED BY <2>1 DEF MirrorWord, MirrorField
<1> QED BY <1>1, <1>2, <1>3, <1>4

\* What has the mirror image of a program's mirror image has the program.
LEMMA HasTwice ==
    ASSUME NEW c, NEW q, Has(c, MirrorProgram(MirrorProgram(q))) PROVE Has(c, q)
<1> DEFINE m == MirrorProgram(q)  r == MirrorProgram(m)
<1>1. DOMAIN r = DOMAIN q /\ \A i \in DOMAIN q : DOMAIN r[i] = DOMAIN q[i] /\ \A f \in DOMAIN q[i] : r[i][f] = q[i][f]
  <2>1. DOMAIN m = DOMAIN q /\ DOMAIN r = DOMAIN m
    BY MirrorFields
  <2>2. ASSUME NEW i \in DOMAIN q PROVE DOMAIN r[i] = DOMAIN q[i] /\ \A f \in DOMAIN q[i] : r[i][f] = q[i][f]
    <3>1. DOMAIN m[i] = DOMAIN q[i] /\ \A f \in DOMAIN q[i] : m[i][f] = MirrorField(f, q[i][f])
      BY MirrorFields
    <3>2. DOMAIN r[i] = DOMAIN m[i] /\ \A f \in DOMAIN m[i] : r[i][f] = MirrorField(f, m[i][f])
      BY <2>1, MirrorFields
    <3> HIDE DEF m, r
    <3> QED BY <3>1, <3>2, MirrorFields
  <2> QED BY <2>1, <2>2
<1>2. Has(c, r)
  OBVIOUS
<1> HIDE DEF m, r
<1> QED BY <1>1, <1>2 DEF Has

\* What is confined is confined in every program that a card has.
LEMMA OnlyHas ==
    ASSUME NEW c, NEW i \in Own, NEW f, Visible(f), NEW U, Only(c, i, f, U), NEW q, Has(c, q)
    PROVE  f \in DOMAIN q[i] /\ q[i][f] \in U
BY DEF Only, Has

\* Nor can the mirror image of a program that a card has hold anything else, up to the names.
LEMMA OnlyMirrored ==
    ASSUME NEW c, NEW i \in Own, NEW f, Visible(f), NEW U, Only(c, i, f, U), NEW q, Has(c, MirrorProgram(q))
    PROVE  f \in DOMAIN q[i] /\ MirrorField(f, q[i][f]) \in U
<1>1. DOMAIN q = Own
  BY MirrorFields DEF Has
<1>2. f \in DOMAIN MirrorProgram(q)[i] /\ MirrorProgram(q)[i][f] \in U
  BY OnlyHas
<1> QED BY <1>1, <1>2, MirrorFields

\* Keeping clear is mutual.
LEMMA ClearSymmetric == \A a, b : Clear(a, b) => Clear(b, a)
<1>1. \A a, b, q : Meets(b, a, q) => Meets(a, b, q)
  BY DEF Meets
<1>2. \A a, b, q : Crosses(b, a, q) => Crosses(a, b, q)
  BY Zenon DEF Crosses
<1> QED BY <1>1, <1>2, Zenon DEF Clear

\* What keeps clear of a card keeps clear of every card that comes from it.
LEMMA ClearFrom ==
    ASSUME NEW x, NEW a, NEW b, Clear(x, a), From(a, b) PROVE Clear(x, b)
<1>1. CASE Both(x) /\ Both(a)
  BY <1>1 DEF From, Clear
<1>2. CASE \A q : ~Meets(x, a, q) /\ ~Crosses(x, a, q)
  <2>1. CASE \A q : Has(b, q) => Has(a, q)
    BY <1>2, <2>1, Zenon DEF From, Clear, Meets, Crosses
  <2>2. CASE a.free /\ ~b.free /\ \A q : Has(b, q) => Has(a, MirrorProgram(q))
    <3>1. ASSUME NEW q, Meets(x, b, q) PROVE FALSE
      <4>1. Has(x, q) /\ Has(a, MirrorProgram(q))
        BY <2>2, <3>1, Zenon DEF Meets
      <4>2. Crosses(x, a, q)
        BY <2>2, <4>1, Zenon DEF Crosses
      <4> QED BY <1>2, <4>2
    <3>2. ASSUME NEW q, Crosses(x, b, q) PROVE FALSE
      <4>1. CASE Has(x, q) /\ Has(b, MirrorProgram(q))
        <5>1. Has(a, q)
          BY <2>2, <4>1, HasTwice, Zenon
        <5> QED BY <1>2, <4>1, <5>1, Zenon DEF Meets
      <4>2. CASE Has(x, MirrorProgram(q)) /\ Has(b, q)
        BY <1>2, <2>2, <4>2, Zenon DEF Meets
      <4> QED BY <3>2, <4>1, <4>2, Zenon DEF Crosses
    <3> QED BY <3>1, <3>2, Zenon DEF Clear
  <2> QED BY <2>1, <2>2, Zenon DEF From
<1> QED BY <1>1, <1>2, Zenon DEF Clear

(***************************************************************************)
(* What a child keeps of its item.                                         *)
(***************************************************************************)

\* What `it' decided is decided in c, and what it was confined to confines c.
Narrows(it, c) ==
    /\ \A i \in Own : \A f \in DOMAIN it.words[i] : f \in DOMAIN c.words[i] /\ c.words[i][f] = it.words[i][f]
    /\ \A k \in DOMAIN it.constraints : Only(c, it.constraints[k].slot, it.constraints[k].field, it.constraints[k].allowed)

\* A program's own slots come first.
LEMMA OwnSlots == ASSUME ProblemOK(P) PROVE Own \subseteq Slots /\ \A i \in Own : i < P.slots
<1>1. P.slots \in 1 .. N /\ N \in Nat
  BY ProblemTypes, IsaAssumption
<1> QED BY <1>1 DEF Own, Slots

\* The constraints of an item are on slots of its own, and on what is visible.
LEMMA EntriesVisible ==
    ASSUME ProblemOK(P), NEW it, ItemOK(P, it), NEW k \in DOMAIN it.constraints
    PROVE  it.constraints[k].slot \in Own /\ Visible(it.constraints[k].field) /\ it.constraints[k].field \in {"side", "index"}
<1> DEFINE e == it.constraints[k]
<1>1. EntryOK(P, it.words, e)
  BY DEF ItemOK, NarrowOK
<1> HIDE DEF e
<1>2. e \in Entry /\ e.slot < P.slots
  BY <1>1 DEF EntryOK
<1>3. e.slot \in Own /\ e.field \in {"side", "index"}
  BY <1>2, ProblemTypes DEF Entry, Slots, Own
<1>4. P.side = << >> => e.field = "index"
  BY <1>1, OnIndices
<1> QED BY <1>3, <1>4 DEF Visible, HasSide, e

\* What is narrowed has fewer programs, and names both registers still.
LEMMA NarrowsHas ==
    ASSUME ProblemOK(P), NEW it, ItemOK(P, it), NEW c, Narrows(it, c)
    PROVE  (\A q : Has(c, q) => Has(it, q)) /\ (Both(it) => Both(c))
<1>1. ASSUME NEW q, Has(c, q) PROVE Has(it, q)
  <2>1. DOMAIN q = Own
    BY <1>1 DEF Has
  <2>2. ASSUME NEW i \in Own, NEW f \in DOMAIN it.words[i], Visible(f) PROVE f \in DOMAIN q[i] /\ q[i][f] = it.words[i][f]
    BY <1>1, <2>2 DEF Has, Narrows
  <2>3. ASSUME NEW k \in DOMAIN it.constraints
        PROVE  LET e == it.constraints[k] IN e.field \in DOMAIN q[e.slot] /\ q[e.slot][e.field] \in e.allowed
    <3> DEFINE e == it.constraints[k]
    <3>1. e.slot \in Own /\ Visible(e.field) /\ Only(c, e.slot, e.field, e.allowed)
      BY EntriesVisible DEF Narrows
    <3> HIDE DEF e
    <3>2. e.field \in DOMAIN q[e.slot] /\ q[e.slot][e.field] \in e.allowed
      BY <1>1, <3>1, OnlyHas
    <3> QED BY <3>2 DEF e
  <2> QED BY <2>1, <2>2, <2>3 DEF Has
<1>2. ASSUME NEW i \in Own, Get(it.words[i], "cond", "always") = "x!=y" PROVE Get(c.words[i], "cond", "always") = "x!=y"
  BY <1>2 DEF Get, Decided, Narrows
<1> QED BY <1>1, <1>2 DEF Both

\* Cards are compared by what they hold.
LEMMA CardIs ==
    \A it : /\ CardOf(it).free = it.unbound /\ (Both(CardOf(it)) <=> Both(it)) /\ \A q : Has(CardOf(it), q) <=> Has(it, q)
            /\ CardOf(it).words = it.words /\ CardOf(it).constraints = it.constraints
<1> SUFFICES ASSUME NEW it
             PROVE  /\ CardOf(it).free = it.unbound /\ (Both(CardOf(it)) <=> Both(it)) /\ \A q : Has(CardOf(it), q) <=> Has(it, q)
                    /\ CardOf(it).words = it.words /\ CardOf(it).constraints = it.constraints
  OBVIOUS
<1>1. CardOf(it).free = it.unbound /\ CardOf(it).words = it.words /\ CardOf(it).constraints = it.constraints
  BY DEF CardOf
<1> QED BY <1>1 DEF Both, Has

\* A child that only narrows its item keeps clear of what the item keeps clear of.
LEMMA NarrowsFrom ==
    ASSUME ProblemOK(P), NEW it, ItemOK(P, it), NEW c, Narrows(it, c), c.unbound => it.unbound
    PROVE  From(CardOf(it), CardOf(c))
<1>1. (\A q : Has(c, q) => Has(it, q)) /\ (Both(it) => Both(c))
  BY NarrowsHas
<1> QED BY <1>1, CardIs DEF From

\* A child that decides one more field: `named' follows, and what was confined stays so.
Decides1(it, c, slot, f, v) ==
    /\ slot \in Own /\ f \notin DOMAIN it.words[slot] /\ TurnedTo(it, c, slot, f, v)
    /\ c.named => it.named \/ Names(f, v) # {}
    /\ ~c.named => ~it.named /\ Names(f, v) = {}
    /\ \A k \in DOMAIN it.constraints : Only(c, it.constraints[k].slot, it.constraints[k].field, it.constraints[k].allowed)
Adds(it, c) == \E slot, f, v : Decides1(it, c, slot, f, v)

\* Deciding a field changes the words, and what confined the field at most.
LEMMA DecidingFields ==
    ASSUME NEW it, ItemOK(P, it), NEW slot, NEW f, NEW v
    PROVE  /\ \A g \in ItemFields \ {"words"} : Deciding(it, slot, f, v)[g] = it[g]
           /\ \A g \in ItemFields \ {"words", "constraints"} : Settling(it, slot, f, v)[g] = it[g]
           /\ Settling(it, slot, f, v).constraints = Unconstrain(it.constraints, slot, f)
<1>1. DOMAIN it = ItemFields
  BY DEF ItemOK
<1> DEFINE d == Deciding(it, slot, f, v)
<1>2. DOMAIN d = ItemFields /\ \A g \in ItemFields \ {"words"} : d[g] = it[g]
  BY <1>1 DEF Deciding, ItemFields
<1>3. Settling(it, slot, f, v) = [d EXCEPT !.constraints = Unconstrain(@, slot, f)]
  BY DEF Settling
<1> HIDE DEF d
<1>4. LET e == [d EXCEPT !.constraints = Unconstrain(@, slot, f)]
      IN  (\A g \in ItemFields \ {"constraints"} : e[g] = d[g]) /\ e.constraints = Unconstrain(d.constraints, slot, f)
  BY <1>2 DEF ItemFields
<1> QED BY <1>2, <1>3, <1>4 DEF d, ItemFields

\* A field that names no register is decided, and the constraints are as they were.
LEMMA PlainAdds ==
    ASSUME ProblemOK(P), NEW it, ItemOK(P, it), NEW slot \in Own, NEW f \in {"data", "target", "delay"}, f \notin DOMAIN it.words[slot],
           NEW v, NEW c, TurnedTo(it, c, slot, f, v), c.named = it.named, c.constraints = it.constraints
    PROVE  Adds(it, c)
<1>1. Names(f, v) = {}
  BY DEF Names
<1>2. \A k \in DOMAIN it.constraints : Only(c, it.constraints[k].slot, it.constraints[k].field, it.constraints[k].allowed)
  BY DEF Only
<1>3. Decides1(it, c, slot, f, v)
  BY <1>1, <1>2 DEF Decides1
<1> QED BY <1>3, Zenon DEF Adds

\* The children that decide one more field, fork by fork: an outcome class of one value, ...
LEMMA SettlesAdds ==
    ASSUME ProblemOK(P), NEW it, ItemOK(P, it), NEW c, Settles(it, c)
    PROVE  Adds(it, c)
<1>1. PICK slot, f : Groups(it, slot, f) /\ \E v \in Allowed(it.constraints, slot, f, Whole[f]) : c = Settling(it, slot, f, v)
  BY Zenon DEF Settles
<1>2. PICK v \in Allowed(it.constraints, slot, f, Whole[f]) : c = Settling(it, slot, f, v)
  BY <1>1, Zenon
<1>3. slot \in Slots /\ slot \in Own /\ f \notin DOMAIN it.words[slot] /\ f \in {"side", "index"}
  BY <1>1, GroupsIs, ProblemTypes DEF Groups, Slots, Own
<1>4. TurnedTo(it, c, slot, f, v) /\ c.named = it.named /\ c.constraints = Unconstrain(it.constraints, slot, f)
  BY <1>2, <1>3, DecidedWords, DecidingFields DEF ItemFields
<1>5. Names(f, v) = {}
  BY <1>3 DEF Names
<1>6. ASSUME NEW k \in DOMAIN it.constraints
      PROVE  Only(c, it.constraints[k].slot, it.constraints[k].field, it.constraints[k].allowed)
  <2> DEFINE cs == it.constraints  e == cs[k]
  <2>0. NarrowOK(P, it.words, cs)
    BY DEF ItemOK
  <2>1. CASE e.slot = slot /\ e.field = f
    <3>1. Constrained(cs, slot, f) /\ k = AllowedBy(cs, slot, f)
      <4>1. Constrained(cs, slot, f)
        BY <2>1, Zenon DEF Constrained
      <4> QED BY <2>0, <2>1, <4>1, AllowedIs
    <3>2. v \in e.allowed
      BY <1>2, <3>1 DEF Allowed
    <3>3. Only(c, slot, f, {v})
      BY <1>3, <1>4, DecidedOnly DEF ItemOK, WordsOK
    <3>4. f \in DOMAIN c.words[slot] /\ c.words[slot][f] = v
      BY <1>3, <1>4 DEF TurnedTo, Decide, ItemOK, WordsOK
    <3> QED BY <2>1, <3>2, <3>4 DEF Only
  <2>2. CASE e.slot # slot \/ e.field # f
    <3>1. \E j \in DOMAIN Unconstrain(cs, slot, f) : Unconstrain(cs, slot, f)[j] = e
      BY <2>0, <2>2, UnconstrainIs
    <3> HIDE DEF e
    <3> QED BY <1>4, <3>1 DEF Only, e
  <2> QED BY <2>1, <2>2
<1>7. Decides1(it, c, slot, f, v)
  BY <1>3, <1>4, <1>5, <1>6 DEF Decides1
<1> QED BY <1>7, Zenon DEF Adds

\* ... a field that the fetch demands, which `named' follows, ...
LEMMA ChoosesAdds ==
    ASSUME ProblemOK(P), NEW it, ItemOK(P, it), NEW c, Chooses(it, c)
    PROVE  Adds(it, c) /\ c.s = it.s
<1> DEFINE f == Wanted(it)
<1>1. Classed(it) /\ Fetching(it) /\ f # "none"
  BY DEF Chooses
<1>2. PICK v : c = [Deciding(it, Pc(it), f, v) EXCEPT !.named = it.named \/ Names(f, v) # {}]
  BY Zenon DEF Chooses
<1>3. Pc(it) \in Slots /\ Pc(it) \in Own
  BY <1>1, FetchedIs, ProblemTypes DEF Classed, Slots, Own
<1>4. f \notin DOMAIN it.words[Pc(it)]
  BY <1>1, WantedIs DEF Classed, Here
<1> HIDE DEF f
<1> DEFINE d == Deciding(it, Pc(it), f, v)
<1>5. TurnedTo(it, d, Pc(it), f, v) /\ d.constraints = it.constraints /\ d.s = it.s
  BY <1>3, DecidedWords, DecidingFields DEF ItemFields
<1>6. DOMAIN d = ItemFields
  BY DEF Deciding, ItemOK, ItemFields
<1> HIDE DEF d
<1>7. c.words = d.words /\ c.unbound = d.unbound /\ c.constraints = d.constraints /\ c.s = d.s
      /\ c.named = (it.named \/ Names(f, v) # {})
  BY <1>2, <1>6 DEF d, ItemFields
<1>8. \A k \in DOMAIN it.constraints : Only(c, it.constraints[k].slot, it.constraints[k].field, it.constraints[k].allowed)
  BY <1>5, <1>7 DEF Only
<1>9. TurnedTo(it, c, Pc(it), f, v)
  BY <1>5, <1>7 DEF TurnedTo
<1>10. Decides1(it, c, Pc(it), f, v)
  BY <1>3, <1>4, <1>7, <1>8, <1>9, Zenon DEF Decides1
<1> QED BY <1>5, <1>7, <1>10, Zenon DEF Adds

\* ... an immediate that a register stands for, ...
LEMMA CollapsesAdds ==
    ASSUME ProblemOK(P), NEW it, ItemOK(P, it), NEW c, Collapses(it, c)
    PROVE  Adds(it, c)
<1>1. PICK slot : (\E r \in Tagged(it.tags) : it.tags[r] = slot) /\ \E v, x, y, tags : c = TagChild(it, slot, v, x, y, tags)
  BY Zenon DEF Collapses
<1>2. PICK v, x, y, tags : c = TagChild(it, slot, v, x, y, tags)
  BY <1>1, Zenon
<1>3. slot \in Slots /\ Awaited(it.words[slot])
  BY <1>1 DEF Tagged, ItemOK, TagsOK
<1>4. "data" \notin DOMAIN it.words[slot]
  BY <1>3 DEF Awaited
<1>5. slot \in Own
  <2>1. it.words[slot] # Filler
    BY <1>3 DEF Awaited, Filler
  <2> QED BY <1>3, <2>1, ProblemTypes DEF ItemOK, WordsOK, Slots, Own
<1> DEFINE d == Deciding(it, slot, "data", v)
<1>6. TurnedTo(it, d, slot, "data", v) /\ d.constraints = it.constraints /\ d.named = it.named
  BY <1>3, DecidedWords, DecidingFields DEF ItemFields
<1>7. c.words = d.words /\ c.unbound = d.unbound /\ c.named = d.named /\ c.constraints = d.constraints
  <2> DEFINE t == TagChild(it, slot, v, x, y, tags)
  <2>1. t.words = d.words /\ t.unbound = d.unbound /\ t.named = d.named /\ t.constraints = d.constraints
    BY TagChildWords
  <2> HIDE DEF t, d
  <2> QED BY <1>2, <2>1 DEF t
<1> HIDE DEF d
<1>8. TurnedTo(it, c, slot, "data", v)
  BY <1>6, <1>7 DEF TurnedTo
<1> QED BY <1>4, <1>5, <1>6, <1>7, <1>8, PlainAdds

\* ... the target of a jump, ...
LEMMA AimsAdds ==
    ASSUME ProblemOK(P), NEW it, ItemOK(P, it), NEW c, Aims(it, c)
    PROVE  Adds(it, c) /\ c.s = it.s
<1>1. Inside(it) /\ Fetching(it) /\ "target" \notin DOMAIN Here(it)
  BY DEF Aims, Untagged, Fetched, Classed, Jumps, Decided
<1>2. PICK t : c = Deciding(it, Pc(it), "target", t)
  BY Zenon DEF Aims
<1>3. Pc(it) \in Slots /\ Pc(it) \in Own
  BY <1>1, FetchedIs, ProblemTypes DEF Slots, Own
<1>4. TurnedTo(it, c, Pc(it), "target", t) /\ c.constraints = it.constraints /\ c.named = it.named /\ c.s = it.s
  BY <1>2, <1>3, DecidedWords, DecidingFields DEF ItemFields
<1> QED BY <1>1, <1>3, <1>4, PlainAdds DEF Here

\* ... and a delay.
LEMMA DelaysAdds ==
    ASSUME ProblemOK(P), NEW it, ItemOK(P, it), NEW c, Delays1(it, c)
    PROVE  /\ Adds(it, c) /\ Proceeds(it)
           /\ c.s.m = Stepped(it).m
<1> DEFINE next == Advanced(it, Stepped(it))
<1>1. Inside(it) /\ (Fetching(it) => Wanted(it) = "none") /\ Fetching(it) /\ "delay" \notin DOMAIN Here(it) /\ Proceeds(it)
  BY DEF Delays1, Proceeds, Aimed, Untagged, Fetched, Classed, ForksDelay, Delays, Decided
<1>2. /\ ItemOK(P, next) /\ \A f \in ItemFields \ {"s", "cycle", "tags"} : next[f] = it[f]
      /\ next.s = Stepped(it)
  BY <1>1, AdvancedOK
<1>3. Pc(it) \in Slots /\ Pc(it) \in Own
  BY <1>1, FetchedIs, ProblemTypes DEF Slots, Own
<1>4. PICK d, submax : c = [Deciding(next, Pc(it), "delay", d) EXCEPT !.s.delay = d, !.nop_submax = submax]
  BY Zenon DEF Delays1
<1> HIDE DEF next
<1> DEFINE e == Deciding(next, Pc(it), "delay", d)
<1>5. /\ TurnedTo(next, e, Pc(it), "delay", d)
      /\ \A g \in ItemFields \ {"words"} : e[g] = next[g]
  BY <1>2, <1>3, DecidedWords, DecidingFields
<1>6. TurnedTo(it, e, Pc(it), "delay", d) /\ e.constraints = it.constraints /\ e.named = it.named /\ e.s = Stepped(it)
  BY <1>2, <1>5 DEF ItemFields, TurnedTo
<1>7. DOMAIN e = ItemFields /\ Stepped(it) \in Timed(P)
  BY <1>2 DEF Deciding, ItemOK, ItemFields
<1> HIDE DEF e
<1>8. c.words = e.words /\ c.unbound = e.unbound /\ c.constraints = e.constraints /\ c.named = e.named /\ c.s = [e.s EXCEPT !.delay = d]
  BY <1>4, <1>7 DEF e, ItemFields
<1>9. TurnedTo(it, c, Pc(it), "delay", d)
  BY <1>6, <1>8 DEF TurnedTo
<1>10. Adds(it, c)
  BY <1>1, <1>3, <1>6, <1>8, <1>9, PlainAdds DEF Here
<1>11. c.s.m = Stepped(it).m
  BY <1>6, <1>7, <1>8 DEF Timed
<1> QED BY <1>1, <1>10, <1>11

\* What the names that an item's words hold tell of `named'; and its words are tables.
Single(f, v) == Names(f, v) \in {{"x"}, {"y"}}
Solid(words) == words = [i \in Slots |-> words[i]] /\ \A i \in Own : words[i] = [f \in DOMAIN words[i] |-> words[i][f]]
NamedOK(it) == /\ ~it.named => \A i \in Own : \A f \in DOMAIN it.words[i] : Names(f, it.words[i][f]) = {}
               /\ it.named => Both(it) \/ \E i \in Own : \E f \in DOMAIN it.words[i] : Single(f, it.words[i][f])
               /\ Solid(it.words)

\* A value that names no register is its own mirror image; one that names one of the two is not; and
\* only JMP X!=Y names both.
LEMMA NamesAre ==
    /\ \A f, v : Names(f, v) = {} => MirrorField(f, v) = v
    /\ \A f, v : Names(f, v) = {} => Names(f, MirrorField(f, v)) = {}
    /\ \A f, v : Single(f, v) => MirrorField(f, v) # v /\ Single(f, MirrorField(f, v)) /\ f # "side"
    /\ \A f, v : Names(f, v) # {} /\ ~Single(f, v) => f = "cond" /\ v = "x!=y"
<1>1. \A f, v : Names(f, v) = {} => MirrorField(f, v) = v
  BY DEF Names, MirrorField, SwapCond, SwapName
<1>2. \A f, v : Single(f, v) => MirrorField(f, v) # v /\ f # "side"
  BY DEF Single, Names, MirrorField, SwapCond, SwapName
<1>3. \A f, v : Single(f, v) => Single(f, MirrorField(f, v))
  BY DEF Single, Names, MirrorField, SwapCond, SwapName
<1>4. \A f, v : Names(f, v) # {} /\ ~Single(f, v) => f = "cond" /\ v = "x!=y"
  BY DEF Single, Names
<1> QED BY <1>1, <1>2, <1>3, <1>4

\* A child that decides one more field narrows its item, ...
LEMMA AddsNarrows ==
    ASSUME ProblemOK(P), NEW it, ItemOK(P, it), NEW c, Adds(it, c)
    PROVE  Narrows(it, c) /\ c.unbound = it.unbound
<1>1. PICK slot, f, v : Decides1(it, c, slot, f, v)
  BY Zenon DEF Adds
<1>2. DOMAIN it.words = Slots /\ slot \in Slots
  BY <1>1, OwnSlots DEF Decides1, ItemOK, WordsOK
<1>3. c.words = [it.words EXCEPT ![slot] = Decide(it.words[slot], f, v)] /\ c.unbound = it.unbound
  BY <1>1 DEF Decides1, TurnedTo
<1>4. ASSUME NEW i \in Own, NEW g \in DOMAIN it.words[i] PROVE g \in DOMAIN c.words[i] /\ c.words[i][g] = it.words[i][g]
  <2>1. c.words[i] = IF i = slot THEN Decide(it.words[slot], f, v) ELSE it.words[i]
    BY <1>2, <1>3, OwnSlots
  <2>2. g # f \/ i # slot
    BY <1>1 DEF Decides1
  <2> QED BY <2>1, <2>2 DEF Decide
<1> QED BY <1>1, <1>3, <1>4 DEF Narrows, Decides1

\* ... and is `named' when its words name a register.
LEMMA AddsNamed ==
    ASSUME ProblemOK(P), NEW it, ItemOK(P, it), NamedOK(it), NEW c, Adds(it, c)
    PROVE  NamedOK(c)
<1>1. PICK slot, f, v : Decides1(it, c, slot, f, v)
  BY Zenon DEF Adds
<1>2. DOMAIN it.words = Slots /\ slot \in Slots /\ Own \subseteq Slots /\ slot \in Own
  BY <1>1, OwnSlots DEF Decides1, ItemOK, WordsOK
<1>3. c.words = [it.words EXCEPT ![slot] = Decide(it.words[slot], f, v)]
  BY <1>1 DEF Decides1, TurnedTo
<1>4. \A i \in Slots : c.words[i] = IF i = slot THEN Decide(it.words[slot], f, v) ELSE it.words[i]
  BY <1>2, <1>3
<1>5. DOMAIN c.words = Slots /\ c.words = [i \in Slots |-> c.words[i]]
  BY <1>2, <1>3
<1> DEFINE w == it.words[slot]  u == Decide(w, f, v)
<1>6. DOMAIN u = DOMAIN w \cup {f} /\ u[f] = v /\ (\A g \in DOMAIN w : g # f => u[g] = w[g]) /\ u = [g \in DOMAIN u |-> u[g]]
  BY DEF Decide
<1> HIDE DEF u
<1>7. c.words[slot] = u
  BY <1>2, <1>4 DEF u
<1>8. Solid(c.words)
  <2>1. ASSUME NEW i \in Own PROVE c.words[i] = [g \in DOMAIN c.words[i] |-> c.words[i][g]]
    <3>1. CASE i = slot
      BY <1>6, <1>7, <3>1
    <3>2. CASE i # slot
      BY <1>2, <1>4, <3>2 DEF NamedOK, Solid
    <3> QED BY <3>1, <3>2
  <2> QED BY <1>5, <2>1 DEF Solid
<1>9. ASSUME ~c.named, NEW i \in Own, NEW g \in DOMAIN c.words[i] PROVE Names(g, c.words[i][g]) = {}
  <2>1. Names(f, v) = {} /\ \A j \in Own : \A h \in DOMAIN it.words[j] : Names(h, it.words[j][h]) = {}
    BY <1>1, <1>9 DEF Decides1, NamedOK
  <2>2. CASE i = slot
    <3>1. g \in DOMAIN u
      BY <1>7, <1>9, <2>2
    <3> QED BY <1>2, <1>6, <1>7, <2>1, <2>2, <3>1
  <2>3. CASE i # slot
    BY <1>2, <1>4, <1>9, <2>1, <2>3
  <2> QED BY <2>2, <2>3
<1>10. ASSUME c.named PROVE Both(c) \/ \E i \in Own : \E g \in DOMAIN c.words[i] : Single(g, c.words[i][g])
  <2>1. CASE it.named
    <3>1. Narrows(it, c)
      BY AddsNarrows
    <3>2. Both(it) => Both(c)
      BY <3>1, NarrowsHas
    <3>3. (\E i \in Own : \E g \in DOMAIN it.words[i] : Single(g, it.words[i][g]))
             => \E i \in Own : \E g \in DOMAIN c.words[i] : Single(g, c.words[i][g])
      BY <3>1 DEF Narrows
    <3> QED BY <2>1, <3>2, <3>3 DEF NamedOK
  <2>2. CASE ~it.named
    <3>1. Names(f, v) # {}
      BY <1>1, <1>10, <2>2 DEF Decides1
    <3>2. CASE Single(f, v)
      BY <1>2, <1>6, <1>7, <3>2
    <3>3. CASE f = "cond" /\ v = "x!=y"
      <4>1. Get(c.words[slot], "cond", "always") = "x!=y"
        BY <1>6, <1>7, <3>3 DEF Get, Decided
      <4> QED BY <1>2, <4>1 DEF Both
    <3> QED BY <3>1, <3>2, <3>3, NamesAre
  <2> QED BY <2>1, <2>2
<1> QED BY <1>8, <1>9, <1>10 DEF NamedOK

\* A child of which the same fields are decided.
LEMMA SameNamed ==
    ASSUME NEW it, NamedOK(it), NEW c, c.words = it.words, c.named = it.named PROVE NamedOK(c)
BY DEF NamedOK, Both

\* A child that is confined to an outcome class narrows its item, and nothing else of it changes.
LEMMA ConfinesNarrows ==
    ASSUME ProblemOK(P), NEW it, ItemOK(P, it), NEW c, Confines(it, c)
    PROVE  Narrows(it, c) /\ c.words = it.words /\ c.named = it.named /\ c.unbound = it.unbound /\ c.s = it.s
<1>1. PICK slot, f, same : /\ same \subseteq Allowed(it.constraints, slot, f, Whole[f])
                           /\ c = [it EXCEPT !.constraints = Constrain(it.constraints, slot, f, same)]
  BY Zenon DEF Confines
<1> DEFINE cs == it.constraints
<1>2. DOMAIN it = ItemFields /\ NarrowOK(P, it.words, cs)
  BY DEF ItemOK
<1>3. c.words = it.words /\ c.named = it.named /\ c.unbound = it.unbound /\ c.s = it.s /\ c.constraints = Constrain(cs, slot, f, same)
  BY <1>1, <1>2 DEF ItemFields
<1>0. cs \in Seq(Entry)
  BY <1>2 DEF NarrowOK
<1> HIDE DEF cs
<1>5. \E j \in DOMAIN Constrain(cs, slot, f, same) :
         /\ Constrain(cs, slot, f, same)[j].slot = slot /\ Constrain(cs, slot, f, same)[j].field = f
         /\ Constrain(cs, slot, f, same)[j].allowed = same
  BY <1>0, <1>3, ConstrainHas
<1> USE DEF cs
<1>4. ASSUME NEW k \in DOMAIN cs PROVE Only(c, cs[k].slot, cs[k].field, cs[k].allowed)
  <2> DEFINE e == cs[k]  new == Constrain(cs, slot, f, same)
  <2>1. CASE e.slot = slot /\ e.field = f
    <3>1. Constrained(cs, slot, f) /\ k = AllowedBy(cs, slot, f)
      <4>1. Constrained(cs, slot, f)
        BY <2>1, Zenon DEF Constrained
      <4> QED BY <1>2, <2>1, <4>1, AllowedIs
    <3>2. same \subseteq e.allowed
      BY <1>1, <3>1 DEF Allowed
    <3>3. PICK j \in DOMAIN new : new[j].slot = slot /\ new[j].field = f /\ new[j].allowed = same
      BY <1>5
    <3> HIDE DEF new, e
    <3>4. Only(c, e.slot, e.field, e.allowed)
      BY <1>3, <2>1, <3>2, <3>3 DEF Only, new
    <3> QED BY <3>4 DEF e
  <2>2. CASE e.slot # slot \/ e.field # f
    <3>1. k # AllowedBy(cs, slot, f) \/ ~Constrained(cs, slot, f)
      BY <1>2, <2>2, AllowedIs
    <3>2. k \in DOMAIN new /\ new[k] = e
      BY <1>2, <3>1, ConstrainHas DEF NarrowOK
    <3> HIDE DEF new, e
    <3>4. Only(c, e.slot, e.field, e.allowed)
      BY <1>3, <3>2 DEF Only, new
    <3> QED BY <3>4 DEF e
  <2> QED BY <2>1, <2>2
<1> QED BY <1>3, <1>4 DEF Narrows

\* Binding an item changes nothing else of it, ...
LEMMA BoundIs ==
    ASSUME NEW it, ItemOK(P, it)
    PROVE  /\ ItemOK(P, Bound(it)) /\ Bound(it).unbound = FALSE
           /\ \A f \in ItemFields \ {"unbound"} : Bound(it)[f] = it[f]
BY DEF ItemOK, ItemFields, Bound

\* ... so that it narrows the item.
LEMMA BoundNarrows ==
    ASSUME ProblemOK(P), NEW it, ItemOK(P, it) PROVE Narrows(it, Bound(it))
<1>1. Bound(it).words = it.words /\ Bound(it).constraints = it.constraints
  BY BoundIs DEF ItemFields
<1> QED BY <1>1 DEF Narrows, Only

\* The mirror image of an item that is bound, field by field.
LEMMA TwinIs ==
    ASSUME ProblemOK(P), NEW it, ItemOK(P, it)
    PROVE  LET t == Twin(Bound(it))
           IN  /\ t.constraints = it.constraints /\ t.unbound = FALSE /\ t.named = it.named
               /\ \A i \in Own : /\ DOMAIN t.words[i] = DOMAIN it.words[i]
                                 /\ \A f \in DOMAIN it.words[i] : t.words[i][f] = MirrorField(f, it.words[i][f])
               /\ Solid(t.words)
               /\ t = [f \in ItemFields |-> t[f]] /\ \A f \in ItemFields \ {"words", "s"} : t[f] = Bound(it)[f]
               /\ t.words = [i \in Slots |-> IF i < P.slots THEN MirrorWord(it.words[i]) ELSE it.words[i]]
               /\ t.s = [it.s EXCEPT !.m = Swapped(it.s.m)]
<1> DEFINE words == [i \in Slots |-> IF i < P.slots THEN MirrorWord(it.words[i]) ELSE it.words[i]]
           s == [it.s EXCEPT !.m = Swapped(it.s.m)]
           b == Bound(it)
           t == Twin(b)
<1>1. DOMAIN b = ItemFields /\ b.words = it.words /\ b.s = it.s /\ b.constraints = it.constraints /\ b.named = it.named
      /\ b.unbound = FALSE /\ it.s \in Timed(P)
  BY BoundIs DEF ItemOK, ItemFields
<1> HIDE DEF b
<1>2. t = [b EXCEPT !.words = words, !.s = s]
  BY <1>1 DEF Twin, ItemFields, Timed
<1>3. \A i \in Own : words[i] = MirrorWord(it.words[i])
  BY OwnSlots
<1> HIDE DEF words, s, t
<1>4. t.words = words /\ t.s = s /\ (\A f \in ItemFields \ {"words", "s"} : t[f] = b[f]) /\ t = [f \in ItemFields |-> t[f]]
  BY <1>1, <1>2 DEF ItemFields
<1>5. \A i \in Own : /\ DOMAIN words[i] = DOMAIN it.words[i]
                     /\ \A f \in DOMAIN it.words[i] : words[i][f] = MirrorField(f, it.words[i][f])
                     /\ words[i] = [f \in DOMAIN words[i] |-> words[i][f]]
  BY <1>3 DEF MirrorWord, MirrorField
<1>6. words = [i \in Slots |-> words[i]]
  BY DEF words
<1>7. Solid(words)
  BY <1>5, <1>6 DEF Solid
<1>8. t.constraints = it.constraints /\ t.unbound = FALSE /\ t.named = it.named
  BY <1>1, <1>4 DEF ItemFields
<1>9. /\ t.constraints = it.constraints /\ t.unbound = FALSE /\ t.named = it.named
      /\ \A i \in Own : /\ DOMAIN t.words[i] = DOMAIN it.words[i]
                        /\ \A f \in DOMAIN it.words[i] : t.words[i][f] = MirrorField(f, it.words[i][f])
      /\ Solid(t.words)
      /\ t = [f \in ItemFields |-> t[f]] /\ \A f \in ItemFields \ {"words", "s"} : t[f] = b[f]
      /\ t.words = words /\ t.s = s
  BY <1>4, <1>5, <1>7, <1>8
<1> QED BY <1>9, Zenon DEF t, words, s, b

\* The same, of what a card holds.
LEMMA TwinFields ==
    ASSUME ProblemOK(P), NEW it, ItemOK(P, it)
    PROVE  LET t == Twin(Bound(it))
           IN  /\ t.unbound = FALSE
               /\ \A i \in Own : /\ DOMAIN t.words[i] = DOMAIN it.words[i]
                                 /\ \A f \in DOMAIN it.words[i] : t.words[i][f] = MirrorField(f, it.words[i][f])
BY TwinIs

\* The mirror image has the mirror images of what the item has.
LEMMA TwinHas ==
    ASSUME ProblemOK(P), NEW it, ItemOK(P, it)
    PROVE  (\A q : Has(Twin(Bound(it)), q) => Has(it, MirrorProgram(q))) /\ (Both(it) => Both(Twin(Bound(it))))
<1> DEFINE t == Twin(Bound(it))
<1>1. /\ t.constraints = it.constraints
      /\ \A i \in Own : /\ DOMAIN t.words[i] = DOMAIN it.words[i]
                        /\ \A f \in DOMAIN it.words[i] : t.words[i][f] = MirrorField(f, it.words[i][f])
  BY TwinIs
<1> HIDE DEF t
<1>2. ASSUME NEW q, Has(t, q) PROVE Has(it, MirrorProgram(q))
  <2> DEFINE r == MirrorProgram(q)
  <2>1. DOMAIN q = Own
    BY <1>2 DEF Has
  <2>2. DOMAIN r = Own /\ \A i \in Own : DOMAIN r[i] = DOMAIN q[i] /\ \A f \in DOMAIN q[i] : r[i][f] = MirrorField(f, q[i][f])
    BY <2>1, MirrorFields
  <2> HIDE DEF r
  <2>3. ASSUME NEW i \in Own, NEW f \in DOMAIN it.words[i], Visible(f) PROVE f \in DOMAIN r[i] /\ r[i][f] = it.words[i][f]
    <3>1. f \in DOMAIN q[i] /\ q[i][f] = MirrorField(f, it.words[i][f])
      BY <1>1, <1>2, <2>3 DEF Has
    <3> QED BY <2>2, <3>1, MirrorFields
  <2>4. ASSUME NEW k \in DOMAIN it.constraints
        PROVE  LET e == it.constraints[k] IN e.field \in DOMAIN r[e.slot] /\ r[e.slot][e.field] \in e.allowed
    <3> DEFINE e == it.constraints[k]
    <3>1. e.slot \in Own /\ e.field \in {"side", "index"}
      BY EntriesVisible
    <3>2. e.field \in DOMAIN q[e.slot] /\ q[e.slot][e.field] \in e.allowed
      BY <1>1, <1>2, <3>1 DEF Has
    <3> HIDE DEF e
    <3>3. e.field \in DOMAIN r[e.slot] /\ r[e.slot][e.field] \in e.allowed
      BY <2>2, <3>1, <3>2, MirrorFields
    <3> QED BY <3>3 DEF e
  <2> QED BY <2>2, <2>3, <2>4 DEF Has, r
<1>3. ASSUME NEW i \in Own, Get(it.words[i], "cond", "always") = "x!=y" PROVE Get(t.words[i], "cond", "always") = "x!=y"
  BY <1>1, <1>3 DEF Get, Decided, MirrorField, SwapCond
<1> QED BY <1>2, <1>3 DEF Both, t

\* The mirror image names a register when the item does.
LEMMA TwinNamed ==
    ASSUME ProblemOK(P), NEW it, ItemOK(P, it), NamedOK(it) PROVE NamedOK(Twin(Bound(it)))
<1> DEFINE t == Twin(Bound(it))
<1>1. /\ t.named = it.named /\ Solid(t.words)
      /\ \A i \in Own : /\ DOMAIN t.words[i] = DOMAIN it.words[i]
                        /\ \A f \in DOMAIN it.words[i] : t.words[i][f] = MirrorField(f, it.words[i][f])
  BY TwinIs
<1>2. Both(it) => Both(t)
  BY TwinHas
<1> HIDE DEF t
<1>3. ASSUME ~t.named, NEW i \in Own, NEW f \in DOMAIN t.words[i] PROVE Names(f, t.words[i][f]) = {}
  <2>1. Names(f, it.words[i][f]) = {} /\ f \in DOMAIN it.words[i]
    BY <1>1, <1>3 DEF NamedOK
  <2> QED BY <1>1, <2>1, NamesAre
<1>4. ASSUME t.named, ~Both(t) PROVE \E i \in Own : \E f \in DOMAIN t.words[i] : Single(f, t.words[i][f])
  <2>1. PICK i \in Own : \E f \in DOMAIN it.words[i] : Single(f, it.words[i][f])
    BY <1>1, <1>2, <1>4 DEF NamedOK
  <2>2. PICK f \in DOMAIN it.words[i] : Single(f, it.words[i][f])
    BY <2>1
  <2>3. Single(f, t.words[i][f]) /\ f \in DOMAIN t.words[i]
    BY <1>1, <2>2, NamesAre
  <2> QED BY <2>3
<1>5. NamedOK(t)
  BY <1>1, <1>3, <1>4 DEF NamedOK
<1> QED BY <1>5 DEF t

\* Only an item that parts from its mirror image loses or renames anything.
LEMMA ChildNarrows ==
    ASSUME ProblemOK(P), NEW it, ItemOK(P, it), NEW c, Offspring(it, c), ~Parts1(it, c)
    PROVE  Narrows(it, c) /\ c.unbound = it.unbound
<1>1. CASE Settles(it, c)
  BY <1>1, SettlesAdds, AddsNarrows
<1>2. CASE Confines(it, c)
  BY <1>2, ConfinesNarrows
<1>3. CASE Chooses(it, c)
  BY <1>3, ChoosesAdds, AddsNarrows
<1>4. CASE Collapses(it, c)
  BY <1>4, CollapsesAdds, AddsNarrows
<1>5. CASE Aims(it, c)
  BY <1>5, AimsAdds, AddsNarrows
<1>6. CASE Delays1(it, c)
  BY <1>6, DelaysAdds, AddsNarrows
<1> QED BY <1>1, <1>2, <1>3, <1>4, <1>5, <1>6 DEF Offspring

\* `named' tells of every child what it tells of its item.
LEMMA ChildNamed ==
    ASSUME ProblemOK(P), NEW it, ItemOK(P, it), NamedOK(it), NEW c, Offspring(it, c)
    PROVE  NamedOK(c)
<1>1. CASE Settles(it, c) \/ Chooses(it, c) \/ Collapses(it, c) \/ Aims(it, c) \/ Delays1(it, c)
  <2>1. Adds(it, c)
    BY <1>1, SettlesAdds, ChoosesAdds, CollapsesAdds, AimsAdds, DelaysAdds
  <2> QED BY <2>1, AddsNamed
<1>2. CASE Confines(it, c)
  BY <1>2, ConfinesNarrows, SameNamed
<1>3. CASE Parts1(it, c)
  <2>1. Bound(it).words = it.words /\ Bound(it).named = it.named
    BY BoundIs DEF ItemFields
  <2>2. NamedOK(Bound(it)) /\ NamedOK(Twin(Bound(it)))
    BY <2>1, SameNamed, TwinNamed
  <2> QED BY <1>3, <2>2 DEF Parts1
<1> QED BY <1>1, <1>2, <1>3 DEF Offspring

\* Every child stands for programs of its item, or is its bound mirror image.
LEMMA ChildFrom ==
    ASSUME ProblemOK(P), NEW it, ItemOK(P, it), NEW c, Offspring(it, c)
    PROVE  From(CardOf(it), CardOf(c))
<1>1. CASE ~Parts1(it, c)
  BY <1>1, ChildNarrows, NarrowsFrom
<1>2. CASE Parts1(it, c)
  <2>1. it.unbound /\ c \in {Bound(it), Twin(Bound(it))}
    BY <1>2 DEF Parts1, TellsTwinsApart
  <2>2. CASE c = Bound(it)
    BY <2>1, <2>2, BoundNarrows, NarrowsFrom
  <2>3. CASE c = Twin(Bound(it))
    <3> DEFINE t == Twin(Bound(it))
    <3>1. t.unbound = FALSE
      BY TwinIs
    <3>2. (\A q : Has(t, q) => Has(it, MirrorProgram(q))) /\ (Both(it) => Both(t))
      BY TwinHas
    <3> HIDE DEF t
    <3>3. From(CardOf(it), CardOf(t))
      BY <2>1, <3>1, <3>2, CardIs, Zenon DEF From
    <3> QED BY <2>3, <3>3 DEF t
  <2> QED BY <2>1, <2>2, <2>3
<1> QED BY <1>1, <1>2

\* Two children of one item keep clear of one another.
LEMMA PartnersClear ==
    ASSUME ProblemOK(P), NEW it, ItemOK(P, it), NamedOK(it), it.named, NEW c, NEW d, Partners(it, c, d)
    PROVE  Clear(CardOf(c), CardOf(d))
<1> DEFINE t == Twin(Bound(it))
<1>0. /\ t.unbound = FALSE
      /\ \A i \in Own : /\ DOMAIN t.words[i] = DOMAIN it.words[i]
                        /\ \A f \in DOMAIN it.words[i] : t.words[i][f] = MirrorField(f, it.words[i][f])
  BY TwinFields
<1> DEFINE b == Bound(it)
<1>1. b.unbound = FALSE /\ t.unbound = FALSE /\ b.words = it.words
  BY <1>0, BoundIs DEF ItemFields
<1>2. Clear(CardOf(b), CardOf(t))
  <2>1. CASE Both(it)
    <3>1. Both(b) /\ Both(t)
      BY <1>1, <2>1, TwinHas DEF Both
    <3> HIDE DEF b, t
    <3> QED BY <3>1, CardIs DEF Clear
  <2>2. CASE ~Both(it)
    <3>1. PICK i \in Own : \E f \in DOMAIN it.words[i] : Single(f, it.words[i][f])
      BY <2>2 DEF NamedOK
    <3>2. PICK f \in DOMAIN it.words[i] : Single(f, it.words[i][f])
      BY <3>1
    <3>3. f # "side" /\ MirrorField(f, it.words[i][f]) # it.words[i][f]
      BY <3>2, NamesAre
    <3> HIDE DEF b, t
    <3>4. f \in DOMAIN t.words[i] /\ t.words[i][f] = MirrorField(f, it.words[i][f])
      BY <1>0, <3>1, <3>2
    <3>5. ASSUME NEW q, Has(b, q), Has(t, q) PROVE FALSE
      <4>1. q[i][f] = it.words[i][f]
        BY <1>1, <3>2, <3>3, <3>5 DEF Has, Visible
      <4>2. q[i][f] = MirrorField(f, it.words[i][f])
        BY <3>3, <3>4, <3>5 DEF Has, Visible
      <4> QED BY <3>3, <4>1, <4>2
    <3> QED BY <1>1, <3>5, CardIs, Zenon DEF Clear, Meets, Crosses
  <2> QED BY <2>1, <2>2
<1>3. (c = b /\ d = t) \/ (c = t /\ d = b)
  BY DEF Partners
<1> HIDE DEF b, t
<1> QED BY <1>2, <1>3, ClearSymmetric

\* Two children that decide, or are confined to, different values of one field.
LEMMA DifferClear ==
    ASSUME ProblemOK(P), NEW it, ItemOK(P, it), NamedOK(it), NEW c, NEW d, Narrows(it, c), Narrows(it, d),
           NEW slot, NEW f, NEW U, NEW V, Differ(it, c, d, slot, f, U, V)
    PROVE  Clear(CardOf(c), CardOf(d))
<1>1. slot \in Own /\ Visible(f) /\ c.unbound = it.unbound /\ d.unbound = it.unbound
      /\ Only(c, slot, f, U) /\ Only(d, slot, f, V) /\ U \cap V = {}
  BY DEF Differ, Own, Visible
<1>2. ASSUME NEW q, Has(c, q), Has(d, q) PROVE FALSE
  <2>1. q[slot][f] \in U /\ q[slot][f] \in V
    BY <1>1, <1>2, OnlyHas
  <2> QED BY <1>1, <2>1
<1>3. CASE it.named /\ Both(it)
  <2>1. Both(c) /\ Both(d)
    BY <1>3, NarrowsHas
  <2> QED BY <2>1, CardIs DEF Clear
<1>4. CASE it.named /\ ~Both(it)
  <2>1. PICK i \in Own : \E g \in DOMAIN it.words[i] : Single(g, it.words[i][g])
    BY <1>4 DEF NamedOK
  <2>2. PICK g \in DOMAIN it.words[i] : Single(g, it.words[i][g])
    BY <2>1
  <2>3. Visible(g) /\ MirrorField(g, it.words[i][g]) # it.words[i][g]
    BY <2>2, NamesAre DEF Visible
  <2>4. ASSUME NEW q, Has(it, q), Has(it, MirrorProgram(q)) PROVE FALSE
    <3>1. DOMAIN q = Own
      BY <2>4 DEF Has
    <3>2. g \in DOMAIN q[i] /\ q[i][g] = it.words[i][g] /\ MirrorProgram(q)[i][g] = it.words[i][g]
      BY <2>2, <2>3, <2>4 DEF Has
    <3>3. MirrorProgram(q)[i][g] = MirrorField(g, q[i][g])
      BY <3>1, <3>2, MirrorFields
    <3> QED BY <2>3, <3>2, <3>3
  <2>5. \A q : (Has(c, q) => Has(it, q)) /\ (Has(d, q) => Has(it, q))
    BY NarrowsHas
  <2>6. \A q : ~(Has(c, q) /\ Has(d, MirrorProgram(q))) /\ ~(Has(c, MirrorProgram(q)) /\ Has(d, q))
    BY <2>4, <2>5, Zenon
  <2> QED BY <1>2, <2>6, CardIs, Zenon DEF Clear, Meets, Crosses
<1>5. CASE ~it.named
  <2>1. ASSUME it.unbound, NEW q, Has(c, q), Has(d, MirrorProgram(q)) PROVE FALSE
    <3>1. q[slot][f] \in U /\ MirrorField(f, q[slot][f]) \in V
      BY <1>1, <2>1, OnlyHas, OnlyMirrored
    <3> QED BY <1>5, <2>1, <3>1 DEF Differ
  <2>2. ASSUME it.unbound, NEW q, Has(c, MirrorProgram(q)), Has(d, q) PROVE FALSE
    <3>1. q[slot][f] \in V /\ MirrorField(f, q[slot][f]) \in U
      BY <1>1, <2>2, OnlyHas, OnlyMirrored
    <3>2. MirrorField(f, MirrorField(f, q[slot][f])) = q[slot][f]
      BY MirrorFields
    <3> QED BY <1>5, <2>2, <3>1, <3>2 DEF Differ
  <2> QED BY <1>1, <1>2, <2>1, <2>2, CardIs, Zenon DEF Clear, Meets, Crosses
<1> QED BY <1>3, <1>4, <1>5

\* An item that names no register is its own mirror image as long as the registers are alike: it
\* has no other half to part from.
Alike1(it) == ~it.named /\ it.unbound => it.s.m.x = it.s.m.y

\* An item that names no register is its own mirror image: it never parts from it.
LEMMA TwinAlike ==
    ASSUME ProblemOK(P), NEW it, ItemOK(P, it), NamedOK(it), Alike1(it), ~it.named, it.unbound
    PROVE  Twin(Bound(it)) = Bound(it)
<1> DEFINE b == Bound(it)  t == Twin(b)
           words == [i \in Slots |-> IF i < P.slots THEN MirrorWord(it.words[i]) ELSE it.words[i]]
           s == [it.s EXCEPT !.m = Swapped(it.s.m)]
<1>1. /\ t = [f \in ItemFields |-> t[f]] /\ \A f \in ItemFields \ {"words", "s"} : t[f] = b[f]
      /\ t.words = words /\ t.s = s
  BY TwinIs
<1>2. b = [f \in ItemFields |-> b[f]] /\ b.words = it.words /\ b.s = it.s
  <2>1. DOMAIN it = ItemFields
    BY DEF ItemOK
  <2> QED BY <2>1 DEF Bound, ItemFields
<1>3. s = it.s
  <2>1. it.s.m.x = it.s.m.y /\ it.s \in Timed(P) /\ it.s.m \in MachineOf(P.config)
    BY DEF Alike1, ItemOK, Timed
  <2>2. Swapped(it.s.m) = it.s.m
    BY <2>1 DEF Swapped, MachineOf, Machine
  <2> QED BY <2>1, <2>2 DEF Timed
<1>4. words = it.words
  <2>1. ASSUME NEW i \in Own PROVE MirrorWord(it.words[i]) = it.words[i]
    <3> DEFINE w == it.words[i]
    <3>1. w = [f \in DOMAIN w |-> w[f]] /\ \A f \in DOMAIN w : Names(f, w[f]) = {}
      BY DEF NamedOK, Solid
    <3> HIDE DEF w
    <3>2. \A f \in DOMAIN w : MirrorField(f, w[f]) = w[f]
      BY <3>1, NamesAre
    <3>3. MirrorWord(w) = [f \in DOMAIN w |-> MirrorField(f, w[f])]
      BY DEF MirrorWord, MirrorField
    <3>4. [f \in DOMAIN w |-> MirrorField(f, w[f])] = [f \in DOMAIN w |-> w[f]]
      BY <3>2
    <3> QED BY <3>1, <3>3, <3>4 DEF w
  <2>2. \A i \in Slots : i < P.slots => i \in Own
    BY ProblemTypes DEF Slots, Own
  <2>3. it.words = [i \in Slots |-> it.words[i]]
    BY DEF NamedOK, Solid
  <2> QED BY <2>1, <2>2, <2>3
<1> HIDE DEF words, s, t, b
<1>5. \A f \in ItemFields : t[f] = b[f]
  BY <1>1, <1>2, <1>3, <1>4 DEF ItemFields
<1>6. t = b
  BY <1>1, <1>2, <1>5
<1> QED BY <1>6 DEF t, b

\* Any two children of an item.
LEMMA SiblingsClear ==
    ASSUME ProblemOK(P), NEW it, ItemOK(P, it), NamedOK(it), Alike1(it),
           NEW c, Offspring(it, c), NEW d, Offspring(it, d), Siblings(it, c, d)
    PROVE  Clear(CardOf(c), CardOf(d))
<1>1. CASE Partners(it, c, d)
  <2>1. it.named
    BY <1>1, TwinAlike DEF Partners, TellsTwinsApart
  <2> QED BY <1>1, <2>1, PartnersClear
<1>2. CASE \E slot, f, U, V : Differ(it, c, d, slot, f, U, V)
  <2>1. PICK slot, f, U, V : Differ(it, c, d, slot, f, U, V)
    BY <1>2, Zenon
  <2>2. c.unbound = it.unbound /\ d.unbound = it.unbound
    BY <2>1 DEF Differ
  <2>3. ASSUME NEW e, Parts1(it, e) PROVE e.unbound # it.unbound
    <3>1. it.unbound /\ it.unbound \in BOOLEAN
      BY <2>3 DEF Parts1, TellsTwinsApart, ItemOK
    <3>2. Bound(it).unbound = FALSE
      BY BoundIs
    <3>3. Twin(Bound(it)).unbound = FALSE
      BY TwinIs
    <3>4. e = Bound(it) \/ e = Twin(Bound(it))
      BY <2>3 DEF Parts1
    <3> QED BY <3>1, <3>2, <3>3, <3>4
  <2>4. Narrows(it, c) /\ Narrows(it, d)
    BY <2>2, <2>3, ChildNarrows
  <2> QED BY <2>1, <2>4, DifferClear
<1> QED BY <1>1, <1>2, Zenon DEF Siblings

(***************************************************************************)
(* An item that names no register leaves both as they are.                 *)
(***************************************************************************)
Scratch == {"x", "y"}
Untouched(t, s) == /\ Scratch \subseteq DOMAIN t /\ t.x = s.x /\ t.y = s.y

\* Destinations other than the two.
LEMMA StoreKeeps ==
    ASSUME NEW s, Scratch \subseteq DOMAIN s, NEW c, NEW dst, dst \notin Scratch, NEW v, NEW pins, NEW n
    PROVE  Untouched(Store(s, c, dst, v, pins, n), s)
BY DEF Untouched, Scratch, Store

\* Pushing leaves the scratch registers alone, ...
LEMMA PushKeeps ==
    ASSUME NEW s, Scratch \subseteq DOMAIN s, NEW c PROVE Untouched(PushIsr(s, c), s)
BY DEF Untouched, Scratch, PushIsr

\* ... and so does stalling.
LEMMA StallKeeps ==
    ASSUME NEW s, Scratch \subseteq DOMAIN s
    PROVE  /\ \A why : Untouched(StallOn(s, why), s)
           /\ \A why, pol, index : Untouched(StallAt(s, why, pol, index), s)
BY DEF Untouched, Scratch, StallOn, StallAt

\* What an instruction writes is what the engine's table says it writes.
LEMMA WritesNone ==
    ASSUME NEW c, NEW s, Scratch \subseteq DOMAIN s, NEW gpio, NEW i \in Do, NEW word, Writes(i) = "none"
    PROVE  Untouched(ExecOp(s, c, gpio, i, word), s)
<1>0. Untouched(s, s)
  BY DEF Untouched
<1>1. CASE i.op = "jmp"
  <2>1. i.cond # "x--" /\ i.cond # "y--"
    BY <1>1 DEF Writes
  <2> DEFINE t == Taken(s, c, gpio, i)
  <2> HIDE DEF t
  <2>2. Jmp(s, c, gpio, i) = [s EXCEPT !.pc = IF t THEN i.target ELSE @, !.x = s.x, !.y = s.y]
    BY <2>1 DEF Jmp, Scratch, t
  <2>3. Untouched(Jmp(s, c, gpio, i), s)
    BY <2>2 DEF Untouched, Scratch
  <2> QED BY <1>1, <2>3 DEF ExecOp
<1>2. CASE i.op = "wait"
  <2> DEFINE f == FlagOf(i, c)  t == [s EXCEPT !.irq_flags = @ \ {f}]
  <2>1. Untouched(t, s)
    BY DEF Untouched, Scratch
  <2>2. Wait(s, c, gpio, i) \in {StallAt(s, "gpio", i.pol, i.index), StallAt(s, "pin", i.pol, i.index), t,
                                 StallAt(s, "irq", i.pol, f), s}
    BY DEF Wait
  <2>3. Untouched(Wait(s, c, gpio, i), s)
    <3> HIDE DEF t, f
    <3> QED BY <1>0, <2>1, <2>2, StallKeeps
  <2> QED BY <1>2, <2>3 DEF ExecOp
<1>3. CASE i.op = "in"
  <2> DEFINE due(t) == c.autopush /\ t.isr_count >= c.push_threshold
             a == IF due(s) THEN PushIsr(s, c) ELSE s
             v == Low(Source(a, c, gpio, i.src), i.n)
             b == [a EXCEPT !.isr = IF c.in_shift_right THEN ShiftRight(@, v, i.n) ELSE ShiftLeft(@, v, i.n),
                            !.isr_count = Smaller(@ + i.n, W)]
  <2>1. Untouched(a, s)
    <3> HIDE DEF due
    <3> QED BY <1>0, PushKeeps
  <2> HIDE DEF a, v
  <2>2. Untouched(b, s)
    BY <2>1 DEF Untouched, Scratch
  <2> HIDE DEF b
  <2>3. Scratch \subseteq DOMAIN b /\ Untouched(PushIsr(b, c), b)
    BY <2>2, PushKeeps DEF Untouched
  <2>4. Untouched(PushIsr(b, c), s)
    BY <2>2, <2>3 DEF Untouched
  <2>5. In(s, c, gpio, i) \in {StallOn(s, "push"), PushIsr(b, c), b}
    BY DEF In, b, v, a
  <2> QED BY <1>3, <2>2, <2>4, <2>5, StallKeeps DEF ExecOp
<1>4. CASE i.op = "out"
  <2>1. i.dst \notin Scratch
    BY <1>4 DEF Writes, Scratch
  <2> DEFINE osr == IF Refills(s, c) THEN word ELSE s.osr
             count == IF Refills(s, c) THEN 0 ELSE s.osr_count
             data == IF c.out_shift_right THEN Low(osr, i.n) ELSE ShiftRight(osr, Zero, W - i.n)
             left == IF c.out_shift_right THEN ShiftRight(osr, Zero, i.n) ELSE ShiftLeft(osr, Zero, i.n)
             t == [s EXCEPT !.osr = left, !.osr_count = Smaller(count + i.n, W)]
             u == Store(t, c, i.dst, data, Smaller(c.out_count, i.n), i.n)
  <2>2. Out(s, c, i, word) \in {StallOn(s, "pull"), u}
    BY DEF Out
  <2> HIDE DEF osr, count, data, left
  <2>3. Untouched(t, s)
    BY DEF Untouched, Scratch
  <2> HIDE DEF t
  <2>4. Untouched(u, t)
    BY <2>1, <2>3, StoreKeeps DEF Untouched
  <2> HIDE DEF u
  <2>5. Untouched(u, s)
    BY <2>3, <2>4 DEF Untouched
  <2> QED BY <1>4, <2>2, <2>5, StallKeeps DEF ExecOp
<1>5. CASE i.op = "push"
  <2>1. Push(s, c, i) \in {s, StallOn(s, "push"), PushIsr(s, c)}
    BY DEF Push
  <2> QED BY <1>0, <1>5, <2>1, StallKeeps, PushKeeps DEF ExecOp
<1>6. CASE i.op = "pull"
  <2> DEFINE v == IF word = NoWord THEN s.x ELSE word
             t == [s EXCEPT !.osr = v, !.osr_count = 0]
  <2>1. Pull(s, c, i, word) \in {s, StallOn(s, "pull"), t}
    BY DEF Pull
  <2> HIDE DEF v
  <2>2. Untouched(t, s)
    BY DEF Untouched, Scratch
  <2> HIDE DEF t
  <2> QED BY <1>0, <1>6, <2>1, <2>2, StallKeeps DEF ExecOp
<1>7. CASE i.op = "mov"
  <2>1. i.dst \notin Scratch
    BY <1>7 DEF Writes, Scratch
  <2>2. Untouched(Mov(s, c, gpio, i), s)
    BY <2>1, StoreKeeps DEF Mov
  <2> QED BY <1>7, <2>2 DEF ExecOp
<1>8. CASE i.op = "irq"
  <2> DEFINE f == FlagOf(i, c)
             t == [s EXCEPT !.irq_flags = IF i.clear THEN @ \ {f} ELSE @ \cup {f}]
  <2>1. Irq(s, c, i) \in {t, StallAt(t, "irqwait", 0, f)}
    BY DEF Irq
  <2> HIDE DEF f
  <2>2. Untouched(t, s)
    BY DEF Untouched, Scratch
  <2> HIDE DEF t
  <2>3. Untouched(StallAt(t, "irqwait", 0, f), t)
    BY <2>2, StallKeeps DEF Untouched
  <2>4. Untouched(StallAt(t, "irqwait", 0, f), s)
    BY <2>2, <2>3 DEF Untouched
  <2> QED BY <1>8, <2>1, <2>2, <2>4 DEF ExecOp
<1>9. CASE i.op = "set"
  <2>1. i.dst # "x" /\ i.dst # "y"
    BY <1>9 DEF Writes
  <2>2. Untouched(Set(s, c, i), s)
    BY <2>1 DEF Set, Untouched, Scratch
  <2> QED BY <1>9, <2>2 DEF ExecOp
<1>10. i.op \in {"jmp", "wait", "in", "out", "push", "pull", "mov", "irq", "set"}
  BY DEF Do
<1> QED BY <1>1, <1>2, <1>3, <1>4, <1>5, <1>6, <1>7, <1>8, <1>9, <1>10

\* One execution, and one system clock.
LEMMA ExecutesNone ==
    ASSUME NEW c, NEW s, Scratch \subseteq DOMAIN s, NEW gpio, NEW word,
           Fetch(s, c).do \in Do, Writes(Fetch(s, c).do) = "none"
    PROVE  Untouched(Execute(s, c, gpio, word), s)
<1> DEFINE i == Fetch(s, c)
           ready == [s EXCEPT !.pending_exec = NoWord, !.stall = NotStalled]
           t == ExecOp(ready, c, gpio, i.do, word)
           u == SideSet(t, c, i.side)
<1>1. Untouched(ready, s)
  BY DEF Untouched, Scratch
<1>2. Execute(s, c, gpio, word) \in {u, AdvancePc(u, c)}
  BY DEF Execute
<1> HIDE DEF ready, i
<1>3. Untouched(t, ready)
  BY <1>1, WritesNone DEF Untouched, i
<1> HIDE DEF t
<1>4. Untouched(u, t)
  BY <1>3 DEF SideSet, Untouched, Scratch
<1> HIDE DEF u
<1>5. Untouched(AdvancePc(u, c), u)
  BY <1>4 DEF AdvancePc, Untouched, Scratch
<1>6. Untouched(u, s) /\ Untouched(AdvancePc(u, c), s)
  BY <1>1, <1>3, <1>4, <1>5 DEF Untouched
<1> QED BY <1>2, <1>6

\* A cycle that executes nothing that writes a scratch register leaves both alone.
LEMMA ClockedNone ==
    ASSUME NEW p, NEW s \in Timed(p), NEW words, NEW gpio,
           Ticks(p, s) /\ WillExecute(p, s, gpio) =>
              /\ Fetch(s.m, Loading(p, words)).do \in Do
              /\ Writes(Fetch(s.m, Loading(p, words)).do) = "none"
    PROVE  Untouched(Clocked(p, s, words, gpio).m, s.m)
<1> DEFINE c == Loading(p, words)
           e == Execute(s.m, c, gpio, NextWord(s.tx))
           ran == Ran(p, s, words, c, e)
           after == Clocked(p, s, words, gpio)
<1>1. Scratch \subseteq DOMAIN s.m /\ Untouched(s.m, s.m)
  BY DEF Timed, MachineOf, Machine, Scratch, Untouched
<1>2. CASE Ticks(p, s) /\ WillExecute(p, s, gpio)
  <2>1. after = ran
    <3> HIDE DEF ran
    <3>1. s.delay = 0 /\ ~Blocked(p, s, gpio)
      BY <1>2 DEF WillExecute
    <3> QED BY <1>2, <3>1 DEF Clocked, ran
  <2>2. ran.m = e
    BY DEF Ran
  <2>3. Untouched(e, s.m)
    BY <1>1, <1>2, ExecutesNone
  <2> HIDE DEF ran, after, e
  <2> QED BY <2>1, <2>2, <2>3 DEF after
<1>3. CASE ~(Ticks(p, s) /\ WillExecute(p, s, gpio))
  <2>1. ~Ticks(p, s) \/ s.delay > 0 \/ Blocked(p, s, gpio)
    BY <1>3 DEF WillExecute, Timed
  <2>2. after.m = s.m
    <3> HIDE DEF e, ran, c
    <3> QED BY <2>1 DEF Clocked, Timed
  <2> HIDE DEF after
  <2> QED BY <1>1, <2>2 DEF after
<1> QED BY <1>2, <1>3

\* A word that names no register writes none.
LEMMA PlainWrites ==
    ASSUME NEW w, Partial(w), \A f \in DOMAIN w : Names(f, w[f]) = {} PROVE Writes(Meaning(w)) = "none"
<1>1. Get(w, "dst", "pins") \notin {"x", "y"} /\ Get(w, "cond", "always") \notin {"x--", "y--"}
  <2>1. ASSUME "dst" \in DOMAIN w PROVE w["dst"] \notin {"x", "y"}
    BY <2>1 DEF Names
  <2>2. ASSUME "cond" \in DOMAIN w PROVE w["cond"] \notin {"x--", "y--"}
    BY <2>2 DEF Names
  <2> QED BY <2>1, <2>2 DEF Get, Decided
<1> DEFINE op == Get(w, "op", "jmp")  dst == Get(w, "dst", "pins")  cond == Get(w, "cond", "always")
<1>2. CASE op = "jmp"
  <2>1. Meaning(w).op = "jmp" /\ Meaning(w).cond = cond
    BY <1>2 DEF Meaning
  <2> HIDE DEF cond
  <2> QED BY <1>1, <2>1 DEF Writes, cond
<1>3. CASE op \in {"out", "mov", "set"}
  <2>1. Meaning(w).op = op /\ Meaning(w).dst = dst
    BY <1>3 DEF Meaning, MovDo
  <2> HIDE DEF dst, op
  <2> QED BY <1>1, <1>3, <2>1 DEF Writes, dst
<1>4. CASE op \in {"wait", "in", "fifo", "irq"}
  <2>1. Meaning(w).op \in {"wait", "in", "push", "pull", "irq"}
    BY <1>4 DEF Meaning
  <2> QED BY <2>1 DEF Writes
<1>5. op \in {"jmp", "wait", "in", "out", "fifo", "mov", "irq", "set"}
  BY DEF Partial, Opcodes, Get, Decided
<1> QED BY <1>2, <1>3, <1>4, <1>5

\* An instruction that touches neither register writes none.
LEMMA UntouchedWrites == \A i \in Do : ~TouchesRegisters(i) => Writes(i) = "none"
<1> SUFFICES ASSUME NEW i \in Do, ~TouchesRegisters(i) PROVE Writes(i) = "none"
  OBVIOUS
<1>1. CASE i.op = "jmp"
  <2>1. i.cond \notin {"x--", "y--"}
    BY <1>1 DEF TouchesRegisters
  <2> QED BY <1>1, <2>1 DEF Writes
<1>2. CASE i.op \in {"out", "set", "mov"}
  <2>1. i.dst \notin {"x", "y"}
    BY <1>2 DEF TouchesRegisters
  <2> QED BY <1>2, <2>1 DEF Writes
<1>3. CASE i.op \notin {"jmp", "out", "set", "mov"}
  BY <1>3 DEF Writes
<1> QED BY <1>1, <1>2, <1>3

\* As long as an item that names no register stands for its mirror image, too, it writes neither.
LEMMA SteppedNone ==
    ASSUME ProblemOK(P), NEW it, ItemOK(P, it), NamedOK(it), ~it.named, it.unbound, Aimed(it), ~TellsTwinsApart(it)
    PROVE  Untouched(Stepped(it).m, it.s.m)
<1> DEFINE m == it.s.m
           c == Loaded(it)
           i == Fetch(m, c).do
           e == Executable(it)[Pc(it)]
<1>1. Inside(it) /\ it.s \in Timed(P) /\ m \in Machine
  BY DEF Aimed, Untagged, Fetched, Classed, ItemOK, Timed, MachineOf
<1>2. ASSUME Ticks(P, it.s), WillExecute(P, it.s, Gpio(it)) PROVE i \in Do /\ Writes(i) = "none"
  <2>1. ~Asymmetric(m, c, NextWord(it.s.tx))
    BY <1>2 DEF TellsTwinsApart
  <2>2. CASE Forced(m)
    <3> DEFINE d == Decoded[m.pending_exec]
    <3>1. m.pending_exec \in Word
      BY <1>1, <2>2 DEF Machine, Forced
    <3>2. d \in Insn
      BY <3>1, IsaAssumption
    <3>3. ~TouchesRegisters(d.do)
      BY <2>1, <2>2 DEF Asymmetric
    <3>4. i = d.do
      BY <2>2 DEF Fetch
    <3> HIDE DEF d, i
    <3>5. d.do \in Do
      BY <3>2 DEF Insn
    <3> QED BY <3>3, <3>4, <3>5, UntouchedWrites
  <2>3. CASE ~Forced(m)
    <3>1. Fetching(it)
      BY <1>2, <2>3 DEF Fetching, WillFetch
    <3>2. Pc(it) \in Slots /\ m.pc = Pc(it) /\ Pc(it) < P.slots
      BY <1>1, <3>1, FetchedIs
    <3>3. Pc(it) \in Own
      BY <3>2, ProblemTypes DEF Slots, Own
    <3>4. c = [P.config EXCEPT !.code = [k \in Slots |-> AsInsn(Executable(it)[k])]] /\ P.config \in Config
      BY <1>1, ExecutableIs, LoadingType, ProblemTypes DEF Loaded
    <3>5. i = Meaning(e)
      <4>1. Fetch(m, c) = c.code[m.pc]
        BY <2>3 DEF Fetch
      <4>2. c.code[m.pc] = AsInsn(e)
        BY <3>2, <3>4 DEF Config
      <4> QED BY <4>1, <4>2 DEF AsInsn
    <3>6. /\ DOMAIN e = DOMAIN Here(it) \cup (IF SideHeld(it) THEN {"side"} ELSE {}) \cup (IF WaitHeld(it) THEN {"index"} ELSE {})
          /\ \A f \in DOMAIN Here(it) : e[f] = Here(it)[f]
          /\ Partial(e)
      BY <1>1, <3>2, ExecutableIs
    <3>7. \A f \in DOMAIN Here(it) : Names(f, Here(it)[f]) = {}
      BY <3>3 DEF NamedOK, Here
    <3> HIDE DEF e, i, c, m
    <3>8. \A f \in DOMAIN e : Names(f, e[f]) = {}
      <4>1. \A v : Names("side", v) = {} /\ Names("index", v) = {}
        BY DEF Names
      <4> QED BY <3>6, <3>7, <4>1
    <3>9. Writes(Meaning(e)) = "none" /\ Meaning(e) \in Do
      BY <3>6, <3>8, PlainWrites, MeaningType
    <3> QED BY <3>5, <3>9
  <2> QED BY <2>2, <2>3
<1>3. Ticks(P, it.s) /\ WillExecute(P, it.s, Gpio(it)) =>
         /\ Fetch(it.s.m, Loading(P, Executable(it))).do \in Do
         /\ Writes(Fetch(it.s.m, Loading(P, Executable(it))).do) = "none"
  BY <1>2 DEF Loaded
<1> HIDE DEF m, c, i, e
<1>4. Untouched(Clocked(P, it.s, Executable(it), Gpio(it)).m, it.s.m)
  BY <1>1, <1>3, ClockedNone
<1> QED BY <1>4 DEF Stepped

\* A cycle keeps the registers of an item that names none alike; and so does what drives the next.
LEMMA ReadyKeeps ==
    ASSUME ProblemOK(P), NEW it, ItemOK(P, it), NamedOK(it), Alike1(it)
    PROVE  NamedOK(Ready(it)) /\ Alike1(Ready(it)) /\ CardOf(Ready(it)) = CardOf(it)
<1>1. \A f \in ItemFields \ {"s", "next"} : Ready(it)[f] = it[f]
  BY ReadyOK
<1>2. Ready(it).words = it.words /\ Ready(it).named = it.named /\ Ready(it).unbound = it.unbound
      /\ Ready(it).constraints = it.constraints
  BY <1>1 DEF ItemFields
<1>3. Ready(it).s.m.x = it.s.m.x /\ Ready(it).s.m.y = it.s.m.y
  <2> DEFINE d == Driven(P, it.s, it.cycle, it.next)
  <2>1. it.s \in Timed(P) /\ it.s.m \in Machine /\ DOMAIN it = ItemFields
    BY DEF ItemOK, Timed, MachineOf
  <2>2. d.m.x = it.s.m.x /\ d.m.y = it.s.m.y
    BY <2>1 DEF Driven, Timed, Machine
  <2> HIDE DEF d
  <2>3. Ready(it).s = d \/ Ready(it) = it
    BY <2>1 DEF Ready, ItemFields, d
  <2> QED BY <2>2, <2>3
<1>4. NamedOK(Ready(it))
  BY <1>2, SameNamed
<1> QED BY <1>2, <1>3, <1>4 DEF Alike1, CardOf

\* An item that goes on to its next cycle keeps its card, and its registers alike.
LEMMA GoesKeeps ==
    ASSUME ProblemOK(P), NEW it, ItemOK(P, it), NamedOK(it), Alike1(it), Proceeds(it), NEW submax
    PROVE  LET b == [Advanced(it, Stepped(it)) EXCEPT !.nop_submax = submax]
           IN  ItemOK(P, b) /\ NamedOK(b) /\ Alike1(b) /\ CardOf(b) = CardOf(it)
<1> DEFINE a == Advanced(it, Stepped(it))
<1>1. Inside(it) /\ (Fetching(it) => Wanted(it) = "none") /\ Aimed(it) /\ ~TellsTwinsApart(it)
  BY DEF Proceeds, Aimed, Untagged, Fetched, Classed
<1>2. /\ ItemOK(P, a) /\ \A f \in ItemFields \ {"s", "cycle", "tags"} : a[f] = it[f]
      /\ a.s = Stepped(it)
  BY <1>1, AdvancedOK
<1> HIDE DEF a
<1> DEFINE b == [a EXCEPT !.nop_submax = submax]
<1>3. ItemOK(P, b)
  BY <1>2 DEF ItemOK, ItemFields
<1>4. b.words = it.words /\ b.named = it.named /\ b.unbound = it.unbound /\ b.constraints = it.constraints /\ b.s = Stepped(it)
  BY <1>2 DEF ItemFields
<1> HIDE DEF b
<1>5. NamedOK(b)
  BY <1>4, SameNamed
<1>6. Alike1(b)
  <2>1. ASSUME ~b.named, b.unbound PROVE b.s.m.x = b.s.m.y
    <3>1. Untouched(Stepped(it).m, it.s.m)
      BY <1>1, <1>4, <2>1, SteppedNone
    <3> QED BY <1>4, <2>1, <3>1 DEF Untouched, Alike1
  <2> QED BY <2>1 DEF Alike1
<1> QED BY <1>3, <1>4, <1>5, <1>6 DEF CardOf, b, a

\* Deciding one more field leaves the registers as they are.
LEMMA AddsAlike ==
    ASSUME ProblemOK(P), NEW it, ItemOK(P, it), Alike1(it), NEW c, Adds(it, c), c.s = it.s PROVE Alike1(c)
<1>1. c.unbound = it.unbound /\ (~c.named => ~it.named)
  BY AddsNarrows, Zenon DEF Adds, Decides1
<1> QED BY <1>1 DEF Alike1

\* The children of an item whose registers are alike have theirs alike.
LEMMA ChildAlike ==
    ASSUME ProblemOK(P), NEW it, ItemOK(P, it), NamedOK(it), Alike1(it), NEW c, Offspring(it, c)
    PROVE  Alike1(c)
<1>1. CASE Settles(it, c)
  <2>1. PICK slot, f : \E v \in Allowed(it.constraints, slot, f, Whole[f]) : c = Settling(it, slot, f, v)
    BY <1>1, Zenon DEF Settles
  <2>2. PICK v : c = Settling(it, slot, f, v)
    BY <2>1, Zenon
  <2>3. c.s = it.s
    BY <2>2, DecidingFields DEF ItemFields
  <2> QED BY <1>1, <2>3, SettlesAdds, AddsAlike
<1>2. CASE Confines(it, c)
  BY <1>2, ConfinesNarrows DEF Alike1
<1>3. CASE Chooses(it, c)
  BY <1>3, ChoosesAdds, AddsAlike
<1>4. CASE Collapses(it, c)
  <2>1. PICK slot : \E r \in Tagged(it.tags) : it.tags[r] = slot
    BY <1>4, Zenon DEF Collapses
  <2>2. slot \in Slots /\ Awaited(it.words[slot])
    BY <2>1 DEF Tagged, ItemOK, TagsOK
  <2>3. slot \in Own
    <3>1. it.words[slot] # Filler
      BY <2>2 DEF Awaited, Filler
    <3> QED BY <2>2, <3>1, ProblemTypes DEF ItemOK, WordsOK, Slots, Own
  <2>4. "dst" \in DOMAIN it.words[slot] /\ it.words[slot]["dst"] \in {"x", "y"}
    BY <2>2 DEF Awaited
  <2>5. Names("dst", it.words[slot]["dst"]) # {}
    BY <2>4 DEF Names
  <2>6. it.named
    BY <2>3, <2>4, <2>5 DEF NamedOK
  <2>7. Adds(it, c)
    BY <1>4, CollapsesAdds
  <2>8. ~c.named => ~it.named
    BY <2>7, Zenon DEF Adds, Decides1
  <2> QED BY <2>6, <2>8 DEF Alike1
<1>5. CASE Aims(it, c)
  BY <1>5, AimsAdds, AddsAlike
<1>6. CASE Parts1(it, c)
  <2>1. c = Bound(it) \/ c = Twin(Bound(it))
    BY <1>6 DEF Parts1
  <2>2. Bound(it).unbound = FALSE
    BY BoundIs
  <2>3. Twin(Bound(it)).unbound = FALSE
    BY TwinFields
  <2>4. c.unbound = FALSE
    BY <2>1, <2>2, <2>3
  <2> QED BY <2>4 DEF Alike1
<1>7. CASE Delays1(it, c)
  <2>1. Adds(it, c) /\ Proceeds(it) /\ c.s.m = Stepped(it).m
    BY <1>7, DelaysAdds
  <2>2. c.unbound = it.unbound /\ (~c.named => ~it.named)
    BY <2>1, AddsNarrows, Zenon DEF Adds, Decides1
  <2>3. ASSUME ~it.named, it.unbound PROVE Untouched(Stepped(it).m, it.s.m)
    BY <2>1, <2>3, SteppedNone DEF Proceeds
  <2> QED BY <2>1, <2>2, <2>3 DEF Alike1, Untouched
<1> QED BY <1>1, <1>2, <1>3, <1>4, <1>5, <1>6, <1>7 DEF Offspring

(***************************************************************************)
(* The frontier of a problem whose seed names no register.                 *)
(***************************************************************************)
Plain == ~Root(0, P.seed).named

\* A word that touches neither register names neither.
LEMMA PlainNames ==
    ASSUME NEW w, Partial(w), "op" \in DOMAIN w, ~TouchesRegisters(Meaning(w)), NEW f \in DOMAIN w
    PROVE  Names(f, w[f]) = {}
<1>1. w.op \in Opcodes
  BY DEF Partial, Decided
<1>2. f \in {"side", "op", "delay"} \cup Fields(w.op)
  BY DEF Partial, Decided, Fields
<1>3. Get(w, "op", "jmp") = w.op
  BY DEF Get, Decided
<1>4. CASE f = "cond"
  <2>1. w.op = "jmp"
    BY <1>1, <1>2, <1>4, FieldsAre DEF Opcodes
  <2>2. Meaning(w).op = "jmp" /\ Meaning(w).cond = w[f]
    BY <1>3, <1>4, <2>1 DEF Meaning, Get, Decided
  <2> QED BY <1>4, <2>2 DEF TouchesRegisters, Names
<1>5. CASE f = "dst"
  <2>1. w.op \in {"out", "mov", "set"}
    BY <1>1, <1>2, <1>5, FieldsAre DEF Opcodes
  <2>2. Meaning(w).op = w.op /\ Meaning(w).dst = w[f]
    BY <1>3, <1>5, <2>1 DEF Meaning, MovDo, Get, Decided
  <2> QED BY <1>5, <2>1, <2>2 DEF TouchesRegisters, Names
<1>6. CASE f = "src"
  <2>1. w.op \in {"wait", "in", "mov"}
    BY <1>1, <1>2, <1>6, FieldsAre DEF Opcodes
  <2>2. CASE w.op = "wait"
    <3>1. w[f] \in {"gpio", "pin", "irq", "jmppin"}
      BY <1>6, <2>2 DEF Partial, Domain
    <3> QED BY <1>6, <3>1 DEF Names
  <2>3. CASE w.op \in {"in", "mov"}
    <3>1. Meaning(w).op = w.op /\ Meaning(w).src = w[f]
      BY <1>3, <1>6, <2>3 DEF Meaning, MovDo, Get, Decided
    <3> QED BY <1>6, <2>3, <3>1 DEF TouchesRegisters, Names
  <2> QED BY <2>1, <2>2, <2>3
<1> QED BY <1>4, <1>5, <1>6 DEF Names

\* The root of a plain problem names no register, and starts with both at zero.
LEMMA RootPlain ==
    ASSUME ProblemOK(P), Plain, NEW h
    PROVE  NamedOK(Root(h, P.seed)) /\ Alike1(Root(h, P.seed))
<1> DEFINE s == P.seed
           r == Root(h, s)
           spelled == [i \in 0 .. P.slots - 1 |-> Padded(s.words[i])]
<1>1. /\ DOMAIN s.words = Own /\ \A i \in Own : Partial(s.words[i])
      /\ \A i \in Own : s.words[i] = [f \in DOMAIN s.words[i] |-> s.words[i][f]]
  BY Zenon DEF ProblemOK, ValidSeed, Own
<1>2. ~r.named /\ \A i \in Own : s.words[i] # Blank => Decided(s.words[i], "op") /\ ~TouchesRegisters(Meaning(s.words[i]))
  BY <1>1 DEF Plain, Root
<1>3. r.words = Filled(P, spelled)
  BY DEF Root
<1>4. DOMAIN r.words = Slots /\ r.words = [i \in Slots |-> r.words[i]]
  <2> HIDE DEF r, spelled
  <2> QED BY <1>3 DEF Filled
<1>5. \A i \in Own : r.words[i] = Padded(s.words[i])
  <2>1. Own \subseteq Slots /\ \A i \in Own : i < P.slots
    BY OwnSlots
  <2> HIDE DEF r, s
  <2> QED BY <1>3, <2>1 DEF Filled, Own
<1>6. r.s.m.x = r.s.m.y
  BY DEF Root, Powered, Reset
<1> HIDE DEF r, s
<1>7. ASSUME NEW i \in Own PROVE r.words[i] = [f \in DOMAIN r.words[i] |-> r.words[i][f]]
  BY <1>1, <1>5, <1>7 DEF Padded, Decide
<1>8. ASSUME NEW i \in Own, NEW f \in DOMAIN r.words[i] PROVE Names(f, r.words[i][f]) = {}
  <2> DEFINE w == s.words[i]
  <2>1. r.words[i] = w \/ r.words[i] = Decide(w, "side", NoWord)
    BY <1>5 DEF Padded
  <2>2. ASSUME NEW g \in DOMAIN w PROVE Names(g, w[g]) = {}
    <3>1. w # Blank
      BY <2>2 DEF Blank
    <3>2. Partial(w) /\ "op" \in DOMAIN w /\ ~TouchesRegisters(Meaning(w))
      BY <1>1, <1>2, <3>1 DEF Decided
    <3> HIDE DEF w
    <3> QED BY <2>2, <3>2, PlainNames
  <2> HIDE DEF w
  <2>3. f = "side" \/ (f \in DOMAIN w /\ r.words[i][f] = w[f])
    BY <1>8, <2>1 DEF Decide
  <2>4. f = "side" => Names(f, r.words[i][f]) = {}
    BY DEF Names
  <2> QED BY <2>2, <2>3, <2>4
<1>9. NamedOK(r) /\ Alike1(r)
  BY <1>2, <1>4, <1>6, <1>7, <1>8, Zenon DEF NamedOK, Alike1, Solid
<1> QED BY <1>9 DEF r, s

\* The elements of a sequence that grows by one, by their places.
LEMMA AppendAt ==
    ASSUME NEW a, IsSeq(a), NEW x
    PROVE  /\ Len(a) \in Nat /\ DOMAIN a = 1 .. Len(a) /\ DOMAIN Append(a, x) = 1 .. Len(a) + 1
           /\ Append(a, x)[Len(a) + 1] = x /\ \A i \in 1 .. Len(a) : Append(a, x)[i] = a[i]
<1> DEFINE A == Seqs!ToSet(a)
           S == A \cup {x}
           c == Append(a, x)
<1>1. a \in Seq(S) /\ x \in S
  <2>1. a \in Seq(A) /\ A \subseteq S
    BY Elements
  <2> HIDE DEF S, A
  <2> QED BY <2>1, SeqMonotonic DEF S
<1>2. Len(a) \in Nat /\ DOMAIN a = 1 .. Len(a)
  BY Elements
<1>3. c \in Seq(S) /\ Len(c) = Len(a) + 1 /\ c[Len(a) + 1] = x /\ \A i \in 1 .. Len(a) : c[i] = a[i]
  <2> HIDE DEF S
  <2> QED BY <1>1, AppendProperties
<1> HIDE DEF c, S
<1>4. DOMAIN c = 1 .. Len(a) + 1
  BY <1>3, LenProperties
<1> QED BY <1>2, <1>3, <1>4 DEF c

\* The elements of a sequence that is cut by one, by their places.
LEMMA FrontAt ==
    ASSUME NEW a, IsSeq(a), a # << >>
    PROVE  /\ Len(a) \in Nat \ {0} /\ DOMAIN a = 1 .. Len(a) /\ DOMAIN SubSeq(a, 1, Len(a) - 1) = 1 .. Len(a) - 1
           /\ \A i \in 1 .. Len(a) - 1 : SubSeq(a, 1, Len(a) - 1)[i] = a[i]
<1> DEFINE S == Seqs!ToSet(a)
           n == Len(a)
           c == SubSeq(a, 1, n - 1)
<1>1. a \in Seq(S) /\ n \in Nat \ {0} /\ DOMAIN a = 1 .. n
  BY Elements
<1> HIDE DEF S, n
<1>2. c \in Seq(S) /\ Len(c) = n - 1 /\ \A i \in 1 .. n - 1 : c[i] = a[i]
  <2>1. \A i \in 1 .. n - 1 : a[i] \in S
    BY <1>1
  <2>2. /\ c \in Seq(S) /\ Len(c) = IF 1 <= n - 1 THEN n - 1 - 1 + 1 ELSE 0
        /\ \A i \in 1 .. n - 1 - 1 + 1 : c[i] = a[1 + i - 1]
    BY <1>1, <2>1, SubSeqProperties
  <2> HIDE DEF c
  <2> QED BY <1>1, <2>2
<1> HIDE DEF c
<1>3. DOMAIN c = 1 .. n - 1
  BY <1>1, <1>2, LenProperties
<1> QED BY <1>1, <1>2, <1>3 DEF c, n

\* What is still searched for keeps clear of one another: the items of a stack, the one that runs,
\* and the champions.
Spaced(st, r, ch) ==
    /\ \A i, j \in DOMAIN st : i # j => Clear(CardOf(st[i]), CardOf(st[j]))
    /\ \A i, j \in DOMAIN ch : i # j => Clear(ch[i], ch[j])
    /\ \A i \in DOMAIN st : \A j \in DOMAIN ch : Clear(CardOf(st[i]), ch[j])
    /\ r # NoRun => /\ \A i \in DOMAIN st : Clear(CardOf(r.it), CardOf(st[i]))
                    /\ \A j \in DOMAIN ch : Clear(CardOf(r.it), ch[j])
Plain1(it) == NamedOK(it) /\ Alike1(it)
AllPlain(st, r) == (\A i \in DOMAIN st : Plain1(st[i])) /\ (r # NoRun => Plain1(r.it))

\* The item that runs is replaced by its children.
LEMMA ForkSpaced ==
    ASSUME ProblemOK(P), NEW st, IsSeq(st), NEW r, r # NoRun, NEW ch, ItemOK(P, r.it), Spaced(st, r, ch), AllPlain(st, r),
           NEW children, Kids(r.it, children)
    PROVE  Spaced(st \o children, NoRun, ch) /\ AllPlain(st \o children, NoRun)
<1> DEFINE it == r.it
           all == st \o children
           n == Len(st)
<1>1. /\ n \in Nat /\ DOMAIN st = 1 .. n /\ Len(children) \in Nat /\ DOMAIN children = 1 .. Len(children)
      /\ DOMAIN all = 1 .. n + Len(children)
      /\ \A i \in 1 .. n + Len(children) : all[i] = IF i <= n THEN st[i] ELSE children[i - n]
  BY ConcatAt DEF Kids
<1>2. NamedOK(it) /\ Alike1(it)
  BY DEF AllPlain, Plain1
<1>3. ASSUME NEW k \in DOMAIN children
      PROVE  /\ From(CardOf(it), CardOf(children[k])) /\ Plain1(children[k])
             /\ \A l \in DOMAIN children : k # l => Clear(CardOf(children[k]), CardOf(children[l]))
  <2>1. Offspring(it, children[k])
    BY DEF Kids
  <2>2. From(CardOf(it), CardOf(children[k])) /\ Plain1(children[k])
    BY <1>2, <2>1, ChildFrom, ChildNamed, ChildAlike DEF Plain1
  <2>3. ASSUME NEW l \in DOMAIN children, k # l PROVE Clear(CardOf(children[k]), CardOf(children[l]))
    <3>1. Offspring(it, children[l]) /\ Siblings(it, children[k], children[l])
      BY <2>3 DEF Kids
    <3> QED BY <1>2, <2>1, <3>1, SiblingsClear
  <2> QED BY <2>2, <2>3
<1> HIDE DEF all, n, it
<1>4. \A i \in DOMAIN all : (i \in DOMAIN st /\ all[i] = st[i]) \/ (i - n \in DOMAIN children /\ all[i] = children[i - n])
  BY <1>1
<1>5. \A x, k : k \in DOMAIN children /\ Clear(x, CardOf(it)) => Clear(x, CardOf(children[k]))
  BY <1>3, ClearFrom
<1>6. ASSUME NEW i \in DOMAIN st, NEW k \in DOMAIN children
      PROVE  Clear(CardOf(st[i]), CardOf(children[k])) /\ Clear(CardOf(children[k]), CardOf(st[i]))
  <2>1. Clear(CardOf(it), CardOf(st[i]))
    BY DEF Spaced, it
  <2> QED BY <1>5, <2>1, ClearSymmetric
<1>7. ASSUME NEW j \in DOMAIN ch, NEW k \in DOMAIN children PROVE Clear(CardOf(children[k]), ch[j])
  <2>1. Clear(CardOf(it), ch[j])
    BY DEF Spaced, it
  <2> QED BY <1>5, <2>1, ClearSymmetric
<1>8. ASSUME NEW i \in DOMAIN all, NEW j \in DOMAIN all, i # j PROVE Clear(CardOf(all[i]), CardOf(all[j]))
  <2>1. CASE i \in DOMAIN st /\ all[i] = st[i] /\ j \in DOMAIN st /\ all[j] = st[j]
    BY <1>8, <2>1 DEF Spaced
  <2>2. CASE i \in DOMAIN st /\ all[i] = st[i] /\ j - n \in DOMAIN children /\ all[j] = children[j - n]
    BY <1>6, <2>2
  <2>3. CASE j \in DOMAIN st /\ all[j] = st[j] /\ i - n \in DOMAIN children /\ all[i] = children[i - n]
    BY <1>6, <2>3
  <2>4. CASE j - n \in DOMAIN children /\ all[j] = children[j - n] /\ i - n \in DOMAIN children /\ all[i] = children[i - n]
    <3>1. i - n # j - n
      BY <1>1, <1>8
    <3> QED BY <1>3, <2>4, <3>1
  <2> QED BY <1>4, <2>1, <2>2, <2>3, <2>4
<1>9. ASSUME NEW i \in DOMAIN all PROVE Plain1(all[i]) /\ \A j \in DOMAIN ch : Clear(CardOf(all[i]), ch[j])
  <2>1. CASE i \in DOMAIN st /\ all[i] = st[i]
    BY <2>1 DEF Spaced, AllPlain
  <2>2. CASE i - n \in DOMAIN children /\ all[i] = children[i - n]
    BY <1>3, <1>7, <2>2
  <2> QED BY <1>4, <2>1, <2>2
<1>10. Spaced(all, NoRun, ch) /\ AllPlain(all, NoRun)
  BY <1>8, <1>9 DEF Spaced, AllPlain
<1> QED BY <1>10 DEF all

\* An item is taken from the stack: it runs, or is done with.
LEMMA TakeSpaced ==
    ASSUME ProblemOK(P), NEW st, IsSeq(st), st # << >>, NEW ch, \A x \in Seqs!ToSet(st) : ItemOK(P, x),
           Spaced(st, NoRun, ch), AllPlain(st, NoRun),
           NEW r, r # NoRun => r.it = Ready(st[Len(st)])
    PROVE  Spaced(SubSeq(st, 1, Len(st) - 1), r, ch) /\ AllPlain(SubSeq(st, 1, Len(st) - 1), r)
<1> DEFINE rest == SubSeq(st, 1, Len(st) - 1)
           top == st[Len(st)]
<1>1. /\ Len(st) \in Nat \ {0} /\ DOMAIN st = 1 .. Len(st) /\ DOMAIN rest = 1 .. Len(st) - 1
      /\ \A i \in 1 .. Len(st) - 1 : rest[i] = st[i]
  BY FrontAt
<1>2. ItemOK(P, top) /\ Plain1(top)
  BY <1>1, Elements DEF AllPlain
<1>3. NamedOK(Ready(top)) /\ Alike1(Ready(top)) /\ CardOf(Ready(top)) = CardOf(top)
  BY <1>2, ReadyKeeps DEF Plain1
<1> HIDE DEF rest
<1>4. \A i \in DOMAIN rest : i \in DOMAIN st /\ i # Len(st) /\ rest[i] = st[i]
  BY <1>1
<1>5. Len(st) \in DOMAIN st
  BY <1>1
<1> HIDE DEF top
<1>6. r # NoRun => /\ CardOf(r.it) = CardOf(top) /\ Plain1(r.it)
  BY <1>3 DEF Plain1, top
<1>7. \A i \in DOMAIN rest : Clear(CardOf(top), CardOf(rest[i]))
  BY <1>4, <1>5 DEF Spaced, top
<1>8. \A j \in DOMAIN ch : Clear(CardOf(top), ch[j])
  BY <1>5 DEF Spaced, top
<1>9. AllPlain(rest, r)
  BY <1>4, <1>6 DEF AllPlain
<1>10. Spaced(rest, r, ch)
  BY <1>4, <1>6, <1>7, <1>8 DEF Spaced
<1> QED BY <1>9, <1>10 DEF rest

\* The item that runs wins.
LEMMA WinSpaced ==
    ASSUME NEW st, NEW r, r # NoRun, NEW ch, IsSeq(ch), Spaced(st, r, ch), AllPlain(st, r)
    PROVE  Spaced(st, NoRun, Append(ch, CardOf(r.it))) /\ AllPlain(st, NoRun)
<1> DEFINE c == CardOf(r.it)
           all == Append(ch, c)
           n == Len(ch)
<1>1. /\ n \in Nat /\ DOMAIN ch = 1 .. n /\ DOMAIN all = 1 .. n + 1
      /\ all[n + 1] = c /\ \A i \in 1 .. n : all[i] = ch[i]
  BY AppendAt
<1> HIDE DEF all, n
<1>2. \A i \in DOMAIN all : (i \in DOMAIN ch /\ all[i] = ch[i]) \/ (i = n + 1 /\ all[i] = c)
  BY <1>1
<1>3. (\A i \in DOMAIN st : Clear(CardOf(st[i]), c) /\ Clear(c, CardOf(st[i])))
      /\ (\A j \in DOMAIN ch : Clear(c, ch[j]) /\ Clear(ch[j], c))
  BY ClearSymmetric DEF Spaced
<1> HIDE DEF c
<1>4. ASSUME NEW i \in DOMAIN all, NEW j \in DOMAIN all, i # j PROVE Clear(all[i], all[j])
  BY <1>2, <1>3, <1>4 DEF Spaced
<1>5. \A i \in DOMAIN st : \A j \in DOMAIN all : Clear(CardOf(st[i]), all[j])
  BY <1>2, <1>3 DEF Spaced
<1>6. Spaced(st, NoRun, all)
  BY <1>4, <1>5 DEF Spaced
<1>7. AllPlain(st, NoRun)
  BY DEF AllPlain
<1> QED BY <1>6, <1>7 DEF all, c

\* A step of the search.
LEMMA StepSpaced ==
    ASSUME Posed, AllItems, Working, AllChampions(champions), SearchStep,
           Spaced(stack, run, champions), AllPlain(stack, run)
    PROVE  Spaced(stack', run', champions') /\ AllPlain(stack', run')
<1>1. ProblemOK(P) /\ horizon \in Nat /\ (Running => ItemOK(P, It)) /\ (Running <=> run # NoRun) /\ It = run.it
  BY PosedOK DEF Posed, Working, Running, It
<1>2. \/ Takes
      \/ Running /\ (Wins(It) \/ (It.cycle < horizon /\ (Ends \/ Forks(It) \/ Goes(It))))
  BY <1>1, StepKinds
<1>3. CASE Takes
  <2>1. ~Running /\ stack # << >> /\ stack' = SubSeq(stack, 1, Len(stack) - 1) /\ champions' = champions
        /\ (run' = run \/ (run'.it = Ready(stack[Len(stack)]) /\ run' # NoRun))
    BY <1>3, Zenon DEF Takes
  <2>2. run = NoRun /\ (run' # NoRun => run'.it = Ready(stack[Len(stack)]))
    BY <1>1, <2>1
  <2>3. IsSeq(stack) /\ \A x \in Seqs!ToSet(stack) : ItemOK(P, x)
    BY DEF AllItems
  <2>4. Spaced(stack, NoRun, champions) /\ AllPlain(stack, NoRun)
    BY <2>2
  <2>5. Spaced(SubSeq(stack, 1, Len(stack) - 1), run', champions) /\ AllPlain(SubSeq(stack, 1, Len(stack) - 1), run')
    BY <1>1, <2>1, <2>2, <2>3, <2>4, TakeSpaced
  <2> QED BY <2>1, <2>5
<1>4. CASE Running /\ Wins(It)
  <2>1. run' = NoRun /\ stack' = stack /\ (champions' = champions \/ champions' = Append(champions, CardOf(It)))
    BY <1>4, Zenon DEF Wins, CardOf
  <2>2. Spaced(stack, NoRun, champions) /\ AllPlain(stack, NoRun)
    BY DEF Spaced, AllPlain
  <2>3. IsSeq(champions)
    BY DEF AllChampions
  <2>4. Spaced(stack, NoRun, Append(champions, CardOf(It)))
    BY <1>1, <1>4, <2>3, WinSpaced
  <2> QED BY <2>1, <2>2, <2>4
<1>5. CASE Running /\ Ends
  BY <1>5 DEF Ends, Spaced, AllPlain
<1>6. CASE Running /\ Forks(It)
  <2>1. PICK children : Kids(It, children) /\ stack' = stack \o children /\ run' = NoRun /\ champions' = champions
    BY <1>6, Zenon DEF Forks
  <2>2. IsSeq(stack)
    BY DEF AllItems
  <2>3. Spaced(stack \o children, NoRun, champions) /\ AllPlain(stack \o children, NoRun)
    BY <1>1, <1>6, <2>1, <2>2, ForkSpaced
  <2> QED BY <2>1, <2>3
<1>7. CASE Running /\ Goes(It)
  <2> DEFINE a == Advanced(It, Stepped(It))
  <2>1. Proceeds(It) /\ stack' = stack /\ champions' = champions /\ run' # NoRun
    BY <1>7, Zenon DEF Goes
  <2>2. PICK submax : run'.it = Ready([a EXCEPT !.nop_submax = submax])
    BY <1>7, Zenon DEF Goes
  <2>3. NamedOK(It) /\ Alike1(It)
    BY <1>1, <1>7 DEF AllPlain, Plain1
  <2> DEFINE b == [a EXCEPT !.nop_submax = submax]
  <2>4. ItemOK(P, b) /\ NamedOK(b) /\ Alike1(b) /\ CardOf(b) = CardOf(It)
    BY <1>1, <1>7, <2>1, <2>3, GoesKeeps
  <2> HIDE DEF b
  <2>5. NamedOK(Ready(b)) /\ Alike1(Ready(b)) /\ CardOf(Ready(b)) = CardOf(b)
    BY <1>1, <2>4, ReadyKeeps
  <2>6. CardOf(run'.it) = CardOf(run.it) /\ Plain1(run'.it) /\ run # NoRun
    BY <1>1, <1>7, <2>2, <2>4, <2>5 DEF Plain1, b
  <2> QED BY <2>1, <2>6 DEF Spaced, AllPlain
<1> QED BY <1>2, <1>3, <1>4, <1>5, <1>6, <1>7

(***************************************************************************)
(* The frontiers of a problem, the ones that are searched and the ones     *)
(* that are kept, and the units.                                           *)
(***************************************************************************)
AllClear(q) == \A i, j \in DOMAIN q : i # j => Clear(q[i], q[j])
UnitCard(u) == [words |-> u.words, free |-> FALSE, constraints |-> u.constraints]
UnitsClear(us) == \A i, j \in DOMAIN us : i # j => Clear(UnitCard(us[i]), UnitCard(us[j]))
FrontierIs(ph, st, r, ch, fb, us) ==
    /\ ph = "frontier" => Spaced(st, r, ch) /\ AllPlain(st, r)
    /\ AllClear(fb) /\ UnitsClear(us)
Frontier == Plain => FrontierIs(phase, stack, run, champions, fallback, units)

\* As long as the problem is the same, what cards have in common stays so.
LEMMA SameProblem ==
    ASSUME problem' = problem
    PROVE  Frontier' <=> (Plain => FrontierIs(phase', stack', run', champions', fallback', units'))
<1>1. P' = P /\ Own' = Own /\ (HasSide' <=> HasSide)
  BY DEF P, Own, HasSide
<1>2. \A c, q : Has(c, q)' <=> Has(c, q)
  BY <1>1 DEF Has, Visible
<1>3. \A c : Both(c)' <=> Both(c)
  BY <1>1 DEF Both
<1>4. \A a, b : Clear(a, b)' <=> Clear(a, b)
  BY <1>2, <1>3, Zenon DEF Clear, Meets, Crosses
<1>5. Plain' <=> Plain
  BY <1>1 DEF Plain, Root
<1>6. \A it : Plain1(it)' <=> Plain1(it)
  <2> TAKE it
  <2>1. NamedOK(it)' <=> NamedOK(it)
    BY <1>1, <1>3, Zenon DEF NamedOK, Single, Solid
  <2>2. Alike1(it)' <=> Alike1(it)
    BY DEF Alike1
  <2> QED BY <2>1, <2>2 DEF Plain1
<1>7. Spaced(stack, run, champions)' <=> Spaced(stack', run', champions')
  BY <1>4 DEF Spaced
<1>8. AllPlain(stack, run)' <=> AllPlain(stack', run')
  BY <1>6 DEF AllPlain
<1>9. (AllClear(fallback)' <=> AllClear(fallback')) /\ (UnitsClear(units)' <=> UnitsClear(units'))
  BY <1>4 DEF AllClear, UnitsClear
<1> QED BY <1>5, <1>7, <1>8, <1>9 DEF Frontier, FrontierIs

\* A champion as a seed, and the mirror image of that, field by field.
LEMMA SeedFields ==
    ASSUME NEW c
    PROVE  LET s == SeedOf(c)
               m == MirrorSeed(s)
           IN  /\ s.constraints = c.constraints /\ m.constraints = c.constraints
               /\ \A i \in Own : /\ DOMAIN s.words[i] = DOMAIN c.words[i] \ (IF HasSide THEN {} ELSE {"side"})
                                 /\ \A f \in DOMAIN s.words[i] : s.words[i][f] = c.words[i][f]
                                 /\ DOMAIN m.words[i] = DOMAIN s.words[i]
                                 /\ \A f \in DOMAIN s.words[i] : m.words[i][f] = MirrorField(f, s.words[i][f])
               /\ (\A i \in Own : \A f \in DOMAIN s.words[i] : MirrorField(f, s.words[i][f]) = s.words[i][f]) => m = s
<1> DEFINE words == Searched(c.words)
           mirror == [i \in Own |-> MirrorWord(words[i])]
           s == SeedOf(c)
           m == MirrorSeed(s)
<1>1. /\ DOMAIN words = Own
      /\ \A i \in Own : words[i] = [f \in DOMAIN c.words[i] \ (IF HasSide THEN {} ELSE {"side"}) |-> c.words[i][f]]
  BY DEF Searched, Own
<1>2. s = [words |-> words, constraints |-> c.constraints]
  BY DEF SeedOf
<1> DEFINE all == [i \in DOMAIN s.words |-> MirrorWord(s.words[i])]
<1>3. m = [s EXCEPT !.words = all]
  BY DEF MirrorSeed
<1> HIDE DEF s, words
<1>4. all = mirror
  BY <1>1, <1>2
<1> HIDE DEF all, mirror, m
<1>5. m = [words |-> mirror, constraints |-> c.constraints]
  BY <1>2, <1>3, <1>4
<1>6. DOMAIN mirror = Own /\ \A i \in Own : mirror[i] = MirrorWord(words[i])
  BY DEF mirror
<1>7. \A i \in Own : mirror[i] = [f \in DOMAIN words[i] |-> MirrorField(f, words[i][f])]
  BY <1>6 DEF MirrorWord, MirrorField
<1>8. \A i \in Own : /\ DOMAIN words[i] = DOMAIN c.words[i] \ (IF HasSide THEN {} ELSE {"side"})
                     /\ \A f \in DOMAIN words[i] : words[i][f] = c.words[i][f]
                     /\ words[i] = [f \in DOMAIN words[i] |-> words[i][f]]
  <2> TAKE i \in Own
  <2> DEFINE w == words[i]
             D == DOMAIN c.words[i] \ (IF HasSide THEN {} ELSE {"side"})
  <2>1. w = [f \in D |-> c.words[i][f]]
    BY <1>1
  <2> HIDE DEF w, D
  <2>2. DOMAIN w = D /\ (\A f \in D : w[f] = c.words[i][f]) /\ w = [f \in DOMAIN w |-> w[f]]
    BY <2>1
  <2> QED BY <2>2 DEF w, D
<1>9. ASSUME \A i \in Own : \A f \in DOMAIN words[i] : MirrorField(f, words[i][f]) = words[i][f]
      PROVE  mirror = words
  <2>1. ASSUME NEW i \in Own PROVE mirror[i] = words[i]
    <3> DEFINE w == words[i]
    <3>1. mirror[i] = [f \in DOMAIN w |-> MirrorField(f, w[f])] /\ w = [f \in DOMAIN w |-> w[f]]
      BY <1>7, <1>8
    <3>2. \A f \in DOMAIN w : MirrorField(f, w[f]) = w[f]
      BY <1>9
    <3> HIDE DEF w
    <3>3. [f \in DOMAIN w |-> MirrorField(f, w[f])] = [f \in DOMAIN w |-> w[f]]
      BY <3>2
    <3> QED BY <3>1, <3>3 DEF w
  <2>2. mirror = [i \in Own |-> mirror[i]] /\ words = [i \in Own |-> words[i]]
    <3>1. mirror = [i \in Own |-> mirror[i]]
      BY DEF mirror
    <3>2. words = [i \in Own |-> words[i]]
      BY DEF words, Searched, Own
    <3> QED BY <3>1, <3>2
  <2> QED BY <2>1, <2>2
<1>10. s.words = words /\ s.constraints = c.constraints /\ m.words = mirror /\ m.constraints = c.constraints
  BY <1>2, <1>5
<1>11. (mirror = words => m = s)
  BY <1>2, <1>5
<1>12. \A i \in Own : DOMAIN mirror[i] = DOMAIN words[i] /\ \A f \in DOMAIN words[i] : mirror[i][f] = MirrorField(f, words[i][f])
  BY <1>7
<1>13. (\A i \in Own : \A f \in DOMAIN s.words[i] : MirrorField(f, s.words[i][f]) = s.words[i][f]) => m = s
  BY <1>9, <1>10, <1>11
<1>14. \A i \in Own : /\ DOMAIN s.words[i] = DOMAIN c.words[i] \ (IF HasSide THEN {} ELSE {"side"})
                      /\ \A f \in DOMAIN s.words[i] : s.words[i][f] = c.words[i][f]
                      /\ DOMAIN m.words[i] = DOMAIN s.words[i]
                      /\ \A f \in DOMAIN s.words[i] : m.words[i][f] = MirrorField(f, s.words[i][f])
  BY <1>8, <1>10, <1>12
<1> QED BY <1>10, <1>13, <1>14 DEF m, s

\* What a champion constrains is on slots of its own, and no register's name.
LEMMA ChampionEntries ==
    ASSUME ProblemOK(P), NEW c, ChampionOK(P, c), NEW k \in DOMAIN c.constraints
    PROVE  c.constraints[k].slot \in Own /\ c.constraints[k].field \in {"side", "index"}
<1> DEFINE e == c.constraints[k]
<1>1. EntryOK(P, c.words, e)
  BY DEF ChampionOK, NarrowOK
<1> HIDE DEF e
<1> QED BY <1>1, ProblemTypes DEF EntryOK, Entry, Slots, Own, e

\* The units that a champion becomes have nothing but what it stands for.
LEMMA UnitsFrom ==
    ASSUME ProblemOK(P), NEW c, ChampionOK(P, c)
    PROVE  /\ From(c, UnitCard(SeedOf(c)))
           /\ c.free => From(c, UnitCard(MirrorSeed(SeedOf(c))))
<1> DEFINE s == SeedOf(c)
           m == MirrorSeed(s)
           a == UnitCard(s)
           b == UnitCard(m)
<1>1. /\ s.constraints = c.constraints /\ m.constraints = c.constraints
      /\ \A i \in Own : /\ DOMAIN s.words[i] = DOMAIN c.words[i] \ (IF HasSide THEN {} ELSE {"side"})
                        /\ \A f \in DOMAIN s.words[i] : s.words[i][f] = c.words[i][f]
                        /\ DOMAIN m.words[i] = DOMAIN s.words[i]
                        /\ \A f \in DOMAIN s.words[i] : m.words[i][f] = MirrorField(f, s.words[i][f])
  BY SeedFields
<1> HIDE DEF s, m
<1>2. /\ a.words = s.words /\ a.constraints = c.constraints /\ ~a.free
      /\ b.words = m.words /\ b.constraints = c.constraints /\ ~b.free
  BY <1>1 DEF UnitCard
<1> HIDE DEF a, b
<1>3. \A i \in Own : \A f \in DOMAIN c.words[i] : Visible(f) => f \in DOMAIN s.words[i]
  BY <1>1 DEF Visible
<1>4. ASSUME NEW q, Has(a, q) PROVE Has(c, q)
  BY <1>1, <1>2, <1>3, <1>4 DEF Has
<1>5. ASSUME NEW q, Has(b, q) PROVE Has(c, MirrorProgram(q))
  <2> DEFINE r == MirrorProgram(q)
  <2>1. DOMAIN q = Own /\ DOMAIN r = Own
    BY <1>5, MirrorFields DEF Has
  <2>2. \A i \in Own : DOMAIN r[i] = DOMAIN q[i] /\ \A f \in DOMAIN q[i] : r[i][f] = MirrorField(f, q[i][f])
    BY <2>1, MirrorFields
  <2> HIDE DEF r
  <2>3. ASSUME NEW i \in Own, NEW f \in DOMAIN c.words[i], Visible(f) PROVE f \in DOMAIN r[i] /\ r[i][f] = c.words[i][f]
    <3>1. f \in DOMAIN s.words[i] /\ f \in DOMAIN m.words[i] /\ s.words[i][f] = c.words[i][f]
          /\ m.words[i][f] = MirrorField(f, s.words[i][f])
      BY <1>1, <1>3, <2>3
    <3>2. f \in DOMAIN q[i] /\ q[i][f] = m.words[i][f]
      BY <1>2, <1>5, <2>3, <3>1 DEF Has
    <3>3. r[i][f] = MirrorField(f, MirrorField(f, c.words[i][f]))
      BY <2>2, <3>1, <3>2
    <3> QED BY <2>2, <3>2, <3>3, MirrorFields
  <2>4. ASSUME NEW i \in Own, NEW k \in DOMAIN c.constraints, c.constraints[k].slot = i
        PROVE  c.constraints[k].field \in DOMAIN r[i] /\ r[i][c.constraints[k].field] \in c.constraints[k].allowed
    <3> DEFINE e == c.constraints[k]
    <3>1. e.field \in {"side", "index"}
      BY ChampionEntries
    <3>2. e.field \in DOMAIN q[i] /\ q[i][e.field] \in e.allowed
      BY <1>2, <1>5, <2>4 DEF Has
    <3> HIDE DEF e
    <3>3. r[i][e.field] = q[i][e.field] /\ e.field \in DOMAIN r[i]
      <4>1. MirrorField(e.field, q[i][e.field]) = q[i][e.field]
        BY <3>1, MirrorFields
      <4> QED BY <2>2, <3>2, <4>1
    <3> QED BY <3>2, <3>3 DEF e
  <2>5. Has(c, r)
    BY <2>1, <2>3, <2>4 DEF Has
  <2> QED BY <2>5 DEF r
<1>6. Both(c) => Both(a) /\ Both(b)
  <2> SUFFICES ASSUME NEW i \in Own, Get(c.words[i], "cond", "always") = "x!=y" PROVE Both(a) /\ Both(b)
    BY DEF Both
  <2>1. "cond" \in DOMAIN c.words[i] /\ c.words[i]["cond"] = "x!=y"
    BY DEF Get, Decided
  <2>2. Visible("cond") /\ MirrorField("cond", "x!=y") = "x!=y"
    BY DEF Visible, MirrorField, SwapCond
  <2>3. "cond" \in DOMAIN s.words[i] /\ "cond" \in DOMAIN m.words[i] /\ s.words[i]["cond"] = "x!=y" /\ m.words[i]["cond"] = "x!=y"
    BY <1>1, <1>3, <2>1, <2>2
  <2>4. Get(a.words[i], "cond", "always") = "x!=y" /\ Get(b.words[i], "cond", "always") = "x!=y"
    BY <1>2, <2>3 DEF Get, Decided
  <2> QED BY <2>4 DEF Both
<1>7. From(c, a)
  BY <1>2, <1>4, <1>6 DEF From
<1>8. c.free => From(c, b)
  BY <1>2, <1>5, <1>6 DEF From
<1> QED BY <1>7, <1>8 DEF a, b, m, s

\* The two spellings of a champion have no program in common.
LEMMA SpellingsClear ==
    ASSUME NEW c, MirrorSeed(SeedOf(c)) # SeedOf(c)
    PROVE  Clear(UnitCard(SeedOf(c)), UnitCard(MirrorSeed(SeedOf(c))))
<1> DEFINE s == SeedOf(c)
           m == MirrorSeed(s)
           a == UnitCard(s)
           b == UnitCard(m)
<1>1. PICK i \in Own : \E f \in DOMAIN s.words[i] : MirrorField(f, s.words[i][f]) # s.words[i][f]
  BY SeedFields
<1>2. PICK f \in DOMAIN s.words[i] : MirrorField(f, s.words[i][f]) # s.words[i][f]
  BY <1>1
<1>3. f # "side"
  BY <1>2, MirrorFields
<1>4. f \in DOMAIN m.words[i] /\ m.words[i][f] = MirrorField(f, s.words[i][f])
  BY SeedFields
<1> HIDE DEF m, s
<1>5. a.words = s.words /\ ~a.free /\ b.words = m.words /\ ~b.free
  BY DEF UnitCard
<1> HIDE DEF a, b
<1>6. ASSUME NEW q, Has(a, q), Has(b, q) PROVE FALSE
  <2>1. Visible(f)
    BY <1>3 DEF Visible
  <2>2. q[i][f] = s.words[i][f]
    BY <1>5, <1>6, <2>1 DEF Has
  <2>3. q[i][f] = m.words[i][f]
    BY <1>4, <1>5, <1>6, <2>1 DEF Has
  <2> QED BY <1>2, <1>4, <2>2, <2>3
<1>7. Clear(a, b)
  BY <1>5, <1>6, Zenon DEF Clear, Meets, Crosses
<1> QED BY <1>7 DEF a, b, m, s

\* The units of champions that keep clear of one another do, too.
LEMMA UnitsSpaced ==
    ASSUME ProblemOK(P), NEW q, AllChampions(q), AllClear(q)
    PROVE  UnitsClear(UnitsOf(q))
<1> DEFINE parts == [i \in DOMAIN q |-> Expanded(q[i])]
           first(i) == SeedOf(q[i])
           second(i) == MirrorSeed(SeedOf(q[i]))
           A == UNION {{first(i), second(i)} : i \in DOMAIN q}
           R == {r \in A \X A : Clear(UnitCard(r[1]), UnitCard(r[2]))}
<1>1. Len(q) \in Nat /\ DOMAIN q = 1 .. Len(q) /\ \A i \in DOMAIN q : ChampionOK(P, q[i])
  BY Elements DEF AllChampions
<1>2. \A i \in DOMAIN q : \/ parts[i] = <<first(i)>>
                          \/ parts[i] = <<first(i), second(i)>> /\ q[i].free /\ second(i) # first(i)
  BY Zenon DEF Expanded
<1>3. \A a, b \in A : Clear(UnitCard(a), UnitCard(b)) => <<a, b>> \in R
  <2> HIDE DEF A
  <2> QED OBVIOUS
<1>4. \A i \in DOMAIN q : first(i) \in A /\ second(i) \in A
  OBVIOUS
<1>5. parts = [i \in 1 .. Len(q) |-> parts[i]] /\ UnitsOf(q) = Seqs!FlattenSeq(parts)
  BY <1>1, Zenon DEF UnitsOf
<1> HIDE DEF parts, A
<1>6. IsSeq(parts) /\ DOMAIN parts = DOMAIN q
  BY <1>1, <1>5, TableIsSeq
\* A unit comes from its champion.
<1>7. ASSUME NEW i \in DOMAIN q, NEW a \in DOMAIN parts[i]
      PROVE  parts[i][a] \in A /\ From(q[i], UnitCard(parts[i][a]))
  <2>1. parts[i][a] = first(i) \/ (parts[i][a] = second(i) /\ q[i].free)
    <3> HIDE DEF first, second
    <3> QED BY <1>2
  <2>2. From(q[i], UnitCard(first(i))) /\ (q[i].free => From(q[i], UnitCard(second(i))))
    BY <1>1, UnitsFrom
  <2> HIDE DEF first, second
  <2> QED BY <1>4, <2>1, <2>2
<1>8. ASSUME NEW i \in DOMAIN q PROVE IsSeq(parts[i])
  <2> HIDE DEF first, second
  <2>1. <<first(i)>> \in Seq({first(i), second(i)}) /\ <<first(i), second(i)>> \in Seq({first(i), second(i)})
    OBVIOUS
  <2> QED BY <1>2, <2>1 DEF IsSeq
<1>9. ASSUME NEW i \in DOMAIN q, NEW a \in DOMAIN parts[i], NEW b \in DOMAIN parts[i], a # b
      PROVE  <<parts[i][a], parts[i][b]>> \in R
  <2>1. second(i) # first(i) => Clear(UnitCard(first(i)), UnitCard(second(i)))
    BY SpellingsClear
  <2>2. second(i) # first(i) => Clear(UnitCard(second(i)), UnitCard(first(i)))
    BY <2>1, ClearSymmetric
  <2> HIDE DEF first, second, R
  <2>3. /\ second(i) # first(i)
        /\ (parts[i][a] = first(i) /\ parts[i][b] = second(i)) \/ (parts[i][a] = second(i) /\ parts[i][b] = first(i))
    BY <1>2, <1>9
  <2> QED BY <1>3, <1>4, <2>1, <2>2, <2>3
<1>10. ASSUME NEW i \in DOMAIN q, NEW j \in DOMAIN q, i # j, NEW a \in DOMAIN parts[i], NEW b \in DOMAIN parts[j]
       PROVE  <<parts[i][a], parts[j][b]>> \in R
  <2>1. Clear(q[i], q[j])
    BY <1>10 DEF AllClear
  <2>2. From(q[i], UnitCard(parts[i][a])) /\ From(q[j], UnitCard(parts[j][b])) /\ parts[i][a] \in A /\ parts[j][b] \in A
    BY <1>7
  <2>3. Clear(q[i], UnitCard(parts[j][b]))
    BY <2>1, <2>2, ClearFrom
  <2>4. Clear(UnitCard(parts[j][b]), q[i])
    BY <2>3, ClearSymmetric
  <2>5. Clear(UnitCard(parts[j][b]), UnitCard(parts[i][a]))
    BY <2>2, <2>4, ClearFrom
  <2>6. Clear(UnitCard(parts[i][a]), UnitCard(parts[j][b]))
    BY <2>5, ClearSymmetric
  <2> HIDE DEF R
  <2> QED BY <1>3, <2>2, <2>6
<1> DEFINE all == Seqs!FlattenSeq(parts)
<1>11. \A a, b \in DOMAIN all : a # b => <<all[a], all[b]>> \in R
  <2> HIDE DEF R
  <2> QED BY <1>6, <1>8, <1>9, <1>10, FlatPairs
<1>12. \A x, y : <<x, y>> \in R => Clear(UnitCard(x), UnitCard(y))
  OBVIOUS
<1> HIDE DEF R, all
<1>13. UnitsClear(all)
  BY <1>11, <1>12 DEF UnitsClear
<1> QED BY <1>5, <1>13 DEF all

\* The root stands alone.
LEMMA RootSpaced ==
    ASSUME NEW r, Plain1(r)
    PROVE  Spaced(<<r>>, NoRun, << >>) /\ AllPlain(<<r>>, NoRun)
<1>1. DOMAIN <<r>> = {1} /\ <<r>>[1] = r /\ DOMAIN << >> = {}
  OBVIOUS
<1> QED BY <1>1 DEF Spaced, AllPlain

\* Nothing is searched for at first.
LEMMA FrontierInit == Init => Frontier
<1> SUFFICES ASSUME Init PROVE Frontier
  OBVIOUS
<1>1. phase = "plan" /\ fallback = << >> /\ units = << >>
  BY DEF Init, NoFrontier
<1>2. DOMAIN << >> = {}
  OBVIOUS
<1> QED BY <1>1, <1>2 DEF Frontier, FrontierIs, AllClear, UnitsClear

\* What is searched for keeps clear of one another in every step (search_impl and split_units).
LEMMA FrontierNext == SearchOK /\ Frontier /\ [Next]_vars => Frontier'
<1> SUFFICES ASSUME SearchOK, Frontier, [Next]_vars, Plain
             PROVE  FrontierIs(phase', stack', run', champions', fallback', units')
  BY SameProblem, PlannedNext DEF SearchOK
<1>1. FrontierIs(phase, stack, run, champions, fallback, units)
  BY DEF Frontier
<1>2. Posed /\ AllItems /\ Working /\ AllChampions(champions) /\ AllChampions(fallback) /\ ProblemOK(P)
  BY PosedOK DEF SearchOK
<1>3. AllClear(fallback) /\ UnitsClear(units)
  BY <1>1 DEF FrontierIs
<1>4. phase = "frontier" => Spaced(stack, run, champions) /\ AllPlain(stack, run)
  BY <1>1 DEF FrontierIs
<1>5. phase = "frontier" => AllClear(champions)
  BY <1>4 DEF Spaced, AllClear
<1>6. ASSUME phase' # "frontier", UNCHANGED <<fallback, units>>
      PROVE  FrontierIs(phase', stack', run', champions', fallback', units')
  BY <1>3, <1>6 DEF FrontierIs
<1>7. CASE SearchWhole \/ SearchUnit \/ SettleUnit \/ Merge \/ RefuteAll \/ Conclude
  <2>1. phase' # "frontier" /\ UNCHANGED <<fallback, units>>
    BY <1>7, Zenon DEF SearchWhole, SearchUnit, SettleUnit, Merge, RefuteAll, Conclude
  <2> QED BY <1>6, <2>1
<1>8. CASE SearchPrefix
  <2>1. Begins(prefix, P.seed, P.frontier_cap) /\ UNCHANGED <<fallback, units>>
    BY <1>8 DEF SearchPrefix
  <2>2. stack' = <<Root(prefix, P.seed)>> /\ run' = NoRun /\ champions' = << >>
    BY <2>1, Zenon DEF Begins
  <2>3. Plain1(Root(prefix, P.seed))
    BY <1>2, RootPlain DEF Plain1
  <2>4. Spaced(stack', run', champions') /\ AllPlain(stack', run')
    BY <2>2, <2>3, RootSpaced
  <2> QED BY <1>3, <2>1, <2>4 DEF FrontierIs
<1>9. CASE Explore
  <2>1. SearchStep /\ phase' = phase /\ fallback' = fallback /\ units' = units
    BY <1>9 DEF Explore, splitVars
  <2>2. phase' = "frontier" => Spaced(stack', run', champions') /\ AllPlain(stack', run')
    BY <1>2, <1>4, <2>1, StepSpaced
  <2> QED BY <1>3, <2>1, <2>2 DEF FrontierIs
<1>10. CASE PlanUnits
  <2> DEFINE cover == IF cap_hit THEN fallback ELSE champions
  <2>1. phase = "frontier" /\ phase' # "frontier" /\ fallback' = fallback /\ units' = UnitsOf(cover)
    BY <1>10 DEF PlanUnits
  <2>2. AllChampions(cover) /\ AllClear(cover)
    BY <1>2, <1>3, <1>5, <2>1
  <2> HIDE DEF cover
  <2>3. UnitsClear(UnitsOf(cover))
    BY <1>2, <2>2, UnitsSpaced
  <2> QED BY <1>3, <2>1, <2>3 DEF FrontierIs
<1>11. CASE Widen
  <2>1. phase = "frontier" /\ phase' = "plan" /\ fallback' = champions /\ units' = units
    BY <1>11 DEF Widen
  <2> QED BY <1>3, <1>5, <2>1 DEF FrontierIs
<1>12. CASE Rest \/ UNCHANGED vars
  <2>1. UNCHANGED <<phase, stack, run, champions, fallback, units>>
    BY <1>12, Zenon DEF Rest, vars, searchVars, splitVars
  <2> QED BY <1>1, <2>1
<1> QED BY <1>7, <1>8, <1>9, <1>10, <1>11, <1>12 DEF Next

\* A program of a unit's slots that the unit admits is one that its card has.
LEMMA AdmittedHas ==
    ASSUME NEW u, NEW q, DOMAIN q = Own, Admits(u.words, u.constraints, q)
    PROVE  Has(UnitCard(u), q)
<1>1. UnitCard(u).words = u.words /\ UnitCard(u).constraints = u.constraints
  BY DEF UnitCard
<1>2. \A i \in Own : AdmitsWord(u.words, u.constraints, i, q[i])
  BY DEF Admits
<1> QED BY <1>1, <1>2 DEF Has, AdmitsWord, Decided

\* A spelling of a unit is one, slot by slot.
LEMMA SpellingsAdmitted ==
    ASSUME NEW n, NEW words, NEW constraints, NEW q \in Spellings(n, words, constraints)
    PROVE  DOMAIN q = DOMAIN words /\ Admits(words, constraints, q)
<1> DEFINE of == [slot \in DOMAIN words |-> {w \in Alphabet[n] : AdmitsWord(words, constraints, slot, w)}]
<1>1. q \in Products(Tabled(of))
  BY DEF Spellings
<1>2. Tabled(of) = of
  BY DEF Tabled
<1>3. DOMAIN of = DOMAIN words /\ \A slot \in DOMAIN words : \A w \in of[slot] : AdmitsWord(words, constraints, slot, w)
  OBVIOUS
<1> HIDE DEF of
<1>4. q \in Products(of)
  BY <1>1, <1>2
<1>5. DOMAIN q = DOMAIN of /\ \A slot \in DOMAIN of : q[slot] \in of[slot]
  BY <1>4 DEF Products
<1> QED BY <1>3, <1>5 DEF Admits

\* No program belongs to two units, where only one of its spellings is kept, for every problem
\* (UnitsDisjoint; split_units, engine.rs:6245-6252, and the forks, symmetries and classes of
\* search_impl): the children of an item have no program in common, of a program and its mirror
\* image only one is searched, and the champions of a frontier inherit both.
THEOREM UnitsApart == Spec => []UnitsDisjoint
<1>1. Init => SearchOK /\ Frontier
  BY SearchInit, FrontierInit
<1>2. SearchOK /\ Frontier /\ [Next]_vars => SearchOK' /\ Frontier'
  BY SearchNext, FrontierNext
<1>3. SearchOK /\ Frontier => UnitsDisjoint
  <2> SUFFICES ASSUME SearchOK, Frontier, NEW i \in DOMAIN units, NEW j \in DOMAIN units, i < j, ~KeepsBothNames(units[i]),
                      NEW q \in Spellings(name, units[i].words, units[i].constraints),
                      Admits(units[j].words, units[j].constraints, q)
               PROVE  FALSE
    BY Zenon DEF UnitsDisjoint
  <2> DEFINE u == units[i]
             v == units[j]
  <2>1. DOMAIN units = 1 .. Len(units) /\ Len(units) \in Nat /\ u \in Seqs!ToSet(units)
    BY Elements DEF SearchOK, AllUnits
  <2>2. i # j
    BY <2>1
  <2>3. DOMAIN u.words = Own
    BY <2>1 DEF SearchOK, AllUnits, SeedOK, Own
  <2>4. Plain /\ \A slot \in Own : Get(u.words[slot], "cond", "always") # "x!=y"
    BY <2>3 DEF KeepsBothNames, Plain
  <2>5. Clear(UnitCard(u), UnitCard(v))
    BY <2>2, <2>4 DEF Frontier, FrontierIs, UnitsClear
  <2>6. ~Both(UnitCard(u))
    <3>1. UnitCard(u).words = u.words
      BY DEF UnitCard
    <3> QED BY <2>4, <3>1 DEF Both
  <2>7. DOMAIN q = Own /\ Admits(u.words, u.constraints, q)
    BY <2>3, SpellingsAdmitted
  <2> HIDE DEF u
  <2>8. Has(UnitCard(u), q) /\ Has(UnitCard(v), q)
    BY <2>7, AdmittedHas
  <2> HIDE DEF v
  <2> QED BY <2>5, <2>6, <2>8, Zenon DEF Clear, Meets
<1> QED BY <1>1, <1>2, <1>3, PTL DEF Spec

=============================================================================
