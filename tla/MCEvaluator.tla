----------------------------- MODULE MCEvaluator -----------------------------
(* Small runs for TLC: all programs of two instructions over an alphabet, two bits to a word. *)
EXTENDS Evaluator, TLC

CONSTANT NoSide
w(a, b) == 0 :> a @@ 1 :> b

MCWord == {w(0, 0), w(0, 1), w(1, 0), w(1, 1)}

Alphabet ==
    [op : {"jmp"}, cond : {"x--", "pin", "!osre"}, target : {0}]
    \cup [op : {"wait"}, src : {"pin"}, pol : {1}, index : {0}, flag : {0}, rel : {FALSE}]
    \cup [op : {"wait"}, src : {"irq"}, pol : {0, 1}, index : {0}, flag : {0}, rel : {TRUE}]
    \cup [op : {"in"}, src : {"pins", "isr"}, n : {1}]
    \cup [op : {"out"}, dst : {"pins", "isr"}, n : {1}]
    \cup [op : {"out"}, dst : {"exec", "x"}, n : {2}]
    \cup [op : {"push"}, guard : {TRUE}, block : {TRUE}]
    \cup [op : {"push"}, guard : {FALSE}, block : {FALSE}]
    \cup [op : {"pull"}, guard : {TRUE, FALSE}, block : {TRUE}]
    \cup [op : {"pull"}, guard : {FALSE}, block : {FALSE}]
    \cup [op : {"mov"}, dst : {"pindirs", "pc"}, how : {"invert"}, src : {"osr"}]
    \cup [op : {"mov"}, dst : {"exec"}, how : {"reverse"}, src : {"pins"}]
    \cup [op : {"irq"}, clear : {FALSE}, wait : BOOLEAN, flag : {0}, rel : {TRUE}]
    \cup [op : {"set"}, dst : {"pins"}, data : {w(0, 1)}]

\* The first slot asserts pin 1 by side-set, the second does not.
Code == {(0 :> [do |-> a, side |-> w(0, 0)]) @@ (1 :> [do |-> b, side |-> NoSide]) : a, b \in Alphabet}

\* Two configurations: with automatic push and pull, and without.
Candidate(code, auto) ==
    [code |-> code, wrap_bottom |-> 0, wrap_top |-> 1, side_bits |-> 1, side_pindir |-> ~auto, sm_id |-> 1,
     jmp_pin |-> 1, in_base |-> 1, out_base |-> 1, set_base |-> 0, sideset_base |-> 1,
     out_count |-> 1, set_count |-> 2, autopush |-> auto, autopull |-> auto,
     push_threshold |-> IF auto THEN 2 ELSE 1, pull_threshold |-> IF auto THEN 2 ELSE 1,
     in_shift_right |-> ~auto, out_shift_right |-> auto, rx_depth |-> 1]
MCConfigs == {Candidate(code, auto) : code \in Code, auto \in BOOLEAN}

Exec == w(0, 0) :> [do |-> [op |-> "pull", guard |-> FALSE, block |-> TRUE], side |-> NoSide]
     @@ w(0, 1) :> [do |-> [op |-> "out", dst |-> "exec", n |-> 1], side |-> w(1, 1)]
     @@ w(1, 0) :> [do |-> [op |-> "jmp", cond |-> "always", target |-> 1], side |-> NoSide]
     @@ w(1, 1) :> [do |-> [op |-> "set", dst |-> "x", data |-> w(1, 1)], side |-> NoSide]
ExecDelay == [v \in MCWord |-> v[0]]

MCDelays == {0 :> 0 @@ 1 :> 2}
MCInputs == {<<w(1, 1)>>, <<w(0, 1), w(0, 0), w(1, 1)>>}
MCMasks == {w(0, 1)}
MCExts == {<< >>, <<w(0, 0), w(0, 0), w(0, 0), w(0, 1)>>}
MCOutputs == {w(1, 0)}
===============================================================================
