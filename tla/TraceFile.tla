----------------------------- MODULE TraceFile -----------------------------
(***************************************************************************)
(* The trace of `superopt narrow-split`: a header line, then one line per  *)
(* settled unit, in a file that is only ever appended to.  A line reaches  *)
(* the file in pieces, so a process that dies leaves an unfinished last    *)
(* line: cut short ("torn"), or whole but for its newline ("open").        *)
(* scan_narrow_trace reads the file back when a run resumes.               *)
(*                                                                         *)
(* The scan collects the unit lines in a map keyed by unit, so their order *)
(* does not matter: the lines are a set, with a flag for a unit that has   *)
(* two.  Telemetry and `done` lines are skipped by the scan; they count    *)
(* here only while they are the unfinished last line.                      *)
(***************************************************************************)
EXTENDS Integers, FiniteSets, Sequences

CONSTANT NoHeader    \* the header of an empty file

VARIABLES header,    \* the first line: which run the file belongs to
          lines,     \* the whole unit lines, [unit, by]
          unsynced,  \* those a power loss may still take away
          doubled,   \* some unit has two lines
          garbled,   \* a line was appended to an unfinished one
          tail       \* the last line: "none" unfinished, "torn" or "open"

fileVars == <<header, lines, unsynced, doubled, garbled, tail>>

\* scan_narrow_trace returns Ok: an unfinished last line is forgiven, a bad
\* line inside the file or a second line for a unit is not.
Scannable == header # NoHeader /\ ~garbled /\ ~doubled

\* Opened with truncate: the file starts over.
Truncate ==
    /\ header' = NoHeader
    /\ lines' = {} /\ unsynced' = {}
    /\ doubled' = FALSE /\ garbled' = FALSE

\* Mutant of DropTail: the unfinished line stays in the file.
DropTail_Keep == UNCHANGED fileVars

\* Mutant of DropTail: the length is that of the last line but one.
DropTail_TooMuch ==
    /\ tail' = "none"
    /\ lines' = IF tail = "none" THEN lines ELSE {l \in lines : \E m \in lines : l.unit < m.unit}
    /\ UNCHANGED <<header, unsynced, doubled, garbled>>

\* set_len(good_len): the unfinished last line goes.
DropTail ==
    /\ tail' = "none"
    /\ UNCHANGED <<header, lines, unsynced, doubled, garbled>>

\* Nothing, part, or all but the newline of a line has reached the file.
BeginLine ==
    /\ tail' \in {"none", "torn", "open"}
    /\ garbled' = (garbled \/ tail # "none")
    /\ UNCHANGED <<header, lines, unsynced, doubled>>

\* The rest of it is; every line of the file is whole again.
EndLine(new, synced) ==
    /\ tail' = "none"
    /\ lines' = lines \cup new
    /\ doubled' = (doubled \/ \E l \in lines, m \in new : l.unit = m.unit)
    /\ unsynced' = IF synced THEN {} ELSE unsynced \cup new
    /\ UNCHANGED <<header, garbled>>

\* sync_data.
Sync == unsynced' = {} /\ UNCHANGED <<header, lines, doubled, garbled, tail>>

\* Power loss: any of the lines not yet synced may be gone, and the last
\* one may be left unfinished.
Decay ==
    /\ \E lost \in SUBSET unsynced : lines' = lines \ lost
    /\ unsynced' = {}
    /\ tail' \in {"none", "torn"}
    /\ UNCHANGED <<header, doubled, garbled>>
=============================================================================
