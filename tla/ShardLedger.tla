---------------------------- MODULE ShardLedger ----------------------------
(***************************************************************************)
(* What an enumeration campaign promises, whoever runs it: a ledger with   *)
(* one entry per unit of work.  An entry is blank until one complete       *)
(* result of that very unit is recorded, and never changes after that.     *)
(* The ledger is the directory of result files (`shard-NNNN.json`), which  *)
(* docs/fleet.md calls the only state of a campaign.                       *)
(***************************************************************************)
CONSTANTS Units,          \* the units of work
          ResultsOf(_),   \* the complete results a unit may have
          Blank           \* the value of an entry with no result

VARIABLE ledger

Init == ledger = [u \in Units |-> Blank]

\* Record a complete result of unit u, once.
Record(u) ==
    /\ ledger[u] = Blank
    /\ \E r \in ResultsOf(u) : ledger' = [ledger EXCEPT ![u] = r]

Next == \E u \in Units : Record(u)

Spec == Init /\ [][Next]_ledger
=============================================================================
