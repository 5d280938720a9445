------------------------------ MODULE LogLast ------------------------------
(***************************************************************************)
(* What a log buffer promises (bridge/log.go: "captures the last N log     *)
(* records"): the last Size records, newest first.                         *)
(***************************************************************************)
EXTENDS Naturals, Sequences

CONSTANTS Records, Size

VARIABLE last

Shorter(n) == IF n < Size THEN n ELSE Size

Init == last = <<>>

Log(r) ==
    last' = [i \in 1..Shorter(Len(last) + 1) |-> IF i = 1 THEN r ELSE last[i - 1]]

Next == \E r \in Records : Log(r)

Spec == Init /\ [][Next]_last
=============================================================================
