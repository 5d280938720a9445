----------------------------- MODULE LogBuffer -----------------------------
(***************************************************************************)
(* The ring buffer of log records that scripts and the web page read       *)
(* (bridge/log.go).  Every operation holds its mutex throughout.           *)
(***************************************************************************)
EXTENDS Integers, Sequences

CONSTANTS
    Records,
    Blank,    \* what a place holds that was never written
    Size      \* > 0: NewLogBuffer takes 200 for any other

ASSUME LogAssumption == Size \in Nat \ {0} /\ Blank \notin Records

VARIABLES
    entries,  \* the ring
    head,     \* the next position to write
    count     \* how many records there are

logVars == <<entries, head, count>>

NewLogBuffer ==
    /\ entries = [p \in 0..(Size - 1) |-> Blank]
    /\ head = 0
    /\ count = 0

HandleUnwrapped(r) ==
    /\ entries' = [entries EXCEPT ![head] = r]
    /\ head' = (head + 1) % Size
    /\ count' = count + 1

Handle(r) ==
    /\ entries' = [entries EXCEPT ![head] = r]
    /\ head' = (head + 1) % Size
    /\ count' = IF count < Size THEN count + 1 ELSE count

\* The last n records, newest first; all for n = 0 or a larger one.
Recent(n) ==
    LET m == IF n = 0 \/ n > count THEN count ELSE n
    IN  [i \in 1..m |-> entries[(head - i + Size) % Size]]

LogNext == \E r \in Records : Handle(r)

LogSpec == NewLogBuffer /\ [][LogNext]_logVars

-----------------------------------------------------------------------------
(* Properties.                                                             *)

LogTypeOK ==
    /\ entries \in [0..(Size - 1) -> Records \cup {Blank}]
    /\ head \in 0..(Size - 1) /\ count \in 0..Size

L == INSTANCE LogLast WITH last <- Recent(0)

\* However often the ring has gone round, reading all of it gives the last Size
\* records, newest first, and none that was overwritten or never written.
RecentIsLast == L!Spec
=============================================================================
