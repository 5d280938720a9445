----------------------------- MODULE AgentTurn -----------------------------
(***************************************************************************)
(* What one call of agent.Send promises to the component that makes it,    *)
(* whatever the provider, the code and the user do: it goes round a loop   *)
(* that it never enters once cancelled, and it is over once, leaving at    *)
(* most one answer in the chat: exactly one when it ended in an answer or  *)
(* because it was stopped, none when it failed.  AgentLoop implements      *)
(* this, and the executions of ChatSession are instances of it.            *)
(***************************************************************************)
EXTENDS Naturals

VARIABLES
    phase,      \* "waiting", "send", "loop", "work" or "over"
    cancelled,  \* the context of the call
    answers     \* assistant messages of the call in the chat

turnVars == <<phase, cancelled, answers>>

Init == phase = "waiting" /\ cancelled = FALSE /\ answers = 0

Start == phase = "waiting" /\ phase' = "send" /\ UNCHANGED <<cancelled, answers>>

\* The user's message is recorded and the call admitted, or refused.
Admit ==
    /\ phase = "send"
    /\ phase' \in {"loop", "over"}
    /\ UNCHANGED <<cancelled, answers>>

Enter ==
    /\ phase = "loop" /\ ~cancelled
    /\ phase' = "work"
    /\ UNCHANGED <<cancelled, answers>>

Again == phase = "work" /\ phase' = "loop" /\ UNCHANGED <<cancelled, answers>>

\* The call ends with an answer in the chat; one made while the context is being
\* cancelled may be lost.
Answer ==
    /\ phase \in {"loop", "work"}
    /\ phase' = "over"
    /\ answers' = answers + 1 \/ (cancelled /\ answers' = answers)
    /\ UNCHANGED cancelled

\* It fails, or its process does.
Fail ==
    /\ phase \in {"send", "loop", "work"}
    /\ phase' = "over"
    /\ UNCHANGED <<cancelled, answers>>

Cancel == cancelled' = TRUE /\ UNCHANGED <<phase, answers>>

Next == Start \/ Admit \/ Enter \/ Again \/ Answer \/ Fail \/ Cancel

Spec == Init /\ [][Next]_turnVars
=============================================================================
