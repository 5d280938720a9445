----------------------------- MODULE ChatTurns -----------------------------
(* The executions of ChatSession are turns, as AgentTurn specifies them.   *)
EXTENDS ChatSession

Phase(r) ==
    CASE run[r].pc \in {"none", "spawn"} -> "waiting"
      [] run[r].pc \in {"work", "ask"} -> "work"
      [] run[r].pc \in {"done", "error", "end", "ended"} -> "over"
      [] OTHER -> run[r].pc

IsAnswer(row, r) == row = [kind |-> "answer", id |-> r]

\* Where an execution's answers are.
AnswerRows(r) == UNION {{<<c, k>> : k \in {k \in DOMAIN db[c] : IsAnswer(db[c][k], r)}} : c \in Chats}

Answers(r) == Cardinality(AnswerRows(r))

Turn(r) == INSTANCE AgentTurn WITH
    phase <- Phase(r), cancelled <- run[r].cancelled, answers <- Answers(r)

\* DELETE of a chat's messages takes the answers of its turns with them.
Erasing == \E q \in Requests : WipeMessages(q)

\* However sessions, stops, injected messages and rebuilds interleave, every
\* execution is one turn of the agent: started once, over once, answered once;
\* only who clears the chat takes an answer away.
TurnsImplemented ==
    /\ \A r \in Runs : Turn(r)!Init
    /\ [][Erasing \/ \A r \in Runs : [Turn(r)!Next]_(Turn(r)!turnVars)]_vars
=============================================================================
