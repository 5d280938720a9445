-------------------------- MODULE AgentLoopTurns --------------------------
(* The turns of AgentLoop implement AgentTurn, one instance for each turn. *)
EXTENDS AgentLoop

Phase(t) ==
    CASE t > turn -> "waiting"
      [] t <= turn /\ outcome[t] # "none" -> "over"
      [] t <= turn /\ outcome[t] = "none" ->
           IF pc = "begin" THEN "send" ELSE IF pc = "iter" THEN "loop" ELSE "work"

Turn(t) == INSTANCE AgentTurn WITH
    phase <- Phase(t), cancelled <- t \in stopped, answers <- Answers(t)

\* Every turn of the loop is a turn as ChatSession sees it: it is over once, it
\* does not enter another iteration once stopped, and the assistant message it
\* leaves in the chat is written in the step that ends it.
TurnsImplemented ==
    /\ \A t \in Turns : Turn(t)!Init
    /\ [][\A t \in Turns : [Turn(t)!Next]_(Turn(t)!turnVars)]_vars
=============================================================================
