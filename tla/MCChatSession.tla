--------------------------- MODULE MCChatSession ---------------------------
(* A small instance of ChatSession.                                        *)
EXTENDS ChatTurns, TLC

CONSTANTS s1, s2, qa, qb

\* Requests and sessions only ever compare for equality.
Symmetry == Permutations(Sessions) \cup Permutations(Requests)

\* Every endpoint of a chat.
All == AllOps

\* To keep the instance small: with a sub-agent (of the first execution) the chat is
\* only sent to, stopped and answered, and only sub-agents ask.
FewWithSubAgents ==
    LET spawned == {r \in Runs : run[r].sub # "none"}
    IN  spawned # {} =>
          /\ spawned = {1}
          /\ \A r \in Runs : asker[<<r, "main">>] = IdleAsker
          /\ \A m \in Msgs : msg[m].st = "unsent"
          /\ \A q \in Requests : req[q].op \in {"chat", "stop", "answer"}

\* No action reads the chat's rows: of db, the properties see only how often each
\* execution was answered.
View == <<chats, sess, run, asker, req, msg, [r \in Runs |-> Answers(r)]>>
=============================================================================
