------------------------------ MODULE Terminal ------------------------------
(***************************************************************************)
(* The terminal interface (tui/app.go and startTUI of cmd/altclaw/main.go):*)
(* one goroutine updates the model, key by key and message by message; a   *)
(* turn of the agent runs in a goroutine of its own, and whoever asks the  *)
(* user (the turn's block, a sub-agent it left behind) waits in one more.  *)
(* While a turn runs, what the user enters is queued for it; while a       *)
(* question is shown, it is the answer.  Left out is what the screen looks *)
(* like, what is typed before enter is pressed (a question takes its       *)
(* place), and what an agent remembers of its chat: a new chat, /open and  *)
(* /provider load it, /clear and ctrl+l forget it.                         *)
(***************************************************************************)
EXTENDS Naturals, Sequences, FiniteSets

CONSTANTS
    Texts,     \* what the user writes to the agent, each once
    Asking,    \* who asks the user: Block, and sub-agents
    Block,
    NoOne, NoText,
    MaxChats, MaxAgents, MaxBlocks, MaxQuestions, MaxQueued  \* bounds

Commands == {"new", "open", "delete", "provider"}

ASSUME TerminalAssumption ==
    /\ Block \in Asking /\ NoOne \notin Asking
    /\ NoText \notin Texts \cup Commands
    /\ {MaxChats, MaxAgents} \subseteq Nat \ {0} /\ {MaxBlocks, MaxQuestions, MaxQueued} \subseteq Nat

VARIABLES
    tui,      \* the Model: its agent, chatID, thinking, and whose question it shows
    agents,   \* each agent's ChatID, and whether it drains pendingMsgs
    built,    \* how many agents there are
    pending,  \* Model.pendingMsgs
    turn,     \* the goroutine of Agent.Send
    asks,     \* what each asker is doing, and how often it asked
    saved,    \* the rows of each chat
    open,     \* the chats there are
    made,     \* how many there were
    of        \* history: the chat in which each text was entered

terminalVars == <<tui, agents, built, pending, turn, asks, saved, open, made, of>>

NotYet == MaxChats + 1
Model == [agent |-> 1, chat |-> 0, thinking |-> FALSE, prompt |-> NoOne]
NewAgent == [chat |-> 0, wired |-> FALSE]
NoSend == [pc |-> "none", agent |-> 1, text |-> NoText, n |-> 0]
NotAsking == [pc |-> "idle", n |-> 0]

InitTerminal ==
    /\ tui = Model /\ built = 1
    /\ agents = [a \in 1..MaxAgents |-> [NewAgent EXCEPT !.wired = a = 1]]
    /\ pending = <<>> /\ turn = NoSend /\ asks = [s \in Asking |-> NotAsking]
    /\ saved = [c \in 1..MaxChats |-> {}] /\ open = {} /\ made = 0
    /\ of = [x \in Texts |-> NotYet]

storeVars == <<saved, open, made>>

-----------------------------------------------------------------------------
(* The turn.                                                               *)

\* persistMessage: an agent of no chat saves nothing.
Persist(a, x) ==
    LET c == agents[a].chat
    IN  saved' = IF c \in open THEN [saved EXCEPT ![c] = @ \cup {x}] ELSE saved

\* Send on what is the agent by now; it may be refused (limits).
SendBegins ==
    LET a == tui.agent
    IN  /\ turn.pc = "begin"
        /\ \E pc \in {"loop", "over"} : turn' = [turn EXCEPT !.pc = pc, !.agent = a]
        /\ Persist(a, turn.text)
        /\ UNCHANGED <<tui, agents, built, pending, asks, open, made, of>>

\* An iteration begins with the messages that were queued, and calls the provider.
Iterate ==
    /\ turn.pc = "loop"
    /\ turn' = [turn EXCEPT !.pc = "call"]
    /\ pending' = IF agents[turn.agent].wired THEN <<>> ELSE pending
    /\ UNCHANGED <<tui, agents, built, asks, storeVars, of>>

\* The provider answers with code, with the last message, or fails.
CallEnds ==
    /\ turn.pc = "call"
    /\ \/ turn.n < MaxBlocks /\ turn' = [turn EXCEPT !.pc = "block", !.n = @ + 1] /\ UNCHANGED saved
       \/ turn' = [turn EXCEPT !.pc = "over"] /\ Persist(turn.agent, turn.text)
       \/ turn' = [turn EXCEPT !.pc = "over"] /\ UNCHANGED saved
    /\ UNCHANGED <<tui, agents, built, pending, asks, open, made, of>>

BlockEnds ==
    /\ turn.pc = "block" /\ asks[Block].pc = "idle"
    /\ turn' = [turn EXCEPT !.pc = "loop"]
    /\ UNCHANGED <<tui, agents, built, pending, asks, storeVars, of>>

\* Ask and Confirm send their prompt to the update loop and wait for the answer.
Ask(s) ==
    /\ asks[s].pc = "idle" /\ asks[s].n < MaxQuestions
    /\ IF s = Block THEN turn.pc = "block" ELSE turn.n > 0
    /\ asks' = [asks EXCEPT ![s] = [pc |-> "send", n |-> @.n + 1]]
    /\ UNCHANGED <<tui, agents, built, pending, turn, storeVars, of>>

Heard(s) ==
    /\ asks[s].pc = "told"
    /\ asks' = [asks EXCEPT ![s].pc = "idle"]
    /\ UNCHANGED <<tui, agents, built, pending, turn, storeVars, of>>

\* What was approved may have been a change of providers: the agent is built again,
\* by the block, and becomes the model's.  The engine of another than the first
\* agent was given no function to do so.
HeardAndRebuilds ==
    /\ asks[Block].pc = "told" /\ agents[turn.agent].wired /\ built < MaxAgents
    /\ asks' = [asks EXCEPT ![Block].pc = "idle"]
    /\ built' = built + 1
    /\ agents' = [agents EXCEPT ![built + 1] = NewAgent]
    /\ tui' = [tui EXCEPT !.agent = built + 1]
    /\ UNCHANGED <<pending, turn, storeVars, of>>

TurnStep ==
    \/ SendBegins \/ Iterate \/ CallEnds \/ BlockEnds \/ HeardAndRebuilds
    \/ \E s \in Asking : Ask(s) \/ Heard(s)

-----------------------------------------------------------------------------
(* Messages to the update loop.                                            *)

\* promptMsg: the question takes the place of another's.
ShowPrompt(s) ==
    /\ asks[s].pc = "send"
    /\ asks' = [asks EXCEPT ![s].pc = "wait"]
    /\ tui' = [tui EXCEPT !.prompt = s]
    /\ UNCHANGED <<agents, built, pending, turn, storeVars, of>>

\* responseMsg.
ShowResponse ==
    /\ turn.pc = "over"
    /\ turn' = [turn EXCEPT !.pc = "none"]
    /\ tui' = [tui EXCEPT !.thinking = FALSE]
    /\ UNCHANGED <<agents, built, pending, asks, storeVars, of>>

-----------------------------------------------------------------------------
(* Keys.                                                                   *)

\* Enter, or ctrl+c for "no", while a question is shown: the answer goes into the
\* channel of the one whose it is, which holds one.
Reply ==
    /\ tui.prompt # NoOne /\ asks[tui.prompt].pc = "wait"
    /\ asks' = [asks EXCEPT ![tui.prompt].pc = "told"]
    /\ tui' = [tui EXCEPT !.prompt = NoOne]
    /\ UNCHANGED <<agents, built, pending, turn, storeVars, of>>

Entered(x) == IF x \in Texts THEN [of EXCEPT ![x] = tui.chat] ELSE of

\* Everything that is entered while the agent thinks is queued, commands too.
QueuesTexts(x) == tui.thinking /\ x \in Texts
Queues(x) == tui.thinking

Enter(x) == tui.prompt = NoOne /\ (x \in Texts => of[x] = NotYet)

Queue(x) ==
    /\ Enter(x) /\ Queues(x)
    /\ pending' = Append(pending, x)
    /\ of' = Entered(x)
    /\ UNCHANGED <<tui, agents, built, turn, asks, storeVars>>

\* handleSubmit: the first text of a new chat creates it, or fails to.
Submit(x) ==
    /\ Enter(x) /\ ~Queues(x)
    /\ LET new == tui.chat = 0 /\ made < MaxChats
       IN  \E c \in IF new THEN {0, made + 1} ELSE {tui.chat} :
             /\ tui' = [tui EXCEPT !.thinking = TRUE, !.chat = c]
             /\ of' = [of EXCEPT ![x] = c]
             /\ IF c # tui.chat
                THEN /\ open' = open \cup {c} /\ made' = c
                     /\ agents' = [agents EXCEPT ![tui.agent].chat = c]
                ELSE UNCHANGED <<open, made, agents>>
    /\ turn' = [NoSend EXCEPT !.pc = "begin", !.text = x]
    /\ UNCHANGED <<built, pending, asks, saved>>

Commanded(command) == Enter(command) /\ ~Queues(command)

Switched(a, c) == [agents EXCEPT ![a].chat = c]

CommandNew ==
    /\ Commanded("new")
    /\ tui' = [tui EXCEPT !.chat = 0]
    /\ agents' = Switched(tui.agent, 0)
    /\ UNCHANGED <<built, pending, turn, asks, storeVars, of>>

CommandOpen(c) ==
    /\ Commanded("open") /\ c \in open
    /\ tui' = [tui EXCEPT !.chat = c]
    /\ agents' = Switched(tui.agent, c)
    /\ UNCHANGED <<built, pending, turn, asks, storeVars, of>>

CommandDelete(c) ==
    /\ Commanded("delete") /\ c \in open
    /\ open' = open \ {c} /\ saved' = [saved EXCEPT ![c] = {}]
    /\ IF c = tui.chat
       THEN tui' = [tui EXCEPT !.chat = 0] /\ agents' = Switched(tui.agent, 0)
       ELSE UNCHANGED <<tui, agents>>
    /\ UNCHANGED <<built, pending, turn, asks, made, of>>

\* A new agent, with the chat of the old one; or none, for an unknown provider.
CommandProvider ==
    /\ Commanded("provider")
    /\ \/ /\ built < MaxAgents /\ built' = built + 1
          /\ tui' = [tui EXCEPT !.agent = built + 1]
          /\ agents' = Switched(built + 1, tui.chat)
       \/ UNCHANGED <<tui, built, agents>>
    /\ UNCHANGED <<pending, turn, asks, storeVars, of>>

\* ctrl+c ends the process; the next one resumes the latest chat.
QuitAndResume ==
    /\ tui.prompt = NoOne /\ built < MaxAgents
    /\ built' = built + 1
    /\ \E c \in IF open = {} THEN {0} ELSE open :
         /\ tui' = [Model EXCEPT !.agent = built + 1, !.chat = c]
         /\ agents' = [Switched(built + 1, c) EXCEPT ![built + 1].wired = TRUE]
    /\ pending' = <<>> /\ turn' = NoSend
    /\ asks' = [s \in Asking |-> NotAsking]
    /\ UNCHANGED <<storeVars, of>>

TerminalNext ==
    \/ TurnStep
    \/ \E s \in Asking : ShowPrompt(s)
    \/ ShowResponse \/ Reply
    \/ Len(pending) < MaxQueued /\ \E x \in Texts \cup Commands : Queue(x)
    \/ \E x \in Texts : Submit(x)
    \/ CommandNew \/ CommandProvider \/ QuitAndResume
    \/ \E c \in 1..MaxChats : CommandOpen(c) \/ CommandDelete(c)

-----------------------------------------------------------------------------
(* Properties.                                                             *)

\* Whatever the user enters while a turn runs or a question is shown, and though
\* an approved change may put another agent in its place: a turn saves what was
\* said in it to the chat that was open when it was entered.
SavedInItsChat == \A c \in open : \A x \in saved[c] : of[x] = c

-----------------------------------------------------------------------------
(* What comments promise and the code does not always keep.                *)

\* app.go:187 "Blocks the calling goroutine until the user types an answer": not
\* when another question has taken its place.
QuestionsAreShown == \A s \in Asking : asks[s].pc = "wait" => tui.prompt = s

\* app.go:170 "wired to agent.PendingMsgs for mid-execution message injection": what
\* is queued after the last iteration began waits for some later turn, be it of
\* another chat; and no agent but the first drains the queue (main.go:964).
DrainedInItsChat ==
    [][pending # <<>> /\ pending' = <<>> /\ turn'.pc = "call"
         => \A i \in DOMAIN pending : pending[i] \in Texts => of[pending[i]] = tui.chat]_terminalVars
QueueIsDrained == turn.pc = "call" => \A i \in DOMAIN pending : pending[i] \notin Texts \/ agents[turn.agent].wired

\* app.go:508 "Start a new chat": a command that is entered in a turn is queued for
\* the provider.
CommandsAreDone == \A i \in DOMAIN pending : pending[i] \notin Commands

\* app.go:460 "if no active chat": the agent that an approved change builds has none,
\* though the model does, and what is said to it is not saved.
AgentHasChat == turn.pc = "none" => agents[tui.agent].chat = tui.chat
=============================================================================
