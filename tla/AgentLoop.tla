----------------------------- MODULE AgentLoop -----------------------------
(***************************************************************************)
(* The agent loop: Send, handleStop, compactMessages, persistMessage and   *)
(* LoadMessages of internal/agent/agent.go, for one chat over several      *)
(* turns.  The provider, the code it writes and the user are the           *)
(* environment: a provider call answers with text or with code, or fails;  *)
(* a code block ends with one of Results; the user injects messages and    *)
(* stops the turn at any moment, and the process may be restarted.         *)
(*                                                                         *)
(* A message is known by its kind, its turn and its iteration.  A message  *)
(* of kind "results" is the feedback of an iteration: full while the       *)
(* results are in it, and carrying the first "log" entries of the ledger.  *)
(***************************************************************************)
EXTENDS Naturals, Sequences, FiniteSets, SequencesExt

CONSTANTS
    MaxTurns,   \* bound on the turns of the chat
    MaxIter,    \* Agent.MaxIter
    MaxBlocks,  \* bound on the code blocks of a response
    MaxInjects, \* bound on the messages injected
    Window,     \* Settings.MessageWindow: prior messages kept
    Results     \* what a code block may end with (a bound on a run)

Outcomes == {"error", "rejected", "small", "large"}
Errors == {"error", "rejected"}
MaxRetries == 3

ASSUME MaxTurnsAssumption == MaxTurns \in Nat
ASSUME MaxIterAssumption == MaxIter \in Nat \ {0}
ASSUME MaxBlocksAssumption == MaxBlocks \in Nat \ {0}
ASSUME MaxInjectsAssumption == MaxInjects \in Nat
ASSUME WindowAssumption == Window \in Nat
ASSUME ResultsAssumption == Results \subseteq Outcomes

VARIABLES
    turn,      \* the current or last turn; 0 before the first
    pc,        \* where Send is; "idle" between turns
    iter,      \* i, from 0
    attempt,   \* attempt of the provider call
    stopped,   \* the turns whose context was cancelled
    expired,   \* the iteration's apiCtx has timed out
    messages,  \* a.Messages
    msgs,      \* what the provider is sent
    todo,      \* code blocks of the response not run yet
    results,   \* results of the blocks of this response
    ledger,    \* ledgerEntries, one per executed block: [iter, block]
    errs,      \* consecutiveErrors
    small,     \* consecutiveSmallResults
    total,     \* totalTurnTokens; every response costs one
    pending,   \* messages waiting in PendingMsgs
    injects,   \* messages injected so far
    rows,      \* persisted chat messages
    history,   \* persisted history entries
    usage,     \* the workspace's token usage row
    spent,     \* what the provider really used, per turn
    outcome    \* how each turn ended

vars == <<turn, pc, iter, attempt, stopped, expired, messages, msgs, todo,
          results, ledger, errs, small, total, pending, injects, rows, history,
          usage, spent, outcome>>
call == <<iter, attempt, expired>>
work == <<todo, results, ledger, errs, small>>
store == <<rows, history, usage>>

Turns == 1..MaxTurns
Hints == {"none", "final", "rejected", "ask", "change", "wrap", "present", "review"}
Kinds == {"ask", "context", "inject", "code", "results", "answer", "stopped", "maxiter"}
Message == [kind: Kinds, turn: 0..MaxTurns, iter: 0..MaxIter, full: BOOLEAN,
            log: Nat, hint: Hints]
Row == [kind: Kinds, turn: Turns, tokens: Nat]
Endings == {"none", "answer", "stopped", "maxiter", "refused", "error", "crashed"}

Msg(kind, i) == [kind |-> kind, turn |-> turn, iter |-> i, full |-> TRUE,
                 log |-> 0, hint |-> "none"]

TypeOK ==
    /\ turn \in 0..MaxTurns
    /\ pc \in {"idle", "begin", "iter", "call", "backoff", "blocks", "running",
              "feedback"}
    /\ iter \in 0..MaxIter /\ attempt \in 1..MaxRetries
    /\ stopped \subseteq Turns /\ expired \in BOOLEAN
    /\ messages \in Seq(Message) /\ msgs \in Seq(Message)
    /\ todo \in 0..MaxBlocks /\ results \in Seq(Outcomes)
    /\ ledger \in Seq([iter: 0..MaxIter, block: 1..MaxBlocks])
    /\ errs \in Nat /\ small \in Nat /\ total \in Nat
    /\ pending \in Nat /\ injects \in 0..MaxInjects
    /\ rows \in Seq(Row)
    /\ history \subseteq [turn: Turns, iter: 0..MaxIter, block: 1..MaxBlocks,
                          tokens: Nat, result: Outcomes \cup {"none"}]
    /\ usage \in Nat /\ spent \in [Turns -> Nat]
    /\ outcome \in [Turns -> Endings]

Init ==
    /\ turn = 0 /\ pc = "idle" /\ iter = 0 /\ attempt = 1
    /\ stopped = {} /\ expired = FALSE
    /\ messages = <<>> /\ msgs = <<>>
    /\ todo = 0 /\ results = <<>> /\ ledger = <<>> /\ errs = 0 /\ small = 0
    /\ total = 0 /\ pending = 0 /\ injects = 0
    /\ rows = <<>> /\ history = {} /\ usage = 0
    /\ spent = [t \in Turns |-> 0] /\ outcome = [t \in Turns |-> "none"]

-----------------------------------------------------------------------------
(* Helpers.                                                                *)

IsNoise(m) == m.kind \in {"code", "results"}
NotNoise(m) == ~IsNoise(m)

\* The n-th smallest of a set of positions.
Nth(S, n) == CHOOSE k \in S : Cardinality({l \in S : l <= k}) = n

\* compactMessages: the loop's own code and results go.
Kept(ms) == {k \in DOMAIN ms : NotNoise(ms[k])}
Compact(ms) == [n \in 1..Cardinality(Kept(ms)) |-> ms[Nth(Kept(ms), n)]]

LastOf(s, n) == IF Len(s) <= n THEN s ELSE SubSeq(s, Len(s) - n + 1, Len(s))

\* priorClean: earlier messages without the noise of their loops, windowed.
Prior(ms) == LastOf(Compact(ms), Window)

\* Code of earlier turns is shown again, as one message, unless its result is
\* an error.
ShownAsWorked(h) == h.result \notin Errors
Context ==
    IF \E h \in history : h.turn # turn /\ ShownAsWorked(h)
    THEN <<Msg("context", 0)>> ELSE <<>>

\* Injected messages join the provider's view.
ViewWith(drained) == msgs \o drained

\* The check at the head of an iteration; the variant leaves it out.
GoesOnRegardless == TRUE
GoesOn == turn \notin stopped

\* The retry counter; the variant never counts.
SameAttempt == attempt
NextAttempt == attempt + 1
RetriesLeft == attempt < MaxRetries

\* A write made with the turn's context may fail once that context is
\* cancelled, and its error is ignored.
Stopped == turn \in stopped
CtxWrite(write, skip) == write \/ (Stopped /\ skip)

AddRow(kind, tokens) ==
    rows' = Append(rows, [kind |-> kind, turn |-> turn, tokens |-> tokens])

\* The part of the ledger that the feedback shows; the variant shows none.
LogLeftOut == 0
LogShown == IF Len(ledger) > 1 THEN Len(ledger) ELSE 0

\* Older iterations in msgs lose their results and code, except the last one
\* of each kind.
LastOfKind(ms, kind) ==
    IF \E k \in DOMAIN ms : ms[k].kind = kind
    THEN CHOOSE k \in DOMAIN ms :
           ms[k].kind = kind /\ \A l \in DOMAIN ms : ms[l].kind = kind => l <= k
    ELSE 0
CompactOlder(ms) ==
    [k \in DOMAIN ms |->
       IF ms[k].kind \in {"code", "results"} /\ k # LastOfKind(ms, ms[k].kind)
       THEN [ms[k] EXCEPT !.full = FALSE, !.log = 0, !.hint = "none"]
       ELSE ms[k]]

SmallAfter ==
    IF errs = 0 /\ results # <<>> /\ \A k \in DOMAIN results : results[k] = "small"
    THEN small + 1 ELSE 0

Hint ==
    CASE iter >= MaxIter - 1 -> "final"
      [] iter < MaxIter - 1 /\ Contains(results, "rejected") -> "rejected"
      [] OTHER ->
           IF errs >= 3 THEN "ask"
           ELSE IF errs >= 2 THEN "change"
           ELSE IF iter >= MaxIter - 2 THEN "wrap"
           ELSE IF SmallAfter >= 2 THEN "present" ELSE "review"

\* Send returns; the slices and maps of the turn go away with it.
Return(how) ==
    /\ outcome' = [outcome EXCEPT ![turn] = how]
    /\ pc' = "idle" /\ iter' = 0 /\ attempt' = 1 /\ expired' = FALSE
    /\ msgs' = <<>> /\ todo' = 0 /\ results' = <<>> /\ ledger' = <<>>
    /\ errs' = 0 /\ small' = 0 /\ total' = 0

\* handleStop, whose row is written with a context of its own.
HandleStop ==
    /\ Return("stopped")
    /\ messages' = Compact(messages)
    /\ AddRow("stopped", total)

-----------------------------------------------------------------------------
(* One turn of Send.                                                       *)

\* A new execution with a context of its own.
StartTurn ==
    /\ pc = "idle" /\ turn < MaxTurns
    /\ turn' = turn + 1
    /\ pc' = "begin"
    /\ pending' = 0
    /\ UNCHANGED <<call, stopped, messages, msgs, work, total, injects, store, spent, outcome>>

\* Record the user's message, then refuse the turn (rate limit or daily cap)...
BeginRefused ==
    /\ pc = "begin"
    /\ messages' = Append(messages, Msg("ask", 0))
    /\ CtxWrite(AddRow("ask", 0), UNCHANGED rows)
    /\ Return("refused")
    /\ UNCHANGED <<turn, stopped, pending, injects, history, usage, spent>>

\* ... or build the provider's view: prior messages, then this one.
Begin ==
    /\ pc = "begin"
    /\ messages' = Append(messages, Msg("ask", 0))
    /\ CtxWrite(AddRow("ask", 0), UNCHANGED rows)
    /\ msgs' = Prior(messages) \o Context \o <<Msg("ask", 0)>>
    /\ pc' = "iter"
    /\ UNCHANGED <<turn, call, stopped, work, total, pending, injects, history, usage,
                   spent, outcome>>

IterStopped ==
    /\ pc = "iter" /\ iter < MaxIter /\ Stopped
    /\ HandleStop
    /\ UNCHANGED <<turn, stopped, pending, injects, history, usage, spent>>

\* Head of an iteration: drain PendingMsgs, make a fresh apiCtx.
IterBegin ==
    LET drained == [k \in 1..pending |-> Msg("inject", iter)]
    IN  /\ pc = "iter" /\ iter < MaxIter /\ GoesOn
        /\ messages' = messages \o drained
        /\ msgs' = ViewWith(drained)
        /\ pending' = 0
        /\ pc' = "call" /\ attempt' = 1 /\ expired' = FALSE
        /\ UNCHANGED <<turn, iter, stopped, work, total, injects, store, spent, outcome>>

\* The loop is exhausted.
MaxIterations ==
    /\ pc = "iter" /\ iter = MaxIter
    /\ Return("maxiter")
    /\ messages' = Compact(messages)
    /\ CtxWrite(AddRow("maxiter", total), UNCHANGED rows)
    /\ UNCHANGED <<turn, stopped, pending, injects, history, usage, spent>>

\* The provider fails: stop, back off, or give up after the third attempt.
CallStopped ==
    /\ pc \in {"call", "backoff"} /\ Stopped
    /\ HandleStop
    /\ UNCHANGED <<turn, stopped, pending, injects, history, usage, spent>>

CallFails ==
    /\ pc = "call" /\ ~Stopped /\ RetriesLeft
    /\ pc' = "backoff"
    /\ UNCHANGED <<turn, call, stopped, messages, msgs, work, total, pending, injects,
                   store, spent, outcome>>

CallGivesUp ==
    /\ pc = "call" /\ ~Stopped /\ ~RetriesLeft
    /\ Return("error")
    /\ UNCHANGED <<turn, stopped, messages, pending, injects, store, spent>>

\* The backoff timer fires (it may, in the select, also when the turn was
\* stopped); the next attempt uses the same apiCtx.
BackoffOver ==
    /\ pc = "backoff"
    /\ pc' = "call" /\ attempt' = NextAttempt
    /\ UNCHANGED <<turn, iter, expired, stopped, messages, msgs, work, total, pending,
                   injects, store, spent, outcome>>

\* 120 s after the head of the iteration.
ApiTimeout ==
    /\ pc \in {"call", "backoff"} /\ ~expired
    /\ expired' = TRUE
    /\ UNCHANGED <<turn, pc, iter, attempt, stopped, messages, msgs, work, total, pending,
                   injects, store, spent, outcome>>

\* IncrementTokenUsage.
CountUsage == usage' = usage + 1

\* The provider answers without code: that is the answer.
AnswerTurn ==
    /\ pc = "call" /\ ~expired
    /\ messages' = Compact(Append(messages, Msg("answer", iter)))
    /\ spent' = [spent EXCEPT ![turn] = @ + 1]
    /\ CtxWrite(CountUsage, UNCHANGED usage)
    /\ CtxWrite(AddRow("answer", 1), UNCHANGED rows)
    /\ Return("answer")
    /\ UNCHANGED <<turn, stopped, pending, injects, history>>

\* The provider answers with n blocks of code.
AnswerCode(n) ==
    /\ pc = "call" /\ ~expired
    /\ messages' = Append(messages, Msg("code", iter))
    /\ spent' = [spent EXCEPT ![turn] = @ + 1]
    /\ CtxWrite(CountUsage, UNCHANGED usage)
    /\ total' = total + 1
    /\ todo' = n /\ results' = <<>>
    /\ pc' = "blocks"
    /\ UNCHANGED <<turn, call, stopped, msgs, ledger, errs, small, pending, injects, rows,
                   history, outcome>>

BlockStopped ==
    /\ pc = "blocks" /\ Stopped
    /\ HandleStop
    /\ UNCHANGED <<turn, stopped, pending, injects, history, usage, spent>>

\* Tokens go on the first block of an iteration only.
TokensOf(j) == IF j = 1 THEN 1 ELSE 0

\* saveToHistory before a block runs ...
BlockBegin ==
    LET j == Len(results) + 1
        entry == [turn |-> turn, iter |-> iter, block |-> j,
                  tokens |-> TokensOf(j), result |-> "none"]
    IN  /\ pc = "blocks" /\ ~Stopped
        /\ history' = history \cup {entry}
        /\ pc' = "running"
        /\ UNCHANGED <<turn, call, stopped, messages, msgs, work, total, pending, injects,
                       rows, usage, spent, outcome>>

\* ... and updateHistoryResult once it has run, stopped meanwhile or not; the
\* ledger gets its entry.
BlockEnd(res) ==
    LET j == Len(results) + 1
        Ran(h) == h.turn = turn /\ h.iter = iter /\ h.block = j
    IN  /\ pc = "running"
        /\ CtxWrite(history' = {IF Ran(h) THEN [h EXCEPT !.result = res] ELSE h : h \in history},
                    UNCHANGED history)
        /\ errs' = IF res \in Errors THEN errs + 1 ELSE 0
        /\ results' = Append(results, res)
        /\ ledger' = Append(ledger, [iter |-> iter, block |-> j])
        /\ todo' = todo - 1
        /\ pc' = IF todo = 1 THEN "feedback" ELSE "blocks"
        /\ UNCHANGED <<turn, call, stopped, messages, msgs, small, total, pending, injects,
                       rows, usage, spent, outcome>>

FeedbackStopped ==
    /\ pc = "feedback" /\ Stopped
    /\ HandleStop
    /\ UNCHANGED <<turn, stopped, pending, injects, history, usage, spent>>

\* Feed the results back, compact older iterations, go round.
Feedback ==
    LET fb == [Msg("results", iter) EXCEPT !.log = LogShown, !.hint = Hint]
    IN  /\ pc = "feedback" /\ ~Stopped
        /\ messages' = Append(messages, fb)
        /\ msgs' = CompactOlder(msgs) \o <<Msg("code", iter), fb>>
        /\ small' = SmallAfter
        /\ iter' = iter + 1
        /\ pc' = "iter"
        /\ UNCHANGED <<turn, attempt, expired, stopped, todo, results, ledger, errs, total,
                       pending, injects, store, spent, outcome>>

-----------------------------------------------------------------------------
(* The environment.                                                        *)

\* Stop cancels the execution's context.
Stop ==
    /\ pc # "idle" /\ ~Stopped
    /\ stopped' = stopped \cup {turn}
    /\ UNCHANGED <<turn, pc, call, messages, msgs, work, total, pending, injects, store,
                   spent, outcome>>

\* Chats_0_Inject: the message is queued and persisted.
Inject ==
    /\ pc # "idle" /\ injects < MaxInjects
    /\ pending' = pending + 1 /\ injects' = injects + 1
    /\ AddRow("inject", 0)
    /\ UNCHANGED <<turn, pc, call, stopped, messages, msgs, work, total, history, usage,
                   spent, outcome>>

\* LoadMessages: a new agent starts from the persisted messages.
Loaded(rs) ==
    [k \in DOMAIN rs |-> [kind |-> rs[k].kind, turn |-> rs[k].turn, iter |-> 0,
                          full |-> TRUE, log |-> 0, hint |-> "none"]]

\* The process dies, in or between turns, and another one loads the chat.
Restart ==
    /\ turn > 0
    /\ messages' = Loaded(rows)
    /\ pending' = 0
    /\ IF pc = "idle"
       THEN UNCHANGED <<pc, call, msgs, work, total, outcome>>
       ELSE Return("crashed")
    /\ UNCHANGED <<turn, stopped, injects, store, spent>>

SendStep ==
    \/ BeginRefused \/ Begin
    \/ IterStopped \/ IterBegin \/ MaxIterations
    \/ CallStopped \/ CallFails \/ CallGivesUp \/ BackoffOver
    \/ AnswerTurn \/ \E n \in 1..MaxBlocks : AnswerCode(n)
    \/ BlockStopped \/ BlockBegin \/ \E res \in Results : BlockEnd(res)
    \/ FeedbackStopped \/ Feedback

Next == StartTurn \/ SendStep \/ ApiTimeout \/ Stop \/ Inject \/ Restart

Spec == Init /\ [][Next]_vars

\* Send is a goroutine that keeps running: a provider call is bounded by apiCtx, a
\* backoff by its timer.  A block is not: neither its timeout nor Stop ends a native
\* call, and Send waits for the VM to return from it.
InBlock == pc = "running"
FairSpec == Spec /\ WF_vars(~InBlock /\ SendStep)

-----------------------------------------------------------------------------
(* Properties.                                                             *)

Count(s, Test(_)) == Cardinality({k \in DOMAIN s : Test(s[k])})

\* What the code did in this turn is known to every provider call of the turn,
\* in full or through the iteration log of the latest feedback: "so the AI never
\* loses context, even when older messages are compacted away" (Send).
NothingForgotten ==
    pc = "call" =>
      \A b \in DOMAIN ledger :
        \E k \in DOMAIN msgs :
          /\ msgs[k].kind = "results" /\ msgs[k].turn = turn
          /\ \/ msgs[k].full /\ msgs[k].iter = ledger[b].iter
             \/ k = LastOfKind(msgs, "results") /\ b <= msgs[k].log

\* The provider is sent the current question and everything injected into the
\* turn, however often the loop has compacted its view.
QuestionInView ==
    pc = "call" =>
      /\ Count(msgs, LAMBDA m : m.kind = "ask" /\ m.turn = turn) = 1
      /\ Count(msgs, LAMBDA m : m.kind = "inject" /\ m.turn = turn)
           >= Count(messages, LAMBDA m : m.kind = "inject" /\ m.turn = turn)

\* Of the earlier turns the provider sees at most Window messages and nothing of
\* their loops, whichever way they ended (an error leaves the loop in a.Messages).
PriorIsClean ==
    LET prior == {k \in DOMAIN msgs : msgs[k].turn # turn}
    IN  Cardinality(prior) <= Window /\ \A k \in prior : NotNoise(msgs[k])

\* The provider's view holds at most two iterations in full (Send compacts the
\* older ones, so that the view of a long turn does not grow without bound).
AtMostTwoInFull ==
    Count(msgs, LAMBDA m : m.kind = "results" /\ m.full) <= 2

IsAnswer(r, t) == r.turn = t /\ r.kind \in {"answer", "stopped", "maxiter"}
Answers(t) == Count(rows, LAMBDA r : IsAnswer(r, t))

\* No turn leaves two assistant messages in the chat, nor one while it works, nor
\* one after an error; it leaves one when it ends with an answer or exhausts its
\* iterations without being stopped, and when it ends because it was stopped.
OneAnswerPerTurn ==
    \A t \in Turns :
      /\ Answers(t) <= 1
      /\ outcome[t] \in {"none", "refused", "error", "crashed"} => Answers(t) = 0
      /\ outcome[t] \in {"answer", "maxiter"} /\ t \notin stopped => Answers(t) = 1
      /\ outcome[t] = "stopped" => Answers(t) = 1

\* The workspace's usage, which the daily caps are checked against, is what the
\* provider used in turns that answered, failed or crashed alike; only an answer
\* that races with Stop may go uncounted, and none is counted twice.
UsageIsExact ==
    LET real == FoldFunction(LAMBDA x, y : x + y, 0, spent)
    IN  /\ usage <= real
        /\ real - usage <= Cardinality(stopped)

\* The tokens shown with a turn's history entries and its assistant message.
ShownTokens(t) ==
    MapThenSumSet(LAMBDA h : h.tokens, {h \in history : h.turn = t})
      + MapThenSumSet(LAMBDA k : rows[k].tokens, {k \in DOMAIN rows : IsAnswer(rows[k], t)})

\* The tokens shown with an answered turn add up to what it used: "Store token
\* counts on the first block of each iteration to avoid double-counting".
AnswersShowTheirTokens ==
    \A t \in Turns : (outcome[t] = "answer" /\ t \notin stopped) => ShownTokens(t) = spent[t]

\* Every turn ends, on its own or stopped, however often the provider fails, unless a
\* block of it never returns (which takes a native call: EngineRun!RunEnds).
TurnEnds == pc # "idle" ~> (pc = "idle" \/ []InBlock)

-----------------------------------------------------------------------------
(* What comments promise and the code does not always keep: the README says *)
(* which steps break each of these.                                         *)

\* The tokens shown with a turn that was stopped or exhausted its iterations are no
\* more than it used: "to avoid double-counting" (saveToHistory).
TokensShownOnce ==
    \A t \in Turns : outcome[t] \in {"stopped", "maxiter"} => ShownTokens(t) <= spent[t]

\* A retry is made with a context that has not timed out: "Add timeout for the API
\* call itself".
RetryIsAlive == [][(pc = "backoff" /\ pc' = "call") => ~expired]_vars

\* The provider is told that an iteration is its last before it answers in it:
\* "This is your final iteration. Respond with a md block now".
FinalHintSeen ==
    (pc = "call" /\ iter = MaxIter - 1 /\ iter > 0)
      => \E k \in DOMAIN msgs : msgs[k].hint = "final"

\* Of the iterations sent to the provider only the last one is in full: "preserve
\* the LAST iteration's code and results intact".
OnlyLastInFull ==
    pc = "call" => Count(msgs, LAMBDA m : m.kind = "results" /\ m.full) <= 1

\* A turn the user stopped, however late, stays in the chat: its assistant message
\* is persisted with "context.Background() because the agent context is already
\* cancelled" (handleStop).
StoppedTurnKept ==
    \A t \in stopped : outcome[t] \in {"answer", "stopped", "maxiter"} => Answers(t) = 1

\* Code is shown to later turns as a "successful (non-error)" execution only when
\* it was executed to an end: not when Stop or a crash cut it short.
ShownCodeRan ==
    \A h \in history : (h.turn # turn \/ pc = "idle") /\ ShownAsWorked(h) => h.result # "none"
=============================================================================
