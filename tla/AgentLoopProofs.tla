--------------------------- MODULE AgentLoopProofs ---------------------------
(* The agent loop keeps its types, forgets no block of a turn, and implements *)
(* AgentTurn.  The messages of a chat are compacted by a function of their   *)
(* positions, so the first part is about the n-th smallest of a set of       *)
(* numbers, by induction: the least counterexample.                          *)
EXTENDS AgentLoopTurns, FiniteSetTheorems, SequenceTheorems, WellFoundedInduction,
        NaturalsInduction, TLAPS

\* A set of numbers that is not empty has a least one.
LEMMA LeastNumber ==
    ASSUME NEW T \in SUBSET Nat, T # {}
    PROVE  \E m \in T : \A k \in T : m <= k
  <1>1. \E x \in T : \A y \in T : ~(<<y, x>> \in OpToRel(<, Nat))
    BY WFMin, NatLessThanWellFounded, Zenon
  <1>2. PICK x \in T : \A y \in T : ~(y < x)
    BY <1>1, Zenon DEF OpToRel
  <1>3. \A y \in T : x \in Nat /\ y \in Nat
    OBVIOUS
  <1> QED
    BY <1>2, <1>3

\* There is an n-th smallest position for each n up to how many there are.
LEMMA NthIsThere ==
    ASSUME NEW len \in Nat, NEW S, S \subseteq 1..len, NEW n \in 1..Cardinality(S)
    PROVE  Nth(S, n) \in S
  <1> DEFINE Upto(j) == {l \in S : l <= j}
  <1>0. \A l \in S : l \in Nat /\ 1 <= l /\ l <= len
    OBVIOUS
  <1>1. IsFiniteSet(1..len)
    BY FS_Interval
  <1>16. IsFiniteSet(S) /\ Cardinality(S) \in Nat
    BY <1>1, FS_Subset, FS_CardinalityType
  <1>2. \A j \in Nat : IsFiniteSet(Upto(j)) /\ Cardinality(Upto(j)) \in Nat
    <2> TAKE j \in Nat
    <2>1. Upto(j) \subseteq S
      OBVIOUS
    <2> HIDE DEF Upto
    <2> QED
      BY <1>16, <2>1, FS_Subset, FS_CardinalityType
  <1>3. Upto(len) = S /\ Upto(0) = {}
    <2>1. \A l : l \in Upto(len) <=> l \in S
      BY <1>0
    <2>3. \A l \in S : ~(l <= 0)
      BY <1>0
    <2>2. \A l : l \notin Upto(0)
      BY <2>3
    <2> HIDE DEF Upto
    <2> QED
      BY <2>1, <2>2
  <1>4. n \in Nat /\ n >= 1 /\ n <= Cardinality(S)
    BY <1>16
  <1>10. \A j \in 1..len : /\ Upto(j) = IF j \in S THEN Upto(j - 1) \cup {j} ELSE Upto(j - 1)
                           /\ j \notin Upto(j - 1)
    <2> TAKE j \in 1..len
    <2>1. \A l \in S : l <= j <=> (l <= j - 1 \/ l = j)
      BY <1>0
    <2>2. \A l : l \in Upto(j) <=> l \in IF j \in S THEN Upto(j - 1) \cup {j} ELSE Upto(j - 1)
      BY <2>1, <1>0
    <2>3. j \notin Upto(j - 1)
      OBVIOUS
    <2> HIDE DEF Upto
    <2> QED
      BY <2>2, <2>3
  <1>17. ASSUME NEW j \in Nat, Cardinality(Upto(j)) = n, j \in S PROVE Nth(S, n) \in S
    BY <1>17 DEF Nth
  <1> HIDE DEF Upto
  <1> DEFINE T == {j \in 0..len : Cardinality(Upto(j)) >= n}
  <1>5. len \in T /\ T \in SUBSET Nat
    BY <1>3, <1>4
  <1>6. PICK j \in T : \A k \in T : j <= k
    BY <1>5, LeastNumber
  <1>7. j \in 0..len /\ Cardinality(Upto(j)) >= n
    BY <1>6
  <1>18. j # 0
    BY <1>3, <1>4, <1>7, FS_EmptySet
  <1>8. j - 1 \in 0..len /\ j \in 1..len /\ j \in Nat /\ j - 1 \in Nat /\ ~(j <= j - 1)
    BY <1>7, <1>18
  <1>11. IsFiniteSet(Upto(j - 1)) /\ Cardinality(Upto(j - 1)) \in Nat
    BY <1>2, <1>8
  <1>9. Cardinality(Upto(j - 1)) < n
    <2>1. j - 1 \notin T
      BY <1>6, <1>8
    <2> QED
      BY <2>1, <1>4, <1>8, <1>11
  <1> HIDE DEF T
  <1>12. Cardinality(Upto(j)) \in Nat
    BY <1>2, <1>8
  <1>13. Cardinality(Upto(j - 1) \cup {j}) = Cardinality(Upto(j - 1)) + 1
    BY <1>8, <1>10, <1>11, FS_AddElement
  <1>14. j \in S
    BY <1>4, <1>7, <1>8, <1>9, <1>10, <1>11
  <1>15. Cardinality(Upto(j)) = n
    BY <1>14, <1>4, <1>7, <1>8, <1>9, <1>10, <1>11, <1>12, <1>13
  <1> QED
    BY <1>8, <1>14, <1>15, <1>17

\* What compactMessages keeps is a sequence of what was there, without the noise.
LEMMA CompactIsClean ==
    ASSUME NEW M, NEW ms \in Seq(M)
    PROVE  Compact(ms) \in Seq({m \in M : NotNoise(m)})
  <1> DEFINE K == Kept(ms)
  <1>1. Len(ms) \in Nat /\ K \subseteq 1..Len(ms) /\ \A k \in K : NotNoise(ms[k])
    BY DEF Kept
  <1> HIDE DEF K
  <1>4. IsFiniteSet(1..Len(ms))
    BY <1>1, FS_Interval
  <1>2. Cardinality(K) \in Nat
    BY <1>1, <1>4, FS_Subset, FS_CardinalityType
  <1>3. \A n \in 1..Cardinality(K) : Nth(K, n) \in K
    BY <1>1, NthIsThere
  <1>5. \A n \in 1..Cardinality(K) : ms[Nth(K, n)] \in {m \in M : NotNoise(m)}
    <2> TAKE n \in 1..Cardinality(K)
    <2>1. Nth(K, n) \in 1..Len(ms) /\ NotNoise(ms[Nth(K, n)])
      BY <1>1, <1>3
    <2> HIDE DEF Nth
    <2> QED
      BY <2>1
  <1>6. [n \in 1..Cardinality(K) |-> ms[Nth(K, n)]] \in Seq({m \in M : NotNoise(m)})
    BY <1>2, <1>5
  <1> QED
    BY <1>6 DEF Compact, K

\* So they are messages of the same type.
LEMMA CompactType ==
    ASSUME NEW M, NEW ms \in Seq(M)
    PROVE  Compact(ms) \in Seq(M)
  <1>1. Compact(ms) \in Seq({m \in M : NotNoise(m)})
    BY CompactIsClean
  <1>2. PICK c : c = Compact(ms)
    OBVIOUS
  <1>3. c \in Seq(M)
    BY <1>1, <1>2
  <1> QED
    BY <1>2, <1>3

\* So is the part of it that later turns see, of at most Window messages.
LEMMA PriorIsShort ==
    ASSUME NEW M, NEW ms \in Seq(M)
    PROVE  Prior(ms) \in Seq({m \in M : NotNoise(m)}) /\ Len(Prior(ms)) \in Nat /\ Len(Prior(ms)) <= Window
  <1> DEFINE s == Compact(ms)
             C == {m \in M : NotNoise(m)}
  <1>2. s \in Seq(C)
    BY CompactIsClean
  <1> HIDE DEF s, C
  <1>3. Len(s) \in Nat
    BY <1>2
  <1>4. CASE ~(Len(s) <= Window)
    <2>1. SubSeq(s, Len(s) - Window + 1, Len(s)) \in Seq(C)
      BY <1>2, <1>3, <1>4, WindowAssumption
    <2>2. Len(SubSeq(s, Len(s) - Window + 1, Len(s))) = Window
      BY <1>2, <1>3, <1>4, WindowAssumption
    <2>3. Prior(ms) = SubSeq(s, Len(s) - Window + 1, Len(s))
      BY <1>4 DEF LastOf, Prior, s
    <2> QED
      BY <2>1, <2>2, <2>3, WindowAssumption DEF C
  <1>5. CASE Len(s) <= Window
    <2>1. Prior(ms) = s
      BY <1>5 DEF LastOf, Prior, s
    <2> QED
      BY <1>2, <1>3, <1>5, <2>1 DEF C
  <1> QED
    BY <1>4, <1>5

\* It is of the same type as well.
LEMMA PriorType ==
    ASSUME NEW M, NEW ms \in Seq(M)
    PROVE  Prior(ms) \in Seq(M)
  <1>1. PICK c : c = Prior(ms)
    OBVIOUS
  <1>2. c \in Seq({m \in M : NotNoise(m)})
    BY <1>1, PriorIsShort
  <1>3. c \in Seq(M)
    BY <1>2
  <1> QED
    BY <1>1, <1>3

-----------------------------------------------------------------------------

\* What TypeOK needs of where Send is: a turn, an iteration left, an attempt left, and
\* the blocks of a response that are run and to run.
Positions ==
    /\ pc # "idle" => turn \in Turns
    /\ pc \in {"call", "backoff", "blocks", "running", "feedback"} => iter < MaxIter
    /\ pc = "backoff" => attempt < MaxRetries
    /\ pc \in {"blocks", "running"} => todo >= 1 /\ todo + Len(results) <= MaxBlocks

\* The invariant the other proofs of this module rest on.
LoopInv == TypeOK /\ Positions

\* A session that was just made.
LEMMA LoopInit == Init => LoopInv
  <1> SUFFICES ASSUME Init PROVE LoopInv
    OBVIOUS
  <1>1. /\ turn \in 0..MaxTurns /\ iter \in 0..MaxIter /\ attempt \in 1..MaxRetries
        /\ todo \in 0..MaxBlocks /\ injects \in 0..MaxInjects
    BY MaxTurnsAssumption, MaxIterAssumption, MaxBlocksAssumption, MaxInjectsAssumption DEF Init, MaxRetries
  <1>2. messages \in Seq(Message) /\ msgs \in Seq(Message) /\ rows \in Seq(Row) /\ results \in Seq(Outcomes)
        /\ ledger \in Seq([iter: 0..MaxIter, block: 1..MaxBlocks])
    BY DEF Init
  <1>3. outcome \in [Turns -> Endings] /\ spent \in [Turns -> Nat]
    BY DEF Init, Endings
  <1>4. TypeOK
    BY <1>1, <1>2, <1>3 DEF Init, TypeOK
  <1> QED
    BY <1>4 DEF Init, LoopInv, Positions

\* Messages and rows as Send makes them.
LEMMA MsgType ==
    ASSUME LoopInv, pc # "idle", NEW kind \in Kinds, NEW i \in 0..MaxIter
    PROVE  Msg(kind, i) \in Message
  BY DEF Msg, Message, LoopInv, TypeOK, Hints

\* A row of the chat history as Send writes it.
LEMMA RowType ==
    ASSUME LoopInv, pc # "idle", NEW kind \in Kinds, NEW tokens \in Nat, AddRow(kind, tokens)
    PROVE  rows' \in Seq(Row)
  <1>1. [kind |-> kind, turn |-> turn, tokens |-> tokens] \in Row /\ rows \in Seq(Row)
    BY DEF LoopInv, TypeOK, Positions, Row
  <1> QED
    BY <1>1 DEF AddRow

\* What Return leaves.
LEMMA ReturnType ==
    ASSUME LoopInv, pc # "idle", NEW how \in Endings, Return(how)
    PROVE  /\ pc' = "idle" /\ iter' \in 0..MaxIter /\ attempt' \in 1..MaxRetries /\ expired' \in BOOLEAN
           /\ msgs' \in Seq(Message) /\ todo' \in 0..MaxBlocks /\ results' \in Seq(Outcomes)
           /\ ledger' \in Seq([iter: 0..MaxIter, block: 1..MaxBlocks])
           /\ errs' \in Nat /\ small' \in Nat /\ total' \in Nat
           /\ outcome' \in [Turns -> Endings]
  <1>1. outcome \in [Turns -> Endings]
    BY DEF LoopInv, TypeOK
  <1>2. outcome' \in [Turns -> Endings]
    BY <1>1 DEF Return
  <1>3. iter' \in 0..MaxIter /\ attempt' \in 1..MaxRetries /\ todo' \in 0..MaxBlocks
    BY MaxIterAssumption, MaxBlocksAssumption DEF Return, MaxRetries
  <1>4. msgs' \in Seq(Message) /\ results' \in Seq(Outcomes) /\ ledger' \in Seq([iter: 0..MaxIter, block: 1..MaxBlocks])
    BY DEF Return
  <1> QED
    BY <1>2, <1>3, <1>4 DEF Return

\* The steps in which Send returns.
LEMMA ReturnSteps ==
    ASSUME LoopInv,
           \/ BeginRefused \/ IterStopped \/ MaxIterations \/ CallStopped \/ CallGivesUp
           \/ AnswerTurn \/ BlockStopped \/ FeedbackStopped
    PROVE  LoopInv'
  <1>1. pc # "idle"
    BY DEF BeginRefused, IterStopped, MaxIterations, CallStopped, CallGivesUp, AnswerTurn, BlockStopped, FeedbackStopped
  <1>2. PICK how \in Endings : Return(how)
    BY DEF BeginRefused, IterStopped, MaxIterations, CallStopped, CallGivesUp, AnswerTurn, BlockStopped,
           FeedbackStopped, HandleStop, Endings
  <1>3. /\ pc' = "idle" /\ iter' \in 0..MaxIter /\ attempt' \in 1..MaxRetries /\ expired' \in BOOLEAN
        /\ msgs' \in Seq(Message) /\ todo' \in 0..MaxBlocks /\ results' \in Seq(Outcomes)
        /\ ledger' \in Seq([iter: 0..MaxIter, block: 1..MaxBlocks])
        /\ errs' \in Nat /\ small' \in Nat /\ total' \in Nat
        /\ outcome' \in [Turns -> Endings]
    BY <1>1, <1>2, ReturnType
  <1>4. messages \in Seq(Message) /\ total \in Nat /\ rows \in Seq(Row) /\ iter \in 0..MaxIter /\ 0 \in 0..MaxIter
    BY MaxIterAssumption DEF LoopInv, TypeOK
  <1>5. messages' \in Seq(Message)
    <2>1. Compact(messages) \in Seq(Message)
      BY <1>4, CompactType
    <2>2. Append(messages, Msg("ask", 0)) \in Seq(Message)
      BY <1>1, <1>4, MsgType DEF Kinds
    <2>3. Append(messages, Msg("answer", iter)) \in Seq(Message)
      BY <1>1, <1>4, MsgType DEF Kinds
    <2>4. Compact(Append(messages, Msg("answer", iter))) \in Seq(Message)
      BY <2>3, CompactType
    <2> QED
      BY <1>4, <2>1, <2>2, <2>4 DEF BeginRefused, IterStopped, MaxIterations, CallStopped, CallGivesUp, AnswerTurn,
           BlockStopped, FeedbackStopped, HandleStop
  <1>6. rows' \in Seq(Row)
    <2>1. \/ rows' = rows
          \/ \E kind \in Kinds, tokens \in Nat : AddRow(kind, tokens)
      <3>1. CASE IterStopped \/ CallStopped \/ BlockStopped \/ FeedbackStopped
        <4>1. AddRow("stopped", total)
          BY <3>1 DEF IterStopped, CallStopped, BlockStopped, FeedbackStopped, HandleStop
        <4> QED
          BY <4>1, <1>4 DEF Kinds
      <3>2. CASE BeginRefused
        <4>1. AddRow("ask", 0) \/ rows' = rows
          BY <3>2 DEF BeginRefused, CtxWrite
        <4> QED
          BY <4>1 DEF Kinds
      <3>3. CASE MaxIterations
        <4>1. AddRow("maxiter", total) \/ rows' = rows
          BY <3>3 DEF MaxIterations, CtxWrite
        <4> QED
          BY <4>1, <1>4 DEF Kinds
      <3>4. CASE AnswerTurn
        <4>1. AddRow("answer", 1) \/ rows' = rows
          BY <3>4 DEF AnswerTurn, CtxWrite
        <4> QED
          BY <4>1 DEF Kinds
      <3>5. CASE CallGivesUp
        BY <3>5 DEF CallGivesUp, store
      <3> QED
        BY <3>1, <3>2, <3>3, <3>4, <3>5
    <2> QED
      BY <1>1, <1>4, <2>1, RowType
  <1>7. /\ turn' \in 0..MaxTurns /\ stopped' \subseteq Turns /\ pending' \in Nat /\ injects' \in 0..MaxInjects
        /\ history' \subseteq [turn: Turns, iter: 0..MaxIter, block: 1..MaxBlocks, tokens: Nat, result: Outcomes \cup {"none"}]
    BY DEF BeginRefused, IterStopped, MaxIterations, CallStopped, CallGivesUp, AnswerTurn, BlockStopped,
           FeedbackStopped, store, LoopInv, TypeOK
  <1>8. usage' \in Nat /\ spent' \in [Turns -> Nat]
    <2>1. usage \in Nat /\ spent \in [Turns -> Nat] /\ turn \in Turns
      BY <1>1 DEF LoopInv, TypeOK, Positions
    <2>2. spent[turn] + 1 \in Nat
      BY <2>1
    <2> QED
      BY <2>1, <2>2 DEF BeginRefused, IterStopped, MaxIterations, CallStopped, CallGivesUp, AnswerTurn, BlockStopped,
           FeedbackStopped, CtxWrite, CountUsage, store
  <1>9. TypeOK'
    BY <1>3, <1>5, <1>6, <1>7, <1>8 DEF TypeOK
  <1> QED
    BY <1>3, <1>9 DEF LoopInv, Positions

\* The steps that change the messages, the view or the calls, and no row.
LEMMA ViewSteps ==
    ASSUME LoopInv, StartTurn \/ IterBegin \/ CallFails \/ BackoffOver \/ Feedback
    PROVE  LoopInv'
  <1>1. CASE StartTurn
    <2>1. turn' \in 0..MaxTurns /\ turn' \in Turns
      BY <1>1, MaxTurnsAssumption DEF StartTurn, LoopInv, TypeOK, Turns
    <2>2. TypeOK'
      BY <1>1, <2>1 DEF StartTurn, LoopInv, TypeOK, call, work, store
    <2> QED
      BY <1>1, <2>1, <2>2 DEF StartTurn, LoopInv, Positions
  <1>2. CASE IterBegin
    <2>1. pc # "idle" /\ iter \in 0..MaxIter /\ pending \in Nat /\ messages \in Seq(Message) /\ msgs \in Seq(Message)
      BY <1>2 DEF IterBegin, LoopInv, TypeOK
    <2> DEFINE drained == [k \in 1..pending |-> Msg("inject", iter)]
    <2>2. drained \in Seq(Message)
      BY <2>1, MsgType DEF Kinds
    <2>3. messages' = messages \o drained /\ msgs' = msgs \o drained
      BY <1>2 DEF IterBegin, ViewWith
    <2> HIDE DEF drained
    <2>4. messages' \in Seq(Message) /\ msgs' \in Seq(Message)
      BY <2>1, <2>2, <2>3
    <2>6. attempt' \in 1..MaxRetries /\ pending' \in Nat /\ expired' \in BOOLEAN /\ pc' = "call"
      <3>1. attempt' = 1 /\ pending' = 0 /\ expired' = FALSE /\ pc' = "call"
        BY <1>2 DEF IterBegin
      <3>2. attempt' \in 1..MaxRetries /\ pending' \in Nat
        BY <3>1 DEF MaxRetries
      <3>3. expired' \in BOOLEAN
        BY <3>1
      <3> QED
        BY <3>1, <3>2, <3>3
    <2>7. UNCHANGED <<turn, iter, stopped, work, total, injects, store, spent, outcome>>
      BY <1>2 DEF IterBegin
    <2>5. TypeOK'
      BY <2>4, <2>6, <2>7 DEF LoopInv, TypeOK, work, store
    <2> QED
      BY <1>2, <2>5, <2>1 DEF IterBegin, LoopInv, Positions, TypeOK
  <1>3. CASE CallFails
    <2>1. TypeOK'
      BY <1>3 DEF CallFails, LoopInv, TypeOK, call, work, store
    <2> QED
      BY <1>3, <2>1 DEF CallFails, LoopInv, Positions, call, work, store, RetriesLeft
  <1>4. CASE BackoffOver
    <2>1. attempt' \in 1..MaxRetries
      BY <1>4 DEF BackoffOver, LoopInv, TypeOK, Positions, MaxRetries, NextAttempt
    <2>2. TypeOK'
      BY <1>4, <2>1 DEF BackoffOver, LoopInv, TypeOK, work, store
    <2> QED
      BY <1>4, <2>2 DEF BackoffOver, LoopInv, Positions, work, store
  <1>5. CASE Feedback
    <2> DEFINE fb == [Msg("results", iter) EXCEPT !.log = LogShown, !.hint = Hint]
               ce == Msg("code", iter)
               old == CompactOlder(msgs)
    <2>1. pc = "feedback" /\ iter \in 0..MaxIter /\ iter < MaxIter /\ messages \in Seq(Message) /\ msgs \in Seq(Message)
      BY <1>5 DEF Feedback, LoopInv, TypeOK, Positions
    <2>2. Hint \in Hints
      BY DEF Hint, Hints
    <2>3. LogShown \in Nat
      BY DEF LogShown, LoopInv, TypeOK
    <2>4. Msg("results", iter) \in Message /\ ce \in Message
      BY <2>1, MsgType DEF Kinds
    <2>5. fb \in Message
      BY <2>2, <2>3, <2>4 DEF Message
    <2>6. old \in Seq(Message)
      <3>2. DOMAIN msgs = 1..Len(msgs) /\ Len(msgs) \in Nat /\ \A k \in DOMAIN msgs : msgs[k] \in Message
        BY <2>1
      <3>1. \A k \in DOMAIN msgs : [msgs[k] EXCEPT !.full = FALSE, !.log = 0, !.hint = "none"] \in Message
        BY <3>2 DEF Message, Hints
      <3>3. \A k \in 1..Len(msgs) : CompactOlder(msgs)[k] \in Message
        BY <3>1, <3>2 DEF CompactOlder
      <3>4. CompactOlder(msgs) = [k \in 1..Len(msgs) |-> CompactOlder(msgs)[k]]
        BY <3>2 DEF CompactOlder
      <3> QED
        BY <3>2, <3>3, <3>4
    <2>7. messages' = Append(messages, fb) /\ msgs' = old \o <<ce, fb>> /\ iter' = iter + 1
      BY <1>5 DEF Feedback
    <2>8. small' \in Nat
      BY <1>5 DEF Feedback, SmallAfter, LoopInv, TypeOK
    <2> HIDE DEF fb, ce, old
    <2>9. messages' \in Seq(Message) /\ msgs' \in Seq(Message)
      BY <2>1, <2>4, <2>5, <2>6, <2>7
    <2>10. iter' \in 0..MaxIter
      BY <2>1, <2>7, MaxIterAssumption
    <2>11. TypeOK'
      BY <1>5, <2>8, <2>9, <2>10 DEF Feedback, LoopInv, TypeOK, store
    <2> QED
      BY <1>5, <2>11, <2>1 DEF Feedback, LoopInv, Positions
  <1> QED
    BY <1>1, <1>2, <1>3, <1>4, <1>5

\* The steps of a turn that write rows or history: it begins, a response has code, a block
\* begins and ends.
LEMMA WorkSteps ==
    ASSUME LoopInv,
           \/ Begin \/ (\E n \in 1..MaxBlocks : AnswerCode(n)) \/ BlockBegin \/ (\E res \in Results : BlockEnd(res))
    PROVE  LoopInv'
  <1>0. pc # "idle" /\ turn \in Turns /\ iter \in 0..MaxIter /\ 0 \in 0..MaxIter /\ messages \in Seq(Message)
    <2>1. pc # "idle"
      BY DEF Begin, AnswerCode, BlockBegin, BlockEnd
    <2> QED
      BY <2>1, MaxIterAssumption DEF LoopInv, TypeOK, Positions
  <1>1. CASE Begin
    <2>1. Msg("ask", 0) \in Message /\ Msg("context", 0) \in Message
      BY <1>0, MsgType DEF Kinds
    <2>2. Context \in Seq(Message)
      BY <2>1 DEF Context
    <2>3. Prior(messages) \in Seq(Message)
      BY <1>0, PriorType
    <2>4. messages' \in Seq(Message) /\ msgs' \in Seq(Message)
      BY <1>0, <1>1, <2>1, <2>2, <2>3 DEF Begin
    <2>5. rows' \in Seq(Row)
      <3>1. AddRow("ask", 0) \/ rows' = rows
        BY <1>1 DEF Begin, CtxWrite
      <3> QED
        BY <1>0, <3>1, RowType DEF Kinds, LoopInv, TypeOK
    <2>6. TypeOK'
      BY <1>1, <2>4, <2>5 DEF Begin, LoopInv, TypeOK, call, work
    <2> QED
      BY <1>1, <2>6, <1>0 DEF Begin, LoopInv, Positions
  <1>2. ASSUME NEW n \in 1..MaxBlocks, AnswerCode(n) PROVE LoopInv'
    <2>1. Msg("code", iter) \in Message
      BY <1>0, MsgType DEF Kinds
    <2>2. messages' \in Seq(Message)
      BY <1>0, <1>2, <2>1 DEF AnswerCode
    <2>3. usage' \in Nat /\ total' \in Nat
      BY <1>2 DEF AnswerCode, CtxWrite, CountUsage, LoopInv, TypeOK
    <2>4. spent' \in [Turns -> Nat]
      <3>1. spent \in [Turns -> Nat] /\ spent[turn] + 1 \in Nat
        BY <1>0 DEF LoopInv, TypeOK
      <3> QED
        BY <1>2, <3>1 DEF AnswerCode
    <2>5. todo' \in 0..MaxBlocks /\ results' \in Seq(Outcomes) /\ todo' >= 1 /\ todo' + Len(results') <= MaxBlocks
      BY <1>2, MaxBlocksAssumption DEF AnswerCode
    <2>6. TypeOK'
      BY <1>2, <2>2, <2>3, <2>4, <2>5 DEF AnswerCode, LoopInv, TypeOK, call
    <2> QED
      BY <1>0, <1>2, <2>5, <2>6 DEF AnswerCode, LoopInv, Positions, call
  <1>3. CASE BlockBegin
    <2>1. Len(results) + 1 \in 1..MaxBlocks
      BY <1>3, MaxBlocksAssumption DEF BlockBegin, LoopInv, TypeOK, Positions
    <2>2. TokensOf(Len(results) + 1) \in Nat
      BY DEF TokensOf
    <2>3. history' \subseteq [turn: Turns, iter: 0..MaxIter, block: 1..MaxBlocks, tokens: Nat, result: Outcomes \cup {"none"}]
      BY <1>0, <1>3, <2>1, <2>2 DEF BlockBegin, LoopInv, TypeOK
    <2>4. TypeOK'
      BY <1>3, <2>3 DEF BlockBegin, LoopInv, TypeOK, call, work
    <2> QED
      BY <1>3, <2>4 DEF BlockBegin, LoopInv, Positions, call, work
  <1>4. ASSUME NEW res \in Results, BlockEnd(res) PROVE LoopInv'
    <2>1. /\ pc = "running" /\ Len(results) \in Nat /\ todo \in Nat /\ todo >= 1 /\ todo + Len(results) <= MaxBlocks
          /\ res \in Outcomes /\ results \in Seq(Outcomes)
          /\ ledger \in Seq([iter: 0..MaxIter, block: 1..MaxBlocks]) /\ iter < MaxIter
      BY <1>4, ResultsAssumption, MaxBlocksAssumption DEF BlockEnd, LoopInv, TypeOK, Positions
    <2>2. Len(results) + 1 \in 1..MaxBlocks
      BY <2>1, MaxBlocksAssumption
    <2>3. /\ results' \in Seq(Outcomes) /\ Len(results') = Len(results) + 1
          /\ ledger' \in Seq([iter: 0..MaxIter, block: 1..MaxBlocks])
      BY <1>0, <1>4, <2>1, <2>2 DEF BlockEnd
    <2>4. history' \subseteq [turn: Turns, iter: 0..MaxIter, block: 1..MaxBlocks, tokens: Nat, result: Outcomes \cup {"none"}]
      <3> DEFINE H == [turn: Turns, iter: 0..MaxIter, block: 1..MaxBlocks, tokens: Nat, result: Outcomes \cup {"none"}]
      <3>1. history \subseteq H
        BY DEF LoopInv, TypeOK
      <3>2. \A h \in H : [h EXCEPT !.result = res] \in H
        BY <2>1
      <3>3. \/ history' = history
            \/ history' = {IF h.turn = turn /\ h.iter = iter /\ h.block = Len(results) + 1
                           THEN [h EXCEPT !.result = res] ELSE h : h \in history}
        BY <1>4 DEF BlockEnd, CtxWrite
      <3> HIDE DEF H
      <3>4. history' \subseteq H
        BY <3>1, <3>2, <3>3
      <3> QED
        BY <3>4 DEF H
    <2>5. todo' = todo - 1 /\ todo' \in 0..MaxBlocks
      BY <1>4, <2>1, MaxBlocksAssumption DEF BlockEnd
    <2>6. errs' \in Nat
      <3>1. errs' = IF res \in Errors THEN errs + 1 ELSE 0
        BY <1>4 DEF BlockEnd
      <3> QED
        BY <3>1 DEF LoopInv, TypeOK
    <2>7. pc' = IF todo = 1 THEN "feedback" ELSE "blocks"
      BY <1>4 DEF BlockEnd
    <2>8. TypeOK'
      BY <1>4, <2>3, <2>4, <2>5, <2>6, <2>7 DEF BlockEnd, LoopInv, TypeOK, call
    <2> QED
      BY <1>0, <1>4, <2>1, <2>3, <2>5, <2>7, <2>8 DEF BlockEnd, LoopInv, Positions, call
  <1> QED
    BY <1>1, <1>2, <1>3, <1>4

\* The user, the timer and the process.
LEMMA OtherSteps == ASSUME LoopInv, ApiTimeout \/ Stop \/ Inject \/ Restart PROVE LoopInv'
  <1>1. CASE ApiTimeout
    <2>1. TypeOK'
      BY <1>1 DEF ApiTimeout, LoopInv, TypeOK, work, store
    <2> QED
      BY <1>1, <2>1 DEF ApiTimeout, LoopInv, Positions, work, store
  <1>2. CASE Stop
    <2>1. TypeOK'
      BY <1>2 DEF Stop, LoopInv, TypeOK, Positions, call, work, store
    <2> QED
      BY <1>2, <2>1 DEF Stop, LoopInv, Positions, call, work, store
  <1>3. CASE Inject
    <2>1. rows' \in Seq(Row)
      BY <1>3, RowType DEF Inject, Kinds
    <2>2. pending' \in Nat /\ injects' \in 0..MaxInjects
      BY <1>3, MaxInjectsAssumption DEF Inject, LoopInv, TypeOK
    <2>3. TypeOK'
      BY <1>3, <2>1, <2>2 DEF Inject, LoopInv, TypeOK, call, work
    <2> QED
      BY <1>3, <2>3 DEF Inject, LoopInv, Positions, call, work
  <1>4. CASE Restart
    <2>1. messages' \in Seq(Message)
      <3>1. \A k \in DOMAIN rows : rows[k].kind \in Kinds /\ rows[k].turn \in 0..MaxTurns
        <4>1. \A k \in DOMAIN rows : rows[k] \in Row
          BY DEF LoopInv, TypeOK
        <4> QED
          BY <4>1, MaxTurnsAssumption DEF Row, Turns
      <3>2. \A k \in DOMAIN rows : [kind |-> rows[k].kind, turn |-> rows[k].turn, iter |-> 0,
                                    full |-> TRUE, log |-> 0, hint |-> "none"] \in Message
        BY <3>1, MaxIterAssumption DEF Message, Hints
      <3>3. rows \in Seq(Row)
        BY DEF LoopInv, TypeOK
      <3> HIDE DEF Message
      <3>4. Loaded(rows) \in Seq(Message)
        BY <3>2, <3>3 DEF Loaded
      <3> QED
        BY <1>4, <3>4 DEF Restart
    <2>2. /\ pc' = "idle" /\ iter' \in 0..MaxIter /\ attempt' \in 1..MaxRetries /\ expired' \in BOOLEAN
          /\ msgs' \in Seq(Message) /\ todo' \in 0..MaxBlocks /\ results' \in Seq(Outcomes)
          /\ ledger' \in Seq([iter: 0..MaxIter, block: 1..MaxBlocks])
          /\ errs' \in Nat /\ small' \in Nat /\ total' \in Nat
          /\ outcome' \in [Turns -> Endings]
      <3>1. CASE pc = "idle"
        BY <1>4, <3>1 DEF Restart, LoopInv, TypeOK, call, work
      <3>2. CASE pc # "idle"
        BY <1>4, <3>2, ReturnType DEF Restart, Endings
      <3> QED
        BY <3>1, <3>2
    <2>3. TypeOK'
      BY <1>4, <2>1, <2>2 DEF Restart, LoopInv, TypeOK, store
    <2> QED
      BY <2>2, <2>3 DEF LoopInv, Positions
  <1> QED
    BY <1>1, <1>2, <1>3, <1>4

\* Every step of the loop keeps the types and positions.
LEMMA LoopStep == LoopInv /\ [Next]_vars => LoopInv'
  <1> SUFFICES ASSUME LoopInv, [Next]_vars PROVE LoopInv'
    OBVIOUS
  <1>1. CASE UNCHANGED vars
    BY <1>1 DEF vars, LoopInv, TypeOK, Positions
  <1> QED
    BY <1>1, ReturnSteps, ViewSteps, WorkSteps, OtherSteps DEF Next, SendStep

\* Every reachable state of the loop is well typed: it takes no more than MaxIter rounds
\* and MaxRetries attempts, and runs the blocks that a response has.
THEOREM LoopTypeCorrect == Spec => []TypeOK
  <1>1. LoopInv => TypeOK
    BY DEF LoopInv
  <1> QED
    BY <1>1, LoopInit, LoopStep, PTL DEF Spec

-----------------------------------------------------------------------------

\* The last results in the view are of this turn, and show its first block in full or
\* the log of all its blocks.
LastShows(k) ==
    /\ k \in DOMAIN msgs /\ msgs[k].kind = "results" /\ msgs[k].turn = turn
    /\ \A l \in DOMAIN msgs : msgs[l].kind = "results" => l <= k
    /\ \/ Len(ledger) = 1 /\ msgs[k].full /\ msgs[k].iter = ledger[1].iter
       \/ msgs[k].log = Len(ledger)

\* Before the first block there is no log; once the blocks of a response have run the last
\* entry is of this iteration; and when the provider is called next it is shown.
ShownInv ==
    /\ pc \in {"idle", "begin"} => ledger = <<>>
    /\ pc = "feedback" => ledger # <<>> /\ ledger[Len(ledger)].iter = iter
    /\ pc \in {"iter", "call", "backoff"} /\ ledger # <<>> => \E k \in DOMAIN msgs : LastShows(k)

\* The last message of a kind is the one that is found.
LEMMA LastIsFound ==
    ASSUME NEW M, NEW ms \in Seq(M), NEW kind, NEW k \in DOMAIN ms, ms[k].kind = kind,
           \A l \in DOMAIN ms : ms[l].kind = kind => l <= k
    PROVE  LastOfKind(ms, kind) = k
  <1>1. \A l \in DOMAIN ms : l \in Nat
    OBVIOUS
  <1>2. \A j : (j \in DOMAIN ms /\ ms[j].kind = kind /\ \A l \in DOMAIN ms : ms[l].kind = kind => l <= j) <=> j = k
    BY <1>1
  <1> QED
    BY <1>2 DEF LastOfKind

\* Injected messages come after what was there, in the view and in the chat.
LEMMA ViewInjected ==
    ASSUME LoopInv, NEW s \in Seq(Message),
           NEW d, d = [k \in 1..pending |-> Msg("inject", iter)]
    PROVE  /\ Len(s) \in Nat /\ pending \in Nat /\ DOMAIN (s \o d) = 1..(Len(s) + pending)
           /\ \A k \in 1..Len(s) : (s \o d)[k] = s[k]
           /\ \A k \in 1..(Len(s) + pending) :
                k > Len(s) => (s \o d)[k].kind = "inject" /\ (s \o d)[k].turn = turn
  <1>1. pending \in Nat /\ Len(s) \in Nat
    BY DEF LoopInv, TypeOK
  <1>2. Msg("inject", iter).kind = "inject" /\ Msg("inject", iter).turn = turn
    BY DEF Msg
  <1> DEFINE m == Msg("inject", iter)
  <1>3. d \in Seq({m}) /\ Len(d) = pending /\ \A k \in 1..pending : d[k] = m
    BY <1>1
  <1> HIDE DEF m
  <1>4. DOMAIN (s \o d) = 1..(Len(s) + pending)
    BY <1>1, <1>3
  <1>5. \A k \in 1..(Len(s) + pending) : (s \o d)[k] = IF k <= Len(s) THEN s[k] ELSE d[k - Len(s)]
    BY <1>1, <1>3
  <1>6. \A k \in 1..(Len(s) + pending) : k > Len(s) => k - Len(s) \in 1..pending /\ ~(k <= Len(s))
    BY <1>1
  <1>7. \A k \in 1..Len(s) : k \in 1..(Len(s) + pending) /\ k <= Len(s)
    BY <1>1
  <1> QED
    BY <1>1, <1>2, <1>3, <1>4, <1>5, <1>6, <1>7 DEF m

\* Messages that are injected come after the last results and leave them the last.
LEMMA InjectedStep == ASSUME LoopInv, LoopInv', ShownInv, IterBegin PROVE ShownInv'
  <1>1. /\ pc = "iter" /\ pc' = "call" /\ UNCHANGED <<turn, ledger, iter>> /\ pending \in Nat
        /\ msgs \in Seq(Message)
    BY DEF IterBegin, LoopInv, TypeOK, work
  <1>2. PICK d : d = [k \in 1..pending |-> Msg("inject", iter)]
    OBVIOUS
  <1>3. msgs' = msgs \o d /\ DOMAIN msgs = 1..Len(msgs)
    BY <1>1, <1>2 DEF IterBegin, ViewWith
  <1>4. /\ DOMAIN msgs' = 1..(Len(msgs) + pending) /\ DOMAIN msgs = 1..Len(msgs) /\ Len(msgs) \in Nat
        /\ \A k \in 1..Len(msgs) : msgs'[k] = msgs[k]
        /\ \A k \in 1..(Len(msgs) + pending) : k > Len(msgs) => msgs'[k].kind = "inject"
    BY <1>1, <1>2, <1>3, ViewInjected
  <1>5. ASSUME NEW k \in DOMAIN msgs, LastShows(k) PROVE k \in DOMAIN msgs' /\ LastShows(k)'
    BY <1>1, <1>4, <1>5 DEF LastShows
  <1> QED
    BY <1>1, <1>5 DEF ShownInv

\* The feedback is the last message: it has the results of the block that ran last, and
\* the log if there was another block before.
LEMMA FeedbackStep == ASSUME LoopInv, LoopInv', ShownInv, Feedback PROVE ShownInv'
  <1> DEFINE fb == [Msg("results", iter) EXCEPT !.log = LogShown, !.hint = Hint]
             n == Len(msgs) + 2
  <1>1. /\ pc = "feedback" /\ pc' = "iter" /\ UNCHANGED <<turn, ledger>> /\ msgs \in Seq(Message)
        /\ msgs' = CompactOlder(msgs) \o <<Msg("code", iter), fb>> /\ Len(msgs) \in Nat
    BY DEF Feedback, LoopInv, TypeOK
  <1>2. /\ fb.kind = "results" /\ fb.turn = turn /\ fb.iter = iter /\ fb.full
        /\ fb.log = LogShown
    BY DEF Msg
  <1> HIDE DEF fb
  <1>3. msgs' \in Seq(Message) /\ CompactOlder(msgs) = [k \in 1..Len(msgs) |-> CompactOlder(msgs)[k]]
    <2>1. DOMAIN msgs = 1..Len(msgs)
      BY <1>1
    <2>2. msgs' \in Seq(Message)
      BY DEF LoopInv, TypeOK
    <2>3. CompactOlder(msgs) = [k \in 1..Len(msgs) |-> CompactOlder(msgs)[k]]
      BY <2>1 DEF CompactOlder
    <2> QED
      BY <2>2, <2>3
  <1>4. CompactOlder(msgs) \in Seq({CompactOlder(msgs)[k] : k \in 1..Len(msgs)}) /\ Len(CompactOlder(msgs)) = Len(msgs)
    BY <1>1, <1>3
  <1>5. n \in DOMAIN msgs' /\ DOMAIN msgs' = 1..n /\ msgs'[n] = fb
    BY <1>1, <1>4
  <1>6. Len(ledger) \in Nat /\ ledger # <<>> /\ ledger[Len(ledger)].iter = iter /\ Len(ledger) # 0
    <2>1. ledger \in Seq([iter: 0..MaxIter, block: 1..MaxBlocks])
      BY DEF LoopInv, TypeOK
    <2>2. ledger # <<>> /\ ledger[Len(ledger)].iter = iter
      BY <1>1 DEF ShownInv
    <2>3. Len(ledger) \in Nat /\ Len(ledger) # 0
      BY <2>1, <2>2, EmptySeq
    <2> QED
      BY <2>2, <2>3
  <1>10. ASSUME Len(ledger) = 1 PROVE fb.iter = ledger[1].iter
    BY <1>2, <1>6, <1>10
  <1>11. ASSUME Len(ledger) # 1 PROVE fb.log = Len(ledger)
    <2>3. \A m \in Nat : m # 0 /\ m # 1 => m > 1
      OBVIOUS
    <2>1. Len(ledger) > 1
      BY <2>3, <1>6, <1>11
    <2>2. LogShown = Len(ledger)
      BY <2>1 DEF LogShown
    <2> QED
      BY <1>2, <2>2
  <1>7. IF Len(ledger) = 1 THEN fb.iter = ledger[1].iter ELSE fb.log = Len(ledger)
    BY <1>10, <1>11
  <1>8. \A l \in DOMAIN msgs' : l <= n
    BY <1>1, <1>5
  <1>12. Len(ledger') = Len(ledger) /\ turn' = turn /\ ledger'[1] = ledger[1]
    BY <1>1
  <1>13. PICK k \in Nat : k = n
    BY <1>1
  <1> HIDE DEF n
  <1>9. LastShows(k)'
    <2>1. k \in DOMAIN msgs' /\ msgs'[k] = fb /\ \A l \in DOMAIN msgs' : l <= k
      BY <1>5, <1>8, <1>13
    <2>2. msgs'[k].kind = "results" /\ msgs'[k].turn = turn'
      BY <2>1, <1>2, <1>12
    <2>3. \/ Len(ledger') = 1 /\ msgs'[k].full /\ msgs'[k].iter = ledger'[1].iter
          \/ msgs'[k].log = Len(ledger')
      BY <2>1, <1>2, <1>7, <1>12
    <2> QED
      BY <2>1, <2>2, <2>3 DEF LastShows
  <1> QED
    BY <1>1, <1>9 DEF ShownInv, LastShows

\* Every step keeps that the last log shows what the results before it no longer do.
LEMMA ShownStep == LoopInv /\ ShownInv /\ [Next]_vars => ShownInv'
  <1> SUFFICES ASSUME LoopInv, LoopInv', ShownInv, [Next]_vars PROVE ShownInv'
    BY LoopStep
  <1>1. ASSUME UNCHANGED <<turn, msgs, ledger, iter>>, pc' = pc \/ (pc' \in {"iter", "call", "backoff"} /\ pc \in {"iter", "call", "backoff"})
        PROVE  ShownInv'
    BY <1>1 DEF ShownInv, LastShows
  <1>2. ASSUME pc' \in {"idle", "begin"}, ledger' = <<>> PROVE ShownInv'
    BY <1>2 DEF ShownInv
  <1>3. CASE UNCHANGED vars \/ CallFails \/ BackoffOver \/ ApiTimeout \/ Stop \/ Inject
    BY <1>1, <1>3 DEF vars, CallFails, BackoffOver, ApiTimeout, Stop, Inject, call, work
  <1>4. CASE \/ BeginRefused \/ IterStopped \/ MaxIterations \/ CallStopped \/ CallGivesUp
             \/ AnswerTurn \/ BlockStopped \/ FeedbackStopped
    BY <1>2, <1>4 DEF BeginRefused, IterStopped, MaxIterations, CallStopped, CallGivesUp, AnswerTurn, BlockStopped,
                      FeedbackStopped, HandleStop, Return
  <1>5. CASE StartTurn \/ Restart
    BY <1>2, <1>5 DEF StartTurn, Restart, Return, work, ShownInv
  <1>6. CASE Begin
    BY <1>6 DEF Begin, ShownInv, work
  <1>7. ASSUME NEW n \in 1..MaxBlocks, AnswerCode(n) PROVE ShownInv'
    BY <1>7 DEF AnswerCode, ShownInv
  <1>8. CASE BlockBegin
    BY <1>8 DEF BlockBegin, ShownInv
  <1>9. ASSUME NEW res \in Results, BlockEnd(res) PROVE ShownInv'
    <2>1. /\ ledger' = Append(ledger, [iter |-> iter, block |-> Len(results) + 1]) /\ iter' = iter
          /\ pc' \in {"feedback", "blocks"} /\ ledger \in Seq([iter: 0..MaxIter, block: 1..MaxBlocks])
      BY <1>9 DEF BlockEnd, call, LoopInv, TypeOK
    <2>2. ledger' # <<>> /\ ledger'[Len(ledger')].iter = iter'
      BY <2>1
    <2> QED
      BY <2>1, <2>2 DEF ShownInv
  <1> QED
    BY <1>3, <1>4, <1>5, <1>6, <1>7, <1>8, <1>9, InjectedStep, FeedbackStep DEF Next, SendStep

\* agent.go: "so the AI never loses context, even when older messages are compacted
\* away": each block of a turn is known to every later call of the provider, in full or
\* by the log.
THEOREM NothingIsForgotten == Spec => []NothingForgotten
  <1>1. Init => ShownInv
    BY DEF Init, ShownInv
  <1>2. LoopInv /\ ShownInv => NothingForgotten
    <2> SUFFICES ASSUME LoopInv, ShownInv, pc = "call", NEW b \in DOMAIN ledger
                 PROVE  \E k \in DOMAIN msgs :
                          /\ msgs[k].kind = "results" /\ msgs[k].turn = turn
                          /\ \/ msgs[k].full /\ msgs[k].iter = ledger[b].iter
                             \/ k = LastOfKind(msgs, "results") /\ b <= msgs[k].log
      BY DEF NothingForgotten
    <2>1. msgs \in Seq(Message) /\ ledger # <<>> /\ Len(ledger) \in Nat /\ b \in 1..Len(ledger)
      BY DEF LoopInv, TypeOK
    <2>2. PICK k \in DOMAIN msgs : LastShows(k)
      BY <2>1 DEF ShownInv
    <2>3. k = LastOfKind(msgs, "results")
      BY <2>1, <2>2, LastIsFound DEF LastShows
    <2>4. Len(ledger) = 1 => b = 1
      BY <2>1
    <2> QED
      BY <2>1, <2>2, <2>3, <2>4 DEF LastShows
  <1> QED
    BY <1>1, <1>2, LoopInit, LoopStep, ShownStep, PTL DEF Spec

-----------------------------------------------------------------------------

\* The turns before the current one are over, those after it have not begun, and the
\* current one is over when Send is idle.
TurnInv ==
    /\ \A t \in Turns : (t > turn => outcome[t] = "none") /\ (t < turn => outcome[t] # "none")
    /\ turn \in Turns => (outcome[turn] = "none" <=> pc # "idle")

\* Send returns with an ending.
LEMMA ReturnOfTurn ==
    ASSUME LoopInv, TurnInv, pc # "idle", UNCHANGED turn, NEW how \in Endings \ {"none"}, Return(how)
    PROVE  TurnInv' /\ outcome'[turn] # "none" /\ \A t \in Turns \ {turn} : outcome'[t] = outcome[t]
  <1>1. outcome \in [Turns -> Endings] /\ turn \in Turns /\ \A t \in Turns : t \in Nat
    BY MaxTurnsAssumption DEF LoopInv, TypeOK, Positions, Turns
  <1>2. pc' = "idle" /\ outcome' = [outcome EXCEPT ![turn] = how]
    BY DEF Return
  <1>3. outcome'[turn] = how /\ \A t \in Turns \ {turn} : outcome'[t] = outcome[t]
    BY <1>1, <1>2
  <1>4. turn \in Nat /\ ~(turn < turn) /\ ~(turn > turn)
    BY <1>1
  <1> QED
    BY <1>1, <1>2, <1>3, <1>4 DEF TurnInv

\* Every step keeps that the turns before the current one are over, and later ones are not.
LEMMA TurnStep == LoopInv /\ TurnInv /\ [Next]_vars => TurnInv'
  <1> SUFFICES ASSUME LoopInv, TurnInv, [Next]_vars PROVE TurnInv'
    OBVIOUS
  <1>0. turn \in 0..MaxTurns /\ outcome \in [Turns -> Endings] /\ (pc # "idle" => turn \in Turns)
    BY DEF LoopInv, TypeOK, Positions
  <1>1. ASSUME UNCHANGED <<turn, outcome>>, pc' = "idle" <=> pc = "idle" PROVE TurnInv'
    BY <1>1 DEF TurnInv
  <1>2. CASE UNCHANGED vars \/ Begin \/ IterBegin \/ CallFails \/ BackoffOver \/ BlockBegin \/ Feedback
             \/ ApiTimeout \/ Stop \/ Inject
    BY <1>1, <1>2 DEF vars, Begin, IterBegin, CallFails, BackoffOver, BlockBegin, Feedback, ApiTimeout, Stop, Inject
  <1>3. ASSUME NEW n \in 1..MaxBlocks, AnswerCode(n) PROVE TurnInv'
    BY <1>1, <1>3 DEF AnswerCode
  <1>4. ASSUME NEW res \in Results, BlockEnd(res) PROVE TurnInv'
    <2>1. pc = "running" /\ pc' \in {"feedback", "blocks"} /\ UNCHANGED <<turn, outcome>>
      BY <1>4 DEF BlockEnd
    <2> QED
      BY <2>1, <1>1
  <1>5. CASE \/ BeginRefused \/ IterStopped \/ MaxIterations \/ CallStopped \/ CallGivesUp
             \/ AnswerTurn \/ BlockStopped \/ FeedbackStopped
    <2>1. UNCHANGED turn /\ pc # "idle" /\ \E how \in Endings \ {"none"} : Return(how)
      BY <1>5 DEF BeginRefused, IterStopped, MaxIterations, CallStopped, CallGivesUp, AnswerTurn, BlockStopped,
                  FeedbackStopped, HandleStop, Endings
    <2> QED
      BY <2>1, ReturnOfTurn
  <1>6. CASE StartTurn
    <2>1. pc = "idle" /\ pc' = "begin" /\ turn' = turn + 1 /\ outcome' = outcome
      BY <1>6 DEF StartTurn
    <2>2. \A t \in Turns : t \in Nat /\ t >= 1 /\ t <= MaxTurns
      BY MaxTurnsAssumption DEF Turns
    <2>3. \A t \in Turns : t < turn + 1 => t < turn \/ t = turn
      BY <1>0, <2>2
    <2>4. \A t \in Turns : t > turn + 1 \/ t = turn + 1 => t > turn
      BY <1>0, <2>2
    <2> QED
      BY <1>0, <2>1, <2>2, <2>3, <2>4 DEF TurnInv
  <1>7. CASE Restart
    <2>1. CASE pc = "idle"
      BY <1>1, <1>7, <2>1 DEF Restart
    <2>2. CASE pc # "idle"
      <3>1. Return("crashed") /\ UNCHANGED turn
        BY <1>7, <2>2 DEF Restart
      <3> QED
        BY <3>1, <2>2, ReturnOfTurn DEF Endings
    <2> QED
      BY <2>1, <2>2
  <1> QED
    BY <1>2, <1>3, <1>4, <1>5, <1>6, <1>7 DEF Next, SendStep

\* A row adds one to the answers of its turn, if it is an answer.
LEMMA AnswersOfRow ==
    ASSUME LoopInv, NEW t \in Turns, NEW kind \in Kinds, NEW tokens, AddRow(kind, tokens)
    PROVE  /\ Answers(t) \in Nat
           /\ Answers(t)' = IF t = turn /\ kind \in {"answer", "stopped", "maxiter"} THEN Answers(t) + 1 ELSE Answers(t)
  <1> DEFINE r == [kind |-> kind, turn |-> turn, tokens |-> tokens]
             A == {k \in DOMAIN rows : IsAnswer(rows[k], t)}
             B == {k \in DOMAIN rows' : IsAnswer(rows'[k], t)}
             n == Len(rows) + 1
  <1>1. rows \in Seq(Row) /\ rows' = Append(rows, r)
    BY DEF LoopInv, TypeOK, AddRow
  <1>2. Answers(t) = Cardinality(A) /\ Answers(t)' = Cardinality(B)
    BY DEF Answers, Count
  <1>3. DOMAIN rows = 1..Len(rows) /\ Len(rows) \in Nat
    BY <1>1
  <1>4. DOMAIN rows' = 1..n /\ n \notin DOMAIN rows /\ rows'[n] = r /\ \A k \in DOMAIN rows : rows'[k] = rows[k]
    BY <1>1, <1>3
  <1>5. IsFiniteSet(A) /\ Cardinality(A) \in Nat
    <2>1. IsFiniteSet(1..Len(rows)) /\ A \subseteq 1..Len(rows)
      BY <1>3, FS_Interval
    <2> HIDE DEF A
    <2> QED
      BY <2>1, FS_Subset, FS_CardinalityType
  <1>6. IsAnswer(r, t) <=> t = turn /\ kind \in {"answer", "stopped", "maxiter"}
    BY DEF IsAnswer
  <1> HIDE DEF r
  <1>7. n \notin A /\ B = IF IsAnswer(r, t) THEN A \cup {n} ELSE A
    <2>1. \A k : k \in DOMAIN rows' <=> k \in DOMAIN rows \/ k = n
      BY <1>3, <1>4
    <2>2. \A k : k \in B <=> k \in A \/ (k = n /\ IsAnswer(r, t))
      BY <1>4, <2>1
    <2>3. n \notin A
      BY <1>4
    <2> HIDE DEF A, B
    <2> QED
      BY <2>2, <2>3
  <1> HIDE DEF A, B, n
  <1>8. Cardinality(A \cup {n}) = Cardinality(A) + 1
    BY <1>5, <1>7, FS_AddElement
  <1> QED
    BY <1>2, <1>5, <1>6, <1>7, <1>8

\* Turns that are not the current one.
LEMMA OtherTurns ==
    ASSUME LoopInv, TurnInv, UNCHANGED turn, NEW t \in Turns, t # turn, outcome'[t] = outcome[t],
           t \in stopped' <=> t \in stopped,
           \/ rows' = rows
           \/ \E kind \in Kinds : \E tokens \in Nat : AddRow(kind, tokens)
    PROVE  [Turn(t)!Next]_(Turn(t)!turnVars)
  <1>1. Answers(t)' = Answers(t)
    <2>1. CASE rows' = rows
      BY <2>1 DEF Answers, Count
    <2> QED
      BY <2>1, AnswersOfRow
  <1>2. Phase(t)' = Phase(t)
    <2>1. turn \in Nat /\ t \in Nat
      BY MaxTurnsAssumption DEF LoopInv, TypeOK, Turns
    <2>2. CASE t > turn
      BY <2>2 DEF Phase
    <2>3. CASE t < turn
      <3>1. t <= turn /\ ~(t > turn) /\ outcome[t] # "none"
        BY <2>1, <2>3 DEF TurnInv
      <3> QED
        BY <3>1 DEF Phase
    <2> QED
      BY <2>1, <2>2, <2>3
  <1>3. (t \in stopped)' = (t \in stopped)
    OBVIOUS
  <1> QED
    BY <1>1, <1>2, <1>3 DEF Turn!turnVars

\* The phase of the current turn, before and after a step.
LEMMA PhaseNow ==
    ASSUME LoopInv, TurnInv, TurnInv', turn \in Turns, UNCHANGED turn
    PROVE  /\ Phase(turn) = IF pc = "idle" THEN "over" ELSE IF pc = "begin" THEN "send"
                            ELSE IF pc = "iter" THEN "loop" ELSE "work"
           /\ Phase(turn)' = IF pc' = "idle" THEN "over" ELSE IF pc' = "begin" THEN "send"
                             ELSE IF pc' = "iter" THEN "loop" ELSE "work"
  <1>1. turn \in Nat /\ turn <= turn /\ ~(turn > turn)
    BY MaxTurnsAssumption DEF Turns
  <1>2. (outcome[turn] = "none" <=> pc # "idle") /\ (outcome'[turn] = "none" <=> pc' # "idle")
    BY DEF TurnInv
  <1>3. Phase(turn) = IF pc = "idle" THEN "over" ELSE IF pc = "begin" THEN "send"
                      ELSE IF pc = "iter" THEN "loop" ELSE "work"
    BY <1>1, <1>2 DEF Phase
  <1>4. Phase(turn)' = IF pc' = "idle" THEN "over" ELSE IF pc' = "begin" THEN "send"
                       ELSE IF pc' = "iter" THEN "loop" ELSE "work"
    BY <1>1, <1>2 DEF Phase
  <1> QED
    BY <1>3, <1>4

\* A step of the current turn that leaves the number of its answers.
LEMMA AnswersStay ==
    ASSUME LoopInv, turn \in Turns,
           \/ rows' = rows
           \/ \E kind \in Kinds \ {"answer", "stopped", "maxiter"} : \E tokens \in Nat : AddRow(kind, tokens)
    PROVE  \A t \in Turns : t = turn => Answers(t)' = Answers(t)
  <1> SUFFICES ASSUME NEW t \in Turns, t = turn PROVE Answers(t)' = Answers(t)
    OBVIOUS
  <1>1. CASE rows' = rows
    BY <1>1 DEF Answers, Count
  <1> QED
    BY <1>1, AnswersOfRow

\* The steps of the current turn.
LEMMA CurrentTurn ==
    ASSUME LoopInv, TurnInv, TurnInv', SendStep \/ ApiTimeout \/ Stop \/ Inject \/ Restart,
           NEW t \in Turns, t = turn
    PROVE  [Turn(t)!Next]_(Turn(t)!turnVars)
  <1>0. UNCHANGED turn
    BY DEF SendStep, ApiTimeout, Stop, Inject, Restart, BeginRefused, Begin, IterStopped, IterBegin, MaxIterations,
           CallStopped, CallFails, CallGivesUp, BackoffOver, AnswerTurn, AnswerCode, BlockStopped, BlockBegin, BlockEnd,
           FeedbackStopped, Feedback
  <1>1. /\ Phase(t) = IF pc = "idle" THEN "over" ELSE IF pc = "begin" THEN "send"
                      ELSE IF pc = "iter" THEN "loop" ELSE "work"
        /\ Phase(t)' = IF pc' = "idle" THEN "over" ELSE IF pc' = "begin" THEN "send"
                       ELSE IF pc' = "iter" THEN "loop" ELSE "work"
    BY <1>0, PhaseNow
  <1>2. total \in Nat
    BY DEF LoopInv, TypeOK
  <1>3. CASE \/ CallFails \/ BackoffOver \/ (\E n \in 1..MaxBlocks : AnswerCode(n)) \/ BlockBegin
             \/ (\E res \in Results : BlockEnd(res)) \/ ApiTimeout \/ Inject \/ (pc = "idle" /\ Restart)
    <2>1. (t \in stopped)' = (t \in stopped)
      BY <1>3 DEF CallFails, BackoffOver, AnswerCode, BlockBegin, BlockEnd, ApiTimeout, Inject, Restart
    <2>2. Phase(t)' = Phase(t)
      BY <1>1, <1>3 DEF CallFails, BackoffOver, AnswerCode, BlockBegin, BlockEnd, ApiTimeout, Inject, Restart
    <2>3. rows' = rows \/ AddRow("inject", 0)
      BY <1>3 DEF CallFails, BackoffOver, AnswerCode, BlockBegin, BlockEnd, ApiTimeout, Inject, Restart, store
    <2>4. Answers(t)' = Answers(t)
      BY <2>3, AnswersStay DEF Kinds
    <2> QED
      BY <2>1, <2>2, <2>4 DEF Turn!turnVars
  <1>4. CASE Begin \/ BeginRefused
    <2>1. pc = "begin" /\ pc' \in {"iter", "idle"} /\ (t \in stopped)' = (t \in stopped)
      BY <1>4 DEF Begin, BeginRefused, Return
    <2>2. rows' = rows \/ AddRow("ask", 0)
      BY <1>4 DEF Begin, BeginRefused, CtxWrite
    <2>3. Answers(t)' = Answers(t)
      BY <2>2, AnswersStay DEF Kinds
    <2> QED
      BY <1>1, <2>1, <2>3 DEF Turn!Next, Turn!Admit
  <1>5. CASE IterBegin
    <2>1. pc = "iter" /\ pc' = "call" /\ t \notin stopped /\ (t \in stopped)' = (t \in stopped) /\ rows' = rows
      BY <1>5 DEF IterBegin, GoesOn, store
    <2>2. Answers(t)' = Answers(t)
      BY <2>1, AnswersStay
    <2> QED
      BY <1>1, <2>1, <2>2 DEF Turn!Next, Turn!Enter
  <1>6. CASE Feedback
    <2>1. pc = "feedback" /\ pc' = "iter" /\ (t \in stopped)' = (t \in stopped) /\ rows' = rows
      BY <1>6 DEF Feedback, store
    <2>2. Answers(t)' = Answers(t)
      BY <2>1, AnswersStay
    <2> QED
      BY <1>1, <2>1, <2>2 DEF Turn!Next, Turn!Again
  <1>7. CASE Stop
    <2>1. pc' = pc /\ (t \in stopped)' /\ rows' = rows
      BY <1>7 DEF Stop, store
    <2>2. Answers(t)' = Answers(t)
      BY <2>1, AnswersStay
    <2>3. Phase(t)' = Phase(t)
      BY <1>1, <2>1
    <2> QED
      BY <2>1, <2>2, <2>3 DEF Turn!Next, Turn!Cancel
  <1>8. CASE CallGivesUp \/ (pc # "idle" /\ Restart)
    <2>1. pc # "idle" /\ pc' = "idle" /\ (t \in stopped)' = (t \in stopped) /\ rows' = rows
      BY <1>8 DEF CallGivesUp, Restart, Return, store
    <2>2. Answers(t)' = Answers(t)
      BY <2>1, AnswersStay
    <2> QED
      BY <1>1, <2>1, <2>2 DEF Turn!Next, Turn!Fail
  <1>9. CASE IterStopped \/ MaxIterations \/ CallStopped \/ AnswerTurn \/ BlockStopped \/ FeedbackStopped
    <2>1. pc \notin {"idle", "begin"} /\ pc' = "idle" /\ (t \in stopped)' = (t \in stopped)
      BY <1>9 DEF IterStopped, MaxIterations, CallStopped, AnswerTurn, BlockStopped, FeedbackStopped, HandleStop, Return
    <2>2. \/ rows' = rows /\ t \in stopped
          \/ AddRow("stopped", total) \/ AddRow("maxiter", total) \/ AddRow("answer", 1)
      BY <1>9 DEF IterStopped, MaxIterations, CallStopped, AnswerTurn, BlockStopped, FeedbackStopped, HandleStop,
                  CtxWrite, Stopped
    <2>3. Answers(t)' = Answers(t) + 1 \/ (t \in stopped /\ Answers(t)' = Answers(t))
      <3>1. CASE rows' = rows /\ t \in stopped
        BY <3>1, AnswersStay
      <3>2. CASE AddRow("stopped", total) \/ AddRow("maxiter", total) \/ AddRow("answer", 1)
        BY <3>2, AnswersOfRow DEF Kinds
      <3> QED
        BY <2>2, <3>1, <3>2
    <2> QED
      BY <1>1, <2>1, <2>3 DEF Turn!Next, Turn!Answer
  <1> QED
    BY <1>3, <1>4, <1>5, <1>6, <1>7, <1>8, <1>9 DEF SendStep

\* A turn begins: the next one, while the others are where they were.
LEMMA TurnBegins ==
    ASSUME LoopInv, TurnInv, TurnInv', StartTurn, NEW t \in Turns
    PROVE  [Turn(t)!Next]_(Turn(t)!turnVars)
  <1>1. /\ pc = "idle" /\ pc' = "begin" /\ turn' = turn + 1 /\ outcome' = outcome /\ rows' = rows
        /\ (t \in stopped)' = (t \in stopped) /\ turn \in Nat /\ t \in Nat
    BY MaxTurnsAssumption DEF StartTurn, store, LoopInv, TypeOK, Turns
  <1>2. Answers(t)' = Answers(t)
    BY <1>1 DEF Answers, Count
  <1>3. CASE t = turn + 1
    <2>1. t > turn /\ t <= turn' /\ ~(t > turn')
      BY <1>1, <1>3
    <2>2. outcome'[t] = "none"
      BY <1>1, <2>1 DEF TurnInv
    <2>3. Phase(t) = "waiting" /\ Phase(t)' = "send"
      BY <1>1, <2>1, <2>2 DEF Phase
    <2> QED
      BY <1>1, <1>2, <2>3 DEF Turn!Next, Turn!Start
  <1>4. CASE t > turn + 1
    <2>1. t > turn /\ ~(t <= turn) /\ t > turn' /\ ~(t <= turn')
      BY <1>1, <1>4
    <2>2. Phase(t) = "waiting" /\ Phase(t)' = "waiting"
      BY <2>1 DEF Phase
    <2> QED
      BY <1>1, <1>2, <2>2 DEF Turn!turnVars
  <1>5. CASE t <= turn
    <2>1. t <= turn /\ ~(t > turn) /\ t <= turn' /\ ~(t > turn') /\ t < turn'
      BY <1>1, <1>5
    <2>2. outcome[t] # "none" /\ outcome'[t] # "none"
      BY <1>1, <2>1 DEF TurnInv
    <2>3. Phase(t)' = Phase(t)
      BY <2>1, <2>2 DEF Phase
    <2> QED
      BY <1>1, <1>2, <2>3 DEF Turn!turnVars
  <1> QED
    BY <1>1, <1>3, <1>4, <1>5

\* What a step does to the turns that it is not a step of.
LEMMA OthersStay ==
    ASSUME LoopInv, SendStep \/ ApiTimeout \/ Stop \/ Inject \/ Restart, NEW t \in Turns, t # turn
    PROVE  /\ UNCHANGED turn /\ (t \in stopped' <=> t \in stopped) /\ outcome'[t] = outcome[t]
           /\ rows' = rows \/ \E kind \in Kinds : \E tokens \in Nat : AddRow(kind, tokens)
  <1>1. UNCHANGED turn /\ (t \in stopped' <=> t \in stopped)
    BY DEF SendStep, ApiTimeout, Stop, Inject, Restart, BeginRefused, Begin, IterStopped, IterBegin, MaxIterations,
        CallStopped, CallFails, CallGivesUp, BackoffOver, AnswerTurn, AnswerCode, BlockStopped, BlockBegin, BlockEnd,
        FeedbackStopped, Feedback
  <1>2. outcome'[t] = outcome[t]
    <2>1. outcome \in [Turns -> Endings]
      BY DEF LoopInv, TypeOK
    <2>2. outcome' = outcome \/ \E how \in Endings : Return(how)
      BY DEF SendStep, ApiTimeout, Stop, Inject, Restart, BeginRefused, Begin, IterStopped, IterBegin, MaxIterations,
          CallStopped, CallFails, CallGivesUp, BackoffOver, AnswerTurn, AnswerCode, BlockStopped, BlockBegin, BlockEnd,
          FeedbackStopped, Feedback, HandleStop, Endings
    <2> QED
      BY <2>1, <2>2 DEF Return
  <1>3. rows' = rows \/ \E kind \in Kinds : \E tokens \in Nat : AddRow(kind, tokens)
    <2>1. total \in Nat
      BY DEF LoopInv, TypeOK
    <2>2. \/ rows' = rows \/ AddRow("ask", 0) \/ AddRow("inject", 0) \/ AddRow("answer", 1)
          \/ AddRow("stopped", total) \/ AddRow("maxiter", total)
      BY DEF SendStep, ApiTimeout, Stop, Inject, Restart, BeginRefused, Begin, IterStopped, IterBegin, MaxIterations,
          CallStopped, CallFails, CallGivesUp, BackoffOver, AnswerTurn, AnswerCode, BlockStopped, BlockBegin, BlockEnd,
          FeedbackStopped, Feedback, HandleStop, CtxWrite, store
    <2> QED
      BY <2>1, <2>2 DEF Kinds
  <1> QED
    BY <1>1, <1>2, <1>3

\* Every step of the loop is a step, or a stutter, of each turn.
LEMMA TurnsStep ==
    LoopInv /\ TurnInv /\ [Next]_vars => [\A t \in Turns : [Turn(t)!Next]_(Turn(t)!turnVars)]_vars
  <1> SUFFICES ASSUME LoopInv, TurnInv, TurnInv', Next, NEW t \in Turns
               PROVE  [Turn(t)!Next]_(Turn(t)!turnVars)
    BY TurnStep
  <1>1. CASE StartTurn
    BY <1>1, TurnBegins
  <1>2. CASE ~StartTurn /\ t = turn
    BY <1>2, CurrentTurn DEF Next
  <1>3. CASE ~StartTurn /\ t # turn
    <2>1. SendStep \/ ApiTimeout \/ Stop \/ Inject \/ Restart
      BY <1>3 DEF Next
    <2>2. /\ UNCHANGED turn /\ (t \in stopped' <=> t \in stopped) /\ outcome'[t] = outcome[t]
          /\ rows' = rows \/ \E kind \in Kinds : \E tokens \in Nat : AddRow(kind, tokens)
      BY <1>3, <2>1, OthersStay
    <2> QED
      BY <1>3, <2>2, OtherTurns
  <1> QED
    BY <1>1, <1>2, <1>3

\* The loop implements AgentTurn: however Send, its provider, its code, Stop and restarts
\* interleave, each turn is over once, leaves the answers that the abstract turn leaves,
\* and does not enter another iteration once it is stopped.
THEOREM TheLoopImplementsTurns == Spec => TurnsImplemented
  <1>1. Init => TurnInv /\ \A t \in Turns : Turn(t)!Init
    <2> SUFFICES ASSUME Init PROVE TurnInv /\ \A t \in Turns : Turn(t)!Init
      OBVIOUS
    <2>1. \A t \in Turns : t \in Nat /\ t > 0 /\ outcome[t] = "none" /\ t \notin stopped
      BY MaxTurnsAssumption DEF Init, Turns
    <2>2. TurnInv
      BY <2>1 DEF TurnInv, Init
    <2>3. \A t \in Turns : Phase(t) = "waiting"
      BY <2>1 DEF Phase, Init
    <2>4. \A t \in Turns : Answers(t) = 0
      <3>1. \A t \in Turns : Answers(t) = Cardinality({k \in DOMAIN rows : IsAnswer(rows[k], t)})
        BY DEF Answers, Count
      <3>2. DOMAIN rows = {}
        BY DEF Init
      <3> QED
        BY <3>1, <3>2, FS_EmptySet
    <2> QED
      BY <2>1, <2>2, <2>3, <2>4 DEF Turn!Init
  <1> QED
    BY <1>1, LoopInit, LoopStep, TurnStep, TurnsStep, PTL DEF Spec, TurnsImplemented

-----------------------------------------------------------------------------

\* The answers a turn has left agree with how it ended.
AnswersFit(t) ==
    /\ Answers(t) = 0 \/ Answers(t) = 1
    /\ outcome[t] \in {"none", "refused", "error", "crashed"} => Answers(t) = 0
    /\ outcome[t] \in {"answer", "maxiter"} /\ t \notin stopped => Answers(t) = 1
    /\ outcome[t] = "stopped" => Answers(t) = 1

AnswerInv == \A t \in Turns : AnswersFit(t)

\* Steps that leave a turn's ending and its answers, and may stop it.
LEMMA FitStays ==
    ASSUME NEW t \in Turns, AnswersFit(t), Answers(t)' = Answers(t), outcome'[t] = outcome[t],
           t \in stopped => t \in stopped'
    PROVE  AnswersFit(t)'
  BY DEF AnswersFit

\* The steps of the current turn: it leaves its answer in the step that ends it.
LEMMA CurrentFits ==
    ASSUME LoopInv, TurnInv, TurnInv', SendStep \/ ApiTimeout \/ Stop \/ Inject \/ Restart,
           NEW t \in Turns, t = turn, AnswersFit(t)
    PROVE  AnswersFit(t)'
  <1>0. total \in Nat /\ outcome \in [Turns -> Endings]
    BY DEF LoopInv, TypeOK
  <1>1. pc # "idle" => outcome[t] = "none" /\ Answers(t) = 0
    BY DEF TurnInv, AnswersFit
  <1>2. CASE \/ CallFails \/ BackoffOver \/ (\E n \in 1..MaxBlocks : AnswerCode(n)) \/ BlockBegin
             \/ (\E res \in Results : BlockEnd(res)) \/ ApiTimeout \/ Inject \/ (pc = "idle" /\ Restart)
             \/ Begin \/ IterBegin \/ Feedback \/ Stop
    <2>1. rows' = rows \/ AddRow("inject", 0) \/ AddRow("ask", 0)
      BY <1>2 DEF CallFails, BackoffOver, AnswerCode, BlockBegin, BlockEnd, ApiTimeout, Inject, Restart, Begin,
                  IterBegin, Feedback, Stop, store, CtxWrite
    <2>2. Answers(t)' = Answers(t)
      BY <2>1, AnswersStay DEF Kinds
    <2>3. outcome' = outcome /\ (t \in stopped => t \in stopped')
      BY <1>2 DEF CallFails, BackoffOver, AnswerCode, BlockBegin, BlockEnd, ApiTimeout, Inject, Restart, Begin,
                  IterBegin, Feedback, Stop
    <2> QED
      BY <2>2, <2>3, FitStays
  <1>3. CASE BeginRefused \/ CallGivesUp \/ (pc # "idle" /\ Restart)
    <2>1. pc # "idle" /\ (rows' = rows \/ AddRow("ask", 0))
      BY <1>3 DEF BeginRefused, CallGivesUp, Restart, store, CtxWrite
    <2>2. Answers(t)' = 0
      BY <2>1, <1>1, AnswersStay DEF Kinds
    <2>3. outcome'[t] \in {"refused", "error", "crashed"}
      BY <1>0, <1>3 DEF BeginRefused, CallGivesUp, Restart, Return
    <2> QED
      BY <2>2, <2>3 DEF AnswersFit
  <1>4. CASE IterStopped \/ CallStopped \/ BlockStopped \/ FeedbackStopped
    <2>1. pc # "idle" /\ HandleStop
      BY <1>4 DEF IterStopped, CallStopped, BlockStopped, FeedbackStopped
    <2>2. AddRow("stopped", total) /\ outcome'[t] = "stopped"
      BY <1>0, <2>1 DEF HandleStop, Return
    <2>3. Answers(t)' = 1
      BY <1>0, <1>1, <2>1, <2>2, AnswersOfRow DEF Kinds
    <2> QED
      BY <2>2, <2>3 DEF AnswersFit
  <1>5. CASE MaxIterations \/ AnswerTurn
    <2>1. pc # "idle" /\ outcome'[t] \in {"maxiter", "answer"} /\ stopped' = stopped
      BY <1>0, <1>5 DEF MaxIterations, AnswerTurn, Return
    <2>2. AddRow("maxiter", total) \/ AddRow("answer", 1) \/ (rows' = rows /\ t \in stopped)
      BY <1>5 DEF MaxIterations, AnswerTurn, CtxWrite, Stopped
    <2>3. CASE AddRow("maxiter", total) \/ AddRow("answer", 1)
      <3>1. Answers(t)' = 1
        BY <1>0, <1>1, <2>1, <2>3, AnswersOfRow DEF Kinds
      <3> QED
        BY <2>1, <3>1 DEF AnswersFit
    <2>4. CASE rows' = rows /\ t \in stopped
      <3>1. Answers(t)' = 0
        BY <1>1, <2>1, <2>4, AnswersStay
      <3> QED
        BY <2>1, <2>4, <3>1 DEF AnswersFit
    <2> QED
      BY <2>2, <2>3, <2>4
  <1> QED
    BY <1>2, <1>3, <1>4, <1>5 DEF SendStep

\* Every step keeps that the answers of each turn agree with how it ended.
LEMMA AnswerStep == LoopInv /\ TurnInv /\ AnswerInv /\ [Next]_vars => AnswerInv'
  <1> SUFFICES ASSUME LoopInv, TurnInv, TurnInv', AnswerInv, [Next]_vars, NEW t \in Turns, AnswersFit(t)
               PROVE  AnswersFit(t)'
    BY TurnStep DEF AnswerInv
  <1>1. CASE StartTurn \/ UNCHANGED vars
    <2>1. outcome' = outcome /\ stopped' = stopped /\ rows' = rows
      BY <1>1 DEF StartTurn, vars, store
    <2>2. Answers(t)' = Answers(t)
      BY <2>1 DEF Answers, Count
    <2> QED
      BY <2>1, <2>2, FitStays
  <1>2. CASE SendStep \/ ApiTimeout \/ Stop \/ Inject \/ Restart
    <2>1. CASE t = turn
      BY <1>2, <2>1, CurrentFits
    <2>2. CASE t # turn
      <3>1. /\ UNCHANGED turn /\ (t \in stopped' <=> t \in stopped) /\ outcome'[t] = outcome[t]
            /\ rows' = rows \/ \E kind \in Kinds : \E tokens \in Nat : AddRow(kind, tokens)
        BY <1>2, <2>2, OthersStay
      <3>2. Answers(t)' = Answers(t)
        <4>1. CASE rows' = rows
          BY <4>1 DEF Answers, Count
        <4> QED
          BY <2>2, <3>1, <4>1, AnswersOfRow
      <3> QED
        BY <3>1, <3>2, FitStays
    <2> QED
      BY <2>1, <2>2
  <1> QED
    BY <1>1, <1>2 DEF Next

\* persistMessage, handleStop: a turn never leaves two assistant messages in the chat,
\* nor one while it works or after an error; it leaves one when it answers, exhausts its
\* iterations without being stopped, or is stopped.
THEOREM TurnsAnswerOnce == Spec => []OneAnswerPerTurn
  <1>1. Init => TurnInv /\ AnswerInv
    <2> SUFFICES ASSUME Init PROVE TurnInv /\ AnswerInv
      OBVIOUS
    <2>1. \A t \in Turns : t \in Nat /\ t > 0 /\ outcome[t] = "none"
      BY MaxTurnsAssumption DEF Init, Turns
    <2>2. TurnInv
      BY <2>1 DEF TurnInv, Init
    <2>3. \A t \in Turns : Answers(t) = Cardinality({k \in DOMAIN rows : IsAnswer(rows[k], t)})
      BY DEF Answers, Count
    <2>4. DOMAIN rows = {}
      BY DEF Init
    <2>5. \A t \in Turns : Answers(t) = 0
      BY <2>3, <2>4, FS_EmptySet
    <2> QED
      BY <2>1, <2>2, <2>5 DEF AnswerInv, AnswersFit
  <1>2. AnswerInv => OneAnswerPerTurn
    BY DEF AnswerInv, AnswersFit, OneAnswerPerTurn
  <1> QED
    BY <1>1, <1>2, LoopInit, LoopStep, TurnStep, AnswerStep, PTL DEF Spec

-----------------------------------------------------------------------------

\* Messages and rows are of turns up to the current one; when a turn begins, it has none.
ChatInv ==
    /\ \A k \in DOMAIN messages : messages[k].turn <= turn
    /\ pc = "begin" => \A k \in DOMAIN messages : messages[k].turn < turn
    /\ \A k \in DOMAIN rows : rows[k].turn <= turn

\* An appended sequence has one element more.
LEMMA AppendedIs ==
    ASSUME NEW M, NEW s \in Seq(M), NEW e
    PROVE  /\ Len(s) \in Nat /\ DOMAIN s = 1..Len(s) /\ DOMAIN Append(s, e) = 1..(Len(s) + 1)
           /\ Append(s, e)[Len(s) + 1] = e /\ \A k \in 1..Len(s) : Append(s, e)[k] = s[k]
           /\ \A k \in 1..(Len(s) + 1) : k \in 1..Len(s) \/ k = Len(s) + 1
  OBVIOUS

\* Messages of a step of the turn: those that were there and those of this turn.
LEMMA ChatMessages ==
    ASSUME LoopInv, ChatInv, SendStep
    PROVE  messages' \in Seq({messages[l] : l \in DOMAIN messages} \cup {m \in Message : m.turn = turn})
  <1> DEFINE A == {messages[l] : l \in DOMAIN messages}
             B == {m \in Message : m.turn = turn}
  <1>14. messages \in Seq(A)
    BY DEF LoopInv, TypeOK
  <1>1. pc # "idle" /\ iter \in 0..MaxIter /\ turn \in 0..MaxTurns
    BY DEF LoopInv, TypeOK, SendStep, BeginRefused, Begin, IterStopped, IterBegin, MaxIterations,
           CallStopped, CallFails, CallGivesUp, BackoffOver, AnswerTurn, AnswerCode, BlockStopped, BlockBegin, BlockEnd,
           FeedbackStopped, Feedback
  <1>2. \A kind \in Kinds : \A i \in 0..MaxIter : Msg(kind, i) \in B
    <2> TAKE kind \in Kinds
    <2> TAKE i \in 0..MaxIter
    <2>1. Msg(kind, i) \in Message
      BY <1>1, MsgType
    <2>2. Msg(kind, i).turn = turn
      BY DEF Msg
    <2> QED
      BY <2>1, <2>2
  <1>3. messages \in Seq(A \cup B)
    <2>1. messages \in [1..Len(messages) -> A] /\ Len(messages) \in Nat
      BY <1>14
    <2> HIDE DEF A, B
    <2>2. messages \in [1..Len(messages) -> A \cup B]
      BY <2>1
    <2> QED
      BY <2>1, <2>2
  <1> HIDE DEF A, B
  <1>4. 0 \in 0..MaxIter
    BY MaxIterAssumption
  <1>5. \A m \in B : Append(messages, m) \in Seq(A \cup B)
    BY <1>3
  <1>6. \A ms : ms \in Seq(A \cup B) => Compact(ms) \in Seq(A \cup B)
    BY CompactType
  <1>7. CASE BeginRefused \/ Begin
    <2>1. messages' = Append(messages, Msg("ask", 0)) /\ Msg("ask", 0) \in B
      BY <1>2, <1>4, <1>7 DEF BeginRefused, Begin, Kinds
    <2> QED
      BY <1>5, <2>1 DEF A, B
  <1>8. CASE IterStopped \/ CallStopped \/ BlockStopped \/ FeedbackStopped \/ MaxIterations
    <2>1. messages' = Compact(messages)
      BY <1>8 DEF IterStopped, CallStopped, BlockStopped, FeedbackStopped, HandleStop, MaxIterations
    <2> QED
      BY <1>3, <1>6, <2>1 DEF A, B
  <1>9. CASE CallFails \/ CallGivesUp \/ BackoffOver \/ BlockBegin \/ \E res \in Results : BlockEnd(res)
    <2>1. messages' = messages
      BY <1>9 DEF CallFails, CallGivesUp, BackoffOver, BlockBegin, BlockEnd
    <2> QED
      BY <1>3, <2>1 DEF A, B
  <1>10. CASE AnswerTurn
    <2>1. messages' = Compact(Append(messages, Msg("answer", iter))) /\ Msg("answer", iter) \in B
      BY <1>1, <1>2, <1>10 DEF AnswerTurn, Kinds
    <2> QED
      BY <1>5, <1>6, <2>1 DEF A, B
  <1>11. CASE \E n \in 1..MaxBlocks : AnswerCode(n)
    <2>1. messages' = Append(messages, Msg("code", iter)) /\ Msg("code", iter) \in B
      BY <1>1, <1>2, <1>11 DEF AnswerCode, Kinds
    <2> QED
      BY <1>5, <2>1 DEF A, B
  <1>12. CASE Feedback
    <2>1. PICK fb : fb = [Msg("results", iter) EXCEPT !.log = LogShown, !.hint = Hint]
      OBVIOUS
    <2>2. messages' = Append(messages, fb)
      BY <1>12, <2>1 DEF Feedback
    <2>3. fb \in B
      <3>1. fb.turn = turn
        BY <2>1 DEF Msg
      <3>2. LogShown \in Nat /\ Hint \in Hints
        <4>1. Len(ledger) \in Nat
          BY DEF LoopInv, TypeOK
        <4>2. LogShown \in Nat
          BY <4>1 DEF LogShown
        <4>3. Hint \in Hints
          BY <1>1, MaxIterAssumption DEF Hint, Hints
        <4> QED
          BY <4>2, <4>3
      <3>3. Msg("results", iter) \in Message
        BY <1>1, MsgType DEF Kinds
      <3>4. fb \in Message
        BY <2>1, <3>2, <3>3 DEF Message
      <3> QED
        BY <3>1, <3>4 DEF B
    <2> QED
      BY <1>5, <2>2, <2>3 DEF A, B
  <1>13. CASE IterBegin
    <2>1. PICK d : d = [k \in 1..pending |-> Msg("inject", iter)]
      OBVIOUS
    <2>2. messages' = messages \o d
      BY <1>13, <2>1 DEF IterBegin
    <2>3. Msg("inject", iter) \in B /\ pending \in Nat
      BY <1>1, <1>2 DEF Kinds, LoopInv, TypeOK
    <2>4. d \in Seq(A \cup B)
      <3>1. \A k \in 1..pending : d[k] \in A \cup B
        BY <2>1, <2>3
      <3>2. d = [k \in 1..pending |-> d[k]]
        BY <2>1
      <3> QED
        BY <2>3, <3>1, <3>2
    <2>5. messages \o d \in Seq(A \cup B)
      BY <1>3, <2>4
    <2> QED
      BY <2>2, <2>5 DEF A, B
  <1> QED
    BY <1>7, <1>8, <1>9, <1>10, <1>11, <1>12, <1>13 DEF SendStep

\* Every step keeps that messages and rows are of turns up to the current one.
LEMMA ChatStep == LoopInv /\ ChatInv /\ [Next]_vars => ChatInv'
  <1> SUFFICES ASSUME LoopInv, LoopInv', ChatInv, [Next]_vars PROVE ChatInv'
    BY LoopStep
  <1>0. turn \in Nat /\ rows \in Seq(Row) /\ messages \in Seq(Message) /\ total \in Nat
    BY MaxTurnsAssumption DEF LoopInv, TypeOK
  <1>1. \A k \in DOMAIN rows : rows[k].turn \in Nat
    <2>1. \A k \in DOMAIN rows : rows[k] \in Row
      BY <1>0
    <2> QED
      BY <2>1, MaxTurnsAssumption DEF Row, Turns
  <1>2. \A k \in DOMAIN messages : messages[k].turn \in Nat
    <2>1. \A k \in DOMAIN messages : messages[k] \in Message
      BY <1>0
    <2> QED
      BY <2>1, MaxTurnsAssumption DEF Message
  <1>3. CASE StartTurn
    <2>1. turn' = turn + 1 /\ messages' = messages /\ rows' = rows
      BY <1>3 DEF StartTurn, store
    <2>2. \A k \in DOMAIN messages' : messages'[k].turn < turn'
      BY <1>0, <1>2, <2>1 DEF ChatInv
    <2>3. \A k \in DOMAIN messages' : messages'[k].turn <= turn'
      BY <1>0, <1>2, <2>1 DEF ChatInv
    <2>4. \A k \in DOMAIN rows' : rows'[k].turn <= turn'
      BY <1>0, <1>1, <2>1 DEF ChatInv
    <2> QED
      BY <2>2, <2>3, <2>4 DEF ChatInv
  <1>4. CASE UNCHANGED vars
    BY <1>4 DEF vars, ChatInv
  <1>5. CASE SendStep \/ ApiTimeout \/ Stop \/ Inject \/ Restart
    <2>1. turn' = turn
      BY <1>5 DEF SendStep, ApiTimeout, Stop, Inject, Restart, BeginRefused, Begin, IterStopped, IterBegin,
             MaxIterations, CallStopped, CallFails, CallGivesUp, BackoffOver, AnswerTurn, AnswerCode, BlockStopped,
             BlockBegin, BlockEnd, FeedbackStopped, Feedback
    <2>2. rows' = rows \/ \E kind \in Kinds : \E tokens \in Nat : AddRow(kind, tokens)
      <3>2. \/ rows' = rows \/ AddRow("ask", 0) \/ AddRow("inject", 0) \/ AddRow("answer", 1)
            \/ AddRow("stopped", total) \/ AddRow("maxiter", total)
        BY <1>5 DEF SendStep, ApiTimeout, Stop, Inject, Restart, BeginRefused, Begin, IterStopped, IterBegin,
            MaxIterations, CallStopped, CallFails, CallGivesUp, BackoffOver, AnswerTurn, AnswerCode, BlockStopped,
            BlockBegin, BlockEnd, FeedbackStopped, Feedback, HandleStop, CtxWrite, store
      <3> QED
        BY <1>0, <3>2 DEF Kinds
    <2>3. \A k \in DOMAIN rows' : rows'[k].turn <= turn'
      <3>1. CASE rows' = rows
        BY <2>1, <3>1 DEF ChatInv
      <3>2. ASSUME NEW kind \in Kinds, NEW tokens \in Nat, AddRow(kind, tokens)
            PROVE  \A k \in DOMAIN rows' : rows'[k].turn <= turn'
        <4>1. PICK r : r = [kind |-> kind, turn |-> turn, tokens |-> tokens]
          OBVIOUS
        <4>2. rows' = Append(rows, r) /\ r.turn <= turn
          BY <1>0, <3>2, <4>1 DEF AddRow
        <4>3. /\ DOMAIN rows = 1..Len(rows) /\ DOMAIN rows' = 1..(Len(rows) + 1)
              /\ rows'[Len(rows) + 1] = r /\ \A k \in 1..Len(rows) : rows'[k] = rows[k]
              /\ \A k \in 1..(Len(rows) + 1) : k \in 1..Len(rows) \/ k = Len(rows) + 1
          BY <1>0, <4>2, AppendedIs
        <4> QED
          BY <2>1, <4>2, <4>3 DEF ChatInv
      <3> QED
        BY <2>2, <3>1, <3>2
    <2>4. CASE SendStep
      <3>1. pc' # "begin"
        BY <2>4 DEF SendStep, BeginRefused, Begin, IterStopped, IterBegin, MaxIterations, CallStopped, CallFails,
            CallGivesUp, BackoffOver, AnswerTurn, AnswerCode, BlockStopped, BlockBegin, BlockEnd, FeedbackStopped,
            Feedback, HandleStop, Return
      <3>2. messages' \in Seq({messages[l] : l \in DOMAIN messages} \cup {m \in Message : m.turn = turn})
        BY <2>4, ChatMessages
      <3>3. \A m \in {messages[l] : l \in DOMAIN messages} \cup {m \in Message : m.turn = turn} : m.turn <= turn
        BY <1>0 DEF ChatInv
      <3>4. \A k \in DOMAIN messages' : messages'[k] \in {messages[l] : l \in DOMAIN messages} \cup {m \in Message : m.turn = turn}
        BY <3>2
      <3> QED
        BY <2>1, <2>3, <3>1, <3>3, <3>4 DEF ChatInv
    <2>5. CASE ApiTimeout \/ Stop \/ Inject
      <3>1. messages' = messages /\ pc' = pc
        BY <2>5 DEF ApiTimeout, Stop, Inject
      <3> QED
        BY <2>1, <2>3, <3>1 DEF ChatInv
    <2>6. CASE Restart
      <3>1. messages' = Loaded(rows) /\ pc' = "idle"
        BY <2>6 DEF Restart, Return
      <3>2. DOMAIN messages' = DOMAIN rows /\ \A k \in DOMAIN rows : messages'[k].turn = rows[k].turn
        BY <3>1 DEF Loaded
      <3> QED
        BY <2>1, <2>3, <3>1, <3>2 DEF ChatInv
    <2> QED
      BY <1>5, <2>4, <2>5, <2>6
  <1> QED
    BY <1>3, <1>4, <1>5 DEF Next

\* The view that a turn begins with: earlier messages without their noise, at most Window
\* of them, and then messages of this turn of which the last, alone, is its question.
LEMMA ViewBegins ==
    ASSUME LoopInv, Begin
    PROVE  \E p \in Nat : \E n \in Nat :
             /\ p <= Window /\ n > p /\ DOMAIN msgs' = 1..n
             /\ \A k \in 1..p : \E l \in DOMAIN messages : NotNoise(msgs'[k]) /\ msgs'[k] = messages[l]
             /\ \A k \in 1..n : k > p => msgs'[k].turn = turn /\ NotNoise(msgs'[k])
             /\ \A k \in 1..n : k > p => (msgs'[k].kind = "ask" <=> k = n)
  <1> DEFINE M == {messages[l] : l \in DOMAIN messages}
             P == Prior(messages)
             C == Context
             q == Msg("ask", 0)
  <1>1. messages \in Seq(M) /\ pc = "begin" /\ MaxIter \in Nat
    BY MaxIterAssumption DEF LoopInv, TypeOK, Begin
  <1>2. P \in Seq({m \in M : NotNoise(m)}) /\ Len(P) \in Nat /\ Len(P) <= Window
    BY <1>1, PriorIsShort
  <1>3. q.turn = turn /\ q.kind = "ask" /\ Msg("context", 0).turn = turn /\ Msg("context", 0).kind = "context"
    BY DEF Msg
  <1>4. C = <<>> \/ C = <<Msg("context", 0)>>
    BY DEF Context
  <1>5. msgs' = P \o C \o <<q>>
    BY DEF Begin
  <1> DEFINE c == Msg("context", 0)
  <1> HIDE DEF M, P, C, q, c
  <1>6. \A k \in 1..Len(P) : NotNoise(P[k]) /\ P[k] \in M
    BY <1>2
  <1>7. NotNoise(q) /\ NotNoise(c)
    BY <1>3 DEF NotNoise, IsNoise, c
  <1>8. CASE C = <<>>
    <2>1. P \o C = P
      BY <1>2, <1>8
    <2>2. msgs' = Append(P, q)
      BY <1>2, <1>5, <2>1
    <2>3. DOMAIN msgs' = 1..(Len(P) + 1) /\ msgs'[Len(P) + 1] = q /\ \A k \in 1..Len(P) : msgs'[k] = P[k]
      BY <1>2, <2>2
    <2>4. \A k \in 1..(Len(P) + 1) : k > Len(P) => k = Len(P) + 1
      BY <1>2
    <2>5. \A k \in 1..Len(P) : \E l \in DOMAIN messages : NotNoise(msgs'[k]) /\ msgs'[k] = messages[l]
      BY <1>6, <2>3 DEF M
    <2>6. Len(P) + 1 \in Nat /\ Len(P) + 1 > Len(P)
      BY <1>2
    <2> QED
      BY <1>2, <1>3, <1>7, <2>3, <2>4, <2>5, <2>6
  <1>9. CASE C = <<c>>
    <2>2. msgs' = Append(Append(P, c), q)
      BY <1>2, <1>5, <1>9
    <2>3. DOMAIN msgs' = 1..(Len(P) + 2) /\ msgs'[Len(P) + 1] = c /\ msgs'[Len(P) + 2] = q
          /\ \A k \in 1..Len(P) : msgs'[k] = P[k]
      BY <1>2, <2>2
    <2>4. \A k \in 1..(Len(P) + 2) : k > Len(P) => k = Len(P) + 1 \/ k = Len(P) + 2
      BY <1>2
    <2>5. \A k \in 1..Len(P) : \E l \in DOMAIN messages : NotNoise(msgs'[k]) /\ msgs'[k] = messages[l]
      BY <1>6, <2>3 DEF M
    <2>6. Len(P) + 2 \in Nat /\ Len(P) + 2 > Len(P) /\ Len(P) + 1 # Len(P) + 2
      BY <1>2
    <2>7. c.turn = turn /\ c.kind # "ask"
      BY <1>3 DEF c
    <2> QED
      BY <1>2, <1>3, <1>7, <2>3, <2>4, <2>5, <2>6, <2>7
  <1> QED
    BY <1>4, <1>8, <1>9 DEF c

\* The feedback and the code it is about come last, and of the results before them at
\* most the last are in full.
LEMMA ViewFedBack ==
    ASSUME LoopInv, LoopInv', Feedback
    PROVE  /\ Len(msgs) \in Nat /\ DOMAIN msgs = 1..Len(msgs) /\ DOMAIN msgs' = 1..(Len(msgs) + 2)
           /\ \A k \in 1..Len(msgs) : msgs'[k].kind = msgs[k].kind /\ msgs'[k].turn = msgs[k].turn
           /\ \A k \in 1..Len(msgs) : msgs'[k].kind = "results" /\ msgs'[k].full => k = LastOfKind(msgs, "results")
           /\ msgs'[Len(msgs) + 1].kind = "code" /\ msgs'[Len(msgs) + 1].turn = turn
           /\ msgs'[Len(msgs) + 2].kind = "results" /\ msgs'[Len(msgs) + 2].turn = turn
  <1> DEFINE fb == [Msg("results", iter) EXCEPT !.log = LogShown, !.hint = Hint]
             co == Msg("code", iter)
             old == CompactOlder(msgs)
  <1>1. msgs \in Seq(Message) /\ Len(msgs) \in Nat /\ DOMAIN msgs = 1..Len(msgs)
        /\ msgs' = old \o <<co, fb>>
    BY DEF Feedback, LoopInv, TypeOK
  <1>2. fb.kind = "results" /\ fb.turn = turn /\ co.kind = "code" /\ co.turn = turn
    BY DEF Msg
  <1>3. \A k \in 1..Len(msgs) : msgs[k] \in Message
    BY <1>1
  <1>4. \A k \in 1..Len(msgs) :
          /\ old[k].kind = msgs[k].kind /\ old[k].turn = msgs[k].turn
          /\ old[k].kind = "results" /\ old[k].full => k = LastOfKind(msgs, "results")
    <2> SUFFICES ASSUME NEW k \in 1..Len(msgs)
                 PROVE  /\ old[k].kind = msgs[k].kind /\ old[k].turn = msgs[k].turn
                        /\ old[k].kind = "results" /\ old[k].full => k = LastOfKind(msgs, "results")
      OBVIOUS
    <2>1. CASE msgs[k].kind \in {"code", "results"} /\ k # LastOfKind(msgs, msgs[k].kind)
      <3>1. old[k] = [msgs[k] EXCEPT !.full = FALSE, !.log = 0, !.hint = "none"]
        BY <1>1, <2>1, Zenon DEF CompactOlder
      <3>2. msgs[k] \in Message
        BY <1>3
      <3>3. old[k].kind = msgs[k].kind /\ old[k].turn = msgs[k].turn /\ old[k].full = FALSE
        BY <3>1, <3>2 DEF Message
      <3> QED
        BY <3>3
    <2>2. CASE ~(msgs[k].kind \in {"code", "results"} /\ k # LastOfKind(msgs, msgs[k].kind))
      <3>1. old[k] = msgs[k]
        BY <1>1, <2>2, Zenon DEF CompactOlder
      <3>2. msgs[k].kind = "results" => k = LastOfKind(msgs, msgs[k].kind)
        BY <2>2
      <3> HIDE DEF old
      <3> QED
        BY <3>1, <3>2
    <2> QED
      BY <2>1, <2>2
  <1>5. old = [k \in 1..Len(msgs) |-> old[k]]
    BY <1>1 DEF CompactOlder
  <1> HIDE DEF fb, co, old
  <1>6. old \in Seq({old[k] : k \in 1..Len(msgs)}) /\ Len(old) = Len(msgs)
    BY <1>1, <1>5
  <1>7. msgs' = Append(Append(old, co), fb)
    BY <1>1, <1>6
  <1> DEFINE a == Append(old, co)
             U == {old[k] : k \in 1..Len(msgs)} \cup {co, fb}
  <1>9. old \in Seq(U)
    BY <1>6
  <1>10. a \in Seq(U) /\ Len(a) = Len(msgs) + 1 /\ a[Len(msgs) + 1] = co /\ \A k \in 1..Len(msgs) : a[k] = old[k]
    BY <1>1, <1>6, <1>9
  <1> HIDE DEF a
  <1>11. \A k \in 1..Len(msgs) : k \in 1..Len(a)
    BY <1>1, <1>10
  <1>12. DOMAIN Append(a, fb) = 1..(Len(msgs) + 2) /\ Append(a, fb)[Len(msgs) + 2] = fb
        /\ Append(a, fb)[Len(msgs) + 1] = co
    BY <1>1, <1>10
  <1>13. \A k \in 1..Len(msgs) : Append(a, fb)[k] = a[k]
    BY <1>1, <1>10, <1>11
  <1>8. /\ DOMAIN msgs' = 1..(Len(msgs) + 2) /\ msgs'[Len(msgs) + 1] = co /\ msgs'[Len(msgs) + 2] = fb
        /\ \A k \in 1..Len(msgs) : msgs'[k] = old[k]
    BY <1>7, <1>10, <1>12, <1>13 DEF a
  <1> QED
    BY <1>1, <1>2, <1>4, <1>8

\* Messages of a kind in this turn; results in full; messages of other turns.
At(s, kind) == {k \in DOMAIN s : s[k].kind = kind /\ s[k].turn = turn}
InFull == {k \in DOMAIN msgs : msgs[k].kind = "results" /\ msgs[k].full}
OfEarlier == {k \in DOMAIN msgs : msgs[k].turn # turn}

\* The provider's view: empty outside a turn; at most two results in full, at most Window
\* clean messages of earlier turns, the question once and what was injected.
ViewInv ==
    /\ pc \in {"idle", "begin"} => msgs = <<>>
    /\ Cardinality(InFull) <= 2
    /\ Cardinality(OfEarlier) <= Window /\ \A k \in OfEarlier : NotNoise(msgs[k])
    /\ pc \notin {"idle", "begin"} =>
         /\ Cardinality(At(msgs, "ask")) = 1
         /\ Cardinality(At(msgs, "inject")) >= Cardinality(At(messages, "inject"))

\* Positions of a sequence that pass a test are finitely many.
LEMMA PositionsAreFinite ==
    ASSUME NEW n \in Nat, NEW S, S \subseteq 1..n
    PROVE  IsFiniteSet(S) /\ Cardinality(S) \in Nat
  <1>1. IsFiniteSet(1..n)
    BY FS_Interval
  <1> QED
    BY <1>1, FS_Subset, FS_CardinalityType

\* An empty view.
LEMMA ViewIsEmpty ==
    ASSUME pc' \in {"idle", "begin"}, msgs' = <<>>
    PROVE  ViewInv'
  <1>1. InFull' = {} /\ OfEarlier' = {}
    BY DEF InFull, OfEarlier
  <1>2. Cardinality({}) = 0
    BY FS_EmptySet
  <1> QED
    BY <1>1, <1>2, WindowAssumption DEF ViewInv

\* Steps that change neither the view nor the injected messages.
LEMMA ViewStays ==
    ASSUME ViewInv, UNCHANGED <<turn, msgs>>, At(messages, "inject")' = At(messages, "inject"),
           pc' \in {"idle", "begin"} <=> pc \in {"idle", "begin"}
    PROVE  ViewInv'
  <1>1. InFull' = InFull /\ OfEarlier' = OfEarlier
        /\ At(msgs, "ask")' = At(msgs, "ask") /\ At(msgs, "inject")' = At(msgs, "inject")
    BY DEF InFull, OfEarlier, At
  <1> QED
    BY <1>1 DEF ViewInv

\* Messages of another kind do not count.
LEMMA AppendedAt ==
    ASSUME LoopInv, UNCHANGED turn, NEW e, messages' = Append(messages, e), e.kind # "inject"
    PROVE  At(messages, "inject")' = At(messages, "inject")
  <1>1. messages \in Seq(Message)
    BY DEF LoopInv, TypeOK
  <1>2. /\ DOMAIN messages = 1..Len(messages) /\ DOMAIN messages' = 1..(Len(messages) + 1)
        /\ messages'[Len(messages) + 1] = e /\ \A k \in 1..Len(messages) : messages'[k] = messages[k]
        /\ \A k \in 1..(Len(messages) + 1) : k \in 1..Len(messages) \/ k = Len(messages) + 1
        /\ Len(messages) \in Nat
    BY <1>1, AppendedIs
  <1>3. \A k \in 1..Len(messages) : k \in 1..(Len(messages) + 1)
    BY <1>2
  <1>4. \A k : k \in At(messages, "inject")' <=> k \in At(messages, "inject")
    BY <1>2, <1>3 DEF At
  <1> QED
    BY <1>4 DEF At

\* The view a turn begins with.
LEMMA BeginView == ASSUME LoopInv, ChatInv, ViewInv, Begin PROVE ViewInv'
  <1>1. pc = "begin" /\ pc' = "iter" /\ turn' = turn /\ turn \in Nat /\ messages' = Append(messages, Msg("ask", 0))
        /\ messages \in Seq(Message)
    BY MaxTurnsAssumption DEF Begin, LoopInv, TypeOK
  <1>2. PICK p \in Nat : \E n \in Nat :
             /\ p <= Window /\ n > p /\ DOMAIN msgs' = 1..n
             /\ \A k \in 1..p : \E l \in DOMAIN messages : NotNoise(msgs'[k]) /\ msgs'[k] = messages[l]
             /\ \A k \in 1..n : k > p => msgs'[k].turn = turn /\ NotNoise(msgs'[k])
             /\ \A k \in 1..n : k > p => (msgs'[k].kind = "ask" <=> k = n)
    BY ViewBegins
  <1>3. PICK n \in Nat :
             /\ p <= Window /\ n > p /\ DOMAIN msgs' = 1..n
             /\ \A k \in 1..p : \E l \in DOMAIN messages : NotNoise(msgs'[k]) /\ msgs'[k] = messages[l]
             /\ \A k \in 1..n : k > p => msgs'[k].turn = turn /\ NotNoise(msgs'[k])
             /\ \A k \in 1..n : k > p => (msgs'[k].kind = "ask" <=> k = n)
    BY <1>2
  <1>4. \A l \in DOMAIN messages : messages[l].turn \in Nat /\ messages[l].turn < turn
    <2>1. \A l \in DOMAIN messages : messages[l] \in Message
      BY <1>1
    <2> QED
      BY <1>1, <2>1, MaxTurnsAssumption DEF ChatInv, Message
  <1>5. \A k \in 1..p : msgs'[k].turn # turn /\ NotNoise(msgs'[k])
    <2>1. \A l \in DOMAIN messages : messages[l].turn # turn
      BY <1>1, <1>4
    <2> QED
      BY <1>3, <2>1
  <1>6. \A k \in 1..n : k \in 1..p \/ k > p
    BY <1>3
  <1>7. \A k \in 1..n : NotNoise(msgs'[k])
    BY <1>3, <1>5, <1>6
  <1>8. InFull' = {}
    <2>1. \A k \in DOMAIN msgs' : msgs'[k].kind # "results"
      BY <1>3, <1>7 DEF NotNoise, IsNoise
    <2> QED
      BY <2>1 DEF InFull
  <1>9. OfEarlier' \subseteq 1..p /\ OfEarlier' \subseteq 1..n
    BY <1>1, <1>3, <1>6 DEF OfEarlier
  <1>10. Cardinality(OfEarlier') <= Window
    <2>1. IsFiniteSet(1..p) /\ Cardinality(1..p) = p
      BY FS_Interval
    <2>2. Cardinality(OfEarlier') <= p
      BY <1>9, <2>1, FS_Subset
    <2>3. Cardinality(OfEarlier') \in Nat
      BY <1>9, PositionsAreFinite
    <2> QED
      BY <1>3, <2>2, <2>3, WindowAssumption
  <1>11. At(msgs, "ask")' = {n}
    <2>1. n \in 1..n /\ n > p
      BY <1>3
    <2>2. \A k : k \in At(msgs, "ask")' <=> k = n
      BY <1>1, <1>3, <1>5, <1>6, <2>1 DEF At
    <2> QED
      BY <2>2 DEF At
  <1>12. At(messages, "inject")' = {}
    <2>1. Msg("ask", 0).kind # "inject"
      BY DEF Msg
    <2>2. At(messages, "inject")' = At(messages, "inject")
      BY <1>1, <2>1, AppendedAt
    <2>3. At(messages, "inject") = {}
      <3>1. \A l \in DOMAIN messages : messages[l].turn # turn
        BY <1>1, <1>4
      <3> QED
        BY <3>1 DEF At
    <2> QED
      BY <2>2, <2>3
  <1>13. Cardinality(At(msgs, "inject")') \in Nat
    <2>1. At(msgs, "inject")' \subseteq 1..n
      BY <1>3 DEF At
    <2> QED
      BY <2>1, PositionsAreFinite
  <1>14. Cardinality({}) = 0 /\ Cardinality({n}) = 1
    BY FS_EmptySet, FS_Singleton
  <1>15. \A k \in OfEarlier' : NotNoise(msgs'[k])
    BY <1>7, <1>9
  <1>16. /\ Cardinality(InFull') <= 2
         /\ Cardinality(At(msgs, "ask")') = 1
         /\ Cardinality(At(msgs, "inject")') >= Cardinality(At(messages, "inject")')
    BY <1>8, <1>11, <1>12, <1>13, <1>14
  <1> QED
    BY <1>1, <1>10, <1>15, <1>16 DEF ViewInv

\* Positions added after the others are counted.
LEMMA GrownBy ==
    ASSUME NEW len \in Nat, NEW n \in Nat, NEW S, NEW T, S \subseteq 1..len,
           \A k : k \in T <=> k \in S \/ k \in (len + 1)..(len + n)
    PROVE  Cardinality(S) \in Nat /\ Cardinality(T) = Cardinality(S) + n
  <1>1. IsFiniteSet(S) /\ Cardinality(S) \in Nat
    BY PositionsAreFinite
  <1> DEFINE U == (len + 1)..(len + n)
  <1>2. IsFiniteSet(U) /\ Cardinality(U) = n
    <2>1. IsFiniteSet(U) /\ Cardinality(U) = IF len + 1 > len + n THEN 0 ELSE (len + n) - (len + 1) + 1
      BY FS_Interval
    <2> HIDE DEF U
    <2> QED
      BY <2>1
  <1>3. S \cap U = {}
    OBVIOUS
  <1>4. T = S \cup U
    OBVIOUS
  <1> HIDE DEF U
  <1>5. Cardinality(S \cup U) = Cardinality(S) + Cardinality(U) - Cardinality({})
    BY <1>1, <1>2, <1>3, FS_Union
  <1> QED
    BY <1>1, <1>2, <1>4, <1>5, FS_EmptySet

\* What is injected joins the view as it joins the chat.
LEMMA InjectView == ASSUME LoopInv, ViewInv, IterBegin PROVE ViewInv'
  <1>1. pc = "iter" /\ pc' = "call" /\ turn' = turn /\ messages \in Seq(Message) /\ msgs \in Seq(Message)
    BY DEF IterBegin, LoopInv, TypeOK
  <1>2. PICK d : d = [k \in 1..pending |-> Msg("inject", iter)]
    OBVIOUS
  <1>3. messages' = messages \o d /\ msgs' = msgs \o d
    BY <1>2 DEF IterBegin, ViewWith
  <1>4. /\ Len(msgs) \in Nat /\ pending \in Nat /\ DOMAIN msgs' = 1..(Len(msgs) + pending) /\ DOMAIN msgs = 1..Len(msgs)
        /\ \A k \in 1..Len(msgs) : msgs'[k] = msgs[k]
        /\ \A k \in 1..(Len(msgs) + pending) : k > Len(msgs) => msgs'[k].kind = "inject" /\ msgs'[k].turn = turn
    <2>1. /\ Len(msgs) \in Nat /\ pending \in Nat /\ DOMAIN (msgs \o d) = 1..(Len(msgs) + pending)
          /\ \A k \in 1..Len(msgs) : (msgs \o d)[k] = msgs[k]
          /\ \A k \in 1..(Len(msgs) + pending) :
               k > Len(msgs) => (msgs \o d)[k].kind = "inject" /\ (msgs \o d)[k].turn = turn
      BY <1>1, <1>2, ViewInjected, SMTT(20)
    <2>2. DOMAIN msgs = 1..Len(msgs)
      BY <1>1
    <2> QED
      BY <1>3, <2>1, <2>2
  <1>5. /\ Len(messages) \in Nat /\ DOMAIN messages' = 1..(Len(messages) + pending)
        /\ DOMAIN messages = 1..Len(messages)
        /\ \A k \in 1..Len(messages) : messages'[k] = messages[k]
        /\ \A k \in 1..(Len(messages) + pending) :
             k > Len(messages) => messages'[k].kind = "inject" /\ messages'[k].turn = turn
    <2>1. /\ Len(messages) \in Nat /\ pending \in Nat /\ DOMAIN (messages \o d) = 1..(Len(messages) + pending)
          /\ \A k \in 1..Len(messages) : (messages \o d)[k] = messages[k]
          /\ \A k \in 1..(Len(messages) + pending) :
               k > Len(messages) => (messages \o d)[k].kind = "inject" /\ (messages \o d)[k].turn = turn
      BY <1>1, <1>2, ViewInjected, SMTT(20)
    <2>2. DOMAIN messages = 1..Len(messages)
      BY <1>1
    <2> QED
      BY <1>3, <2>1, <2>2
  <1>6. \A k \in 1..(Len(msgs) + pending) : k \in 1..Len(msgs) \/ k > Len(msgs)
    BY <1>4
  <1>7. \A k \in 1..Len(msgs) : k \in 1..(Len(msgs) + pending)
    BY <1>4
  <1>8. InFull' = InFull
    <2>1. \A k : k \in InFull' <=> k \in InFull
      BY <1>4, <1>6, <1>7 DEF InFull
    <2> QED
      BY <2>1 DEF InFull
  <1>9. OfEarlier' = OfEarlier /\ \A k \in OfEarlier' : NotNoise(msgs'[k])
    <2>1. \A k : k \in OfEarlier' <=> k \in OfEarlier
      BY <1>1, <1>4, <1>6, <1>7 DEF OfEarlier
    <2>2. \A k \in OfEarlier : msgs'[k] = msgs[k]
      BY <1>4 DEF OfEarlier
    <2>3. OfEarlier' = OfEarlier
      BY <2>1 DEF OfEarlier
    <2> QED
      BY <2>2, <2>3 DEF ViewInv
  <1>10. At(msgs, "ask")' = At(msgs, "ask")
    <2>1. \A k : k \in At(msgs, "ask")' <=> k \in At(msgs, "ask")
      BY <1>1, <1>4, <1>6, <1>7 DEF At
    <2> QED
      BY <2>1 DEF At
  <1>11. /\ Cardinality(At(msgs, "inject")) \in Nat
         /\ Cardinality(At(msgs, "inject")') = Cardinality(At(msgs, "inject")) + pending
    <2>1. \A k : k \in (Len(msgs) + 1)..(Len(msgs) + pending) <=> k \in 1..(Len(msgs) + pending) /\ k > Len(msgs)
      BY <1>4
    <2>2. \A k : k \in At(msgs, "inject")' <=> k \in At(msgs, "inject") \/ k \in (Len(msgs) + 1)..(Len(msgs) + pending)
      BY <1>1, <1>4, <1>6, <1>7, <2>1 DEF At
    <2>3. At(msgs, "inject") \subseteq 1..Len(msgs)
      BY <1>4 DEF At
    <2>4. PICK S : S = At(msgs, "inject")
      OBVIOUS
    <2>5. PICK T : T = At(msgs, "inject")'
      OBVIOUS
    <2>9. S \subseteq 1..Len(msgs) /\ Len(msgs) \in Nat /\ pending \in Nat
      BY <1>4, <2>3, <2>4
    <2>10. \A k : k \in T <=> k \in S \/ k \in (Len(msgs) + 1)..(Len(msgs) + pending)
      BY <2>2, <2>4, <2>5
    <2>6. Cardinality(S) \in Nat /\ Cardinality(T) = Cardinality(S) + pending
      BY <2>9, <2>10, GrownBy, Zenon
    <2> QED
      BY <2>4, <2>5, <2>6
  <1>12. /\ Cardinality(At(messages, "inject")) \in Nat
         /\ Cardinality(At(messages, "inject")') = Cardinality(At(messages, "inject")) + pending
    <2>1. \A k : k \in (Len(messages) + 1)..(Len(messages) + pending)
                   <=> k \in 1..(Len(messages) + pending) /\ k > Len(messages)
      BY <1>4, <1>5
    <2>7. \A k \in 1..(Len(messages) + pending) : k \in 1..Len(messages) \/ k > Len(messages)
      BY <1>4, <1>5
    <2>8. \A k \in 1..Len(messages) : k \in 1..(Len(messages) + pending)
      BY <1>4, <1>5
    <2>2. \A k : k \in At(messages, "inject")'
                   <=> k \in At(messages, "inject") \/ k \in (Len(messages) + 1)..(Len(messages) + pending)
      BY <1>1, <1>5, <2>1, <2>7, <2>8 DEF At
    <2>3. At(messages, "inject") \subseteq 1..Len(messages)
      BY <1>5 DEF At
    <2>4. PICK S : S = At(messages, "inject")
      OBVIOUS
    <2>5. PICK T : T = At(messages, "inject")'
      OBVIOUS
    <2>9. S \subseteq 1..Len(messages) /\ Len(messages) \in Nat /\ pending \in Nat
      BY <1>4, <1>5, <2>3, <2>4
    <2>10. \A k : k \in T <=> k \in S \/ k \in (Len(messages) + 1)..(Len(messages) + pending)
      BY <2>2, <2>4, <2>5
    <2>6. Cardinality(S) \in Nat /\ Cardinality(T) = Cardinality(S) + pending
      BY <2>9, <2>10, GrownBy, Zenon
    <2> QED
      BY <2>4, <2>5, <2>6
  <1>13. Cardinality(At(msgs, "inject")') >= Cardinality(At(messages, "inject")')
    BY <1>1, <1>4, <1>11, <1>12 DEF ViewInv
  <1> QED
    BY <1>1, <1>8, <1>9, <1>10, <1>13 DEF ViewInv

\* The feedback compacts the results before it but the last.
LEMMA FeedbackView == ASSUME LoopInv, LoopInv', ViewInv, Feedback PROVE ViewInv'
  <1>1. pc = "feedback" /\ pc' = "iter" /\ turn' = turn
    BY DEF Feedback
  <1>2. /\ Len(msgs) \in Nat /\ DOMAIN msgs = 1..Len(msgs) /\ DOMAIN msgs' = 1..(Len(msgs) + 2)
        /\ \A k \in 1..Len(msgs) : msgs'[k].kind = msgs[k].kind /\ msgs'[k].turn = msgs[k].turn
        /\ \A k \in 1..Len(msgs) : msgs'[k].kind = "results" /\ msgs'[k].full => k = LastOfKind(msgs, "results")
        /\ msgs'[Len(msgs) + 1].kind = "code" /\ msgs'[Len(msgs) + 1].turn = turn
        /\ msgs'[Len(msgs) + 2].kind = "results" /\ msgs'[Len(msgs) + 2].turn = turn
    BY ViewFedBack
  <1>3. /\ \A k \in 1..(Len(msgs) + 2) : k \in 1..Len(msgs) \/ k = Len(msgs) + 1 \/ k = Len(msgs) + 2
        /\ \A k \in 1..Len(msgs) : k \in 1..(Len(msgs) + 2)
    BY <1>2
  <1>4. Cardinality(InFull') <= 2
    <2>1. InFull' \subseteq {LastOfKind(msgs, "results"), Len(msgs) + 2}
      BY <1>2, <1>3 DEF InFull
    <2>2. PICK x : x = LastOfKind(msgs, "results")
      OBVIOUS
    <2>3. IsFiniteSet({x}) /\ Cardinality({x}) = 1
      BY FS_Singleton
    <2>4. IsFiniteSet({x} \cup {Len(msgs) + 2}) /\ Cardinality({x} \cup {Len(msgs) + 2}) <= 2
      BY <2>3, FS_AddElement
    <2>5. InFull' \subseteq {x} \cup {Len(msgs) + 2}
      BY <2>1, <2>2
    <2>6. PICK F : F = InFull'
      OBVIOUS
    <2>7. IsFiniteSet(F) /\ Cardinality(F) <= Cardinality({x} \cup {Len(msgs) + 2})
      BY <2>4, <2>5, <2>6, FS_Subset
    <2>8. Cardinality(F) \in Nat /\ Cardinality({x} \cup {Len(msgs) + 2}) \in Nat
      BY <2>4, <2>7, FS_CardinalityType
    <2>9. PICK m \in Nat : m = Cardinality({x} \cup {Len(msgs) + 2})
      BY <2>8
    <2>10. m <= 2 /\ Cardinality(F) <= m
      BY <2>4, <2>7, <2>9
    <2>11. Cardinality(F) <= 2
      BY <2>8, <2>10
    <2> QED
      BY <2>6, <2>11
  <1>5. OfEarlier' = OfEarlier /\ \A k \in OfEarlier' : NotNoise(msgs'[k])
    <2>1. \A k : k \in OfEarlier' <=> k \in OfEarlier
      BY <1>1, <1>2, <1>3 DEF OfEarlier
    <2>2. \A k \in OfEarlier : msgs'[k].kind = msgs[k].kind
      BY <1>2 DEF OfEarlier
    <2>3. OfEarlier' = OfEarlier
      BY <2>1 DEF OfEarlier
    <2> QED
      BY <2>2, <2>3 DEF ViewInv, NotNoise, IsNoise
  <1>6. \A kind \in {"ask", "inject"} : At(msgs, kind)' = At(msgs, kind)
    <2> TAKE kind \in {"ask", "inject"}
    <2>1. \A k : k \in At(msgs, kind)' <=> k \in At(msgs, kind)
      BY <1>1, <1>2, <1>3 DEF At
    <2> QED
      BY <2>1 DEF At
  <1>7. At(messages, "inject")' = At(messages, "inject")
    <2>1. PICK fb : fb = [Msg("results", iter) EXCEPT !.log = LogShown, !.hint = Hint]
      OBVIOUS
    <2>2. messages' = Append(messages, fb) /\ fb.kind = "results"
      BY <2>1 DEF Feedback, Msg
    <2> QED
      BY <1>1, <2>2, AppendedAt
  <1>8. At(msgs, "ask")' = At(msgs, "ask") /\ At(msgs, "inject")' = At(msgs, "inject")
    BY <1>6
  <1> QED
    BY <1>1, <1>4, <1>5, <1>7, <1>8 DEF ViewInv

\* Every step keeps what the view holds.
LEMMA ViewStep == LoopInv /\ ChatInv /\ ViewInv /\ [Next]_vars => ViewInv'
  <1> SUFFICES ASSUME LoopInv, LoopInv', ChatInv, ViewInv, [Next]_vars PROVE ViewInv'
    BY LoopStep
  <1>1. ASSUME UNCHANGED <<turn, msgs, messages>>, pc' \in {"idle", "begin"} <=> pc \in {"idle", "begin"}
        PROVE  ViewInv'
    <2>1. At(messages, "inject")' = At(messages, "inject")
      BY <1>1 DEF At
    <2> QED
      BY <1>1, <2>1, ViewStays
  <1>2. CASE UNCHANGED vars \/ ApiTimeout \/ Stop \/ Inject
    BY <1>1, <1>2 DEF vars, ApiTimeout, Stop, Inject
  <1>3. CASE CallFails \/ BackoffOver \/ BlockBegin
    BY <1>1, <1>3 DEF CallFails, BackoffOver, BlockBegin
  <1>4. ASSUME NEW res \in Results, BlockEnd(res) PROVE ViewInv'
    <2>1. UNCHANGED <<turn, msgs, messages>> /\ pc = "running" /\ pc' \in {"feedback", "blocks"}
      BY <1>4 DEF BlockEnd
    <2> QED
      BY <1>1, <2>1
  <1>5. CASE \/ BeginRefused \/ IterStopped \/ MaxIterations \/ CallStopped \/ CallGivesUp
             \/ AnswerTurn \/ BlockStopped \/ FeedbackStopped
    BY <1>5, ViewIsEmpty DEF BeginRefused, IterStopped, MaxIterations, CallStopped, CallGivesUp, AnswerTurn,
       BlockStopped, FeedbackStopped, HandleStop, Return
  <1>6. CASE StartTurn
    <2>1. msgs' = <<>> /\ pc' = "begin"
      BY <1>6 DEF StartTurn, ViewInv
    <2> QED
      BY <2>1, ViewIsEmpty
  <1>7. CASE Restart
    <2>1. msgs' = <<>> /\ pc' = "idle"
      BY <1>7 DEF Restart, Return, ViewInv
    <2> QED
      BY <2>1, ViewIsEmpty
  <1>8. ASSUME NEW n \in 1..MaxBlocks, AnswerCode(n) PROVE ViewInv'
    <2>1. UNCHANGED <<turn, msgs>> /\ pc = "call" /\ pc' = "blocks" /\ messages' = Append(messages, Msg("code", iter))
      BY <1>8 DEF AnswerCode
    <2>2. Msg("code", iter).kind # "inject"
      BY DEF Msg
    <2>3. At(messages, "inject")' = At(messages, "inject")
      BY <2>1, <2>2, AppendedAt
    <2> QED
      BY <2>1, <2>3, ViewStays
  <1> QED
    BY <1>2, <1>3, <1>4, <1>5, <1>6, <1>7, <1>8, BeginView, InjectView, FeedbackView DEF Next, SendStep

\* The chat and the view before the first turn.
LEMMA ViewInit == Init => ChatInv /\ ViewInv
  <1> SUFFICES ASSUME Init PROVE ChatInv /\ ViewInv
    OBVIOUS
  <1>1. DOMAIN messages = {} /\ DOMAIN rows = {} /\ DOMAIN msgs = {} /\ pc = "idle" /\ msgs = <<>>
    BY DEF Init
  <1>2. InFull = {} /\ OfEarlier = {}
    BY <1>1 DEF InFull, OfEarlier
  <1> QED
    BY <1>1, <1>2, FS_EmptySet, WindowAssumption DEF ChatInv, ViewInv

\* Send compacts the older iterations of its view, so that the view of a long turn does
\* not grow without bound: it never holds the results of more than two in full.
THEOREM ViewIsCompacted == Spec => []AtMostTwoInFull
  <1>1. ViewInv => AtMostTwoInFull
    BY DEF ViewInv, AtMostTwoInFull, Count, InFull
  <1> QED
    BY <1>1, LoopInit, LoopStep, ViewInit, ChatStep, ViewStep, PTL DEF Spec

\* priorClean: of earlier turns the provider sees at most Window messages, none of them
\* of their loops, whichever way those turns ended and however often the process restarted.
THEOREM EarlierTurnsAreClean == Spec => []PriorIsClean
  <1>1. ViewInv => PriorIsClean
    BY DEF ViewInv, PriorIsClean, OfEarlier
  <1> QED
    BY <1>1, LoopInit, LoopStep, ViewInit, ChatStep, ViewStep, PTL DEF Spec

\* Send: every call of the provider carries the turn's question once, and all that was
\* injected into the turn, however often the loop has compacted its view.
THEOREM QuestionIsInView == Spec => []QuestionInView
  <1>1. ViewInv => QuestionInView
    BY DEF ViewInv, QuestionInView, Count, At
  <1> QED
    BY <1>1, LoopInit, LoopStep, ViewInit, ChatStep, ViewStep, PTL DEF Spec
==============================================================================
