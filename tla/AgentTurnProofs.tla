--------------------------- MODULE AgentTurnProofs --------------------------
(***************************************************************************)
(* Proofs about AgentTurn for any number of turns, rounds and tool calls.  *)
(***************************************************************************)
EXTENDS AgentTurn, FiniteSetTheorems, TLAPS

USE BoundsAssumption, NoTurnAssumption

-----------------------------------------------------------------------------
(* Type correctness.                                                       *)

LEMMA TypeInit == Init => TypeOK
  <1> SUFFICES ASSUME Init PROVE TypeOK
    OBVIOUS
  <1>1. SharedOK
    BY DEF Init, SharedOK
  <1>2. LocalsOK
    BY DEF Init, LocalsOK, Kinds
  <1>3. ProgressOK
    BY DEF Init, ProgressOK, Steps
  <1> QED BY <1>1, <1>2, <1>3 DEF Init, TypeOK

\* What a message adds to the conversation keeps it one of messages.
LEMMA MessagesJoin ==
    ASSUME NEW t \in Turns, NEW r \in Nat, NEW n \in Nat
    PROVE  User(t) \in Messages /\ Assistant(t, r, n) \in Messages /\ Tool(t, r, n) \in Messages
  BY DEF User, Assistant, Tool, Messages

\* A message that joins the conversation leaves the shared state well typed.
LEMMA HistoryGrows ==
    ASSUME SharedOK, NEW m \in Messages, history' = Append(history, m),
           UNCHANGED <<status, lastError, toolsUsed>>
    PROVE  SharedOK'
  BY DEF SharedOK

LEMMA StartType == ASSUME TypeOK, NEW t \in Turns, Start(t) PROVE TypeOK'
  BY DEF TypeOK, SharedOK, LocalsOK, ProgressOK, Start, At, GoTo, FirstStep, Kinds, Steps

LEMMA StepType == ASSUME TypeOK, NEW t \in Turns, TurnStep(t) PROVE TypeOK'
  <1> USE DEF At, GoTo, shared, ghosts, TypeOK
  <1>1. SharedOK'
    <2>1. CASE Begin(t)
      <3>1. User(t) \in Messages
        BY MessagesJoin
      <3>2. toolsUsed' = <<>> /\ history' = Append(history, User(t)) /\ UNCHANGED <<status, lastError>>
        BY <2>1 DEF Begin
      <3> QED BY <3>1, <3>2 DEF SharedOK
    <2>2. CASE Answer(t)
      <3>1. UNCHANGED <<status, lastError, toolsUsed>>
        BY <2>2 DEF Answer
      <3>2. CASE history' = history
        BY <3>1, <3>2 DEF SharedOK
      <3>3. ASSUME NEW n \in 0..MaxCalls, history' = Append(history, Assistant(t, round[t], n))
            PROVE  SharedOK'
        <4>1. Assistant(t, round[t], n) \in Messages
          BY MessagesJoin DEF ProgressOK
        <4> QED BY <3>1, <3>3, <4>1, HistoryGrows
      <3>4. history' = history \/ \E n \in 0..MaxCalls : history' = Append(history, Assistant(t, round[t], n))
        BY <2>2 DEF Answer
      <3> QED BY <3>2, <3>3, <3>4
    <2>3. CASE Result(t)
      <3>1. Tool(t, round[t], call[t]) \in Messages
        BY MessagesJoin DEF ProgressOK
      <3>2. UNCHANGED <<status, lastError, toolsUsed>>
        BY <2>3 DEF Result
      <3>3. CASE history' = Append(history, Tool(t, round[t], call[t]))
        BY <3>1, <3>2, <3>3, HistoryGrows
      <3>4. CASE history' = history
        BY <3>2, <3>4 DEF SharedOK
      <3>5. history' = history \/ history' = Append(history, Tool(t, round[t], call[t]))
        BY <2>3 DEF Result
      <3> QED BY <3>3, <3>4, <3>5
    <2> USE DEF SharedOK
    <2>4. CASE Open(t) \/ ListTools(t) \/ CloseSession(t) \/ Report(t)
      <3>1. UNCHANGED shared
        BY <2>4 DEF Open, ListTools, CloseSession, Report
      <3> QED BY <3>1
    <2>5. CASE Call(t)
      <3>1. toolsUsed' = Append(toolsUsed, t) /\ UNCHANGED <<status, lastError, history>>
        BY <2>5 DEF Call
      <3> QED BY <3>1
    <2>6. CASE Except(t) \/ Finally(t)
      BY <2>6 DEF Except, Finally
    <2> QED BY <2>1, <2>2, <2>3, <2>4, <2>5, <2>6 DEF TurnStep
  <1>2. LocalsOK'
    <2> USE DEF LocalsOK, Failures
    <2>1. CASE Begin(t) \/ Open(t) \/ Call(t) \/ Except(t)
      BY <2>1 DEF Begin, Open, Call, Except
    <2>2. CASE ListTools(t) \/ CloseSession(t)
      BY <2>2 DEF ListTools, CloseSession, Fail
    <2>3. CASE Answer(t)
      BY <2>3 DEF Answer, Fail
    <2>4. CASE Result(t)
      BY <2>4 DEF Result, Fail, NextCall
    <2>5. CASE Report(t)
      BY <2>5 DEF Report, SharedOK
    <2>6. CASE Finally(t)
      BY <2>6 DEF Finally, Kinds
    <2> QED BY <2>1, <2>2, <2>3, <2>4, <2>5, <2>6 DEF TurnStep
  <1>3. ProgressOK'
    <2> USE DEF ProgressOK, Steps
    <2>1. CASE Begin(t) \/ Open(t) \/ Call(t) \/ Report(t) \/ Except(t)
      BY <2>1 DEF Begin, Open, Call, Report, Except
    <2>2. CASE ListTools(t) \/ CloseSession(t)
      BY <2>2 DEF ListTools, CloseSession, Fail
    <2>3. CASE Answer(t)
      <3>1. CASE UNCHANGED <<call, calls>> /\ pc'[t] \in {"except", "close"}
        BY <2>3, <3>1 DEF Answer, Fail
      <3>2. ASSUME NEW n \in 1..MaxCalls, GoTo(t, "call"),
                   call' = [call EXCEPT ![t] = 1], calls' = [calls EXCEPT ![t] = n]
            PROVE  ProgressOK'
        <4>1. n \in 0..MaxCalls /\ 1 \in 0..MaxCalls /\ 1 \in 1..n
          OBVIOUS
        <4>2. round' = round /\ round[t] < MaxIterations
          BY <2>3 DEF Answer
        <4> QED BY <3>2, <4>1, <4>2
      <3> QED BY <2>3, <3>1, <3>2 DEF Answer, Fail
    <2>4. CASE Result(t)
      <3>1. CASE Fail(t, "planeError") /\ UNCHANGED <<call, round>>
        BY <2>4, <3>1 DEF Result, Fail
      <3>2. CASE NextCall(t) /\ call[t] < calls[t]
        <4>1. call[t] + 1 \in 0..MaxCalls /\ call[t] + 1 \in 1..calls[t]
          BY <2>4, <3>2 DEF Result
        <4>2. /\ call' = [call EXCEPT ![t] = call[t] + 1] /\ UNCHANGED <<round, calls>>
              /\ pc' = [pc EXCEPT ![t] = "call"] /\ pc[t] = "result"
          BY <2>4, <3>2 DEF Result, NextCall
        <4> QED BY <4>1, <4>2
      <3>3. CASE NextCall(t) /\ ~(call[t] < calls[t])
        <4>1. round[t] + 1 \in 0..MaxIterations
          BY <2>4 DEF Result
        <4>2. /\ round' = [round EXCEPT ![t] = round[t] + 1] /\ UNCHANGED <<call, calls>>
              /\ pc[t] = "result"
              /\ \/ round[t] + 1 < MaxIterations /\ pc' = [pc EXCEPT ![t] = "ask"]
                 \/ pc' = [pc EXCEPT ![t] = "close"]
          BY <2>4, <3>3 DEF Result, NextCall
        <4> QED BY <4>1, <4>2
      <3> QED BY <2>4, <3>1, <3>2, <3>3 DEF Result
    <2>5. CASE Finally(t)
      BY <2>5 DEF Finally
    <2> QED BY <2>1, <2>2, <2>3, <2>4, <2>5 DEF TurnStep
  <1>4. (overlapped \in BOOLEAN /\ cut \in BOOLEAN)'
    BY DEF TurnStep, Begin, Open, ListTools, Answer, Call, Result, CloseSession, Report, Except,
       Finally
  <1> QED BY <1>1, <1>2, <1>3, <1>4

LEMMA TypeUnchanged == TypeOK /\ UNCHANGED vars => TypeOK'
  BY DEF TypeOK, SharedOK, LocalsOK, ProgressOK, vars, shared, ghosts

LEMMA TypeStep == TypeOK /\ [Next]_vars => TypeOK'
  BY StartType, StepType, TypeUnchanged DEF Next, Over

\* Every variable keeps its type; rounds stay below max_iterations and a turn is
\* at a call of its round, for any limit (respond).
THEOREM TypeCorrect == Spec => []TypeOK
  BY TypeInit, TypeStep, PTL DEF Spec

-----------------------------------------------------------------------------
(* The status of the agent.                                                *)

\* A turn has failed once it is at its except clause, and not before.
FailuresKnown ==
    \A t \in Turns : /\ pc[t] = "except" => outcome[t] \in Failures
                     /\ pc[t] \notin {"except", "finally"} => outcome[t] \notin Failures

\* The ghost is right: without overlap one turn at most is under way.
Alone ==
    ~overlapped => \A t, u \in Turns : UnderWay(t) /\ UnderWay(u) => t = u

\* Without overlap, the status is the one the turn under way has given it.
StatusKnown ==
    ~overlapped =>
        \A t \in Turns :
            /\ UnderWay(t) /\ pc[t] # "finally" => status = "processing"
            /\ pc[t] = "finally" => IF outcome[t] \in Failures
                                    THEN status = "error" /\ lastError = t
                                    ELSE status = "processing"

\* TypeOK, and the three facts that make the status properties inductive.
StatusInv == TypeOK /\ FailuresKnown /\ Alone /\ StatusKnown /\ StatusSettles

LEMMA StatusInvInit == Init => StatusInv
  BY TypeInit DEF Init, StatusInv, FailuresKnown, Failures, Alone, StatusKnown, StatusSettles, UnderWay

LEMMA FailuresStep == ASSUME TypeOK, FailuresKnown, [Next]_vars PROVE FailuresKnown'
  <1> USE DEF FailuresKnown, At, GoTo, TypeOK, LocalsOK, ProgressOK, Failures
  <1>1. ASSUME NEW t \in Turns, Start(t) PROVE FailuresKnown'
    BY <1>1 DEF Start, FirstStep
  <1>2. ASSUME NEW t \in Turns, TurnStep(t) PROVE FailuresKnown'
    <2>1. CASE Begin(t) \/ Open(t) \/ Call(t) \/ Report(t)
      BY <1>2, <2>1 DEF Begin, Open, Call, Report
    <2>2. CASE ListTools(t) \/ CloseSession(t)
      BY <1>2, <2>2 DEF ListTools, CloseSession, Fail
    <2>3. CASE Answer(t)
      BY <1>2, <2>3 DEF Answer, Fail
    <2>4. CASE Result(t)
      <3>1. CASE NextCall(t)
        <4>1. /\ \E place \in {"call", "ask", "close"} : pc' = [pc EXCEPT ![t] = place]
              /\ outcome' = outcome \/ outcome' = [outcome EXCEPT ![t] = "limit"]
              /\ pc[t] = "result"
          BY <2>4, <3>1 DEF Result, NextCall
        <4> QED BY <1>2, <4>1
      <3>2. CASE Fail(t, "planeError")
        BY <1>2, <2>4, <3>2 DEF Result, Fail
      <3> QED BY <2>4, <3>1, <3>2 DEF Result
    <2>5. CASE Except(t) \/ Finally(t)
      BY <1>2, <2>5 DEF Except, Finally
    <2> QED BY <1>2, <2>1, <2>2, <2>3, <2>4, <2>5 DEF TurnStep
  <1>3. CASE UNCHANGED vars
    BY <1>3 DEF vars
  <1> QED BY <1>1, <1>2, <1>3 DEF Next, Over

\* What a step of a turn under way does to who is under way.
LEMMA StepStaysUnderWay ==
    ASSUME TypeOK, NEW t \in Turns, TurnStep(t)
    PROVE  /\ UnderWay(t)
           /\ \A u \in Turns \ {t} : pc'[u] = pc[u] /\ outcome'[u] = outcome[u]
           /\ Finally(t) \/ UnderWay(t)'
           /\ overlapped' = overlapped
  <1> USE DEF At, GoTo, TypeOK, LocalsOK, ProgressOK, UnderWay, ghosts
  <1>1. CASE Begin(t) \/ Open(t) \/ Call(t) \/ Report(t) \/ Except(t)
    BY <1>1 DEF Begin, Open, Call, Report, Except
  <1>2. CASE ListTools(t) \/ CloseSession(t)
    BY <1>2 DEF ListTools, CloseSession, Fail
  <1>3. CASE Answer(t)
    BY <1>3 DEF Answer, Fail
  <1>4. CASE Result(t)
    BY <1>4 DEF Result, Fail, NextCall
  <1>5. CASE Finally(t)
    BY <1>5 DEF Finally
  <1> QED BY <1>1, <1>2, <1>3, <1>4, <1>5 DEF TurnStep

LEMMA StartGoesUnderWay ==
    ASSUME TypeOK, NEW t \in Turns, Start(t)
    PROVE  /\ ~UnderWay(t) /\ UnderWay(t)' /\ pc'[t] \notin {"except", "finally"}
           /\ status' = "processing"
           /\ \A u \in Turns \ {t} : pc'[u] = pc[u]
           /\ ~overlapped' => ~overlapped /\ \A u \in Turns \ {t} : ~UnderWay(u)
  BY DEF Start, FirstStep, At, GoTo, TypeOK, LocalsOK, ProgressOK, UnderWay

LEMMA AloneStep == ASSUME TypeOK, Alone, [Next]_vars PROVE Alone'
  <1>1. ASSUME NEW t \in Turns, Start(t) PROVE Alone'
    BY <1>1, StartGoesUnderWay DEF Alone, UnderWay
  <1>2. ASSUME NEW t \in Turns, TurnStep(t) PROVE Alone'
    BY <1>2, StepStaysUnderWay DEF Alone, UnderWay
  <1>3. CASE UNCHANGED vars
    BY <1>3 DEF vars, ghosts, Alone, UnderWay
  <1> QED BY <1>1, <1>2, <1>3 DEF Next, Over

\* The steps that leave the status alone.
LEMMA StatusUntouched ==
    ASSUME NEW t \in Turns, TurnStep(t), ~Except(t), ~Finally(t)
    PROVE  UNCHANGED <<status, lastError>> /\ pc[t] # "finally"
  BY DEF TurnStep, Begin, Open, ListTools, Answer, Call, Result, CloseSession, Report, shared, At

LEMMA StatusKnownStep ==
    ASSUME TypeOK, FailuresKnown, Alone, StatusKnown, [Next]_vars
    PROVE  StatusKnown'
  <1>1. ASSUME NEW t \in Turns, Start(t) PROVE StatusKnown'
    BY <1>1, StartGoesUnderWay DEF StatusKnown, UnderWay
  <1>2. ASSUME NEW t \in Turns, TurnStep(t) PROVE StatusKnown'
    <2> SUFFICES ASSUME ~overlapped PROVE StatusKnown'
      BY <1>2, StepStaysUnderWay DEF StatusKnown
    <2>1. \A u \in Turns \ {t} : ~UnderWay(u)'
      BY <1>2, StepStaysUnderWay DEF Alone, UnderWay
    <2>2. CASE Except(t)
      BY <2>1, <2>2 DEF Except, At, GoTo, StatusKnown, FailuresKnown, UnderWay, TypeOK, ProgressOK
    <2>3. CASE Finally(t)
      BY <2>1, <2>3 DEF Finally, At, GoTo, StatusKnown, UnderWay, TypeOK, ProgressOK
    <2>4. CASE ~Except(t) /\ ~Finally(t)
      <3>1. status = "processing" /\ status' = "processing"
        BY <1>2, <2>4, StatusUntouched, StepStaysUnderWay DEF StatusKnown
      <3>2. pc'[t] = "finally" => outcome'[t] \notin Failures
        <4>1. CASE Report(t)
          BY <4>1 DEF Report, At, GoTo, FailuresKnown, TypeOK, ProgressOK
        <4>2. CASE ~Report(t)
          <5>1. pc'[t] # "finally"
            BY <1>2, <2>4, <4>2 DEF TurnStep, Begin, Open, ListTools, Answer, Call, Result,
               CloseSession, Fail, NextCall, At, GoTo, TypeOK, ProgressOK
          <5> QED BY <5>1
        <4> QED BY <4>1, <4>2
      <3> QED BY <2>1, <3>1, <3>2 DEF StatusKnown, UnderWay
    <2> QED BY <2>2, <2>3, <2>4
  <1>3. CASE UNCHANGED vars
    BY <1>3 DEF vars, shared, ghosts, StatusKnown, UnderWay
  <1> QED BY <1>1, <1>2, <1>3 DEF Next, Over

LEMMA SettlesStep == ASSUME TypeOK, StatusSettles, [Next]_vars PROVE StatusSettles'
  <1>1. ASSUME NEW t \in Turns, Start(t) PROVE StatusSettles'
    BY <1>1, StartGoesUnderWay DEF StatusSettles
  <1>2. ASSUME NEW t \in Turns, TurnStep(t) PROVE StatusSettles'
    <2>1. CASE Finally(t)
      BY <2>1 DEF Finally, StatusSettles
    <2>2. CASE ~Finally(t)
      BY <1>2, <2>2, StepStaysUnderWay DEF StatusSettles
    <2> QED BY <2>1, <2>2
  <1>3. CASE UNCHANGED vars
    BY <1>3 DEF vars, shared, StatusSettles, UnderWay
  <1> QED BY <1>1, <1>2, <1>3 DEF Next, Over

LEMMA StatusInvStep == StatusInv /\ [Next]_vars => StatusInv'
  BY TypeStep, FailuresStep, AloneStep, StatusKnownStep, SettlesStep DEF StatusInv

\* An agent none of whose turns is under way does not look busy, however its
\* turns overlapped and failed (send_message).
THEOREM StatusSettlement == Spec => []StatusSettles
  <1>1. StatusInv => StatusSettles
    BY DEF StatusInv
  <1> QED BY StatusInvInit, StatusInvStep, <1>1, PTL DEF Spec

\* Turns that do not overlap show their progress, their failure with its cause,
\* or the end of their work, as status and last_error (send_message).
THEOREM StatusTruth == Spec => StatusTruthful
  <1> DEFINE Truthful ==
        \A t \in Turns :
          ~overlapped' /\ UnderWay(t) =>
              /\ pc[t] # "finally" => status = "processing"
              /\ pc'[t] = "done" =>
                    IF outcome[t] \in Failures
                    THEN status' = "error" /\ lastError' = t
                    ELSE status' = "idle"
  <1>1. StatusInv /\ [Next]_vars => [Truthful]_vars
    <2> SUFFICES ASSUME StatusInv, Next, NEW t \in Turns, ~overlapped', UnderWay(t)
                 PROVE  /\ pc[t] # "finally" => status = "processing"
                        /\ pc'[t] = "done" =>
                              IF outcome[t] \in Failures
                              THEN status' = "error" /\ lastError' = t
                              ELSE status' = "idle"
      OBVIOUS
    <2>1. ~overlapped
      BY StartGoesUnderWay, StepStaysUnderWay DEF StatusInv, Next, Over, vars, ghosts
    <2>2. pc[t] # "finally" => status = "processing"
      BY <2>1 DEF StatusInv, StatusKnown
    <2>3. ASSUME pc'[t] = "done" PROVE Finally(t)
      <3>1. PICK u \in Turns : Start(u) \/ TurnStep(u)
        BY <2>3 DEF Next, Over, vars, UnderWay
      <3>2. u = t
        BY <2>3, <3>1, StartGoesUnderWay, StepStaysUnderWay DEF UnderWay, StatusInv
      <3> QED BY <2>3, <3>1, <3>2, StartGoesUnderWay, StepStaysUnderWay DEF UnderWay, StatusInv
    <2>4. ASSUME pc'[t] = "done"
          PROVE  IF outcome[t] \in Failures
                 THEN status' = "error" /\ lastError' = t ELSE status' = "idle"
      BY <2>1, <2>3, <2>4 DEF StatusInv, StatusKnown, Finally, At
    <2> QED BY <2>2, <2>4
  <1>2. Spec => [][Truthful]_vars
    BY StatusInvInit, StatusInvStep, <1>1, PTL DEF Spec
  <1> QED BY <1>2 DEF StatusTruthful

-----------------------------------------------------------------------------
(* The conversation.                                                       *)

\* A turn that has not begun has said nothing yet.
Unheard ==
    \A t \in Turns : pc[t] \in {"new", "begin"} =>
        \A i \in 1..Len(history) : history[i].turn # t

\* The calls listed are those of turn t, n of them.
ListsOnly(list, t, n) == Len(list) = n /\ \A i \in 1..Len(list) : list[i] = t

\* A goal lists a call before it is made: between the two the list is one ahead
\* of the conversation.
ToolsInv ==
    ~overlapped =>
        \A t \in Turns : kind[t] = "goal" =>
            /\ pc[t] \in {"open", "list", "ask", "call", "close", "report"}
                   => ListsOnly(toolsUsed, t, Cardinality(OwnCalls(t)))
            /\ pc[t] = "result" => ListsOnly(toolsUsed, t, Cardinality(OwnCalls(t)) + 1)
            /\ pc[t] = "finally" /\ outcome[t] \notin Failures
                   => ListsOnly(reported[t], t, Cardinality(OwnCalls(t)))

\* What Paired says of one message.
PairedAt(h, i) ==
    /\ h[i].role = "assistant" =>
           \A k \in 1..h[i].calls :
               i + k <= Len(h) /\ h[i + k] = Tool(h[i].turn, h[i].round, k)
    /\ h[i].role = "tool" =>
           i > h[i].calls /\ h[i - h[i].calls].role = "assistant"

InRound(t) == pc[t] \in {"call", "result"}

\* The message of the round the turn is in.
RoundStart(t) == Len(history) - (call[t] - 1)

\* The calls of the round made so far are answered, all earlier ones are.
RoundSoFar(t) ==
    /\ RoundStart(t) \in 1..Len(history)
    /\ history[RoundStart(t)] = Assistant(t, round[t], calls[t])
    /\ \A k \in 1..(call[t] - 1) : history[RoundStart(t) + k] = Tool(t, round[t], k)
    /\ \A i \in 1..Len(history) : i # RoundStart(t) => PairedAt(history, i)

PairsInv ==
    ~overlapped /\ ~cut =>
        /\ \A t \in Turns : InRound(t) => RoundSoFar(t)
        /\ (\A t \in Turns : ~InRound(t)) => Paired(history)

ConversationInv == StatusInv /\ Unheard /\ ToolsInv /\ PairsInv

\* What a message that joins the conversation changes in it.
LEMMA Joins ==
    ASSUME history \in Seq(Messages), NEW m \in Messages, history' = Append(history, m)
    PROVE  /\ Len(history) \in Nat /\ Len(history') = Len(history) + 1
           /\ \A i \in 1..Len(history) : history'[i] = history[i]
           /\ history'[Len(history) + 1] = m
           /\ \A i \in 1..Len(history') : i \in 1..Len(history) \/ i = Len(history) + 1
           /\ \A i \in 1..Len(history) : history[i] \in Messages
  OBVIOUS

\* A list of calls of one turn that grows by one of them.
LEMMA ListGrows ==
    ASSUME NEW list \in Seq(Turns), NEW t \in Turns, NEW n, ListsOnly(list, t, n)
    PROVE  ListsOnly(Append(list, t), t, n + 1)
  BY DEF ListsOnly

\* The tool messages of a turn are finitely many; one more of them is one more,
\* and other messages do not count.
LEMMA OwnCallsCounted ==
    ASSUME TypeOK, NEW t \in Turns, NEW m \in Messages, history' = Append(history, m)
    PROVE  /\ Cardinality(OwnCalls(t)) \in Nat
           /\ m.role = "tool" /\ m.turn = t
                  => Cardinality(OwnCalls(t)') = Cardinality(OwnCalls(t)) + 1
           /\ m.role # "tool" \/ m.turn # t => OwnCalls(t)' = OwnCalls(t)
  <1> DEFINE l == Len(history)
  <1>1. history \in Seq(Messages) /\ l \in Nat
    BY DEF TypeOK, SharedOK
  <1>2. OwnCalls(t) \subseteq 1..l
    BY DEF OwnCalls
  <1>3. IsFiniteSet(OwnCalls(t)) /\ Cardinality(OwnCalls(t)) \in Nat
    <2>1. IsFiniteSet(1..l)
      BY <1>1, FS_Interval
    <2>2. IsFiniteSet(OwnCalls(t))
      BY <1>2, <2>1, FS_Subset
    <2> QED BY <2>2, FS_CardinalityType
  <1>4. l + 1 \notin OwnCalls(t)
    BY <1>1, <1>2
  <1>5. ASSUME m.role = "tool", m.turn = t PROVE OwnCalls(t)' = OwnCalls(t) \cup {l + 1}
    BY <1>1, <1>5, Joins DEF OwnCalls
  <1>6. ASSUME m.role # "tool" \/ m.turn # t PROVE OwnCalls(t)' = OwnCalls(t)
    BY <1>1, <1>6, Joins DEF OwnCalls
  <1>7. Cardinality(OwnCalls(t) \cup {l + 1}) = Cardinality(OwnCalls(t)) + 1
    BY <1>3, <1>4, FS_AddElement
  <1> QED BY <1>3, <1>5, <1>6, <1>7

\* How the conversation grows: by the goal of a turn, by the model's answer or by
\* the result of a tool.
LEMMA ConversationStep ==
    ASSUME TypeOK, NEW t \in Turns, TurnStep(t)
    PROVE  \/ history' = history
           \/ Begin(t) /\ history' = Append(history, User(t))
           \/ /\ Answer(t)
              /\ \E n \in 0..MaxCalls : history' = Append(history, Assistant(t, round[t], n))
           \/ /\ Result(t) /\ NextCall(t) /\ UNCHANGED cut
              /\ history' = Append(history, Tool(t, round[t], call[t]))
  <1>1. CASE Begin(t)
    BY <1>1 DEF Begin
  <1>2. CASE Answer(t)
    BY <1>2 DEF Answer
  <1>3. CASE Result(t)
    BY <1>3 DEF Result
  <1>4. CASE Open(t) \/ ListTools(t) \/ Call(t) \/ CloseSession(t) \/ Report(t) \/ Except(t) \/ Finally(t)
    BY <1>4 DEF Open, ListTools, Call, CloseSession, Report, Except, Finally, shared
  <1> QED BY <1>1, <1>2, <1>3, <1>4 DEF TurnStep

\* Every message that joins is one of the turn that steps.
LEMMA OwnMessages ==
    ASSUME TypeOK, NEW t \in Turns, TurnStep(t)
    PROVE  \/ history' = history
           \/ \E m \in Messages : m.turn = t /\ history' = Append(history, m)
  <1>1. \A n \in 0..MaxCalls : /\ Assistant(t, round[t], n) \in Messages
                               /\ Assistant(t, round[t], n).turn = t
    BY MessagesJoin DEF TypeOK, ProgressOK, Assistant
  <1>2. Tool(t, round[t], call[t]) \in Messages /\ Tool(t, round[t], call[t]).turn = t
    BY MessagesJoin DEF TypeOK, ProgressOK, Tool
  <1>3. User(t) \in Messages /\ User(t).turn = t
    BY MessagesJoin DEF User
  <1> QED BY <1>1, <1>2, <1>3, ConversationStep

LEMMA UnheardStep == ASSUME TypeOK, Unheard, [Next]_vars PROVE Unheard'
  <1>1. ASSUME NEW t \in Turns, Start(t) PROVE Unheard'
    <2>1. history' = history /\ pc[t] = "new"
      BY <1>1 DEF Start, At
    <2> QED BY <1>1, <2>1, StartGoesUnderWay DEF Unheard
  <1>2. ASSUME NEW t \in Turns, TurnStep(t) PROVE Unheard'
    <2>1. pc'[t] \notin {"new", "begin"}
      BY <1>2 DEF TurnStep, Begin, Open, ListTools, Answer, Call, Result, CloseSession, Report,
         Except, Finally, Fail, NextCall, At, GoTo, TypeOK, ProgressOK
    <2>2. \A u \in Turns \ {t} : pc'[u] = pc[u]
      BY <1>2, StepStaysUnderWay
    <2>3. CASE history' = history
      BY <2>1, <2>2, <2>3 DEF Unheard
    <2>4. ASSUME NEW m \in Messages, m.turn = t, history' = Append(history, m) PROVE Unheard'
      BY <2>1, <2>2, <2>4, Joins DEF Unheard, TypeOK, SharedOK
    <2> QED BY <1>2, <2>3, <2>4, OwnMessages
  <1>3. CASE UNCHANGED vars
    BY <1>3 DEF vars, shared, Unheard
  <1> QED BY <1>1, <1>2, <1>3 DEF Next, Over

-----------------------------------------------------------------------------
(* The tools a turn reports.                                               *)

\* Without overlap, no other turn than the one that steps is under way.
LEMMA OthersRest ==
    ASSUME TypeOK, Alone, ~overlapped, NEW t \in Turns, TurnStep(t), NEW u \in Turns \ {t}
    PROVE  pc[u] \in {"new", "done"} /\ pc'[u] = pc[u]
  BY StepStaysUnderWay DEF Alone, UnderWay

\* The steps of a goal that touch neither its list nor the conversation's tools.
LEMMA ToolsUntouched ==
    ASSUME TypeOK, NEW t \in Turns, TurnStep(t), ~Begin(t), ~Call(t), ~Result(t), ~Finally(t)
    PROVE  /\ toolsUsed' = toolsUsed /\ kind' = kind
           /\ OwnCalls(t)' = OwnCalls(t)
           /\ ~Report(t) => reported' = reported
  <1>1. CASE Answer(t)
    <2>1. CASE history' = history
      BY <1>1, <2>1 DEF Answer, OwnCalls
    <2>2. ASSUME NEW n \in 0..MaxCalls, history' = Append(history, Assistant(t, round[t], n))
          PROVE  OwnCalls(t)' = OwnCalls(t)
      <3>1. Assistant(t, round[t], n) \in Messages /\ Assistant(t, round[t], n).role # "tool"
        BY MessagesJoin DEF TypeOK, ProgressOK, Assistant
      <3> QED BY <2>2, <3>1, OwnCallsCounted
    <2>3. history' = history \/ \E n \in 0..MaxCalls : history' = Append(history, Assistant(t, round[t], n))
      BY <1>1 DEF Answer
    <2> QED BY <1>1, <2>1, <2>2, <2>3 DEF Answer
  <1>2. CASE Open(t) \/ ListTools(t) \/ CloseSession(t) \/ Report(t) \/ Except(t)
    BY <1>2 DEF Open, ListTools, CloseSession, Report, Except, shared, OwnCalls
  <1> QED BY <1>1, <1>2 DEF TurnStep

LEMMA ToolsStep ==
    ASSUME StatusInv, Unheard, ToolsInv, [Next]_vars
    PROVE  ToolsInv'
  <1> USE DEF At, GoTo
  <1>t. TypeOK /\ Alone /\ FailuresKnown
    BY DEF StatusInv
  <1> DEFINE Tells(t) ==
        kind[t] = "goal" =>
            /\ pc[t] \in {"open", "list", "ask", "call", "close", "report"}
                   => ListsOnly(toolsUsed, t, Cardinality(OwnCalls(t)))
            /\ pc[t] = "result" => ListsOnly(toolsUsed, t, Cardinality(OwnCalls(t)) + 1)
            /\ pc[t] = "finally" /\ outcome[t] \notin Failures
                   => ListsOnly(reported[t], t, Cardinality(OwnCalls(t)))
  <1>1. ASSUME NEW t \in Turns, Start(t) PROVE ToolsInv'
    <2> SUFFICES ASSUME ~overlapped', NEW u \in Turns PROVE Tells(u)'
      BY DEF ToolsInv
    <2>1. CASE u # t
      <3>1. pc'[u] \in {"new", "done"}
        BY <1>1, <1>t, <2>1, StartGoesUnderWay DEF UnderWay
      <3> QED BY <3>1
    <2>2. CASE u = t
      <3>1. pc'[t] = FirstStep(kind'[t]) /\ kind'[t] \in Kinds
        BY <1>1, <1>t DEF Start, TypeOK, LocalsOK, ProgressOK
      <3> QED BY <2>2, <3>1 DEF FirstStep
    <2> QED BY <2>1, <2>2
  <1>2. ASSUME NEW t \in Turns, TurnStep(t) PROVE ToolsInv'
    <2> SUFFICES ASSUME ~overlapped', NEW u \in Turns PROVE Tells(u)'
      BY DEF ToolsInv
    <2>o. ~overlapped
      BY <1>2, <1>t, StepStaysUnderWay
    <2>1. CASE u # t
      <3>1. pc'[u] \in {"new", "done"}
        BY <1>2, <1>t, <2>1, <2>o, OthersRest
      <3> QED BY <3>1
    <2> SUFFICES Tells(t)'
      BY <2>1
    <2>2. CASE Begin(t)
      <3>1. User(t) \in Messages /\ User(t).role # "tool"
        BY MessagesJoin DEF User
      <3>2. OwnCalls(t)' = OwnCalls(t)
        BY <1>t, <2>2, <3>1, OwnCallsCounted DEF Begin
      <3>3. OwnCalls(t) = {}
        BY <2>2 DEF Begin, Unheard, OwnCalls
      <3>4. Cardinality(OwnCalls(t)') = 0
        BY <3>2, <3>3, FS_EmptySet
      <3>5. ListsOnly(toolsUsed', t, 0) /\ pc'[t] = "open"
        BY <1>t, <2>2 DEF Begin, ListsOnly, TypeOK, ProgressOK
      <3> QED BY <3>4, <3>5
    <2>3. CASE Call(t)
      <3>1. OwnCalls(t)' = OwnCalls(t) /\ kind' = kind /\ pc[t] = "call" /\ pc'[t] = "result"
        BY <1>t, <2>3 DEF Call, OwnCalls, TypeOK, ProgressOK
      <3>2. toolsUsed' = Append(toolsUsed, t) /\ toolsUsed \in Seq(Turns)
        BY <1>t, <2>3 DEF Call, TypeOK, SharedOK
      <3>3. kind[t] = "goal" => ListsOnly(toolsUsed, t, Cardinality(OwnCalls(t)))
        BY <2>o, <3>1 DEF ToolsInv
      <3>4. kind[t] = "goal" => ListsOnly(toolsUsed', t, Cardinality(OwnCalls(t)) + 1)
        BY <3>2, <3>3, ListGrows
      <3> QED BY <3>1, <3>4
    <2>4. CASE Result(t)
      <3>1. kind' = kind /\ toolsUsed' = toolsUsed /\ pc[t] = "result"
        BY <2>4 DEF Result
      <3>2. CASE Fail(t, "planeError")
        BY <1>t, <3>2 DEF Fail, TypeOK, ProgressOK
      <3>3. CASE NextCall(t) /\ history' = Append(history, Tool(t, round[t], call[t]))
        <4>1. pc'[t] \in {"call", "ask", "close"}
          BY <1>t, <3>3 DEF NextCall, TypeOK, ProgressOK
        <4>2. /\ Tool(t, round[t], call[t]) \in Messages
              /\ Tool(t, round[t], call[t]).role = "tool" /\ Tool(t, round[t], call[t]).turn = t
          BY <1>t, MessagesJoin DEF TypeOK, ProgressOK, Tool
        <4>3. Cardinality(OwnCalls(t)') = Cardinality(OwnCalls(t)) + 1
          BY <1>t, <3>3, <4>2, OwnCallsCounted
        <4>4. kind[t] = "goal" => ListsOnly(toolsUsed, t, Cardinality(OwnCalls(t)) + 1)
          BY <2>o, <3>1 DEF ToolsInv
        <4> QED BY <3>1, <4>1, <4>3, <4>4
      <3> QED BY <2>4, <3>2, <3>3 DEF Result
    <2>5. CASE Finally(t)
      BY <1>t, <2>5 DEF Finally, TypeOK, ProgressOK
    <2>6. CASE ~Begin(t) /\ ~Call(t) /\ ~Result(t) /\ ~Finally(t)
      <3>1. toolsUsed' = toolsUsed /\ kind' = kind /\ OwnCalls(t)' = OwnCalls(t)
        BY <1>2, <1>t, <2>6, ToolsUntouched
      <3>2. CASE Report(t)
        <4>1. pc[t] = "report" /\ pc'[t] = "finally" /\ reported'[t] = toolsUsed
          BY <1>t, <3>2 DEF Report, TypeOK, ProgressOK, LocalsOK
        <4>2. kind[t] = "goal" => ListsOnly(toolsUsed, t, Cardinality(OwnCalls(t)))
          BY <2>o, <4>1 DEF ToolsInv
        <4> QED BY <3>1, <4>1, <4>2
      <3>3. CASE Except(t)
        <4>1. pc'[t] = "finally" /\ outcome'[t] \in Failures
          BY <1>t, <3>3 DEF Except, FailuresKnown, TypeOK, ProgressOK
        <4> QED BY <4>1
      <3>4. CASE ~Report(t) /\ ~Except(t)
        <4>1. /\ pc[t] \in {"open", "list", "ask", "close"}
              /\ pc'[t] \in {"list", "ask", "call", "close", "report", "except"}
          BY <1>2, <1>t, <2>6, <3>4 DEF TurnStep, Open, ListTools, Answer, CloseSession, Fail,
             TypeOK, ProgressOK
        <4>2. kind[t] = "goal" => ListsOnly(toolsUsed, t, Cardinality(OwnCalls(t)))
          BY <2>o, <4>1 DEF ToolsInv
        <4> QED BY <3>1, <4>1, <4>2
      <3> QED BY <3>2, <3>3, <3>4
    <2> QED BY <1>2, <2>2, <2>3, <2>4, <2>5, <2>6
  <1>3. CASE UNCHANGED vars
    BY <1>3 DEF vars, shared, ghosts, ToolsInv, OwnCalls
  <1> QED BY <1>1, <1>2, <1>3 DEF Next, Over

-----------------------------------------------------------------------------
(* Calls and results in the conversation.                                  *)

LEMMA PairedMessages ==
    ASSUME NEW h PROVE Paired(h) <=> \A i \in 1..Len(h) : PairedAt(h, i)
  BY DEF Paired, PairedAt

\* A message that is paired stays so when another joins.
LEMMA StaysPaired ==
    ASSUME history \in Seq(Messages), NEW m \in Messages, history' = Append(history, m),
           NEW i \in 1..Len(history), PairedAt(history, i)
    PROVE  PairedAt(history', i)
  <1>1. /\ Len(history) \in Nat /\ Len(history') = Len(history) + 1
        /\ \A j \in 1..Len(history) : history'[j] = history[j]
        /\ history[i] \in Messages
    BY Joins
  <1>2. history[i].calls \in Nat /\ i \in Nat /\ history'[i] = history[i]
    BY <1>1 DEF Messages
  <1>3. ASSUME history[i].role = "assistant", NEW k \in 1..history[i].calls
        PROVE  i + k <= Len(history') /\ history'[i + k] = Tool(history[i].turn, history[i].round, k)
    <2>1. i + k <= Len(history) /\ history[i + k] = Tool(history[i].turn, history[i].round, k)
      BY <1>3 DEF PairedAt
    <2>2. i + k \in 1..Len(history)
      BY <1>1, <1>2, <2>1
    <2> QED BY <1>1, <2>1, <2>2
  <1>4. ASSUME history[i].role = "tool"
        PROVE  i > history[i].calls /\ history'[i - history[i].calls].role = "assistant"
    <2>1. i > history[i].calls /\ history[i - history[i].calls].role = "assistant"
      BY <1>4 DEF PairedAt
    <2>2. i - history[i].calls \in 1..Len(history)
      BY <1>1, <1>2, <2>1
    <2> QED BY <1>1, <2>1, <2>2
  <1> QED BY <1>2, <1>3, <1>4 DEF PairedAt

\* A message that neither calls nor answers a tool keeps the conversation paired.
LEMMA PairedGrows ==
    ASSUME history \in Seq(Messages), Paired(history), NEW m \in Messages,
           history' = Append(history, m), m.role # "tool", m.role = "assistant" => m.calls = 0
    PROVE  Paired(history')
  <1>1. \A i \in 1..Len(history) : PairedAt(history', i)
    BY PairedMessages, StaysPaired
  <1>2. PairedAt(history', Len(history) + 1)
    <2>1. history'[Len(history) + 1] = m
      BY Joins
    <2> QED BY <2>1 DEF PairedAt
  <1> QED BY <1>1, <1>2, PairedMessages, Joins

\* A model that calls tools begins a round.
LEMMA RoundBegins ==
    ASSUME TypeOK, Paired(history), NEW t \in Turns, NEW n \in 1..MaxCalls,
           history' = Append(history, Assistant(t, round[t], n)),
           round' = round, call'[t] = 1, calls'[t] = n
    PROVE  RoundSoFar(t)'
  <1>1. history \in Seq(Messages) /\ Assistant(t, round[t], n) \in Messages
    BY MessagesJoin DEF TypeOK, SharedOK, ProgressOK
  <1>2. Len(history) \in Nat /\ Len(history') = Len(history) + 1
    BY <1>1, Joins
  <1>3. RoundStart(t)' = Len(history) + 1
    BY <1>2 DEF RoundStart
  <1>4. history'[Len(history) + 1] = Assistant(t, round[t], n)
    BY <1>1, Joins
  <1>5. \A i \in 1..Len(history) : PairedAt(history', i)
    BY <1>1, PairedMessages, StaysPaired
  <1>6. \A i \in 1..Len(history') : i # Len(history) + 1 => PairedAt(history', i)
    BY <1>2, <1>5
  <1>7. 1..(call'[t] - 1) = {}
    OBVIOUS
  <1> QED BY <1>2, <1>3, <1>4, <1>6, <1>7 DEF RoundSoFar

\* A result joins the round: the conversation is paired again after the last one.
LEMMA RoundAdvances ==
    ASSUME TypeOK, NEW t \in Turns, pc[t] = "result", RoundSoFar(t), NextCall(t),
           history' = Append(history, Tool(t, round[t], call[t])), calls' = calls
    PROVE  /\ InRound(t)' => RoundSoFar(t)'
           /\ ~InRound(t)' => Paired(history')
  <1> DEFINE l == Len(history)
             a == RoundStart(t)
             k == call[t]
             m == Tool(t, round[t], k)
  <1>1. history \in Seq(Messages) /\ m \in Messages
    BY MessagesJoin DEF TypeOK, SharedOK, ProgressOK
  <1>2. /\ l \in Nat /\ Len(history') = l + 1 /\ history'[l + 1] = m
        /\ \A i \in 1..l : history'[i] = history[i]
    BY <1>1, Joins
  <1>3. k \in 1..calls[t] /\ calls[t] \in Nat /\ pc \in [Turns -> Steps]
    BY DEF TypeOK, ProgressOK
  <1>4. a \in 1..l /\ a + k = l + 1
    BY <1>2, <1>3 DEF RoundSoFar, RoundStart
  <1>5. history'[a] = Assistant(t, round[t], calls[t])
    BY <1>2, <1>4 DEF RoundSoFar
  <1>6. \A j \in 1..k : history'[a + j] = Tool(t, round[t], j)
    <2>1. ASSUME NEW j \in 1..k, j # k PROVE history'[a + j] = Tool(t, round[t], j)
      <3>1. j \in 1..(k - 1) /\ a + j \in 1..l
        BY <1>2, <1>3, <1>4, <2>1
      <3> QED BY <1>2, <3>1 DEF RoundSoFar
    <2>2. history'[a + k] = Tool(t, round[t], k)
      BY <1>2, <1>4
    <2> QED BY <2>1, <2>2
  <1>7. \A i \in 1..l : i # a => PairedAt(history', i)
    BY <1>1, StaysPaired DEF RoundSoFar
  <1>8. PairedAt(history', l + 1)
    <2>1. m.role = "tool" /\ m.calls = k
      BY DEF Tool
    <2>2. (l + 1) - k = a /\ l + 1 > k
      BY <1>2, <1>3, <1>4
    <2>3. history'[a].role = "assistant"
      BY <1>5 DEF Assistant
    <2> QED BY <1>2, <2>1, <2>2, <2>3 DEF PairedAt
  <1>9. \A i \in 1..Len(history') : i # a => PairedAt(history', i)
    BY <1>2, <1>7, <1>8
  <1>10. CASE k < calls[t]
    <2>1. call'[t] = k + 1 /\ round' = round /\ InRound(t)'
      BY <1>3, <1>10 DEF NextCall, GoTo, InRound, TypeOK, ProgressOK
    <2>2. RoundStart(t)' = a
      BY <1>2, <1>3, <1>4, <2>1 DEF RoundStart
    <2>3. a \in 1..Len(history') /\ (k + 1) - 1 = k
      BY <1>2, <1>3, <1>4
    <2> QED BY <1>5, <1>6, <1>9, <2>1, <2>2, <2>3 DEF RoundSoFar
  <1>11. CASE ~(k < calls[t])
    <2>1. k = calls[t]
      BY <1>3, <1>11
    <2>2. ~InRound(t)'
      BY <1>3, <1>11 DEF NextCall, GoTo, InRound
    <2>3. PairedAt(history', a)
      <3>1. /\ history'[a].role = "assistant" /\ history'[a].calls = k
            /\ history'[a].turn = t /\ history'[a].round = round[t]
        BY <1>5, <2>1 DEF Assistant
      <3>2. \A j \in 1..k : a + j <= Len(history')
        BY <1>2, <1>3, <1>4
      <3> QED BY <1>6, <3>1, <3>2 DEF PairedAt
    <2> QED BY <1>9, <2>2, <2>3, PairedMessages
  <1> QED BY <1>10, <1>11

LEMMA PairsStep ==
    ASSUME StatusInv, PairsInv, [Next]_vars
    PROVE  PairsInv'
  <1> USE DEF At, GoTo
  <1>t. TypeOK /\ Alone
    BY DEF StatusInv
  <1>1. ASSUME NEW t \in Turns, Start(t) PROVE PairsInv'
    <2>1. UNCHANGED <<history, round, call, calls, cut>> /\ pc'[t] \notin {"call", "result"}
          /\ pc[t] = "new"
      BY <1>1, <1>t DEF Start, FirstStep, TypeOK, ProgressOK
    <2>2. (~overlapped' => ~overlapped) /\ \A u \in Turns \ {t} : pc'[u] = pc[u]
      BY <1>1, <1>t, StartGoesUnderWay
    <2> QED BY <2>1, <2>2 DEF PairsInv, InRound, RoundSoFar, RoundStart
  <1>2. ASSUME NEW t \in Turns, TurnStep(t) PROVE PairsInv'
    <2> SUFFICES ASSUME ~overlapped', ~cut'
                 PROVE  /\ \A u \in Turns : InRound(u)' => RoundSoFar(u)'
                        /\ (\A u \in Turns : ~InRound(u)') => Paired(history')
      BY DEF PairsInv
    <2>o. ~overlapped /\ ~cut
      <3>1. cut' = cut \/ cut'
        BY <1>2 DEF TurnStep, Begin, Open, ListTools, Answer, Call, Result, CloseSession, Report,
           Except, Finally, ghosts
      <3> QED BY <1>2, <1>t, <3>1, StepStaysUnderWay
    <2>r. \A u \in Turns \ {t} : ~InRound(u) /\ ~InRound(u)'
      BY <1>2, <1>t, <2>o, OthersRest DEF InRound
    <2> SUFFICES (InRound(t)' => RoundSoFar(t)') /\ (~InRound(t)' => Paired(history'))
      BY <2>r
    <2>1. InRound(t) => RoundSoFar(t)
      BY <2>o DEF PairsInv
    <2>2. ~InRound(t) => Paired(history)
      BY <2>o, <2>r DEF PairsInv
    <2>h. history \in Seq(Messages) /\ pc \in [Turns -> Steps]
      BY <1>t DEF TypeOK, SharedOK, ProgressOK
    <2>3. CASE Begin(t)
      <3>1. pc[t] = "begin" /\ pc'[t] = "open" /\ history' = Append(history, User(t))
        BY <2>3, <2>h DEF Begin
      <3>2. Paired(history')
        BY <2>2, <2>h, <3>1, MessagesJoin, PairedGrows DEF InRound, User
      <3> QED BY <3>1, <3>2 DEF InRound
    <2>4. CASE Answer(t)
      <3>1. pc[t] = "ask" /\ Paired(history) /\ round' = round
        BY <2>2, <2>4 DEF Answer, InRound
      <3>2. CASE Fail(t, "modelError") /\ UNCHANGED <<history, call, calls>>
        BY <2>h, <3>1, <3>2 DEF Fail, InRound
      <3>3. CASE history' = Append(history, Assistant(t, round[t], 0)) /\ GoTo(t, "close")
        <4>1. Assistant(t, round[t], 0) \in Messages
          BY <1>t, MessagesJoin DEF TypeOK, ProgressOK
        <4>2. Paired(history')
          BY <2>h, <3>1, <3>3, <4>1, PairedGrows DEF Assistant
        <4> QED BY <2>h, <3>3, <4>2 DEF InRound
      <3>4. ASSUME NEW n \in 1..MaxCalls,
                   history' = Append(history, Assistant(t, round[t], n)),
                   call' = [call EXCEPT ![t] = 1], calls' = [calls EXCEPT ![t] = n],
                   GoTo(t, "call")
            PROVE  (InRound(t)' => RoundSoFar(t)') /\ (~InRound(t)' => Paired(history'))
        <4>1. call'[t] = 1 /\ calls'[t] = n /\ InRound(t)'
          BY <1>t, <2>h, <3>4 DEF InRound, TypeOK, ProgressOK
        <4> QED BY <1>t, <3>1, <3>4, <4>1, RoundBegins
      <3> QED BY <2>4, <3>2, <3>3, <3>4 DEF Answer
    <2>5. CASE Result(t)
      <3>1. pc[t] = "result" /\ RoundSoFar(t) /\ calls' = calls
        BY <2>1, <2>5 DEF Result, InRound
      <3>2. NextCall(t) /\ history' = Append(history, Tool(t, round[t], call[t]))
        BY <2>5 DEF Result
      <3> QED BY <1>t, <3>1, <3>2, RoundAdvances
    <2>6. CASE Call(t)
      <3>1. /\ UNCHANGED <<history, round, call, calls>> /\ pc[t] = "call" /\ pc'[t] = "result"
        BY <2>6, <2>h DEF Call
      <3> QED BY <2>1, <3>1 DEF InRound, RoundSoFar, RoundStart
    <2>7. CASE Open(t) \/ ListTools(t) \/ CloseSession(t) \/ Report(t) \/ Except(t) \/ Finally(t)
      <3>1. history' = history /\ ~InRound(t)
        BY <2>7 DEF Open, ListTools, CloseSession, Report, Except, Finally, shared, InRound
      <3>2. ~InRound(t)'
        BY <2>7, <2>h DEF Open, ListTools, CloseSession, Report, Except, Finally, Fail, InRound
      <3> QED BY <2>2, <3>1, <3>2
    <2> QED BY <1>2, <2>3, <2>4, <2>5, <2>6, <2>7 DEF TurnStep
  <1>3. CASE UNCHANGED vars
    BY <1>3 DEF vars, shared, ghosts, PairsInv, InRound, RoundSoFar, RoundStart
  <1> QED BY <1>1, <1>2, <1>3 DEF Next, Over

-----------------------------------------------------------------------------
LEMMA ConversationInit == Init => ConversationInv
  <1> SUFFICES ASSUME Init PROVE ConversationInv
    OBVIOUS
  <1>1. history = <<>> /\ \A t \in Turns : pc[t] = "new"
    BY DEF Init
  <1>2. Unheard /\ ToolsInv /\ PairsInv
    BY <1>1 DEF Unheard, ToolsInv, PairsInv, InRound, Paired
  <1> QED BY <1>2, StatusInvInit DEF ConversationInv

LEMMA ConversationNext == ConversationInv /\ [Next]_vars => ConversationInv'
  BY StatusInvStep, UnheardStep, ToolsStep, PairsStep DEF ConversationInv, StatusInv

\* The invariant behind both theorems, for any number of turns, rounds and calls.
THEOREM ConversationInvariant == Spec => []ConversationInv
  BY ConversationInit, ConversationNext, PTL DEF Spec

\* The conversation sent to the model is one its API accepts, however the turns
\* before ended, unless turns overlapped or a call was cut short (respond,
\* _invoke_tool).
THEOREM WellFormedRequests == Spec => []RequestsWellFormed
  <1>1. ConversationInv => RequestsWellFormed
    <2> SUFFICES ASSUME ConversationInv, ~overlapped, ~cut, NEW t \in Turns, pc[t] = "ask"
                 PROVE  Paired(history)
      BY DEF RequestsWellFormed
    <2>1. \A u \in Turns : UnderWay(u) => u = t
      BY DEF ConversationInv, StatusInv, Alone, UnderWay
    <2>2. \A u \in Turns : ~InRound(u)
      BY <2>1 DEF InRound, UnderWay
    <2> QED BY <2>2 DEF ConversationInv, PairsInv
  <1> QED BY <1>1, ConversationInvariant, PTL

\* The reply to a goal lists the calls of its turn, each of them and no other,
\* unless turns overlapped (respond, send_message).
THEOREM ReportedTools == Spec => []ToolsReported
  <1>1. ConversationInv => ToolsReported
    BY DEF ConversationInv, ToolsInv, ToolsReported, ListsOnly
  <1> QED BY <1>1, ConversationInvariant, PTL
=============================================================================
