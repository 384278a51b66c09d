----------------------------- MODULE AgentTurn ------------------------------
(***************************************************************************)
(* The turns of one running agent: AgentManager.send_message               *)
(* (src/src/opengeneral/daemon.py) around GeneralPurposeAgent.respond      *)
(* (src/src/opengeneral/agent.py).                                         *)
(*                                                                         *)
(* A turn is one agent.message request, in a handler thread and an event   *)
(* loop of its own.  The daemon does not serialize the turns of an agent,  *)
(* so turns that overlap share its conversation, its list of tools used    *)
(* and its status.  A step ends where the code awaits the Action Plane or  *)
(* the model, whose answers and failures are nondeterministic.             *)
(***************************************************************************)
EXTENDS Naturals, Sequences, FiniteSets

CONSTANTS
    Turns,           \* the messages sent to the agent: a bound
    MaxIterations,   \* max_iterations: rounds of model and tools in one turn
    MaxCalls,        \* tool calls the model makes in one round, at most: a bound
    None

ASSUME BoundsAssumption == MaxIterations \in Nat \ {0} /\ MaxCalls \in Nat
ASSUME NoTurnAssumption == None \notin Turns

\* What a message asks for: a goal for the model; the list of tools; or what
\* respond answers on its own (/skills, or nothing but blanks).
Kinds == {"goal", "tools", "local"}

\* A message of the conversation.  An assistant message carries a number of
\* tool calls, the calls of a round; a tool message answers one of them.
User(t)            == [role |-> "user", turn |-> t, round |-> 0, calls |-> 0]
Assistant(t, r, n) == [role |-> "assistant", turn |-> t, round |-> r, calls |-> n]
Tool(t, r, k)      == [role |-> "tool", turn |-> t, round |-> r, calls |-> k]

VARIABLES
    status,      \* RunningAgent.status
    lastError,   \* RunningAgent.last_error: the turn whose error it shows, or None
    history,     \* GeneralPurposeAgent.history
    toolsUsed,   \* GeneralPurposeAgent.last_tools_used: by the turns that called them
    pc,          \* the next step of each turn
    kind,        \* what each turn asks for
    session,     \* the turn has a session with the Action Plane
    round,       \* the round each turn is in
    call,        \* the tool call of the round it is at, of `calls' in all
    calls,
    outcome,     \* how the turn ends
    reported,    \* the tools_used of its reply
    \* Ghosts, read by properties only:
    overlapped,  \* two turns have been under way at the same time
    cut          \* a turn was aborted between a tool call and its result

shared == <<status, lastError, history, toolsUsed>>
ghosts == <<overlapped, cut>>
vars == <<shared, pc, kind, session, round, call, calls, outcome, reported, ghosts>>

UnderWay(t) == pc[t] \notin {"new", "done"}

At(t, step)   == pc[t] = step
GoTo(t, step) == pc' = [pc EXCEPT ![t] = step]

\* The tool messages of a turn in the conversation.
OwnCalls(t) == {i \in 1..Len(history) : history[i].role = "tool" /\ history[i].turn = t}

Init ==
    /\ status = "idle"
    /\ lastError = None
    /\ history = <<>>
    /\ toolsUsed = <<>>
    /\ pc = [t \in Turns |-> "new"]
    /\ kind = [t \in Turns |-> "local"]
    /\ session = [t \in Turns |-> FALSE]
    /\ round = [t \in Turns |-> 0]
    /\ call = [t \in Turns |-> 0]
    /\ calls = [t \in Turns |-> 0]
    /\ outcome = [t \in Turns |-> "none"]
    /\ reported = [t \in Turns |-> <<>>]
    /\ overlapped = FALSE
    /\ cut = FALSE

-----------------------------------------------------------------------------
(* The start of a turn.                                                    *)

FirstStep(k) == CASE k = "goal"  -> "begin"
                  [] k = "tools" -> "open"
                  [] OTHER       -> "report"

\* Mutant: the status of the turn before stays.
StartSilently(t) ==
    /\ At(t, "new")
    /\ \E k \in Kinds : kind' = [kind EXCEPT ![t] = k] /\ GoTo(t, FirstStep(k))
    /\ overlapped' = (overlapped \/ \E u \in Turns \ {t} : UnderWay(u))
    /\ outcome' = [outcome EXCEPT ![t] = "answer"]
    /\ UNCHANGED <<status, lastError, history, toolsUsed, session, round, call, calls, reported,
                   cut>>

\* Mutant: what respond answers on its own is returned before the try block.
StartOutsideTry(t) ==
    /\ At(t, "new")
    /\ status' = "processing"
    /\ \E k \in Kinds : /\ kind' = [kind EXCEPT ![t] = k]
                       /\ GoTo(t, IF k = "local" THEN "done" ELSE FirstStep(k))
    /\ outcome' = [outcome EXCEPT ![t] = "answer"]
    /\ overlapped' = (overlapped \/ \E u \in Turns \ {t} : UnderWay(u))
    /\ UNCHANGED <<lastError, history, toolsUsed, session, round, call, calls, reported, cut>>

\* send_message: the agent is processing.  A turn answers unless something fails.
Start(t) ==
    /\ At(t, "new")
    /\ status' = "processing"
    /\ \E k \in Kinds : kind' = [kind EXCEPT ![t] = k] /\ GoTo(t, FirstStep(k))
    /\ outcome' = [outcome EXCEPT ![t] = "answer"]
    /\ overlapped' = (overlapped \/ \E u \in Turns \ {t} : UnderWay(u))
    /\ UNCHANGED <<lastError, history, toolsUsed, session, round, call, calls, reported, cut>>

\* Mutant: the tools of earlier turns stay on the list.
BeginWithoutClear(t) ==
    /\ At(t, "begin")
    /\ history' = Append(history, User(t))
    /\ GoTo(t, "open")
    /\ UNCHANGED <<status, lastError, toolsUsed, kind, session, round, call, calls, outcome,
                   reported, ghosts>>

\* respond: a goal starts a new list of tools and joins the conversation.
Begin(t) ==
    /\ At(t, "begin")
    /\ toolsUsed' = <<>>
    /\ history' = Append(history, User(t))
    /\ GoTo(t, "open")
    /\ UNCHANGED <<status, lastError, kind, session, round, call, calls, outcome, reported, ghosts>>

\* _enter_session: a session with the Action Plane, or none.
Open(t) ==
    /\ At(t, "open")
    /\ \E reachable \in BOOLEAN : session' = [session EXCEPT ![t] = reachable]
    /\ GoTo(t, "list")
    /\ UNCHANGED <<shared, kind, round, call, calls, outcome, reported, ghosts>>

\* The turn fails: the exception leaves the session and reaches send_message.
Fail(t, cause) ==
    /\ outcome' = [outcome EXCEPT ![t] = cause]
    /\ GoTo(t, "except")

\* Mutant: a session that broke is opened again, for as long as it takes.
ListToolsOrReopen(t) ==
    /\ At(t, "list")
    /\ \/ GoTo(t, IF kind[t] = "goal" THEN "ask" ELSE "close")
       \/ session[t] /\ GoTo(t, "open")
    /\ UNCHANGED <<shared, kind, session, round, call, calls, outcome, reported, ghosts>>

\* list_tools, of a session that may have broken since it was opened.  A goal
\* goes on to the model, with the tools or with none; /tools is done.
ListTools(t) ==
    /\ At(t, "list")
    /\ \/ /\ GoTo(t, IF kind[t] = "goal" THEN "ask" ELSE "close")
          /\ UNCHANGED outcome
       \/ session[t] /\ Fail(t, "planeError")
    /\ UNCHANGED <<shared, kind, session, round, call, calls, reported, ghosts>>

-----------------------------------------------------------------------------
(* The rounds of a goal.                                                   *)

\* The conversation has been sent to the model, which fails, answers, or calls tools.
Answer(t) ==
    /\ At(t, "ask")
    /\ \/ Fail(t, "modelError") /\ UNCHANGED <<history, call, calls>>
       \/ /\ history' = Append(history, Assistant(t, round[t], 0))
          /\ GoTo(t, "close")
          /\ UNCHANGED <<call, calls, outcome>>
       \/ \E n \in 1..MaxCalls :
              /\ history' = Append(history, Assistant(t, round[t], n))
              /\ call' = [call EXCEPT ![t] = 1]
              /\ calls' = [calls EXCEPT ![t] = n]
              /\ GoTo(t, "call")
              /\ UNCHANGED outcome
    /\ UNCHANGED <<status, lastError, toolsUsed, kind, session, round, reported, ghosts>>

\* One call: it is listed first, then made.
Call(t) ==
    /\ At(t, "call")
    /\ toolsUsed' = Append(toolsUsed, t)
    /\ GoTo(t, "result")
    /\ UNCHANGED <<status, lastError, history, kind, session, round, call, calls, outcome,
                   reported, ghosts>>

\* Mutant: one round too many.
NextCallOneMore(t) ==
    IF call[t] < calls[t]
    THEN /\ call' = [call EXCEPT ![t] = @ + 1]
         /\ GoTo(t, "call")
         /\ UNCHANGED <<round, outcome>>
    ELSE /\ round' = [round EXCEPT ![t] = @ + 1]
         /\ IF round[t] < MaxIterations
            THEN GoTo(t, "ask") /\ UNCHANGED outcome
            ELSE GoTo(t, "close") /\ outcome' = [outcome EXCEPT ![t] = "limit"]
         /\ UNCHANGED call

\* After the last call of a round the model is asked again, as often as
\* max_iterations allows.
NextCall(t) ==
    IF call[t] < calls[t]
    THEN /\ call' = [call EXCEPT ![t] = @ + 1]
         /\ GoTo(t, "call")
         /\ UNCHANGED <<round, outcome>>
    ELSE /\ round' = [round EXCEPT ![t] = @ + 1]
         /\ IF round[t] + 1 < MaxIterations
            THEN GoTo(t, "ask") /\ UNCHANGED outcome
            ELSE GoTo(t, "close") /\ outcome' = [outcome EXCEPT ![t] = "limit"]
         /\ UNCHANGED call

\* Mutant: a tool that fails leaves no message.
ResultIfAny(t) ==
    /\ At(t, "result")
    /\ NextCall(t)
    /\ history' = IF session[t] THEN Append(history, Tool(t, round[t], call[t])) ELSE history
    /\ UNCHANGED <<status, lastError, toolsUsed, kind, session, calls, reported, ghosts>>

\* _invoke_tool: the result, an error of the tool or the note that there is no
\* Action Plane becomes a message.  Only the end of the session's own tasks,
\* which cancels the call, is no Exception it would catch.
Result(t) ==
    /\ At(t, "result")
    /\ \/ /\ history' = Append(history, Tool(t, round[t], call[t]))
          /\ NextCall(t)
          /\ UNCHANGED cut
       \/ /\ session[t]
          /\ Fail(t, "planeError")
          /\ cut' = TRUE
          /\ UNCHANGED <<history, call, round>>
    /\ UNCHANGED <<status, lastError, toolsUsed, kind, session, calls, reported, overlapped>>

\* The session is closed, which may fail when there is one.
CloseSession(t) ==
    /\ At(t, "close")
    /\ \/ GoTo(t, "report") /\ UNCHANGED outcome
       \/ session[t] /\ Fail(t, "planeError")
    /\ UNCHANGED <<shared, kind, session, round, call, calls, reported, ghosts>>

-----------------------------------------------------------------------------
(* The end of a turn, in send_message.                                     *)

\* The reply is put together, with the tools as they are listed now.
Report(t) ==
    /\ At(t, "report")
    /\ reported' = [reported EXCEPT ![t] = toolsUsed]
    /\ GoTo(t, "finally")
    /\ UNCHANGED <<shared, kind, session, round, call, calls, outcome, ghosts>>

Except(t) ==
    /\ At(t, "except")
    /\ status' = "error"
    /\ lastError' = t
    /\ GoTo(t, "finally")
    /\ UNCHANGED <<history, toolsUsed, kind, session, round, call, calls, outcome, reported, ghosts>>

\* The thread ends, and its locals with it.
Finally(t) ==
    /\ At(t, "finally")
    /\ status' = IF status = "error" THEN "error" ELSE "idle"
    /\ GoTo(t, "done")
    /\ kind' = [kind EXCEPT ![t] = "local"]
    /\ session' = [session EXCEPT ![t] = FALSE]
    /\ round' = [round EXCEPT ![t] = 0]
    /\ call' = [call EXCEPT ![t] = 0]
    /\ calls' = [calls EXCEPT ![t] = 0]
    /\ outcome' = [outcome EXCEPT ![t] = "none"]
    /\ reported' = [reported EXCEPT ![t] = <<>>]
    /\ UNCHANGED <<lastError, history, toolsUsed, ghosts>>

-----------------------------------------------------------------------------
TurnStep(t) ==
    \/ Begin(t) \/ Open(t) \/ ListTools(t) \/ Answer(t) \/ Call(t) \/ Result(t)
    \/ CloseSession(t) \/ Report(t) \/ Except(t) \/ Finally(t)

\* Every message has been sent and answered.
Over == (\A t \in Turns : At(t, "done")) /\ UNCHANGED vars

Next == (\E t \in Turns : Start(t) \/ TurnStep(t)) \/ Over

\* A turn that has started goes on: the model and the Action Plane answer or
\* fail.  Nothing forces a message to be sent.
Fairness == \A t \in Turns : WF_vars(TurnStep(t))

Spec == Init /\ [][Next]_vars /\ Fairness

-----------------------------------------------------------------------------
(* Properties.                                                             *)

Steps == {"new", "begin", "open", "list", "ask", "call", "result", "close", "report",
          "except", "finally", "done"}
Failures == {"modelError", "planeError"}
Messages == [role : {"user", "assistant", "tool"}, turn : Turns,
             round : Nat, calls : Nat]

SharedOK ==
    /\ status \in {"idle", "processing", "error"}
    /\ lastError \in Turns \cup {None}
    /\ history \in Seq(Messages)
    /\ toolsUsed \in Seq(Turns)

LocalsOK ==
    /\ kind \in [Turns -> Kinds]
    /\ session \in [Turns -> BOOLEAN]
    /\ outcome \in [Turns -> {"none", "answer", "limit"} \cup Failures]
    /\ reported \in [Turns -> Seq(Turns)]

\* A turn asks the model in a round below the limit, the first one round 0, and
\* makes a call of its round.
ProgressOK ==
    /\ pc \in [Turns -> Steps]
    /\ round \in [Turns -> 0..MaxIterations]
    /\ call \in [Turns -> 0..MaxCalls]
    /\ calls \in [Turns -> 0..MaxCalls]
    /\ \A t \in Turns :
        /\ pc[t] \in {"new", "begin", "open", "list"} => round[t] = 0
        /\ pc[t] \in {"ask", "call", "result"} => round[t] < MaxIterations
        /\ pc[t] \in {"call", "result"} => call[t] \in 1..calls[t]

\* Types; every turn keeps to its limits.
TypeOK == SharedOK /\ LocalsOK /\ ProgressOK /\ overlapped \in BOOLEAN /\ cut \in BOOLEAN

\* Every assistant message with tool calls is followed by their results, in
\* order, and every result follows its call: what the model's API asks for.
Paired(h) ==
    \A i \in 1..Len(h) :
        /\ h[i].role = "assistant" =>
               \A k \in 1..h[i].calls :
                   i + k <= Len(h) /\ h[i + k] = Tool(h[i].turn, h[i].round, k)
        /\ h[i].role = "tool" =>
               i > h[i].calls /\ h[i - h[i].calls].role = "assistant"

\* The conversation sent to the model is one its API accepts, however the turns
\* before ended: with an answer, at the limit, or with a failure of the model, of
\* a tool or of the Action Plane.  Two things spoil it for good: turns that
\* overlap, and a call that was cut short (respond, _invoke_tool).
RequestsWellFormed ==
    ~overlapped /\ ~cut => \A t \in Turns : pc[t] = "ask" => Paired(history)

\* The reply to a goal lists the calls of this turn, one for each tool message of
\* it in the conversation, and none of another turn (respond, send_message).
ToolsReported ==
    ~overlapped =>
        \A t \in Turns : kind[t] = "goal" /\ pc[t] = "finally" /\ outcome[t] \notin Failures
            => /\ Len(reported[t]) = Cardinality(OwnCalls(t))
               /\ \A i \in 1..Len(reported[t]) : reported[t][i] = t

\* While turns do not overlap, the status shown is that of the turn under way or
\* of the turn that ended last: processing, an error with its cause, or idle
\* (send_message).
StatusTruthful ==
    [][ \A t \in Turns :
          ~overlapped' /\ UnderWay(t) =>
              /\ pc[t] # "finally" => status = "processing"
              /\ pc'[t] = "done" =>
                    IF outcome[t] \in Failures
                    THEN status' = "error" /\ lastError' = t
                    ELSE status' = "idle" ]_vars

\* When no turn is under way any more, the agent does not look busy, however many
\* turns overlapped, failed and overwrote each other's status (send_message).
StatusSettles == (\A t \in Turns : ~UnderWay(t)) => status # "processing"

\* Every turn ends, whatever the model and the tools do (respond).
EveryTurnEnds == \A t \in Turns : UnderWay(t) ~> pc[t] = "done"

\* What the comment on _enter_session says, and the README: the Action Plane is
\* best-effort, and without it the agent still answers a goal from the model.
ActionPlaneNeverFailsTurn ==
    \A t \in Turns : kind[t] = "goal" => outcome[t] # "planeError"
=============================================================================
