---------------------------- MODULE MCAgentTurn -----------------------------
(***************************************************************************)
(* Two messages to one agent, one after the other or at the same time,     *)
(* with three rounds and up to two tool calls in each.                     *)
(***************************************************************************)
EXTENDS AgentTurn, TLC

\* No action reads the conversation or the tools listed, and once turns have
\* overlapped no property but the types does: from then on states that differ in
\* nothing else count as one.  Each step changes something else too, so this is
\* sound for EveryTurnEnds as well.
View == IF overlapped
        THEN <<status, lastError, pc, kind, session, round, call, calls, outcome>>
        ELSE vars
=============================================================================
