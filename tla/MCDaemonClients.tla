-------------------------- MODULE MCDaemonClients ---------------------------
(***************************************************************************)
(* The programs that call the daemon on small instances: two users after   *)
(* one key and one agent, or one user of every program, and two threads,   *)
(* of which one or both may be busy with a request whose client has given  *)
(* up.                                                                     *)
(***************************************************************************)
EXTENDS DaemonClients, TLC

\* Users, types and threads are interchangeable.
Symmetry == Permutations(Users) \cup Permutations(Types) \cup Permutations(Threads)

State == <<daemon, handler, pc, job, dialogue>>

\* For SpawnReported: what excuses a user does so for good, whichever it was, and
\* no action looks at it, nor at a refusal.
Excused == gaveUp \cup unsaved
SpawnView ==
    <<State, Excused, "agents" \in overlap,
      [u \in Users |-> IF told[u] = "refused" /\ u \in Excused THEN "none" ELSE told[u]]>>

\* When all users and the document are excused the property holds for good.
SomethingAtStake == ~(Excused = Users /\ "agents" \in overlap)

\* For ChosenTypeUsed: the one key is excused, for good, or it is not.  For
\* CallsReturn only the programs' steps count; each step changes more than ghosts.
KeysView ==
    <<State, rekeyed = {} /\ "keys" \notin overlap, {u \in Users : told[u] = "spawned"}>>
=============================================================================
