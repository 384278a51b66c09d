--------------------------- MODULE DaemonClients ----------------------------
(***************************************************************************)
(* The programs that call the daemon, each a sequence of requests over     *)
(* sockets of their own (src/src/opengeneral/daemon_client.py,             *)
(* src/tui/src/rpc.rs): the dialogue of `opengeneral spawn' (cli.py),      *)
(* `keys remove', `opengeneral talk' (runner.py) and the terminal UI       *)
(* (src/tui/src/main.rs, app.rs).                                          *)
(*                                                                         *)
(* Of the daemon it has one thread per request (daemon.py), which checks   *)
(* first and acts later, with other threads and programs in between, which *)
(* may fail at any of its steps, and which goes on when its client gives   *)
(* up.  The documents that a thread reads while another writes them are    *)
(* AgentManager's: here such a read is one of the failures.                *)
(***************************************************************************)
EXTENDS Naturals, FiniteSets

CONSTANTS
    Users,        \* each runs one program at a time
    Keys, Types,  \* API keys and their types of provider
    Threads,      \* of the daemon: a bound on the requests under way
    Programs,     \* that users run besides spawn and keys remove: talk, ui
    None

ASSUME ProgramsKnown == Programs \subseteq {"talk", "ui"}
ASSUME NoneIsNoAnswer == None \notin {"ok", "error", "unavailable"}
ASSUME NoneIsNobody == None \notin Users \cup Keys \cup Types

\* Requests; `type' is that of the new key, or the one the user of a spawn chose.
Request(m, k, t) == [method |-> m, key |-> k, type |-> t]
Requests ==
    {Request(m, None, None) : m \in {"list", "message", "wiring"}}
    \cup {Request("remove", k, None) : k \in Keys}
    \cup {Request(m, k, t) : m \in {"add", "spawn"}, k \in Keys, t \in Types}

\* keys.json: the types of the keys it has.
Documents == [Keys -> Types \cup {None}]

\* A call of a program, and the thread that serves it.
Jobs == [req : Requests, answer : {"ok", "error", "unavailable", None}]
Handlers == [user : Users, req : Requests, listens : BOOLEAN,
             stage : {"sent", "checked", "written", "installed"},
             read : Documents \cup {None}]

\* What a spawn leaves: its user, key, the type its user chose, and whether the
\* key had that type when the agent was started.
Agents == [by : Users, key : Keys, chosen : Types, asChosen : BOOLEAN]

ASSUME NoneIsNoRecord == None \notin Jobs \cup Handlers \cup Agents \cup Documents

VARIABLES
    up,        \* the daemon answers
    keys,      \* keys.json
    agent,     \* the running agent of the name the dialogues give, or None
    stored,    \* the agent of that name in agents.json, or None
    handler,   \* what each thread serves, or None
    pc,        \* where the program of each user is
    job,       \* the request it waits for, and the answer when there is one
    want,      \* the type the user chose
    choices,   \* the keys the dialogue offers
    told,      \* what the user's last spawn reported: spawned, refused or neither
    \* Ghosts, read by properties only:
    gaveUp,    \* users who gave up a spawn, or lost the answer to one
    unsaved,   \* users whose spawn failed when the agent was already running
    rekeyed,   \* keys that were removed
    overlap    \* documents two requests were changing at the same time

daemon == <<up, keys, agent, stored>>
dialogue == <<want, choices>>
ghosts == <<unsaved, rekeyed, overlap>>
vars == <<daemon, handler, pc, job, dialogue, told, gaveUp, ghosts>>

At(u, step) == pc[u] = step
GoTo(u, step) == pc' = [pc EXCEPT ![u] = step]

Init ==
    /\ up \in BOOLEAN
    /\ keys = [k \in Keys |-> None]
    /\ agent = None /\ stored = None
    /\ handler = [h \in Threads |-> None]
    /\ pc = [u \in Users |-> "shell"]
    /\ job = [u \in Users |-> None]
    /\ want = [u \in Users |-> None]
    /\ choices = [u \in Users |-> {}]
    /\ told = [u \in Users |-> "none"]
    /\ gaveUp = {} /\ unsaved = {} /\ rekeyed = {} /\ overlap = {}

-----------------------------------------------------------------------------
(* request().                                                              *)

Job(r, answer) == [req |-> r, answer |-> answer]
Accepted(u, r) ==
    [user |-> u, req |-> r, listens |-> TRUE, stage |-> "sent", read |-> None]

Free == {h \in Threads : handler[h] = None}

\* Connect and send the line; a daemon that is down refuses the connection.  The
\* bound: with no thread left the request waits for its time-out.
Send(u, r) ==
    /\ job' = [job EXCEPT ![u] = Job(r, IF up THEN None ELSE "unavailable")]
    /\ IF up /\ Free # {}
       THEN \E h \in Free : handler' = [handler EXCEPT ![h] = Accepted(u, r)]
       ELSE UNCHANGED handler

\* A call from step `from' of a program, which waits at step `to'.
Call(u, from, to, r) ==
    /\ At(u, from) /\ job[u] = None
    /\ GoTo(u, to)
    /\ Send(u, r)
    /\ UNCHANGED <<daemon, gaveUp, ghosts>>

\* The line that was read: a result, an error of the daemon, or no line at all.
Answer(u) == job[u].answer

Waits(u) == job[u] # None /\ job[u].answer = None
Answered(u, at) == At(u, at) /\ job[u] # None /\ job[u].answer # None

\* The call returns to the program, which goes on by what it got.
Returns(u, at, next) ==
    /\ Answered(u, at)
    /\ job' = [job EXCEPT ![u] = None]
    /\ GoTo(u, next)
    /\ UNCHANGED <<daemon, handler, gaveUp, ghosts>>

\* A call that is given up: the thread goes on without its client.  One that only
\* reads is of no further interest.
Served(u) == {h \in Threads : handler[h] # None /\ handler[h].user = u /\ handler[h].listens}
Abandon(u) ==
    /\ handler' = [h \in Threads |->
           IF h \notin Served(u) THEN handler[h]
           ELSE IF handler[h].req.method \in {"list", "message", "wiring"} THEN None
           ELSE [handler[h] EXCEPT !.listens = FALSE]]
    /\ gaveUp' = IF job[u].req.method = "spawn" THEN gaveUp \cup {u} ELSE gaveUp

\* Mutant: the read of an agent's turn is not bounded.
TimeOutButTurns(u) ==
    /\ Waits(u) /\ job[u].req.method # "message"
    /\ Abandon(u)
    /\ job' = [job EXCEPT ![u] = Job(job[u].req, "unavailable")]
    /\ UNCHANGED <<daemon, pc, dialogue, told, ghosts>>

\* The read times out.  The program is told what it is told of a daemon that is
\* down.
TimeOut(u) ==
    /\ Waits(u)
    /\ Abandon(u)
    /\ job' = [job EXCEPT ![u] = Job(job[u].req, "unavailable")]
    /\ UNCHANGED <<daemon, pc, dialogue, told, ghosts>>

-----------------------------------------------------------------------------
(* opengeneral spawn, without --key.                                       *)

Over(u, how) ==
    /\ told' = [told EXCEPT ![u] = how]
    /\ want' = [want EXCEPT ![u] = None]
    /\ choices' = [choices EXCEPT ![u] = {}]

\* choose_provider_type, then list_keys.  A user who has the agent does not ask
\* for it again.
ChooseType(u, t) ==
    /\ told[u] # "spawned"
    /\ Call(u, "shell", "listing", Request("list", None, None))
    /\ want' = [want EXCEPT ![u] = t]
    /\ told' = [told EXCEPT ![u] = "none"]
    /\ UNCHANGED choices

\* Mutant: choose_key offers the keys of every type.
CandidatesOfAllTypes(t) == {k \in Keys : keys[k] # None}

Candidates(t) == {k \in Keys : keys[k] = t}

\* choose_key shows the keys the daemon had when it answered.
Offer(u) ==
    /\ Answered(u, "listing")
    /\ \/ Answer(u) = "ok" /\ Returns(u, "listing", "choosing") /\ UNCHANGED <<dialogue, told>>
       \/ Answer(u) # "ok" /\ Returns(u, "listing", "shell") /\ Over(u, "none")

\* One of them is chosen and, after the prompt for the model, spawned with.
ChooseKey(u, k) ==
    /\ k \in choices[u]
    /\ Call(u, "choosing", "spawning", Request("spawn", k, want[u]))
    /\ UNCHANGED <<dialogue, told>>

\* add_key_interactively.
AddKey(u, k) ==
    /\ Call(u, "choosing", "adding", Request("add", k, want[u]))
    /\ UNCHANGED <<dialogue, told>>

\* A blank or unknown choice ends the dialogue.
Decline(u) ==
    /\ At(u, "choosing")
    /\ GoTo(u, "shell")
    /\ Over(u, "none")
    /\ UNCHANGED <<daemon, handler, job, gaveUp, ghosts>>

\* A key that was added is spawned with.
Added(u) ==
    /\ Answered(u, "adding")
    /\ \/ /\ Answer(u) = "ok"
          /\ GoTo(u, "spawning")
          /\ Send(u, Request("spawn", job[u].req.key, want[u]))
          /\ UNCHANGED <<daemon, gaveUp, ghosts, dialogue, told>>
       \/ Answer(u) # "ok" /\ Returns(u, "adding", "shell") /\ Over(u, "none")

Spawned(u) ==
    /\ Returns(u, "spawning", "shell")
    /\ Over(u, CASE Answer(u) = "ok" -> "spawned" [] Answer(u) = "error" -> "refused"
                 [] OTHER -> "none")

\* keys remove.
RemoveKey(u, k) ==
    /\ Call(u, "shell", "removing", Request("remove", k, None))
    /\ UNCHANGED <<dialogue, told>>

Removed(u) == Returns(u, "removing", "shell") /\ UNCHANGED <<dialogue, told>>

-----------------------------------------------------------------------------
(* opengeneral talk, and the terminal UI.                                  *)

Message == Request("message", None, None)

Open(u, program) ==
    /\ At(u, "shell") /\ up
    /\ GoTo(u, program)
    /\ UNCHANGED <<daemon, handler, job, dialogue, told, gaveUp, ghosts>>

\* chat: a line is sent, and its answer awaited.  An error ends the program.
Talk(u) == Call(u, "talk", "talking", Message) /\ UNCHANGED <<dialogue, told>>

TalkReply(u) ==
    /\ Answered(u, "talking")
    /\ Returns(u, "talking", IF Answer(u) = "ok" THEN "talk" ELSE "shell")
    /\ UNCHANGED <<dialogue, told>>

\* submit: the UI is busy from now until the worker thread hands its result back.
Submit(u) == Call(u, "ui", "thinking", Message) /\ UNCHANGED <<dialogue, told>>

\* The worker fetches the wiring after a reply, whose failure it ignores.
UiReply(u) ==
    /\ \/ /\ Answered(u, "thinking") /\ Answer(u) = "ok"
          /\ GoTo(u, "wiring")
          /\ Send(u, Request("wiring", None, None))
          /\ UNCHANGED <<daemon, gaveUp, ghosts>>
       \/ Answered(u, "thinking") /\ Answer(u) # "ok" /\ Returns(u, "thinking", "ui")
       \/ Returns(u, "wiring", "ui")
    /\ UNCHANGED <<dialogue, told>>

\* Mutant: what was asked last is still awaited after the program has ended.
LeaveWaiting(u) ==
    /\ pc[u] # "shell"
    /\ GoTo(u, "shell")
    /\ UNCHANGED <<daemon, handler, job, dialogue, told, gaveUp, ghosts>>

\* /exit, the end of the input, Esc, Ctrl-C: in the middle of a call as well.
Leave(u) ==
    /\ pc[u] # "shell"
    /\ GoTo(u, "shell")
    /\ IF job[u] # None THEN Abandon(u) ELSE UNCHANGED <<handler, gaveUp>>
    /\ job' = [job EXCEPT ![u] = None]
    /\ want' = [want EXCEPT ![u] = None]
    /\ choices' = [choices EXCEPT ![u] = {}]
    /\ UNCHANGED <<daemon, told, ghosts>>

-----------------------------------------------------------------------------
(* The threads of the daemon.                                              *)

Serves(h, method, stage) ==
    handler[h] # None /\ handler[h].req.method = method /\ handler[h].stage = stage

\* The answer is written, and read if the client is still there.
Finish(h, answer) ==
    /\ handler' = [handler EXCEPT ![h] = None]
    /\ job' = IF handler[h].listens
              THEN [job EXCEPT ![handler[h].user].answer = answer] ELSE job

\* list_keys; a turn and agent.wiring change nothing here.
Look(h) ==
    /\ \E m \in {"list", "message", "wiring"} : Serves(h, m, "sent")
    /\ Finish(h, "ok")
    /\ choices' = IF handler[h].req.method = "list"
                  THEN [choices EXCEPT ![handler[h].user] = Candidates(want[handler[h].user])]
                  ELSE choices
    /\ UNCHANGED <<daemon, pc, want, told, gaveUp, ghosts>>

\* Mutant: the name of a spawn is not checked.
RefusesNoName(r) ==
    CASE r.method = "add"    -> keys[r.key] # None
      [] r.method = "remove" -> keys[r.key] = None
      [] r.method = "spawn"  -> FALSE

\* Why add_key, remove_key and spawn refuse a request.
Refuses(r) ==
    CASE r.method = "add"    -> keys[r.key] # None
      [] r.method = "remove" -> keys[r.key] = None
      [] r.method = "spawn"  -> agent # None \/ stored # None

File(r) == IF r.method = "spawn" THEN "agents" ELSE "keys"

\* A request that has read its document and not written it yet.
Changing(h, file) ==
    /\ handler[h] # None /\ handler[h].stage \in {"checked", "installed"}
    /\ File(handler[h].req) = file

\* The document is read, and the request not refused.
Check(h) ==
    /\ \E m \in {"add", "remove", "spawn"} : Serves(h, m, "sent")
    /\ ~Refuses(handler[h].req)
    /\ handler' = [handler EXCEPT ![h].stage = "checked",
                                  ![h].read = IF handler[h].req.method = "spawn" THEN None ELSE keys]
    /\ overlap' = overlap \cup {f \in {File(handler[h].req)} : \E g \in Threads : Changing(g, f)}
    /\ UNCHANGED <<daemon, pc, job, dialogue, told, gaveUp, unsaved, rekeyed>>

\* keys.json is written as it was read, with the change.
WriteKeys(h) ==
    /\ Serves(h, "add", "checked") \/ Serves(h, "remove", "checked")
    /\ keys' = [handler[h].read EXCEPT ![handler[h].req.key] = handler[h].req.type]
    /\ handler' = [handler EXCEPT ![h].stage = "written", ![h].read = None]
    /\ rekeyed' = IF handler[h].req.method = "remove" THEN rekeyed \cup {handler[h].req.key}
                  ELSE rekeyed
    /\ UNCHANGED <<up, agent, stored, pc, job, dialogue, told, gaveUp, unsaved, overlap>>

\* set_secret, delete_secret.
StoreSecret(h) ==
    /\ Serves(h, "add", "written") \/ Serves(h, "remove", "written")
    /\ Finish(h, "ok")
    /\ UNCHANGED <<daemon, pc, dialogue, told, gaveUp, ghosts>>

\* _start, which gets the agent's key from keys.json: for a new agent, and for
\* the stored one of a daemon that comes back.
Started(by, key, chosen) ==
    [by |-> by, key |-> key, chosen |-> chosen, asChosen |-> keys[key] = chosen]

Install(h) ==
    /\ Serves(h, "spawn", "checked")
    /\ keys[handler[h].req.key] # None
    /\ agent' = Started(handler[h].user, handler[h].req.key, handler[h].req.type)
    /\ handler' = [handler EXCEPT ![h].stage = "installed"]
    /\ UNCHANGED <<up, keys, stored, pc, job, dialogue, told, gaveUp, ghosts>>

\* agents.json is written, with what this spawn was given.
Save(h) ==
    /\ Serves(h, "spawn", "installed")
    /\ stored' = Started(handler[h].user, handler[h].req.key, handler[h].req.type)
    /\ Finish(h, "ok")
    /\ UNCHANGED <<up, keys, agent, pc, dialogue, told, gaveUp, ghosts>>

\* A request is refused, or any of its steps raises; what it did before stays.
Fail(h) ==
    /\ handler[h] # None
    /\ Finish(h, "error")
    /\ unsaved' = IF handler[h].stage = "installed" THEN unsaved \cup {handler[h].user} ELSE unsaved
    /\ UNCHANGED <<daemon, pc, dialogue, told, gaveUp, rekeyed, overlap>>

-----------------------------------------------------------------------------
(* The daemon ends and comes back.                                         *)

\* The connections are closed and the threads gone, and so may be answers that
\* were not read yet.
Down ==
    /\ up
    /\ up' = FALSE
    /\ agent' = None
    /\ handler' = [h \in Threads |-> None]
    /\ \E lost \in SUBSET {u \in Users : job[u] # None} :
           /\ {u \in Users : Waits(u)} \subseteq lost
           /\ job' = [u \in Users |->
                         IF u \in lost THEN Job(job[u].req, "unavailable") ELSE job[u]]
           /\ gaveUp' = gaveUp \cup {u \in lost : ~Waits(u) /\ job[u].req.method = "spawn"}
    /\ UNCHANGED <<keys, stored, pc, dialogue, told, ghosts>>

\* load_existing starts the stored agent, for which it needs the key.
Up ==
    /\ ~up
    /\ up' = TRUE
    /\ IF stored = None THEN agent' = None
       ELSE /\ keys[stored.key] # None
            /\ agent' = Started(stored.by, stored.key, stored.chosen)
    /\ UNCHANGED <<keys, stored, handler, pc, job, dialogue, told, gaveUp, ghosts>>

-----------------------------------------------------------------------------
Choices(u) ==
    \/ \E t \in Types : ChooseType(u, t)
    \/ \E k \in Keys : ChooseKey(u, k) \/ AddKey(u, k) \/ RemoveKey(u, k)
    \/ Decline(u) \/ Talk(u) \/ Submit(u) \/ Leave(u)
    \/ \E program \in Programs : Open(u, program)

Continue(u) ==
    Offer(u) \/ Added(u) \/ Spawned(u) \/ Removed(u) \/ TalkReply(u) \/ UiReply(u)

Serve(h) ==
    Look(h) \/ Check(h) \/ WriteKeys(h) \/ StoreSecret(h) \/ Install(h) \/ Save(h) \/ Fail(h)

Next ==
    \/ \E u \in Users : Choices(u) \/ Continue(u) \/ TimeOut(u)
    \/ \E h \in Threads : Serve(h)
    \/ Down \/ Up

Spec == Init /\ [][Next]_vars

\* The reads of a client time out (daemon_client.py, rpc.rs), and a program goes
\* on when its call has returned.  Nothing is asked of the daemon.
Fairness == \A u \in Users : WF_vars(TimeOut(u)) /\ WF_vars(Continue(u))
FairSpec == Spec /\ Fairness

-----------------------------------------------------------------------------
(* Properties.                                                             *)

Waiting == {"listing", "adding", "spawning", "removing", "talking", "thinking", "wiring"}

\* Types; a program waits for a request exactly at the steps that call the daemon.
TypeOK ==
    /\ up \in BOOLEAN
    /\ keys \in Documents
    /\ agent \in Agents \cup {None} /\ stored \in Agents \cup {None}
    /\ handler \in [Threads -> Handlers \cup {None}]
    /\ pc \in [Users -> Waiting \cup {"shell", "choosing", "talk", "ui"}]
    /\ job \in [Users -> Jobs \cup {None}]
    /\ \A u \in Users : job[u] # None <=> pc[u] \in Waiting
    /\ want \in [Users -> Types \cup {None}]
    /\ choices \in [Users -> SUBSET Keys]
    /\ told \in [Users -> {"none", "spawned", "refused"}]
    /\ gaveUp \subseteq Users /\ unsaved \subseteq Users
    /\ rekeyed \subseteq Keys /\ overlap \subseteq {"agents", "keys"}

Owns(u, a) == a # None /\ a.by = u

\* A user who was told that the agent is spawned has it, running and stored, also
\* after the daemon has ended and come back, unless two spawns of the name were
\* under way at the same time.  One who was refused does not have it, unless an
\* earlier spawn was given up or its agent could not be stored, whatever other
\* dialogues do (request, start_agent, AgentManager.spawn).
SpawnReported ==
    \A u \in Users :
        /\ told[u] = "spawned" /\ "agents" \notin overlap =>
               Owns(u, stored) /\ (up => Owns(u, agent))
        /\ told[u] = "refused" /\ u \notin gaveUp \cup unsaved =>
               ~Owns(u, stored) /\ ~Owns(u, agent)

\* An agent runs with a key of the type its user chose, although the dialogue
\* looks at the keys long before it spawns, and a restart looks again.  Only a key
\* that was removed in between, or a change of keys.json that overlapped with
\* another, can give it one of another type (choose_key, CLI.md on spawn).
ChosenTypeUsed ==
    agent # None => agent.asChosen \/ agent.key \in rekeyed \/ "keys" \in overlap

\* Every call ends, and with it the UI is no longer busy, whether the daemon
\* answers, hangs in a turn, ends or never comes back (request in
\* daemon_client.py and rpc.rs, submit and apply of the UI).
CallsReturn == \A u \in Users : pc[u] \in Waiting ~> pc[u] \notin Waiting
=============================================================================
