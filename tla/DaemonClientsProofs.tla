------------------------ MODULE DaemonClientsProofs -------------------------
(***************************************************************************)
(* Theorems about DaemonClients, for any number of users, keys, types and  *)
(* threads.                                                                *)
(***************************************************************************)
EXTENDS DaemonClients, TLAPS

-----------------------------------------------------------------------------
(* The inductive invariant.                                                *)

Dialogue == {"listing", "choosing", "adding", "spawning"}
Looks == {"list", "message", "wiring"}

\* A program waits at the steps that call the daemon, for the request it made there.
Awaits(u) ==
    /\ job[u] # None <=> pc[u] \in Waiting
    /\ pc[u] = "listing"  => job[u].req = Request("list", None, None)
    /\ pc[u] = "adding"   => job[u].req.method = "add" /\ job[u].req.type = want[u]
    /\ pc[u] = "spawning" => job[u].req.method = "spawn" /\ job[u].req.type = want[u]
    /\ pc[u] = "removing" => job[u].req.method = "remove"
    /\ pc[u] \in {"talking", "thinking"} => job[u].req = Message
    /\ pc[u] = "wiring"   => job[u].req = Request("wiring", None, None)

\* In the dialogue a type has been chosen, and nothing reported; outside of it
\* no keys are offered.
InDialogue(u) ==
    IF pc[u] \in Dialogue THEN want[u] \in Types /\ told[u] = "none" ELSE choices[u] = {}

AnsweredOk(u, at) == pc[u] = at /\ job[u].answer = "ok"

\* A key that once had the type has it, or one of the excuses.
HasHad(k, t) == keys[k] = t \/ k \in rekeyed \/ "keys" \in overlap

\* The keys a dialogue deals with have, or had, the type its user chose.
KeysKnown(u) ==
    /\ \A k \in choices[u] : HasHad(k, want[u])
    /\ AnsweredOk(u, "adding") => HasHad(job[u].req.key, want[u])

\* The agent of a spawn of the user is running and not stored yet.
Saving(u) ==
    \E h \in Threads : Serves(h, "spawn", "installed") /\ handler[h].user = u

Reported(u) == told[u] = "spawned" \/ AnsweredOk(u, "spawning")

\* A spawn that was reported, or will be when its answer is read, left the agent;
\* and, unless there is an excuse, only such a one did.
Claims(u) ==
    /\ Reported(u) /\ "agents" \notin overlap => Owns(u, stored) /\ (up => Owns(u, agent))
    /\ u \notin gaveUp \cup unsaved /\ Owns(u, stored) => Reported(u)
    /\ u \notin gaveUp \cup unsaved /\ Owns(u, agent) => Reported(u) \/ Saving(u)

\* A program waits for the one thread that will answer it.
ServedInv(u) ==
    \A h \in Served(u) : /\ Waits(u) /\ job[u].req = handler[h].req
                         /\ \A g \in Served(u) : g = h

UserInv(u) == Awaits(u) /\ InDialogue(u) /\ KeysKnown(u) /\ Claims(u)

\* What a thread does, and what it knows of keys.json and of the agent.
ThreadInv(h) ==
    handler[h] # None =>
        /\ up
        /\ handler[h].stage = "written" => handler[h].req.method \in {"add", "remove"}
        /\ handler[h].stage = "installed" => handler[h].req.method = "spawn"
        /\ handler[h].req.method \in Looks => handler[h].listens
        /\ handler[h].req.method = "spawn" =>
               /\ HasHad(handler[h].req.key, handler[h].req.type)
               /\ handler[h].listens \/ handler[h].user \in gaveUp

KeysThread(h) ==
    /\ Serves(h, "add", "checked") \/ Serves(h, "remove", "checked") =>
           /\ handler[h].read \in Documents
           /\ "keys" \in overlap \/ handler[h].read = keys
    /\ Serves(h, "add", "checked") => "keys" \in overlap \/ keys[handler[h].req.key] = None
    /\ Serves(h, "add", "written") => HasHad(handler[h].req.key, handler[h].req.type)

AgentThread(h) ==
    /\ Serves(h, "spawn", "checked") /\ "agents" \notin overlap => agent = None /\ stored = None
    /\ Serves(h, "spawn", "installed") /\ "agents" \notin overlap =>
           Owns(handler[h].user, agent) /\ stored = None

\* Unless it is an excuse, no two threads are changing a document.
Exclusive ==
    \A f \in {"agents", "keys"} : f \notin overlap =>
        \A g, h \in Threads : Changing(g, f) /\ Changing(h, f) => g = h

ThreadsInv ==
    /\ \A h \in Threads : ThreadInv(h) /\ KeysThread(h) /\ AgentThread(h)
    /\ Exclusive

DaemonTypes ==
    /\ up \in BOOLEAN
    /\ keys \in Documents
    /\ agent \in Agents \cup {None} /\ stored \in Agents \cup {None}
    /\ handler \in [Threads -> Handlers \cup {None}]

UserTypes ==
    /\ pc \in [Users -> Waiting \cup {"shell", "choosing", "talk", "ui"}]
    /\ job \in [Users -> Jobs \cup {None}]
    /\ want \in [Users -> Types \cup {None}]
    /\ choices \in [Users -> SUBSET Keys]
    /\ told \in [Users -> {"none", "spawned", "refused"}]

GhostTypes ==
    /\ gaveUp \subseteq Users /\ unsaved \subseteq Users
    /\ rekeyed \subseteq Keys /\ overlap \subseteq {"agents", "keys"}

StoredKnown == stored # None => HasHad(stored.key, stored.chosen)

ClientsInv ==
    /\ DaemonTypes /\ UserTypes /\ GhostTypes
    /\ \A u \in Users : UserInv(u) /\ ServedInv(u)
    /\ ThreadsInv
    /\ ChosenTypeUsed /\ StoredKnown

\* Init establishes the invariant, with the daemon up or down.
LEMMA ClientsInit == Init => ClientsInv
  <1> SUFFICES ASSUME Init PROVE ClientsInv
      OBVIOUS
  <1> USE NoneIsNobody, NoneIsNoRecord DEF Init
  <1>1. DaemonTypes /\ UserTypes /\ GhostTypes
      BY DEF DaemonTypes, UserTypes, GhostTypes, Documents
  <1>2. ASSUME NEW u \in Users PROVE UserInv(u) /\ ServedInv(u)
    <2>1. Awaits(u) /\ InDialogue(u)
        BY DEF Awaits, InDialogue, Waiting, Dialogue
    <2>2. KeysKnown(u) /\ Claims(u)
        BY DEF KeysKnown, Claims, AnsweredOk, Reported, Owns
    <2>3. ServedInv(u)
        BY DEF ServedInv, Served
    <2> QED  BY <2>1, <2>2, <2>3 DEF UserInv
  <1>3. ThreadsInv
    <2>1. \A h \in Threads : ThreadInv(h) /\ KeysThread(h) /\ AgentThread(h)
        BY DEF ThreadInv, KeysThread, AgentThread, Serves
    <2>2. Exclusive
        BY DEF Exclusive, Changing
    <2> QED  BY <2>1, <2>2 DEF ThreadsInv
  <1> QED  BY <1>1, <1>2, <1>3 DEF ClientsInv, ChosenTypeUsed, StoredKnown

-----------------------------------------------------------------------------
(* Requests, calls and threads.                                            *)

\* What the programs ask for is a request, and its method tells it apart.
LEMMA RequestTypes ==
    /\ \A m \in {"list", "message", "wiring"} : Request(m, None, None) \in Requests
    /\ Message \in Requests
    /\ \A k \in Keys : Request("remove", k, None) \in Requests
    /\ \A m \in {"add", "spawn"}, k \in Keys, t \in Types : Request(m, k, t) \in Requests
    /\ \A m, k, t : /\ Request(m, k, t).method = m
                    /\ Request(m, k, t).key = k
                    /\ Request(m, k, t).type = t
    /\ Message.method = "message"
  <1>1. \A m \in {"list", "message", "wiring"} : Request(m, None, None) \in Requests
      BY DEF Requests
  <1>2. \A k \in Keys : Request("remove", k, None) \in Requests
      BY DEF Requests
  <1>3. \A m \in {"add", "spawn"}, k \in Keys, t \in Types : Request(m, k, t) \in Requests
      BY DEF Requests
  <1>4. \A m, k, t : /\ Request(m, k, t).method = m
                     /\ Request(m, k, t).key = k
                     /\ Request(m, k, t).type = t
      BY DEF Request
  <1> QED  BY <1>1, <1>2, <1>3, <1>4 DEF Message

\* A request that adds, removes or spawns names a key; all but the second, a type.
LEMMA RequestFields ==
    ASSUME NEW r \in Requests
    PROVE  /\ r.method \in {"list", "message", "wiring", "remove", "add", "spawn"}
           /\ r.method \in {"remove", "add", "spawn"} => r.key \in Keys
           /\ r.method \in {"add", "spawn"} => r.type \in Types
           /\ r.method = "remove" => r.type = None
  BY DEF Requests, Request

LEMMA JobTypes ==
    ASSUME NEW r \in Requests, NEW answer \in {"ok", "error", "unavailable", None}
    PROVE  /\ Job(r, answer) \in Jobs /\ Job(r, answer) # None
           /\ Job(r, answer).req = r /\ Job(r, answer).answer = answer
  BY NoneIsNoRecord DEF Job, Jobs

LEMMA JobFields ==
    ASSUME NEW j \in Jobs
    PROVE  /\ j.req \in Requests /\ j # None
           /\ j.answer \in {"ok", "error", "unavailable", None}
  BY NoneIsNoRecord DEF Jobs

LEMMA HandlerFields ==
    ASSUME NEW t \in Handlers
    PROVE  /\ t # None /\ t.user \in Users /\ t.req \in Requests /\ t.listens \in BOOLEAN
           /\ t.stage \in {"sent", "checked", "written", "installed"}
           /\ t.read \in Documents \cup {None}
  BY NoneIsNoRecord DEF Handlers

LEMMA AcceptedTypes ==
    ASSUME NEW u \in Users, NEW r \in Requests
    PROVE  /\ Accepted(u, r) \in Handlers /\ Accepted(u, r) # None
           /\ Accepted(u, r).user = u /\ Accepted(u, r).req = r
           /\ Accepted(u, r).listens /\ Accepted(u, r).stage = "sent"
  <1>1. Accepted(u, r) \in Handlers
      BY DEF Accepted, Handlers
  <1> QED  BY <1>1, NoneIsNoRecord DEF Accepted

LEMMA StartedTypes ==
    ASSUME NEW u \in Users, NEW k \in Keys, NEW t \in Types
    PROVE  /\ Started(u, k, t) \in Agents /\ Started(u, k, t) # None
           /\ Started(u, k, t).by = u /\ Started(u, k, t).key = k
           /\ Started(u, k, t).chosen = t /\ (Started(u, k, t).asChosen <=> keys[k] = t)
  <1>1. Started(u, k, t) \in Agents
    <2>1. (keys[k] = t) \in BOOLEAN
        OBVIOUS
    <2> QED  BY <2>1 DEF Started, Agents
  <1> QED  BY <1>1, NoneIsNoRecord DEF Started

-----------------------------------------------------------------------------
(* What a step of a program has to show.                                   *)

\* It leaves the other programs where they are.
LEMMA ProgramStep ==
    ASSUME ClientsInv, NEW u \in Users, UserTypes', UNCHANGED <<daemon, ghosts>>,
           handler' \in [Threads -> Handlers \cup {None}],
           gaveUp \subseteq gaveUp', gaveUp' \subseteq Users,
           \A d \in Users \ {u} :
               /\ pc'[d] = pc[d] /\ job'[d] = job[d] /\ want'[d] = want[d]
               /\ choices'[d] = choices[d] /\ told'[d] = told[d],
           \A d \in Users : Saving(d) => Saving(d)',
           ThreadsInv', \A d \in Users : ServedInv(d)', UserInv(u)'
    PROVE  ClientsInv'
  <1>1. DaemonTypes' /\ GhostTypes' /\ ChosenTypeUsed' /\ StoredKnown'
      BY DEF ClientsInv, DaemonTypes, GhostTypes, ChosenTypeUsed, StoredKnown, HasHad, daemon, ghosts
  <1>2. ASSUME NEW d \in Users \ {u} PROVE UserInv(d)'
    <2>1. UserInv(d) /\ d \in Users
        BY DEF ClientsInv
    <2>2. Awaits(d)' /\ InDialogue(d)'
        BY <2>1 DEF UserInv, Awaits, InDialogue
    <2>3. KeysKnown(d)'
        BY <2>1 DEF UserInv, KeysKnown, HasHad, AnsweredOk, daemon, ghosts
    <2>4. Claims(d)'
        BY <2>1 DEF UserInv, Claims, Reported, Owns, AnsweredOk, daemon, ghosts
    <2> QED  BY <2>2, <2>3, <2>4 DEF UserInv
  <1> QED  BY <1>1, <1>2 DEF ClientsInv

\* A program that does not wait, and calls nothing, leaves the threads alone.
LEMMA QuietStep ==
    ASSUME ClientsInv, NEW u \in Users, UserTypes', ~Waits(u),
           UNCHANGED <<daemon, handler, gaveUp, ghosts>>,
           \A d \in Users \ {u} :
               /\ pc'[d] = pc[d] /\ job'[d] = job[d] /\ want'[d] = want[d]
               /\ choices'[d] = choices[d] /\ told'[d] = told[d],
           (Saving(u) <=> Saving(u)') => UserInv(u)'
    PROVE  ClientsInv'
  <1>1. \A d \in Users : Saving(d) <=> Saving(d)'
      BY DEF Saving, Serves
  <1>2. ThreadsInv'
    <2>1. \A h \in Threads : ThreadInv(h)' /\ KeysThread(h)' /\ AgentThread(h)'
        BY DEF ClientsInv, ThreadsInv, ThreadInv, KeysThread, AgentThread, Serves, HasHad, Owns,
           daemon, ghosts
    <2>2. Exclusive'
        BY DEF ClientsInv, ThreadsInv, Exclusive, Changing, ghosts
    <2> QED  BY <2>1, <2>2 DEF ThreadsInv
  <1>3. \A d \in Users : ServedInv(d)'
    <2>1. Served(u) = {}
        BY DEF ClientsInv, ServedInv
    <2>2. \A d \in Users : Served(d)' = Served(d)
        BY DEF Served
    <2>3. ASSUME NEW d \in Users \ {u} PROVE ServedInv(d)'
        BY <2>2 DEF ClientsInv, ServedInv, Waits
    <2> QED  BY <2>1, <2>2, <2>3 DEF ServedInv
  <1>4. UserInv(u)'
      BY <1>1
  <1>5. handler' \in [Threads -> Handlers \cup {None}] /\ gaveUp' \subseteq Users
      BY DEF ClientsInv, DaemonTypes, GhostTypes
  <1> QED  BY <1>1, <1>2, <1>3, <1>4, <1>5, ProgramStep

\* A call: a thread that was free has it, and knows of a spawn that its key is, or
\* was, of the type the user chose.
LEMMA SendThreads ==
    ASSUME ClientsInv, NEW u \in Users, NEW r \in Requests, Send(u, r), ~Waits(u),
           UNCHANGED <<daemon, gaveUp, ghosts>>,
           r.method = "spawn" => HasHad(r.key, r.type)
    PROVE  /\ handler' \in [Threads -> Handlers \cup {None}]
           /\ job' \in [Users -> Jobs \cup {None}] /\ job'[u] # None
           /\ job'[u].req = r /\ job'[u].answer # "ok"
           /\ \A d \in Users \ {u} : job'[d] = job[d]
           /\ ThreadsInv'
           /\ \A d \in Users : ServedInv(d)'
           /\ \A d \in Users : Saving(d) <=> Saving(d)'
  <1>1. UserTypes /\ DaemonTypes /\ ThreadsInv
      BY DEF ClientsInv
  <1>2. /\ job' \in [Users -> Jobs \cup {None}] /\ job'[u] # None
        /\ job'[u].req = r /\ job'[u].answer = IF up THEN None ELSE "unavailable"
        /\ \A d \in Users \ {u} : job'[d] = job[d]
      BY <1>1, JobTypes DEF UserTypes, Send
  <1>3. None # "ok"
      BY NoneIsNoAnswer
  <1>4. CASE UNCHANGED handler
    <2>1. Served(u) = {} /\ \A d \in Users : Served(d)' = Served(d)
        BY <1>4 DEF ClientsInv, ServedInv, Served
    <2>2. \A d \in Users : ServedInv(d)'
      <3>1. ASSUME NEW d \in Users \ {u} PROVE ServedInv(d)'
          BY <1>2, <1>4, <2>1 DEF ClientsInv, ServedInv, Waits
      <3> QED  BY <2>1, <3>1 DEF ServedInv
    <2>3. ThreadsInv'
      <3>1. \A h \in Threads : ThreadInv(h)' /\ KeysThread(h)' /\ AgentThread(h)'
          BY <1>1, <1>4 DEF ThreadsInv, ThreadInv, KeysThread, AgentThread, Serves, HasHad, Owns,
             daemon, ghosts
      <3>2. Exclusive'
          BY <1>1, <1>4 DEF ThreadsInv, Exclusive, Changing, ghosts
      <3> QED  BY <3>1, <3>2 DEF ThreadsInv
    <2>4. \A d \in Users : Saving(d) <=> Saving(d)'
        BY <1>4 DEF Saving, Serves
    <2> QED  BY <1>1, <1>2, <1>3, <1>4, <2>2, <2>3, <2>4 DEF DaemonTypes
  <1>5. CASE up /\ handler' # handler
    <2>1. PICK h \in Free : handler' = [handler EXCEPT ![h] = Accepted(u, r)]
        BY <1>5 DEF Send
    <2>2. h \in Threads /\ handler[h] = None
        BY <2>1 DEF Free
    <2>3. /\ handler' \in [Threads -> Handlers \cup {None}]
          /\ handler'[h] # None /\ handler'[h].user = u /\ handler'[h].req = r
          /\ handler'[h].listens /\ handler'[h].stage = "sent"
          /\ \A g \in Threads \ {h} : handler'[g] = handler[g]
        BY <1>1, <2>1, <2>2, AcceptedTypes DEF DaemonTypes
    <2>4. Served(u) = {} /\ Served(u)' = {h} /\ \A d \in Users \ {u} : Served(d)' = Served(d)
        BY <2>2, <2>3 DEF ClientsInv, ServedInv, Served
    <2>5. \A d \in Users : ServedInv(d)'
      <3>1. ASSUME NEW d \in Users \ {u} PROVE ServedInv(d)'
          BY <1>2, <2>2, <2>3, <2>4 DEF ClientsInv, ServedInv, Waits, Served
      <3>2. ServedInv(u)'
          BY <1>2, <1>5, <2>3, <2>4 DEF ServedInv, Waits
      <3> QED  BY <3>1, <3>2
    <2>6. ThreadsInv'
      <3>1. ASSUME NEW g \in Threads \ {h}
            PROVE  ThreadInv(g)' /\ KeysThread(g)' /\ AgentThread(g)'
          BY <1>1, <2>3 DEF ThreadsInv, ThreadInv, KeysThread, AgentThread, Serves, HasHad, Owns,
             daemon, ghosts
      <3>2. ThreadInv(h)'
          BY <1>5, <2>3 DEF ThreadInv, HasHad, daemon, ghosts
      <3>3. KeysThread(h)' /\ AgentThread(h)'
          BY <2>3 DEF KeysThread, AgentThread, Serves
      <3>4. Exclusive'
        <4>1. \A f : ~Changing(h, f)'
            BY <2>3 DEF Changing
        <4>2. \A g \in Threads \ {h}, f \in {"agents", "keys"} : Changing(g, f)' <=> Changing(g, f)
            BY <2>3 DEF Changing, File
        <4> QED  BY <1>1, <4>1, <4>2 DEF ThreadsInv, Exclusive, ghosts
      <3> QED  BY <3>1, <3>2, <3>3, <3>4 DEF ThreadsInv
    <2>7. \A d \in Users : Saving(d) <=> Saving(d)'
        BY <2>2, <2>3 DEF Saving, Serves
    <2> QED  BY <1>2, <1>3, <2>3, <2>5, <2>6, <2>7
  <1> QED  BY <1>4, <1>5 DEF Send

\* A call from one step of a program to another: its own part of the invariant
\* is left to show, knowing that no answer is there yet.
LEMMA SendStep ==
    ASSUME ClientsInv, NEW u \in Users, NEW to \in Waiting, NEW r \in Requests, Send(u, r),
           ~Waits(u), GoTo(u, to), UNCHANGED <<daemon, gaveUp, ghosts>>,
           r.method = "spawn" => HasHad(r.key, r.type),
           want' \in [Users -> Types \cup {None}], choices' \in [Users -> SUBSET Keys],
           told' \in [Users -> {"none", "spawned", "refused"}],
           \A d \in Users \ {u} :
               want'[d] = want[d] /\ choices'[d] = choices[d] /\ told'[d] = told[d],
           /\ pc'[u] = to /\ job'[u] # None /\ job'[u].req = r /\ job'[u].answer # "ok"
           /\ Saving(u) <=> Saving(u)'
           => UserInv(u)'
    PROVE  ClientsInv'
  <1>1. UserTypes
      BY DEF ClientsInv
  <1>2. /\ handler' \in [Threads -> Handlers \cup {None}]
        /\ job' \in [Users -> Jobs \cup {None}] /\ job'[u] # None
        /\ job'[u].req = r /\ job'[u].answer # "ok"
        /\ \A d \in Users \ {u} : job'[d] = job[d]
        /\ ThreadsInv'
        /\ \A d \in Users : ServedInv(d)'
        /\ \A d \in Users : Saving(d) <=> Saving(d)'
      BY SendThreads
  <1>3. UserTypes' /\ pc'[u] = to /\ \A d \in Users \ {u} : pc'[d] = pc[d]
      BY <1>1, <1>2 DEF UserTypes, GoTo
  <1>4. gaveUp' \subseteq Users
      BY DEF ClientsInv, GhostTypes
  <1> QED  BY <1>2, <1>3, <1>4, ProgramStep

\* The same for a call that leaves the dialogue as it is.
LEMMA PlainCall ==
    ASSUME ClientsInv, NEW u \in Users, NEW from, NEW to \in Waiting, NEW r \in Requests,
           Call(u, from, to, r), UNCHANGED <<dialogue, told>>,
           r.method = "spawn" => HasHad(r.key, r.type),
           /\ pc'[u] = to /\ job'[u] # None /\ job'[u].req = r /\ job'[u].answer # "ok"
           /\ Saving(u) <=> Saving(u)'
           => UserInv(u)'
    PROVE  ClientsInv'
  <1>1. /\ Send(u, r) /\ ~Waits(u) /\ GoTo(u, to) /\ UNCHANGED <<daemon, gaveUp, ghosts>>
      BY DEF Call, Waits
  <1>2. /\ want' \in [Users -> Types \cup {None}] /\ choices' \in [Users -> SUBSET Keys]
        /\ told' \in [Users -> {"none", "spawned", "refused"}]
        /\ want' = want /\ choices' = choices /\ told' = told
      BY DEF dialogue, ClientsInv, UserTypes
  <1> QED  BY <1>1, <1>2, SendStep

\* The return of a call.
LEMMA ReturnStep ==
    ASSUME ClientsInv, NEW u \in Users, NEW at,
           NEW next \in {"shell", "choosing", "talk", "ui"}, Returns(u, at, next),
           want' \in [Users -> Types \cup {None}], choices' \in [Users -> SUBSET Keys],
           told' \in [Users -> {"none", "spawned", "refused"}],
           \A d \in Users \ {u} :
               want'[d] = want[d] /\ choices'[d] = choices[d] /\ told'[d] = told[d],
           pc'[u] = next /\ job'[u] = None /\ (Saving(u) <=> Saving(u)') => UserInv(u)'
    PROVE  ClientsInv'
  <1>1. UserTypes /\ ~Waits(u)
      BY DEF ClientsInv, Returns, Answered, Waits
  <1>2. /\ job' = [job EXCEPT ![u] = None] /\ pc' = [pc EXCEPT ![u] = next]
        /\ UNCHANGED <<daemon, handler, gaveUp, ghosts>>
      BY DEF Returns, GoTo
  <1>3. UserTypes' /\ pc'[u] = next /\ job'[u] = None
      BY <1>1, <1>2 DEF UserTypes
  <1>4. \A d \in Users \ {u} : pc'[d] = pc[d] /\ job'[d] = job[d]
      BY <1>1, <1>2 DEF UserTypes
  <1> QED  BY <1>1, <1>2, <1>3, <1>4, QuietStep

LEMMA PlainReturn ==
    ASSUME ClientsInv, NEW u \in Users, NEW at,
           NEW next \in {"shell", "choosing", "talk", "ui"}, Returns(u, at, next),
           UNCHANGED <<dialogue, told>>,
           pc'[u] = next /\ job'[u] = None /\ (Saving(u) <=> Saving(u)') => UserInv(u)'
    PROVE  ClientsInv'
  <1>1. /\ want' \in [Users -> Types \cup {None}] /\ choices' \in [Users -> SUBSET Keys]
        /\ told' \in [Users -> {"none", "spawned", "refused"}]
        /\ want' = want /\ choices' = choices /\ told' = told
      BY DEF dialogue, ClientsInv, UserTypes
  <1> QED  BY <1>1, ReturnStep

\* A dialogue that is over.
LEMMA OverTypes ==
    ASSUME UserTypes, NEW u \in Users, NEW how \in {"none", "spawned", "refused"}, Over(u, how)
    PROVE  /\ want' \in [Users -> Types \cup {None}] /\ choices' \in [Users -> SUBSET Keys]
           /\ told' \in [Users -> {"none", "spawned", "refused"}]
           /\ want'[u] = None /\ choices'[u] = {} /\ told'[u] = how
           /\ \A d \in Users \ {u} :
                  want'[d] = want[d] /\ choices'[d] = choices[d] /\ told'[d] = told[d]
  BY DEF UserTypes, Over

-----------------------------------------------------------------------------
(* The programs, step by step.                                             *)

\* The dialogue starts with a chosen type, and asks for the keys.
LEMMA ChooseTypeKeepsInv ==
    ASSUME ClientsInv, NEW u \in Users, NEW t \in Types, ChooseType(u, t) PROVE ClientsInv'
  <1>1. UserTypes /\ UserInv(u) /\ pc[u] = "shell" /\ told[u] # "spawned" /\ job[u] = None
      BY DEF ClientsInv, ChooseType, Call, At
  <1>2. /\ want' = [want EXCEPT ![u] = t] /\ told' = [told EXCEPT ![u] = "none"]
        /\ choices' = choices /\ Call(u, "shell", "listing", Request("list", None, None))
      BY DEF ChooseType
  <1>3. /\ want' \in [Users -> Types \cup {None}] /\ choices' \in [Users -> SUBSET Keys]
        /\ told' \in [Users -> {"none", "spawned", "refused"}]
        /\ want'[u] = t /\ told'[u] = "none" /\ choices'[u] = {}
        /\ \A d \in Users \ {u} :
               want'[d] = want[d] /\ choices'[d] = choices[d] /\ told'[d] = told[d]
      BY <1>1, <1>2 DEF UserTypes, UserInv, InDialogue, Dialogue
  <1>4. ~Reported(u) /\ UNCHANGED <<daemon, gaveUp, ghosts>> /\ Send(u, Request("list", None, None))
        /\ GoTo(u, "listing") /\ ~Waits(u)
      BY <1>1, <1>2 DEF Call, Reported, AnsweredOk, Waits
  <1>5. ASSUME pc'[u] = "listing", job'[u] # None, job'[u].req = Request("list", None, None),
               Saving(u) <=> Saving(u)'
        PROVE  UserInv(u)'
    <2>1. Awaits(u)' /\ InDialogue(u)' /\ KeysKnown(u)'
        BY <1>3, <1>5 DEF Awaits, InDialogue, KeysKnown, AnsweredOk, Dialogue, Waiting
    <2>2. Claims(u)'
        BY <1>1, <1>3, <1>4, <1>5
        DEF UserInv, Claims, Reported, AnsweredOk, Owns, daemon, ghosts
    <2> QED  BY <2>1, <2>2 DEF UserInv
  <1>6. Request("list", None, None) \in Requests /\ Request("list", None, None).method = "list"
      BY RequestTypes
  <1> QED  BY <1>3, <1>4, <1>5, <1>6, SendStep DEF Waiting

\* The keys are on offer while the user chooses.
LEMMA OfferKeepsInv ==
    ASSUME ClientsInv, NEW u \in Users, Offer(u) PROVE ClientsInv'
  <1>1. UserTypes /\ UserInv(u) /\ pc[u] = "listing"
      BY DEF ClientsInv, Offer, Answered, At
  <1>2. CASE Returns(u, "listing", "choosing") /\ UNCHANGED <<dialogue, told>>
    <2>1. UNCHANGED <<daemon, gaveUp, ghosts>>
        BY <1>2 DEF Returns
    <2>2. ASSUME pc'[u] = "choosing", job'[u] = None, Saving(u) <=> Saving(u)' PROVE UserInv(u)'
      <3>1. Awaits(u)' /\ InDialogue(u)' /\ KeysKnown(u)'
          BY <1>1, <1>2, <2>1, <2>2 DEF UserInv, Awaits, InDialogue, KeysKnown, AnsweredOk, HasHad,
             Dialogue, Waiting, dialogue, daemon, ghosts
      <3>2. Claims(u)'
          BY <1>1, <1>2, <2>1, <2>2
          DEF UserInv, Claims, Reported, AnsweredOk, Owns, daemon, ghosts, dialogue
      <3> QED  BY <3>1, <3>2 DEF UserInv
    <2> QED  BY <1>2, <2>2, PlainReturn
  <1>3. CASE Returns(u, "listing", "shell") /\ Over(u, "none")
    <2>1. UNCHANGED <<daemon, gaveUp, ghosts>>
        BY <1>3 DEF Returns
    <2>2. ASSUME pc'[u] = "shell", job'[u] = None, Saving(u) <=> Saving(u)' PROVE UserInv(u)'
      <3>1. Awaits(u)' /\ InDialogue(u)' /\ KeysKnown(u)'
          BY <1>1, <1>3, <2>2, OverTypes
          DEF Awaits, InDialogue, KeysKnown, AnsweredOk, Dialogue, Waiting
      <3>2. told'[u] = "none" /\ told[u] = "none"
          BY <1>1, <1>3, OverTypes DEF UserInv, InDialogue, Dialogue
      <3>3. Claims(u)'
          BY <1>1, <2>1, <2>2, <3>2
          DEF UserInv, Claims, Reported, AnsweredOk, Owns, daemon, ghosts
      <3> QED  BY <3>1, <3>3 DEF UserInv
    <2> QED  BY <1>1, <1>3, <2>2, ReturnStep, OverTypes
  <1> QED  BY <1>2, <1>3 DEF Offer

\* The key that was chosen is of the type that was.
LEMMA ChooseKeyKeepsInv ==
    ASSUME ClientsInv, NEW u \in Users, NEW k \in Keys, ChooseKey(u, k) PROVE ClientsInv'
  <1>1. UserTypes /\ UserInv(u) /\ pc[u] = "choosing" /\ want[u] \in Types /\ told[u] = "none"
      BY DEF ClientsInv, ChooseKey, Call, At, UserInv, InDialogue, Dialogue
  <1>2. /\ Call(u, "choosing", "spawning", Request("spawn", k, want[u]))
        /\ UNCHANGED <<dialogue, told>> /\ k \in choices[u]
      BY DEF ChooseKey
  <1>3. UNCHANGED <<daemon, gaveUp, ghosts>>
      BY <1>2 DEF Call
  <1>4. /\ Request("spawn", k, want[u]) \in Requests
        /\ Request("spawn", k, want[u]).method = "spawn"
        /\ Request("spawn", k, want[u]).key = k /\ Request("spawn", k, want[u]).type = want[u]
      BY <1>1, RequestTypes
  <1>5. ASSUME pc'[u] = "spawning", job'[u] # None, job'[u].answer # "ok",
               job'[u].req = Request("spawn", k, want[u]), Saving(u) <=> Saving(u)'
        PROVE  UserInv(u)'
    <2>1. Awaits(u)' /\ InDialogue(u)' /\ KeysKnown(u)'
        BY <1>1, <1>2, <1>3, <1>4, <1>5 DEF UserInv, Awaits, InDialogue, KeysKnown, AnsweredOk,
           HasHad, Dialogue, Waiting, dialogue, daemon, ghosts
    <2>2. Claims(u)'
        BY <1>1, <1>2, <1>3, <1>5
        DEF UserInv, Claims, Reported, AnsweredOk, Owns, daemon, ghosts, dialogue
    <2> QED  BY <2>1, <2>2 DEF UserInv
  <1>6. HasHad(k, want[u])
      BY <1>1, <1>2 DEF UserInv, KeysKnown
  <1> QED  BY <1>2, <1>4, <1>5, <1>6, PlainCall DEF Waiting

\* A key that is added is of the type that was chosen.
LEMMA AddKeyKeepsInv ==
    ASSUME ClientsInv, NEW u \in Users, NEW k \in Keys, AddKey(u, k) PROVE ClientsInv'
  <1>1. UserTypes /\ UserInv(u) /\ pc[u] = "choosing" /\ want[u] \in Types /\ told[u] = "none"
      BY DEF ClientsInv, AddKey, Call, At, UserInv, InDialogue, Dialogue
  <1>2. /\ Call(u, "choosing", "adding", Request("add", k, want[u]))
        /\ UNCHANGED <<dialogue, told>>
      BY DEF AddKey
  <1>3. UNCHANGED <<daemon, gaveUp, ghosts>>
      BY <1>2 DEF Call
  <1>4. /\ Request("add", k, want[u]) \in Requests
        /\ Request("add", k, want[u]).method = "add" /\ Request("add", k, want[u]).type = want[u]
      BY <1>1, RequestTypes
  <1>5. ASSUME pc'[u] = "adding", job'[u] # None, job'[u].answer # "ok",
               job'[u].req = Request("add", k, want[u]), Saving(u) <=> Saving(u)'
        PROVE  UserInv(u)'
    <2>1. Awaits(u)' /\ InDialogue(u)' /\ KeysKnown(u)'
        BY <1>1, <1>2, <1>3, <1>4, <1>5 DEF UserInv, Awaits, InDialogue, KeysKnown, AnsweredOk,
           HasHad, Dialogue, Waiting, dialogue, daemon, ghosts
    <2>2. Claims(u)'
        BY <1>1, <1>2, <1>3, <1>5
        DEF UserInv, Claims, Reported, AnsweredOk, Owns, daemon, ghosts, dialogue
    <2> QED  BY <2>1, <2>2 DEF UserInv
  <1> QED  BY <1>2, <1>4, <1>5, PlainCall DEF Waiting

\* A dialogue that is given up reported nothing.
LEMMA DeclineKeepsInv ==
    ASSUME ClientsInv, NEW u \in Users, Decline(u) PROVE ClientsInv'
  <1>1. UserTypes /\ UserInv(u) /\ pc[u] = "choosing" /\ pc' = [pc EXCEPT ![u] = "shell"]
        /\ UNCHANGED <<daemon, handler, job, gaveUp, ghosts>> /\ Over(u, "none")
      BY DEF ClientsInv, Decline, At, GoTo
  <1>2. UserTypes' /\ \A d \in Users \ {u} : pc'[d] = pc[d] /\ job'[d] = job[d]
      BY <1>1, OverTypes DEF UserTypes
  <1>3. pc'[u] = "shell" /\ choices'[u] = {} /\ told'[u] = "none" /\ told[u] = "none"
        /\ job[u] = None /\ ~Waits(u)
      BY <1>1, OverTypes DEF UserTypes, UserInv, Awaits, InDialogue, Dialogue, Waiting, Waits
  <1>4. ASSUME Saving(u) <=> Saving(u)' PROVE UserInv(u)'
    <2>1. Awaits(u)' /\ InDialogue(u)' /\ KeysKnown(u)'
        BY <1>1, <1>3 DEF Awaits, InDialogue, KeysKnown, AnsweredOk, Dialogue, Waiting
    <2>2. Claims(u)'
        BY <1>1, <1>3, <1>4 DEF UserInv, Claims, Reported, AnsweredOk, Owns, daemon, ghosts
    <2> QED  BY <2>1, <2>2 DEF UserInv
  <1> QED  BY <1>1, <1>2, <1>3, <1>4, OverTypes, QuietStep

\* A key that was added has the type it was added with, or an excuse.
LEMMA AddedKeepsInv ==
    ASSUME ClientsInv, NEW u \in Users, Added(u) PROVE ClientsInv'
  <1>1. UserTypes /\ UserInv(u) /\ pc[u] = "adding" /\ want[u] \in Types /\ job[u] # None
        /\ told[u] = "none" /\ ~Waits(u)
      BY DEF ClientsInv, Added, Answered, At, UserInv, InDialogue, Dialogue, Waits
  <1>2. job[u].req.method = "add" /\ job[u].req.key \in Keys
      BY <1>1, JobFields, RequestFields DEF UserInv, Awaits, UserTypes
  <1>3. CASE /\ Answer(u) = "ok" /\ GoTo(u, "spawning")
             /\ Send(u, Request("spawn", job[u].req.key, want[u]))
             /\ UNCHANGED <<daemon, gaveUp, ghosts, dialogue, told>>
    <2> DEFINE r == Request("spawn", job[u].req.key, want[u])
    <2>1. /\ r \in Requests /\ r.method = "spawn" /\ r.key = job[u].req.key /\ r.type = want[u]
        BY <1>1, <1>2, RequestTypes
    <2>2. Send(u, r)
        BY <1>3
    <2> HIDE DEF r
    <2>3. HasHad(r.key, want[u]) /\ \A k \in choices[u] : HasHad(k, want[u])
        BY <1>1, <1>3, <2>1 DEF UserInv, KeysKnown, AnsweredOk, Answer
    <2>4. ASSUME pc'[u] = "spawning", job'[u] # None, job'[u].answer # "ok", job'[u].req = r,
                 Saving(u) <=> Saving(u)'
          PROVE  UserInv(u)'
      <3>1. Awaits(u)' /\ InDialogue(u)' /\ KeysKnown(u)'
          BY <1>1, <1>3, <2>1, <2>3, <2>4 DEF Awaits, InDialogue, KeysKnown, AnsweredOk,
             HasHad, Dialogue, Waiting, dialogue, daemon, ghosts
      <3>2. Claims(u)'
          BY <1>1, <1>3, <2>4
          DEF UserInv, Claims, Reported, AnsweredOk, Owns, daemon, ghosts, dialogue
      <3> QED  BY <3>1, <3>2 DEF UserInv
    <2>5. want' = want /\ choices' = choices /\ told' = told
        BY <1>3 DEF dialogue
    <2> QED  BY <1>1, <1>3, <2>1, <2>2, <2>3, <2>4, <2>5, SendStep DEF Waiting, UserTypes
  <1>4. CASE Returns(u, "adding", "shell") /\ Over(u, "none")
    <2>1. UNCHANGED <<daemon, gaveUp, ghosts>>
        BY <1>4 DEF Returns
    <2>2. ASSUME pc'[u] = "shell", job'[u] = None, Saving(u) <=> Saving(u)' PROVE UserInv(u)'
      <3>1. Awaits(u)' /\ InDialogue(u)' /\ KeysKnown(u)' /\ told'[u] = "none"
          BY <1>1, <1>4, <2>2, OverTypes
          DEF Awaits, InDialogue, KeysKnown, AnsweredOk, Dialogue, Waiting
      <3>2. Claims(u)'
          BY <1>1, <2>1, <2>2, <3>1
          DEF UserInv, Claims, Reported, AnsweredOk, Owns, daemon, ghosts
      <3> QED  BY <3>1, <3>2 DEF UserInv
    <2> QED  BY <1>1, <1>4, <2>2, ReturnStep, OverTypes
  <1> QED  BY <1>3, <1>4 DEF Added

\* The user is told what the daemon answered, and that is what it did.
LEMMA SpawnedKeepsInv ==
    ASSUME ClientsInv, NEW u \in Users, Spawned(u) PROVE ClientsInv'
  <1> DEFINE how == CASE Answer(u) = "ok" -> "spawned" [] Answer(u) = "error" -> "refused"
                      [] OTHER -> "none"
  <1>1. UserTypes /\ UserInv(u) /\ pc[u] = "spawning" /\ told[u] = "none"
      BY DEF ClientsInv, Spawned, Returns, Answered, At, UserInv, InDialogue, Dialogue
  <1>2. Returns(u, "spawning", "shell") /\ Over(u, how)
      BY DEF Spawned
  <1>3. UNCHANGED <<daemon, gaveUp, ghosts>>
      BY <1>2 DEF Returns
  <1>4. how \in {"none", "spawned", "refused"} /\ (how = "spawned" <=> job[u].answer = "ok")
      BY DEF Answer
  <1> HIDE DEF how
  <1>5. ASSUME pc'[u] = "shell", job'[u] = None, Saving(u) <=> Saving(u)' PROVE UserInv(u)'
    <2>1. told'[u] = how /\ choices'[u] = {}
        BY <1>1, <1>2, <1>4, OverTypes
    <2>2. Awaits(u)' /\ InDialogue(u)' /\ KeysKnown(u)'
        BY <1>5, <2>1 DEF Awaits, InDialogue, KeysKnown, AnsweredOk, Dialogue, Waiting
    <2>3. Reported(u)' <=> Reported(u)
        BY <1>1, <1>4, <1>5, <2>1 DEF Reported, AnsweredOk
    <2>4. Claims(u)'
        BY <1>1, <1>3, <1>5, <2>3 DEF UserInv, Claims, Owns, daemon, ghosts
    <2> QED  BY <2>2, <2>4 DEF UserInv
  <1> QED  BY <1>1, <1>2, <1>4, <1>5, ReturnStep, OverTypes

\* Outside of the dialogue what was told, and what that claims, does not change.
LEMMA ElsewhereKeepsUser ==
    ASSUME ClientsInv, NEW u \in Users, UNCHANGED <<daemon, ghosts, dialogue, told>>,
           pc[u] \notin Dialogue, pc'[u] \notin Dialogue, gaveUp \subseteq gaveUp',
           Saving(u) <=> Saving(u)', Awaits(u)'
    PROVE  UserInv(u)'
  <1>1. UserInv(u)
      BY DEF ClientsInv
  <1>2. InDialogue(u)' /\ KeysKnown(u)'
      BY <1>1 DEF UserInv, InDialogue, KeysKnown, AnsweredOk, Dialogue, dialogue
  <1>3. Reported(u)' <=> Reported(u)
      BY DEF Reported, AnsweredOk, Dialogue
  <1>4. Claims(u)'
      BY <1>1, <1>3 DEF UserInv, Claims, Owns, daemon, ghosts
  <1> QED  BY <1>2, <1>4 DEF UserInv

\* Calls and returns outside of the dialogue of a spawn.
LEMMA OtherCallKeepsInv ==
    ASSUME ClientsInv, NEW u \in Users,
           NEW from \in {"shell", "talk", "ui"}, NEW to \in {"removing", "talking", "thinking"},
           NEW r \in Requests, Call(u, from, to, r), UNCHANGED <<dialogue, told>>,
           IF to = "removing" THEN r.method = "remove" ELSE r = Message
    PROVE  ClientsInv'
  <1>1. pc[u] = from /\ UNCHANGED <<daemon, gaveUp, ghosts>> /\ r.method # "spawn" /\ to \in Waiting
      BY RequestTypes DEF Call, At, Waiting
  <1>2. ASSUME pc'[u] = to, job'[u] # None, job'[u].req = r, Saving(u) <=> Saving(u)'
        PROVE  UserInv(u)'
    <2>1. Awaits(u)'
        BY <1>2 DEF Awaits, Waiting
    <2> QED  BY <1>1, <1>2, <2>1, ElsewhereKeepsUser DEF Dialogue
  <1> QED  BY <1>1, <1>2, PlainCall

LEMMA OtherReturnKeepsInv ==
    ASSUME ClientsInv, NEW u \in Users, NEW at \in {"removing", "talking", "thinking", "wiring"},
           NEW next \in {"shell", "talk", "ui"}, Returns(u, at, next), UNCHANGED <<dialogue, told>>
    PROVE  ClientsInv'
  <1>1. pc[u] = at /\ UNCHANGED <<daemon, gaveUp, ghosts>>
      BY DEF Returns, Answered, At
  <1>2. ASSUME pc'[u] = next, job'[u] = None, Saving(u) <=> Saving(u)' PROVE UserInv(u)'
    <2>1. Awaits(u)'
        BY <1>2 DEF Awaits, Waiting
    <2> QED  BY <1>1, <1>2, <2>1, ElsewhereKeepsUser DEF Dialogue
  <1> QED  BY <1>2, PlainReturn

\* keys remove, talk and the UI.
LEMMA OthersKeepInv ==
    ASSUME ClientsInv, NEW u \in Users,
           \/ \E k \in Keys : RemoveKey(u, k)
           \/ Removed(u) \/ Talk(u) \/ TalkReply(u) \/ Submit(u) \/ UiReply(u)
           \/ \E program \in Programs : Open(u, program)
    PROVE  ClientsInv'
  <1>1. CASE \E k \in Keys : RemoveKey(u, k)
      BY <1>1, OtherCallKeepsInv, RequestTypes DEF RemoveKey
  <1>2. CASE Removed(u)
      BY <1>2, OtherReturnKeepsInv DEF Removed
  <1>3. CASE Talk(u)
      BY <1>3, OtherCallKeepsInv, RequestTypes DEF Talk
  <1>4. CASE TalkReply(u)
      BY <1>4, OtherReturnKeepsInv DEF TalkReply
  <1>5. CASE Submit(u)
      BY <1>5, OtherCallKeepsInv, RequestTypes DEF Submit
  <1>6. CASE UiReply(u)
    <2>1. CASE /\ Answered(u, "thinking") /\ GoTo(u, "wiring")
               /\ Send(u, Request("wiring", None, None))
               /\ UNCHANGED <<daemon, gaveUp, ghosts, dialogue, told>>
      <3>1. UserTypes /\ pc[u] = "thinking" /\ ~Waits(u)
          BY <2>1 DEF ClientsInv, Answered, At, Waits
      <3>2. Request("wiring", None, None) \in Requests
            /\ Request("wiring", None, None).method = "wiring"
          BY RequestTypes
      <3>3. ASSUME pc'[u] = "wiring", job'[u] # None, job'[u].req = Request("wiring", None, None),
                   Saving(u) <=> Saving(u)'
            PROVE  UserInv(u)'
        <4>1. Awaits(u)'
            BY <3>3 DEF Awaits, Waiting
        <4> QED  BY <2>1, <3>1, <3>3, <4>1, ElsewhereKeepsUser DEF Dialogue
      <3>4. want' = want /\ choices' = choices /\ told' = told
          BY <2>1 DEF dialogue
      <3> QED  BY <2>1, <3>1, <3>2, <3>3, <3>4, SendStep DEF Waiting, UserTypes
    <2>2. CASE (Returns(u, "thinking", "ui") \/ Returns(u, "wiring", "ui"))
               /\ UNCHANGED <<dialogue, told>>
        BY <2>2, OtherReturnKeepsInv
    <2> QED  BY <1>6, <2>1, <2>2 DEF UiReply
  <1>7. CASE \E program \in Programs : Open(u, program)
    <2>1. PICK program \in {"talk", "ui"} : Open(u, program)
        BY <1>7, ProgramsKnown
    <2>2. UserTypes /\ UserInv(u) /\ pc[u] = "shell" /\ pc' = [pc EXCEPT ![u] = program]
          /\ UNCHANGED <<daemon, handler, job, dialogue, told, gaveUp, ghosts>>
        BY <2>1 DEF ClientsInv, Open, At, GoTo
    <2>3. UserTypes' /\ pc'[u] = program /\ \A d \in Users \ {u} : pc'[d] = pc[d]
        BY <2>2 DEF UserTypes, dialogue
    <2>4. job[u] = None /\ ~Waits(u) /\ Awaits(u)'
        BY <2>2, <2>3 DEF UserInv, Awaits, Waiting, Waits
    <2>5. want' = want /\ choices' = choices /\ told' = told
        BY <2>2 DEF dialogue
    <2>6. (Saving(u) <=> Saving(u)') => UserInv(u)'
        BY <2>2, <2>3, <2>4, ElsewhereKeepsUser DEF Dialogue
    <2> QED  BY <2>2, <2>3, <2>4, <2>5, <2>6, QuietStep
  <1> QED  BY <1>1, <1>2, <1>3, <1>4, <1>5, <1>6, <1>7

-----------------------------------------------------------------------------
(* Calls that are given up.                                                *)

\* The thread goes on for nobody; of a user who counts as one who gave up, if it
\* is a spawn.
LEMMA AbandonThreads ==
    ASSUME ClientsInv, NEW u \in Users, job[u] # None, Abandon(u), UNCHANGED <<daemon, ghosts>>
    PROVE  /\ handler' \in [Threads -> Handlers \cup {None}]
           /\ Served(u)' = {} /\ \A d \in Users \ {u} : Served(d)' = Served(d)
           /\ \A d \in Users \ {u} : \A h \in Served(d) : handler'[h] = handler[h]
           /\ \A d \in Users : Saving(d) <=> Saving(d)'
           /\ gaveUp \subseteq gaveUp' /\ gaveUp' \subseteq Users
           /\ job[u].req.method = "spawn" => u \in gaveUp'
           /\ ThreadsInv'
  <1>1. DaemonTypes /\ GhostTypes /\ ThreadsInv /\ ServedInv(u)
      BY DEF ClientsInv
  <1>2. /\ gaveUp \subseteq gaveUp' /\ gaveUp' \subseteq Users
        /\ job[u].req.method = "spawn" => u \in gaveUp'
      BY <1>1 DEF Abandon, GhostTypes
  <1>3. ASSUME NEW h \in Threads
        PROVE  /\ handler'[h] \in Handlers \cup {None}
               /\ h \notin Served(u) => handler'[h] = handler[h]
               /\ h \in Served(u) /\ handler[h].req.method \in Looks => handler'[h] = None
               /\ h \in Served(u) /\ handler[h].req.method \notin Looks =>
                      /\ handler'[h] # None /\ ~handler'[h].listens
                      /\ handler'[h].user = handler[h].user /\ handler'[h].req = handler[h].req
                      /\ handler'[h].stage = handler[h].stage /\ handler'[h].read = handler[h].read
    <2>1. handler'[h] = IF h \notin Served(u) THEN handler[h]
                        ELSE IF handler[h].req.method \in Looks THEN None
                        ELSE [handler[h] EXCEPT !.listens = FALSE]
        BY <1>3 DEF Abandon, Looks
    <2>2. handler[h] \in Handlers \cup {None} /\ (h \in Served(u) => handler[h] # None)
        BY <1>1, <1>3 DEF DaemonTypes, Served
    <2>3. h \in Served(u) /\ handler[h].req.method \notin Looks =>
              /\ handler'[h] \in Handlers /\ ~handler'[h].listens
              /\ handler'[h].user = handler[h].user /\ handler'[h].req = handler[h].req
              /\ handler'[h].stage = handler[h].stage /\ handler'[h].read = handler[h].read
        BY <2>1, <2>2 DEF Handlers
    <2> QED  BY <2>1, <2>2, <2>3, NoneIsNoRecord
  <1>4. handler' \in [Threads -> Handlers \cup {None}]
    <2>1. handler' = [h \in Threads |-> handler'[h]]
        BY DEF Abandon
    <2> QED  BY <1>3, <2>1
  <1>5. Served(u)' = {} /\ \A d \in Users \ {u} : Served(d)' = Served(d)
      BY <1>3 DEF Served
  <1>6. \A d \in Users \ {u} : \A h \in Served(d) : handler'[h] = handler[h]
      BY <1>3 DEF Served
  <1>7. \A h \in Threads, m \in {"add", "remove", "spawn"}, s \in {"checked", "written", "installed"} :
            Serves(h, m, s)' <=> Serves(h, m, s)
    <2> SUFFICES ASSUME NEW h \in Threads, NEW m \in {"add", "remove", "spawn"},
                        NEW s \in {"checked", "written", "installed"}
                 PROVE  Serves(h, m, s)' <=> Serves(h, m, s)
        OBVIOUS
    <2>1. CASE h \notin Served(u)
        BY <1>3, <2>1 DEF Serves
    <2>2. CASE h \in Served(u) /\ handler[h].req.method \notin Looks
        BY <1>3, <2>2 DEF Serves, Served
    <2>3. CASE h \in Served(u) /\ handler[h].req.method \in Looks
        BY <1>3, <2>3 DEF Serves, Looks
    <2> QED  BY <2>1, <2>2, <2>3
  <1>8. \A d \in Users : Saving(d) <=> Saving(d)'
    <2>1. \A h \in Threads, d \in Users :
              Serves(h, "spawn", "installed") /\ handler[h].user = d
              <=> Serves(h, "spawn", "installed")' /\ handler'[h].user = d
        BY <1>3, <1>7 DEF Serves
    <2> QED  BY <2>1 DEF Saving
  <1>9. ThreadsInv'
    <2>1. ASSUME NEW h \in Threads PROVE ThreadInv(h)'
      <3>1. CASE h \notin Served(u)
          BY <1>1, <1>2, <1>3, <3>1 DEF ThreadsInv, ThreadInv, HasHad, daemon, ghosts
      <3>2. CASE h \in Served(u) /\ handler[h].req.method \notin Looks
        <4>1. handler[h] # None /\ handler[h].user = u /\ job[u].req = handler[h].req
            BY <1>1, <3>2 DEF Served, ServedInv
        <4> QED  BY <1>1, <1>2, <1>3, <3>2, <4>1
                 DEF ThreadsInv, ThreadInv, HasHad, daemon, ghosts
      <3>3. CASE h \in Served(u) /\ handler[h].req.method \in Looks
          BY <1>3, <3>3 DEF ThreadInv
      <3> QED  BY <3>1, <3>2, <3>3
    <2>2. ASSUME NEW h \in Threads PROVE KeysThread(h)' /\ AgentThread(h)'
      <3>1. \A m \in {"add", "remove", "spawn"}, s \in {"checked", "written", "installed"} :
                Serves(h, m, s)' => handler'[h].req = handler[h].req
                                    /\ handler'[h].read = handler[h].read
                                    /\ handler'[h].user = handler[h].user
          BY <1>3, <1>7 DEF Serves
      <3> QED  BY <1>1, <1>7, <3>1
               DEF ThreadsInv, KeysThread, AgentThread, HasHad, Owns, daemon, ghosts
    <2>3. Exclusive'
      <3>1. \A h \in Threads, f \in {"agents", "keys"} : Changing(h, f)' => Changing(h, f)
        <4> SUFFICES ASSUME NEW h \in Threads, NEW f \in {"agents", "keys"}, Changing(h, f)'
                     PROVE  Changing(h, f)
            OBVIOUS
        <4>1. CASE h \notin Served(u)
            BY <1>3, <4>1 DEF Changing, File
        <4>2. CASE h \in Served(u) /\ handler[h].req.method \notin Looks
            BY <1>3, <4>2 DEF Changing, File, Served
        <4>3. CASE h \in Served(u) /\ handler[h].req.method \in Looks
            BY <1>3, <4>3 DEF Changing
        <4> QED  BY <4>1, <4>2, <4>3
      <3> QED  BY <1>1, <3>1 DEF ThreadsInv, Exclusive, ghosts
    <2> QED  BY <2>1, <2>2, <2>3 DEF ThreadsInv
  <1> QED  BY <1>2, <1>4, <1>5, <1>6, <1>8, <1>9

\* A call that is given up, in any of the programs.
LEMMA AbandonStep ==
    ASSUME ClientsInv, NEW u \in Users, job[u] # None, Abandon(u), UNCHANGED <<daemon, ghosts>>,
           UserTypes',
           \A d \in Users \ {u} :
               /\ pc'[d] = pc[d] /\ job'[d] = job[d] /\ want'[d] = want[d]
               /\ choices'[d] = choices[d] /\ told'[d] = told[d],
           /\ (Saving(u) <=> Saving(u)') /\ gaveUp \subseteq gaveUp'
           /\ job[u].req.method = "spawn" => u \in gaveUp'
           => UserInv(u)'
    PROVE  ClientsInv'
  <1>1. \A d \in Users : ServedInv(d)'
    <2>1. ASSUME NEW d \in Users \ {u} PROVE ServedInv(d)'
        BY AbandonThreads DEF ClientsInv, ServedInv, Waits
    <2> QED  BY <2>1, AbandonThreads DEF ServedInv
  <1>2. /\ Saving(u) <=> Saving(u)'
        /\ gaveUp \subseteq gaveUp' /\ gaveUp' \subseteq Users
        /\ job[u].req.method = "spawn" => u \in gaveUp'
      BY AbandonThreads
  <1>3. UserInv(u)'
      BY <1>2
  <1> QED  BY <1>1, <1>2, <1>3, AbandonThreads, ProgramStep

\* A time-out is no answer, and of a spawn it counts as given up.
LEMMA TimeOutKeepsInv ==
    ASSUME ClientsInv, NEW u \in Users, TimeOut(u) PROVE ClientsInv'
  <1>1. UserTypes /\ UserInv(u) /\ job[u] # None /\ job[u].answer = None /\ Abandon(u)
        /\ UNCHANGED <<daemon, pc, want, choices, told, ghosts>>
        /\ job' = [job EXCEPT ![u] = Job(job[u].req, "unavailable")]
      BY DEF ClientsInv, TimeOut, Waits, dialogue
  <1>2. /\ job' \in [Users -> Jobs \cup {None}] /\ job'[u] # None
        /\ job'[u].req = job[u].req /\ job'[u].answer = "unavailable"
        /\ \A d \in Users \ {u} : job'[d] = job[d]
      BY <1>1, JobFields, JobTypes DEF UserTypes
  <1>3. ASSUME Saving(u) <=> Saving(u)', gaveUp \subseteq gaveUp' PROVE UserInv(u)'
    <2>1. Awaits(u)' /\ InDialogue(u)' /\ KeysKnown(u)'
        BY <1>1, <1>2 DEF UserInv, Awaits, InDialogue, KeysKnown, AnsweredOk, HasHad, daemon, ghosts
    <2>2. Reported(u)' <=> Reported(u)
        BY <1>1, <1>2, NoneIsNoAnswer DEF Reported, AnsweredOk
    <2>3. Claims(u)'
        BY <1>1, <1>3, <2>2 DEF UserInv, Claims, Owns, daemon, ghosts
    <2> QED  BY <2>1, <2>3 DEF UserInv
  <1>4. /\ UserTypes'
        /\ \A d \in Users \ {u} :
               /\ pc'[d] = pc[d] /\ job'[d] = job[d] /\ want'[d] = want[d]
               /\ choices'[d] = choices[d] /\ told'[d] = told[d]
      BY <1>1, <1>2 DEF UserTypes
  <1> QED  BY <1>1, <1>3, <1>4, AbandonStep

\* A program that ends in the middle of a call gives it up.
LEMMA LeaveKeepsInv ==
    ASSUME ClientsInv, NEW u \in Users, Leave(u) PROVE ClientsInv'
  <1>1. UserTypes /\ UserInv(u) /\ pc[u] # "shell" /\ pc' = [pc EXCEPT ![u] = "shell"]
        /\ UNCHANGED <<daemon, told, ghosts>> /\ job' = [job EXCEPT ![u] = None]
        /\ want' = [want EXCEPT ![u] = None] /\ choices' = [choices EXCEPT ![u] = {}]
      BY DEF ClientsInv, Leave, GoTo
  <1>2. /\ UserTypes' /\ pc'[u] = "shell" /\ job'[u] = None /\ want'[u] = None /\ choices'[u] = {}
        /\ told'[u] = told[u]
        /\ \A d \in Users \ {u} :
               /\ pc'[d] = pc[d] /\ job'[d] = job[d] /\ want'[d] = want[d]
               /\ choices'[d] = choices[d] /\ told'[d] = told[d]
      BY <1>1 DEF UserTypes
  <1>3. Awaits(u)' /\ InDialogue(u)' /\ KeysKnown(u)'
      BY <1>2 DEF Awaits, InDialogue, KeysKnown, AnsweredOk, Dialogue, Waiting
  <1>4. ASSUME Saving(u) <=> Saving(u)', gaveUp \subseteq gaveUp',
               AnsweredOk(u, "spawning") => u \in gaveUp'
        PROVE  UserInv(u)'
    <2>1. Claims(u)'
        BY <1>1, <1>2, <1>4 DEF UserInv, Claims, Reported, AnsweredOk, Owns, daemon, ghosts
    <2> QED  BY <1>3, <2>1 DEF UserInv
  <1>5. CASE job[u] # None
    <2>1. Abandon(u)
        BY <1>5 DEF Leave
    <2>2. AnsweredOk(u, "spawning") => job[u].req.method = "spawn"
        BY <1>1 DEF UserInv, Awaits, AnsweredOk
    <2>3. /\ (Saving(u) <=> Saving(u)') /\ gaveUp \subseteq gaveUp'
          /\ job[u].req.method = "spawn" => u \in gaveUp'
          => UserInv(u)'
        BY <1>4, <2>2
    <2> QED  BY <1>1, <1>2, <1>5, <2>1, <2>3, AbandonStep
  <1>6. CASE job[u] = None
    <2>1. UNCHANGED <<handler, gaveUp>> /\ ~Waits(u) /\ ~AnsweredOk(u, "spawning")
        BY <1>1, <1>6 DEF Leave, Waits, UserInv, Awaits, AnsweredOk, Waiting
    <2>2. (Saving(u) <=> Saving(u)') => UserInv(u)'
        BY <1>4, <2>1
    <2> QED  BY <1>1, <1>2, <2>1, <2>2, QuietStep
  <1> QED  BY <1>5, <1>6

\* Every step of a program keeps the invariant.
LEMMA ProgramsKeepInv ==
    ASSUME ClientsInv, NEW u \in Users, Choices(u) \/ Continue(u) \/ TimeOut(u) PROVE ClientsInv'
  <1>1. CASE \E t \in Types : ChooseType(u, t)
      BY <1>1, ChooseTypeKeepsInv
  <1>2. CASE \E k \in Keys : ChooseKey(u, k) \/ AddKey(u, k)
      BY <1>2, ChooseKeyKeepsInv, AddKeyKeepsInv
  <1>3. CASE Decline(u) \/ Offer(u) \/ Added(u) \/ Spawned(u)
      BY <1>3, DeclineKeepsInv, OfferKeepsInv, AddedKeepsInv, SpawnedKeepsInv
  <1>4. CASE Leave(u) \/ TimeOut(u)
      BY <1>4, LeaveKeepsInv, TimeOutKeepsInv
  <1>5. CASE \/ \E k \in Keys : RemoveKey(u, k)
             \/ Removed(u) \/ Talk(u) \/ TalkReply(u) \/ Submit(u) \/ UiReply(u)
             \/ \E program \in Programs : Open(u, program)
      BY <1>5, OthersKeepInv
  <1> QED  BY <1>1, <1>2, <1>3, <1>4, <1>5 DEF Choices, Continue

-----------------------------------------------------------------------------
(* The threads of the daemon.                                              *)

\* A thread that ends leaves the others, and answers the program that waits for it.
LEMMA FinishFacts ==
    ASSUME ClientsInv, NEW h \in Threads, handler[h] # None, NEW answer \in {"ok", "error"},
           Finish(h, answer)
    PROVE  /\ handler[h] \in Handlers /\ handler[h].user \in Users /\ handler[h].req \in Requests
           /\ handler' \in [Threads -> Handlers \cup {None}] /\ handler'[h] = None
           /\ \A g \in Threads \ {h} : handler'[g] = handler[g]
           /\ job' \in [Users -> Jobs \cup {None}]
           /\ \A d \in Users : /\ job'[d] = None <=> job[d] = None
                               /\ job[d] # None => job'[d].req = job[d].req
           /\ \A d \in Users : (handler[h].listens /\ d = handler[h].user) \/ job'[d] = job[d]
           /\ handler[h].listens =>
                  /\ job[handler[h].user] # None /\ job[handler[h].user].answer = None
                  /\ job[handler[h].user].req = handler[h].req
                  /\ job'[handler[h].user].answer = answer
           /\ \A d \in Users : ServedInv(d)'
  <1> DEFINE v == handler[h].user
  <1>1. DaemonTypes /\ UserTypes /\ \A d \in Users : ServedInv(d)
      BY DEF ClientsInv
  <1>2. handler[h] \in Handlers /\ v \in Users /\ handler[h].req \in Requests
      BY <1>1, HandlerFields DEF DaemonTypes
  <1>3. /\ handler' \in [Threads -> Handlers \cup {None}] /\ handler'[h] = None
        /\ \A g \in Threads \ {h} : handler'[g] = handler[g]
      BY <1>1 DEF DaemonTypes, Finish
  <1>4. handler[h].listens =>
            h \in Served(v) /\ job[v] \in Jobs /\ job[v] # None /\ job[v].answer = None
            /\ job[v].req = handler[h].req /\ \A g \in Served(v) : g = h
      BY <1>1, <1>2 DEF Served, ServedInv, Waits, UserTypes
  <1>5. CASE handler[h].listens
    <2>1. job' = [job EXCEPT ![v].answer = answer]
        BY <1>5 DEF Finish
    <2>2. /\ job'[v] = [job[v] EXCEPT !.answer = answer]
          /\ \A d \in Users \ {v} : job'[d] = job[d]
        BY <1>1, <1>2, <2>1 DEF UserTypes
    <2>3. /\ job'[v] \in Jobs /\ job'[v].req = job[v].req /\ job'[v].answer = answer
        BY <1>4, <1>5, <2>2 DEF Jobs
    <2>4. job' \in [Users -> Jobs \cup {None}]
      <3>1. job' = [d \in Users |-> job'[d]]
          BY <1>1, <2>1 DEF UserTypes
      <3> QED  BY <1>1, <2>2, <2>3, <3>1 DEF UserTypes
    <2>5. \A d \in Users : ServedInv(d)'
      <3>1. ASSUME NEW d \in Users, d = v PROVE ServedInv(d)'
        <4>1. Served(d)' = {}
            BY <1>3, <1>4, <1>5, <3>1 DEF Served
        <4> QED  BY <4>1 DEF ServedInv
      <3>2. ASSUME NEW d \in Users \ {v} PROVE ServedInv(d)'
        <4>1. Served(d)' = Served(d) /\ h \notin Served(d)
            BY <1>3 DEF Served
        <4> QED  BY <1>1, <1>3, <2>2, <4>1 DEF ServedInv, Waits, Served
      <3> HIDE DEF v
      <3> QED  BY <3>1, <3>2
    <2>6. job'[v] # None
        BY <2>3, NoneIsNoRecord
    <2> HIDE DEF v
    <2>7. \A d \in Users : /\ job'[d] = None <=> job[d] = None
                           /\ job[d] # None => job'[d].req = job[d].req
        BY <1>4, <1>5, <2>2, <2>3, <2>6
    <2>8. \A d \in Users : d = v \/ job'[d] = job[d]
        BY <2>2
    <2> QED  BY <1>2, <1>3, <1>4, <1>5, <2>3, <2>4, <2>5, <2>7, <2>8 DEF v
  <1>6. CASE ~handler[h].listens
    <2>1. job' = job
        BY <1>6 DEF Finish
    <2>2. \A d \in Users : Served(d)' = Served(d) /\ h \notin Served(d)
        BY <1>3, <1>6 DEF Served
    <2>3. \A d \in Users : ServedInv(d)'
        BY <1>1, <1>3, <2>1, <2>2 DEF ServedInv, Waits, Served
    <2> QED  BY <1>1, <1>2, <1>3, <1>6, <2>1, <2>3 DEF UserTypes
  <1> QED  BY <1>5, <1>6

\* A thread whose end changes nothing else.  An answer of success gives the program
\* what it claims, and a spawn that fails after the start of its agent is excused.
LEMMA FinishStep ==
    ASSUME ClientsInv, NEW h \in Threads, handler[h] # None, NEW answer \in {"ok", "error"},
           Finish(h, answer),
           UNCHANGED <<daemon, pc, want, told, gaveUp, rekeyed, overlap>>,
           unsaved \subseteq unsaved', unsaved' \subseteq Users,
           choices' \in [Users -> SUBSET Keys],
           \A d \in Users : /\ \A k \in choices'[d] : HasHad(k, want[d])
                            /\ pc[d] \notin Dialogue => choices'[d] = {},
           answer = "ok" => /\ handler[h].req.method # "spawn"
                            /\ handler[h].req.method = "add" =>
                                   HasHad(handler[h].req.key, handler[h].req.type),
           Serves(h, "spawn", "installed") => handler[h].user \in unsaved'
    PROVE  ClientsInv'
  <1> DEFINE v == handler[h].user
  <1> DEFINE r == handler[h].req
  <1>1. DaemonTypes /\ UserTypes /\ GhostTypes /\ ThreadsInv /\ ChosenTypeUsed /\ StoredKnown
      BY DEF ClientsInv
  <1>2. /\ v \in Users /\ r \in Requests
        /\ handler' \in [Threads -> Handlers \cup {None}] /\ handler'[h] = None
        /\ \A g \in Threads \ {h} : handler'[g] = handler[g]
        /\ job' \in [Users -> Jobs \cup {None}]
        /\ \A d \in Users : /\ job'[d] = None <=> job[d] = None
                            /\ job[d] # None => job'[d].req = job[d].req
        /\ \A d \in Users : (handler[h].listens /\ d = v) \/ job'[d] = job[d]
        /\ handler[h].listens =>
               /\ job[v] # None /\ job[v].answer = None
               /\ job[v].req = r /\ job'[v].answer = answer
        /\ \A d \in Users : ServedInv(d)'
      BY FinishFacts
  <1>3. DaemonTypes' /\ UserTypes' /\ GhostTypes' /\ ChosenTypeUsed' /\ StoredKnown'
      BY <1>1, <1>2 DEF DaemonTypes, UserTypes, GhostTypes, ChosenTypeUsed, StoredKnown, HasHad, daemon
  <1>4. ThreadsInv'
    <2>1. ASSUME NEW g \in Threads PROVE ThreadInv(g)' /\ KeysThread(g)' /\ AgentThread(g)'
      <3>1. CASE g = h
          BY <1>2, <3>1 DEF ThreadInv, KeysThread, AgentThread, Serves
      <3>2. CASE g # h
          BY <1>1, <1>2, <3>2 DEF ThreadsInv, ThreadInv, KeysThread, AgentThread, Serves, HasHad,
             Owns, daemon
      <3> QED  BY <3>1, <3>2
    <2>2. \A g \in Threads, f \in {"agents", "keys"} : Changing(g, f)' => Changing(g, f)
        BY <1>2 DEF Changing, File
    <2>3. Exclusive'
        BY <1>1, <2>2 DEF ThreadsInv, Exclusive
    <2> QED  BY <2>1, <2>3 DEF ThreadsInv
  <1>5. ASSUME NEW d \in Users PROVE UserInv(d)'
    <2>1. UserInv(d)
        BY DEF ClientsInv
    <2>2. Awaits(d)'
        BY <1>2, <2>1 DEF UserInv, Awaits, Waiting
    <2>3. InDialogue(d)'
        BY <2>1 DEF UserInv, InDialogue
    <2>4. KeysKnown(d)'
      <3>1. ASSUME AnsweredOk(d, "adding")' PROVE HasHad(job'[d].req.key, want[d])
        <4>1. job[d] # None /\ job[d].req.method = "add" /\ job[d].req.type = want[d]
              /\ job'[d].req = job[d].req
            BY <1>2, <2>1, <3>1 DEF UserInv, Awaits, AnsweredOk, Waiting
        <4>2. CASE job'[d] = job[d]
            BY <2>1, <3>1, <4>2 DEF UserInv, KeysKnown, AnsweredOk
        <4>3. CASE handler[h].listens /\ d = v
            BY <1>2, <3>1, <4>1, <4>3 DEF AnsweredOk
        <4> QED  BY <1>2, <4>2, <4>3
      <3> QED  BY <3>1 DEF KeysKnown, HasHad, daemon
    <2>5. Reported(d)' <=> Reported(d)
      <3>1. CASE job'[d] = job[d]
          BY <3>1 DEF Reported, AnsweredOk
      <3>2. CASE handler[h].listens /\ d = v
        <4>1. pc[d] = "spawning" => r.method = "spawn"
            BY <1>2, <2>1, <3>2 DEF UserInv, Awaits
        <4>2. ~AnsweredOk(d, "spawning") /\ ~AnsweredOk(d, "spawning")'
            BY <1>2, <3>2, <4>1, NoneIsNoAnswer DEF AnsweredOk
        <4> QED  BY <4>2 DEF Reported
      <3> QED  BY <1>2, <3>1, <3>2
    <2>6. d \notin unsaved' /\ Saving(d) => Saving(d)'
        BY <1>2 DEF Saving, Serves
    <2>7. Claims(d)'
        BY <2>1, <2>5, <2>6 DEF UserInv, Claims, Owns, daemon
    <2> QED  BY <2>2, <2>3, <2>4, <2>7 DEF UserInv
  <1> QED  BY <1>2, <1>3, <1>4, <1>5 DEF ClientsInv

\* What the dialogues offer, if nothing changes it.
LEMMA SameChoices ==
    ASSUME ClientsInv
    PROVE  /\ choices \in [Users -> SUBSET Keys]
           /\ \A d \in Users : /\ \A k \in choices[d] : HasHad(k, want[d])
                               /\ pc[d] \notin Dialogue => choices[d] = {}
  BY DEF ClientsInv, UserTypes, UserInv, KeysKnown, InDialogue

\* The keys on offer are those that have the chosen type.
LEMMA LookKeepsInv == ASSUME ClientsInv, NEW h \in Threads, Look(h) PROVE ClientsInv'
  <1> DEFINE v == handler[h].user
  <1>1. /\ handler[h] # None /\ handler[h].req.method \in Looks /\ Finish(h, "ok")
        /\ UNCHANGED <<daemon, pc, want, told, gaveUp, unsaved, rekeyed, overlap>>
        /\ handler[h].stage = "sent"
      BY DEF Look, Serves, Looks, ghosts
  <1>2. /\ v \in Users /\ handler[h].listens /\ job[v] # None /\ job[v].req = handler[h].req
      BY <1>1, FinishFacts DEF ClientsInv, ThreadsInv, ThreadInv
  <1>3. ASSUME handler[h].req.method = "list" PROVE pc[v] = "listing"
      BY <1>2, <1>3, RequestTypes DEF ClientsInv, UserInv, Awaits, Waiting
  <1>4. /\ choices' \in [Users -> SUBSET Keys]
        /\ \A d \in Users : /\ \A k \in choices'[d] : HasHad(k, want[d])
                            /\ pc[d] \notin Dialogue => choices'[d] = {}
    <2>1. CASE handler[h].req.method = "list"
      <3>1. choices' = [choices EXCEPT ![v] = Candidates(want[v])]
          BY <2>1 DEF Look
      <3>2. \A k \in Candidates(want[v]) : HasHad(k, want[v])
          BY DEF Candidates, HasHad
      <3> QED  BY <1>2, <1>3, <2>1, <3>1, <3>2, SameChoices DEF Candidates, Dialogue
    <2>2. CASE handler[h].req.method # "list"
        BY <2>2, SameChoices DEF Look
    <2> QED  BY <2>1, <2>2
  <1>5. handler[h].req.method \notin {"spawn", "add"} /\ ~Serves(h, "spawn", "installed")
        /\ unsaved' \subseteq Users /\ unsaved \subseteq unsaved'
      BY <1>1 DEF Looks, Serves, ClientsInv, GhostTypes
  <1> QED  BY <1>1, <1>4, <1>5, FinishStep

\* A key that was added has its type when the secret is stored.
LEMMA StoreSecretKeepsInv == ASSUME ClientsInv, NEW h \in Threads, StoreSecret(h) PROVE ClientsInv'
  <1>1. /\ handler[h] # None /\ Finish(h, "ok")
        /\ Serves(h, "add", "written") \/ Serves(h, "remove", "written")
        /\ UNCHANGED <<daemon, pc, want, choices, told, gaveUp, unsaved, rekeyed, overlap>>
      BY DEF StoreSecret, Serves, ghosts, dialogue
  <1>2. handler[h].req.method = "add" => HasHad(handler[h].req.key, handler[h].req.type)
      BY <1>1 DEF ClientsInv, ThreadsInv, KeysThread, Serves
  <1>3. handler[h].req.method # "spawn" /\ ~Serves(h, "spawn", "installed")
        /\ unsaved' \subseteq Users /\ unsaved \subseteq unsaved'
      BY <1>1 DEF Serves, ClientsInv, GhostTypes
  <1> QED  BY <1>1, <1>2, <1>3, FinishStep, SameChoices

\* A failure reports no success.
LEMMA FailKeepsInv == ASSUME ClientsInv, NEW h \in Threads, Fail(h) PROVE ClientsInv'
  <1>1. /\ handler[h] # None /\ Finish(h, "error")
        /\ UNCHANGED <<daemon, pc, want, choices, told, gaveUp, rekeyed, overlap>>
        /\ unsaved' = IF handler[h].stage = "installed" THEN unsaved \cup {handler[h].user}
                      ELSE unsaved
      BY DEF Fail, dialogue
  <1>2. handler[h].user \in Users /\ unsaved \subseteq Users
      BY <1>1, FinishFacts DEF ClientsInv, GhostTypes
  <1>3. /\ Serves(h, "spawn", "installed") => handler[h].user \in unsaved'
        /\ unsaved' \subseteq Users /\ unsaved \subseteq unsaved'
      BY <1>1, <1>2 DEF Serves
  <1> QED  BY <1>1, <1>3, FinishStep, SameChoices

\* agents.json has what the spawn started, and nothing else was there.
LEMMA SaveKeepsInv == ASSUME ClientsInv, NEW h \in Threads, Save(h) PROVE ClientsInv'
  <1> DEFINE v == handler[h].user
  <1> DEFINE r == handler[h].req
  <1>1. DaemonTypes /\ UserTypes /\ GhostTypes /\ ThreadsInv /\ ChosenTypeUsed
      BY DEF ClientsInv
  <1>2. /\ handler[h] # None /\ r.method = "spawn" /\ handler[h].stage = "installed"
        /\ Serves(h, "spawn", "installed") /\ Finish(h, "ok")
        /\ stored' = Started(v, r.key, r.type)
        /\ UNCHANGED <<up, keys, agent, pc, want, choices, told, gaveUp, unsaved, rekeyed, overlap>>
      BY DEF Save, Serves, dialogue, ghosts
  <1>3. /\ v \in Users /\ r \in Requests
        /\ handler' \in [Threads -> Handlers \cup {None}] /\ handler'[h] = None
        /\ \A g \in Threads \ {h} : handler'[g] = handler[g]
        /\ job' \in [Users -> Jobs \cup {None}]
        /\ \A d \in Users : /\ job'[d] = None <=> job[d] = None
                            /\ job[d] # None => job'[d].req = job[d].req
        /\ \A d \in Users : (handler[h].listens /\ d = v) \/ job'[d] = job[d]
        /\ handler[h].listens =>
               /\ job[v] # None /\ job[v].answer = None
               /\ job[v].req = r /\ job'[v].answer = "ok"
        /\ \A d \in Users : ServedInv(d)'
      BY <1>2, FinishFacts
  <1>4. /\ stored' \in Agents /\ stored' # None /\ stored'.by = v
        /\ stored'.key = r.key /\ stored'.chosen = r.type
      BY <1>2, <1>3, RequestFields, StartedTypes
  <1>5. /\ HasHad(r.key, r.type) /\ (handler[h].listens \/ v \in gaveUp)
        /\ "agents" \notin overlap => Owns(v, agent) /\ stored = None
      BY <1>1, <1>2 DEF ThreadsInv, ThreadInv, AgentThread
  <1>6. DaemonTypes' /\ UserTypes' /\ GhostTypes' /\ ChosenTypeUsed' /\ StoredKnown'
    <2>1. DaemonTypes' /\ UserTypes'
        BY <1>1, <1>2, <1>3, <1>4 DEF DaemonTypes, UserTypes
    <2>2. GhostTypes' /\ ChosenTypeUsed'
        BY <1>1, <1>2 DEF GhostTypes, ChosenTypeUsed
    <2>3. StoredKnown'
        BY <1>2, <1>4, <1>5 DEF StoredKnown, HasHad
    <2> QED  BY <2>1, <2>2, <2>3
  <1>7. ThreadsInv'
    <2>1. ASSUME NEW g \in Threads PROVE ThreadInv(g)' /\ KeysThread(g)'
      <3>1. CASE g = h
          BY <1>3, <3>1 DEF ThreadInv, KeysThread, Serves
      <3>2. CASE g # h
          BY <1>1, <1>2, <1>3, <3>2 DEF ThreadsInv, ThreadInv, KeysThread, Serves, HasHad
      <3> QED  BY <3>1, <3>2
    <2>2. ASSUME NEW g \in Threads PROVE AgentThread(g)'
      <3>1. CASE g = h \/ "agents" \in overlap
          BY <1>2, <1>3, <3>1 DEF AgentThread, Serves
      <3>2. CASE g # h /\ "agents" \notin overlap
        <4>1. Changing(h, "agents") /\ ~Changing(g, "agents")
            BY <1>1, <1>2, <3>2 DEF ThreadsInv, Exclusive, Changing, File
        <4>2. ~Serves(g, "spawn", "checked")' /\ ~Serves(g, "spawn", "installed")'
            BY <1>3, <3>2, <4>1 DEF Serves, Changing, File
        <4> QED  BY <4>2 DEF AgentThread
      <3> QED  BY <3>1, <3>2
    <2>3. \A g \in Threads, f \in {"agents", "keys"} : Changing(g, f)' => Changing(g, f)
        BY <1>3 DEF Changing, File
    <2>4. Exclusive'
        BY <1>1, <1>2, <2>3 DEF ThreadsInv, Exclusive
    <2> QED  BY <2>1, <2>2, <2>4 DEF ThreadsInv
  <1>8. ASSUME NEW d \in Users PROVE UserInv(d)'
    <2>1. UserInv(d)
        BY DEF ClientsInv
    <2>2. Awaits(d)'
        BY <1>2, <1>3, <2>1 DEF UserInv, Awaits, Waiting
    <2>3. InDialogue(d)'
        BY <1>2, <2>1 DEF UserInv, InDialogue
    <2>4. handler[h].listens /\ d = v => pc[d] = "spawning"
        BY <1>2, <1>3, <2>1, RequestTypes DEF UserInv, Awaits, Waiting
    <2>5. KeysKnown(d)'
      <3>1. AnsweredOk(d, "adding")' => AnsweredOk(d, "adding") /\ job'[d] = job[d]
          BY <1>2, <1>3, <2>4 DEF AnsweredOk
      <3>2. AnsweredOk(d, "adding")' => HasHad(job'[d].req.key, want[d])
          BY <2>1, <3>1 DEF UserInv, KeysKnown
      <3>3. \A k \in choices[d] : HasHad(k, want[d])
          BY <2>1 DEF UserInv, KeysKnown
      <3> QED  BY <1>2, <3>2, <3>3 DEF KeysKnown, HasHad
    <2>6. CASE d = v
      <3>1. handler[h].listens => Reported(d)'
          BY <1>2, <1>3, <2>4, <2>6 DEF Reported, AnsweredOk
      <3>2. "agents" \notin overlap => Owns(d, stored)' /\ Owns(d, agent)'
          BY <1>2, <1>4, <1>5, <2>6 DEF Owns
      <3>3. Claims(d)'
          BY <1>2, <1>5, <2>6, <3>1, <3>2 DEF Claims
      <3> QED  BY <2>2, <2>3, <2>5, <3>3 DEF UserInv
    <2>7. CASE d # v
      <3>1. Reported(d)' <=> Reported(d)
          BY <1>2, <1>3, <2>7 DEF Reported, AnsweredOk
      <3>2. Saving(d) => Saving(d)'
          BY <1>2, <1>3, <2>7 DEF Saving, Serves
      <3>3. Reported(d) => "agents" \in overlap
          BY <1>5, <2>1 DEF UserInv, Claims, Owns
      <3>4. ~Owns(d, stored)' /\ (Owns(d, agent)' <=> Owns(d, agent))
          BY <1>2, <1>4, <2>7 DEF Owns
      <3>5. Claims(d)'
          BY <1>2, <2>1, <3>1, <3>2, <3>3, <3>4 DEF UserInv, Claims
      <3> QED  BY <2>2, <2>3, <2>5, <3>5 DEF UserInv
    <2> QED  BY <2>6, <2>7
  <1> QED  BY <1>3, <1>6, <1>7, <1>8 DEF ClientsInv

\* A thread that goes on serves the same request, for the same program.
LEMMA GoesOn ==
    ASSUME ClientsInv, NEW h \in Threads, handler[h] # None, UNCHANGED <<pc, job>>,
           handler'[h] # None, handler'[h].user = handler[h].user,
           handler'[h].req = handler[h].req, handler'[h].listens = handler[h].listens,
           \A g \in Threads \ {h} : handler'[g] = handler[g]
    PROVE  \A d \in Users : ServedInv(d)'
  <1> SUFFICES ASSUME NEW d \in Users PROVE ServedInv(d)'
      OBVIOUS
  <1>1. ServedInv(d)
      BY DEF ClientsInv
  <1>2. Served(d)' = Served(d) /\ \A g \in Served(d) : handler'[g].req = handler[g].req
      BY DEF Served
  <1> QED  BY <1>1, <1>2 DEF ServedInv, Waits

\* The check sees no agent, or no key; and another thread between its own check
\* and its write is an excuse.
LEMMA CheckKeepsInv == ASSUME ClientsInv, NEW h \in Threads, Check(h) PROVE ClientsInv'
  <1> DEFINE r == handler[h].req
  <1>1. DaemonTypes /\ UserTypes /\ GhostTypes /\ ThreadsInv /\ ChosenTypeUsed /\ StoredKnown
      BY DEF ClientsInv
  <1>2. /\ handler[h] # None /\ r.method \in {"add", "remove", "spawn"}
        /\ handler[h].stage = "sent" /\ ~Refuses(r)
        /\ handler' = [handler EXCEPT ![h].stage = "checked",
                                      ![h].read = IF r.method = "spawn" THEN None ELSE keys]
        /\ overlap' = overlap \cup {f \in {File(r)} : \E g \in Threads : Changing(g, f)}
        /\ UNCHANGED <<up, keys, agent, stored, pc, job, want, choices, told, gaveUp, unsaved, rekeyed>>
      BY DEF Check, Serves, daemon, dialogue
  <1>3. handler[h] \in Handlers /\ r \in Requests
      BY <1>1, <1>2, HandlerFields DEF DaemonTypes
  <1>4. /\ handler'[h] \in Handlers /\ handler'[h].stage = "checked"
        /\ handler'[h].read = IF r.method = "spawn" THEN None ELSE keys
        /\ handler'[h].user = handler[h].user /\ handler'[h].req = r
        /\ handler'[h].listens = handler[h].listens
        /\ \A g \in Threads \ {h} : handler'[g] = handler[g]
    <2>1. handler'[h] = [handler[h] EXCEPT !.stage = "checked",
                                           !.read = IF r.method = "spawn" THEN None ELSE keys]
        BY <1>1, <1>2 DEF DaemonTypes
    <2>2. \A g \in Threads \ {h} : handler'[g] = handler[g]
        BY <1>1, <1>2 DEF DaemonTypes
    <2> QED  BY <1>1, <1>3, <2>1, <2>2 DEF Handlers, DaemonTypes
  <1>5. handler'[h] # None /\ handler' \in [Threads -> Handlers \cup {None}]
    <2>1. handler' = [g \in Threads |-> handler'[g]]
        BY <1>1, <1>2 DEF DaemonTypes
    <2>2. \A g \in Threads : handler'[g] \in Handlers \cup {None}
        BY <1>1, <1>4 DEF DaemonTypes
    <2> QED  BY <1>4, <2>1, <2>2, NoneIsNoRecord
  <1>6. /\ overlap \subseteq overlap' /\ overlap' \subseteq {"agents", "keys"}
        /\ \A f \in {"agents", "keys"} :
               f \notin overlap' /\ f = File(r) => \A g \in Threads : ~Changing(g, f)
      BY <1>1, <1>2 DEF GhostTypes, File
  <1>7. /\ r.method = "add" => keys[r.key] = None
        /\ r.method = "spawn" => agent = None /\ stored = None
      BY <1>2 DEF Refuses
  <1> HIDE DEF r
  <1>8. DaemonTypes' /\ UserTypes' /\ GhostTypes' /\ ChosenTypeUsed' /\ StoredKnown'
    <2>1. DaemonTypes' /\ UserTypes' /\ GhostTypes'
        BY <1>1, <1>2, <1>5, <1>6 DEF DaemonTypes, UserTypes, GhostTypes
    <2>2. ChosenTypeUsed' /\ StoredKnown'
        BY <1>1, <1>2, <1>6 DEF ChosenTypeUsed, StoredKnown, HasHad
    <2> QED  BY <2>1, <2>2
  <1>9. ThreadsInv'
    <2>1. ASSUME NEW g \in Threads \ {h} PROVE ThreadInv(g)' /\ KeysThread(g)' /\ AgentThread(g)'
      <3>1. ThreadInv(g) /\ KeysThread(g) /\ AgentThread(g) /\ handler'[g] = handler[g]
          BY <1>1, <1>4, <2>1 DEF ThreadsInv
      <3>2. ThreadInv(g)'
          BY <1>2, <1>6, <3>1 DEF ThreadInv, HasHad, Looks
      <3>3. KeysThread(g)'
          BY <1>2, <1>6, <3>1 DEF KeysThread, Serves, HasHad
      <3>4. AgentThread(g)'
          BY <1>2, <1>6, <3>1 DEF AgentThread, Serves, Owns
      <3> QED  BY <3>2, <3>3, <3>4
    <2>2. ThreadInv(h)'
        BY <1>1, <1>2, <1>4, <1>6 DEF ThreadsInv, ThreadInv, HasHad, Looks, r
    <2>3. KeysThread(h)' /\ AgentThread(h)'
        BY <1>1, <1>2, <1>4, <1>7 DEF KeysThread, AgentThread, Serves, DaemonTypes
    <2>4. Exclusive'
      <3>1. ASSUME NEW f \in {"agents", "keys"}, f \notin overlap',
                   NEW g \in Threads, NEW i \in Threads, Changing(g, f)', Changing(i, f)'
            PROVE  g = i
        <4>1. CASE f = File(r)
          <5>1. \A j \in Threads \ {h} : ~Changing(j, f)'
              BY <1>4, <1>6, <3>1, <4>1 DEF Changing, File
          <5> QED  BY <3>1, <5>1
        <4>2. CASE f # File(r)
          <5>1. ~Changing(h, f)'
              BY <1>4, <4>2 DEF Changing, File
          <5>2. \A j \in Threads \ {h} : Changing(j, f)' => Changing(j, f)
              BY <1>4 DEF Changing, File
          <5> QED  BY <1>1, <1>6, <3>1, <5>1, <5>2 DEF ThreadsInv, Exclusive
        <4> QED  BY <4>1, <4>2
      <3> QED  BY <3>1 DEF Exclusive
    <2> QED  BY <2>1, <2>2, <2>3, <2>4 DEF ThreadsInv
  <1>10. \A d \in Users : ServedInv(d)'
      BY <1>2, <1>4, <1>5, GoesOn DEF r
  <1>11. ASSUME NEW d \in Users PROVE UserInv(d)'
    <2>1. UserInv(d)
        BY DEF ClientsInv
    <2>2. Awaits(d)' /\ InDialogue(d)'
        BY <1>2, <2>1 DEF UserInv, Awaits, InDialogue
    <2>3. KeysKnown(d)'
        BY <1>2, <1>6, <2>1 DEF UserInv, KeysKnown, AnsweredOk, HasHad
    <2>4. Saving(d) => Saving(d)'
        BY <1>2, <1>4 DEF Saving, Serves
    <2>5. Claims(d)'
        BY <1>2, <1>6, <2>1, <2>4 DEF UserInv, Claims, Reported, AnsweredOk, Owns
    <2> QED  BY <2>2, <2>3, <2>5 DEF UserInv
  <1> QED  BY <1>8, <1>9, <1>10, <1>11 DEF ClientsInv

\* Unless another change gets lost, keys.json changes at one key, which it did not
\* have or which counts as removed from now on.
LEMMA WriteKeysKeepsInv == ASSUME ClientsInv, NEW h \in Threads, WriteKeys(h) PROVE ClientsInv'
  <1> DEFINE r == handler[h].req
  <1>1. DaemonTypes /\ UserTypes /\ GhostTypes /\ ThreadsInv /\ ChosenTypeUsed /\ StoredKnown
      BY DEF ClientsInv
  <1>2. /\ handler[h] # None /\ r.method \in {"add", "remove"} /\ handler[h].stage = "checked"
        /\ Serves(h, "add", "checked") \/ Serves(h, "remove", "checked")
        /\ keys' = [handler[h].read EXCEPT ![r.key] = r.type]
        /\ handler' = [handler EXCEPT ![h].stage = "written", ![h].read = None]
        /\ rekeyed' = IF r.method = "remove" THEN rekeyed \cup {r.key} ELSE rekeyed
        /\ UNCHANGED <<up, agent, stored, pc, job, want, choices, told, gaveUp, unsaved, overlap>>
      BY DEF WriteKeys, Serves, dialogue
  <1>3. handler[h] \in Handlers /\ r \in Requests
      BY <1>1, <1>2, HandlerFields DEF DaemonTypes
  <1>4. /\ handler'[h] \in Handlers /\ handler'[h].stage = "written"
        /\ handler'[h].user = handler[h].user /\ handler'[h].req = r
        /\ handler'[h].listens = handler[h].listens
        /\ \A g \in Threads \ {h} : handler'[g] = handler[g]
    <2>1. handler'[h] = [handler[h] EXCEPT !.stage = "written", !.read = None]
        BY <1>1, <1>2 DEF DaemonTypes
    <2>2. \A g \in Threads \ {h} : handler'[g] = handler[g]
        BY <1>1, <1>2 DEF DaemonTypes
    <2> QED  BY <1>3, <2>1, <2>2 DEF Handlers
  <1>5. handler'[h] # None /\ handler' \in [Threads -> Handlers \cup {None}]
    <2>1. handler' = [g \in Threads |-> handler'[g]]
        BY <1>1, <1>2 DEF DaemonTypes
    <2>2. \A g \in Threads : handler'[g] \in Handlers \cup {None}
        BY <1>1, <1>4 DEF DaemonTypes
    <2> QED  BY <1>4, <2>1, <2>2, NoneIsNoRecord
  <1>6. /\ r.key \in Keys /\ r.type \in Types \cup {None} /\ (r.method = "add" => r.type \in Types)
        /\ handler[h].read \in Documents /\ ("keys" \in overlap \/ handler[h].read = keys)
        /\ r.method = "add" => "keys" \in overlap \/ keys[r.key] = None
      BY <1>1, <1>2, <1>3, RequestFields DEF ThreadsInv, KeysThread, Serves
  <1>7. keys' \in Documents /\ keys'[r.key] = r.type /\ rekeyed \subseteq rekeyed'
        /\ rekeyed' \subseteq Keys
      BY <1>1, <1>2, <1>6 DEF Documents, GhostTypes
  <1>8. ASSUME NEW k \in Keys, NEW t \in Types, HasHad(k, t) PROVE HasHad(k, t)'
    <2>1. CASE "keys" \in overlap \/ k \in rekeyed
        BY <1>2, <1>7, <2>1 DEF HasHad
    <2>2. CASE keys[k] = t /\ "keys" \notin overlap
      <3>1. k # r.key => keys'[k] = keys[k]
          BY <1>2, <1>6, <2>2 DEF Documents
      <3>2. t # None
          BY NoneIsNobody
      <3>3. k = r.key => k \in rekeyed'
          BY <1>2, <1>6, <2>2, <3>2
      <3> QED  BY <2>2, <3>1, <3>3 DEF HasHad
    <2> QED  BY <1>8, <2>1, <2>2 DEF HasHad
  <1> HIDE DEF r
  <1>9. DaemonTypes' /\ UserTypes' /\ GhostTypes' /\ ChosenTypeUsed' /\ StoredKnown'
    <2>1. DaemonTypes' /\ UserTypes' /\ GhostTypes'
        BY <1>1, <1>2, <1>5, <1>7 DEF DaemonTypes, UserTypes, GhostTypes
    <2>2. ChosenTypeUsed'
        BY <1>1, <1>2, <1>7 DEF ChosenTypeUsed
    <2>3. stored # None => stored.key \in Keys /\ stored.chosen \in Types
        BY <1>1 DEF DaemonTypes, Agents
    <2>4. StoredKnown'
      <3>1. ASSUME stored # None PROVE HasHad(stored.key, stored.chosen)'
        <4>1. HasHad(stored.key, stored.chosen)
            BY <1>1, <3>1 DEF StoredKnown
        <4> QED  BY <1>2, <1>8, <2>3, <3>1, <4>1 DEF HasHad
      <3> QED  BY <1>2, <3>1 DEF StoredKnown
    <2> QED  BY <2>1, <2>2, <2>4
  <1>10. ThreadsInv'
    <2>1. ASSUME NEW g \in Threads PROVE ThreadInv(g)'
      <3>1. handler'[g] # None =>
                /\ handler[g] # None /\ handler'[g].user = handler[g].user
                /\ handler'[g].req = handler[g].req /\ handler'[g].listens = handler[g].listens
                /\ g = h \/ handler'[g].stage = handler[g].stage
          BY <1>2, <1>4 DEF r
      <3>2. ASSUME handler[g] # None, handler[g].req.method = "spawn"
            PROVE  HasHad(handler[g].req.key, handler[g].req.type)'
        <4>1. handler[g].req \in Requests
            BY <1>1, <3>2, HandlerFields DEF DaemonTypes
        <4>2. handler[g].req.key \in Keys /\ handler[g].req.type \in Types
            BY <3>2, <4>1, RequestFields
        <4>3. HasHad(handler[g].req.key, handler[g].req.type)
            BY <1>1, <3>2 DEF ThreadsInv, ThreadInv
        <4>4. handler'[g].req = handler[g].req
            BY <1>4 DEF r
        <4> DEFINE k == handler[g].req.key
        <4> DEFINE t == handler[g].req.type
        <4>5. keys'[k] = t \/ k \in rekeyed' \/ "keys" \in overlap'
          <5> HIDE DEF k, t
          <5>1. k \in Keys /\ t \in Types /\ HasHad(k, t)
              BY <4>2, <4>3 DEF k, t
          <5> QED  BY <1>8, <5>1 DEF HasHad
        <4> QED  BY <4>4, <4>5 DEF HasHad
      <3>3. handler[g] # None => ThreadInv(g)
          BY <1>1 DEF ThreadsInv
      <3>4. handler'[g] # None /\ handler'[g].stage = "written" =>
                handler'[g].req.method \in {"add", "remove"}
          BY <1>2, <1>4, <3>1, <3>3 DEF ThreadInv, r
      <3>5. handler'[g] # None /\ handler'[g].stage = "installed" =>
                handler'[g].req.method = "spawn"
          BY <1>2, <1>4, <3>1, <3>3 DEF ThreadInv
      <3> QED  BY <1>2, <3>1, <3>2, <3>3, <3>4, <3>5 DEF ThreadInv
    <2>2. KeysThread(h)' /\ AgentThread(h)'
      <3>1. ~Serves(h, "add", "checked")' /\ ~Serves(h, "remove", "checked")'
            /\ ~Serves(h, "spawn", "checked")' /\ ~Serves(h, "spawn", "installed")'
          BY <1>4 DEF Serves
      <3>2. HasHad(handler[h].req.key, handler[h].req.type)'
          BY <1>4, <1>7 DEF HasHad, r
      <3> QED  BY <3>1, <3>2 DEF KeysThread, AgentThread
    <2>3. ASSUME NEW g \in Threads \ {h} PROVE AgentThread(g)'
        BY <1>1, <1>2, <1>4, <2>3 DEF ThreadsInv, AgentThread, Serves, Owns
    <2>4. ASSUME NEW g \in Threads \ {h} PROVE KeysThread(g)'
      <3>1. "keys" \in overlap \/ ~Changing(g, "keys")
        <4>1. Changing(h, "keys")
            BY <1>2 DEF Changing, File, r
        <4> QED  BY <1>1, <2>4, <4>1 DEF ThreadsInv, Exclusive
      <3>2. Changing(g, "keys") <=> (Serves(g, "add", "checked") \/ Serves(g, "remove", "checked"))
                                    \/ (Changing(g, "keys") /\ handler[g].stage = "installed")
                                    \/ (Changing(g, "keys") /\ handler[g].req.method \notin {"add", "remove"})
          BY DEF Changing, Serves, File
      <3>3. Serves(g, "add", "checked")' \/ Serves(g, "remove", "checked")' =>
                "keys" \in overlap /\ handler'[g].read \in Documents
        <4>1. Serves(g, "add", "checked")' \/ Serves(g, "remove", "checked")' =>
                  Serves(g, "add", "checked") \/ Serves(g, "remove", "checked")
            BY <1>4, <2>4 DEF Serves
        <4>2. Serves(g, "add", "checked") \/ Serves(g, "remove", "checked") =>
                  Changing(g, "keys") /\ handler[g].read \in Documents
            BY <1>1, <2>4 DEF Serves, Changing, File, ThreadsInv, KeysThread
        <4> QED  BY <1>4, <2>4, <3>1, <4>1, <4>2
      <3>4. ASSUME Serves(g, "add", "written")' PROVE HasHad(handler[g].req.key, handler[g].req.type)'
        <4>1. Serves(g, "add", "written") /\ handler'[g] = handler[g]
            BY <1>4, <2>4, <3>4 DEF Serves
        <4>2. handler[g].req \in Requests
            BY <1>1, <2>4, <4>1, HandlerFields DEF DaemonTypes, Serves
        <4> DEFINE k == handler[g].req.key
        <4> DEFINE t == handler[g].req.type
        <4>3. k \in Keys /\ t \in Types /\ HasHad(k, t)
            BY <1>1, <2>4, <4>1, <4>2, RequestFields DEF ThreadsInv, KeysThread, Serves
        <4>4. keys'[k] = t \/ k \in rekeyed' \/ "keys" \in overlap'
          <5> HIDE DEF k, t
          <5> QED  BY <1>8, <4>3 DEF HasHad
        <4> QED  BY <4>1, <4>4 DEF HasHad
      <3> QED  BY <1>2, <3>3, <3>4 DEF KeysThread, Serves
    <2>5. Exclusive'
      <3>1. \A g \in Threads, f \in {"agents", "keys"} : Changing(g, f)' => Changing(g, f)
          BY <1>4 DEF Changing, File
      <3> QED  BY <1>1, <1>2, <3>1 DEF ThreadsInv, Exclusive
    <2> QED  BY <2>1, <2>2, <2>3, <2>4, <2>5 DEF ThreadsInv
  <1>11. \A d \in Users : ServedInv(d)'
      BY <1>2, <1>4, <1>5, GoesOn DEF r
  <1>12. ASSUME NEW d \in Users PROVE UserInv(d)'
    <2>1. UserInv(d)
        BY DEF ClientsInv
    <2>2. Awaits(d)' /\ InDialogue(d)'
        BY <1>2, <2>1 DEF UserInv, Awaits, InDialogue
    <2>3. KeysKnown(d)'
      <3>1. ASSUME NEW k \in choices[d] PROVE HasHad(k, want[d])'
        <4>1. k \in Keys /\ want[d] \in Types /\ HasHad(k, want[d])
            BY <1>1, <2>1, <3>1 DEF UserInv, InDialogue, KeysKnown, UserTypes
        <4> QED  BY <1>2, <1>8, <4>1 DEF HasHad
      <3>2. ASSUME AnsweredOk(d, "adding") PROVE HasHad(job[d].req.key, want[d])'
        <4>1. job[d] # None /\ job[d].req.method = "add" /\ want[d] \in Types
            BY <2>1, <3>2 DEF UserInv, Awaits, InDialogue, AnsweredOk, Dialogue, Waiting
        <4>2. job[d].req.key \in Keys /\ HasHad(job[d].req.key, want[d])
            BY <1>1, <2>1, <3>2, <4>1, JobFields, RequestFields
            DEF UserInv, KeysKnown, UserTypes
        <4> QED  BY <1>2, <1>8, <4>1, <4>2 DEF HasHad
      <3> QED  BY <1>2, <3>1, <3>2 DEF KeysKnown, AnsweredOk, HasHad
    <2>4. Saving(d) => Saving(d)'
        BY <1>2, <1>4 DEF Saving, Serves
    <2>5. Claims(d)'
        BY <1>2, <2>1, <2>4 DEF UserInv, Claims, Reported, AnsweredOk, Owns
    <2> QED  BY <2>2, <2>3, <2>5 DEF UserInv
  <1> QED  BY <1>9, <1>10, <1>11, <1>12 DEF ClientsInv

\* The agent that is started is the only one, unless two spawns overlap.
LEMMA InstallKeepsInv == ASSUME ClientsInv, NEW h \in Threads, Install(h) PROVE ClientsInv'
  <1> DEFINE v == handler[h].user
  <1> DEFINE r == handler[h].req
  <1>1. DaemonTypes /\ UserTypes /\ GhostTypes /\ ThreadsInv /\ StoredKnown
      BY DEF ClientsInv
  <1>2. /\ handler[h] # None /\ r.method = "spawn" /\ handler[h].stage = "checked"
        /\ Serves(h, "spawn", "checked")
        /\ agent' = Started(v, r.key, r.type)
        /\ handler' = [handler EXCEPT ![h].stage = "installed"]
        /\ UNCHANGED <<up, keys, stored, pc, job, want, choices, told, gaveUp, unsaved, rekeyed, overlap>>
      BY DEF Install, Serves, dialogue, ghosts
  <1>3. handler[h] \in Handlers /\ r \in Requests /\ v \in Users
      BY <1>1, <1>2, HandlerFields DEF DaemonTypes
  <1>4. /\ handler'[h] \in Handlers /\ handler'[h].stage = "installed"
        /\ handler'[h].user = v /\ handler'[h].req = r
        /\ handler'[h].listens = handler[h].listens
        /\ \A g \in Threads \ {h} : handler'[g] = handler[g]
    <2>1. handler'[h] = [handler[h] EXCEPT !.stage = "installed"]
        BY <1>1, <1>2 DEF DaemonTypes
    <2>2. \A g \in Threads \ {h} : handler'[g] = handler[g]
        BY <1>1, <1>2 DEF DaemonTypes
    <2> QED  BY <1>3, <2>1, <2>2 DEF Handlers
  <1>5. handler'[h] # None /\ handler' \in [Threads -> Handlers \cup {None}]
    <2>1. handler' = [g \in Threads |-> handler'[g]]
        BY <1>1, <1>2 DEF DaemonTypes
    <2>2. \A g \in Threads : handler'[g] \in Handlers \cup {None}
        BY <1>1, <1>4 DEF DaemonTypes
    <2> QED  BY <1>4, <2>1, <2>2, NoneIsNoRecord
  <1>6. /\ agent' \in Agents /\ agent' # None /\ agent'.by = v /\ agent'.key = r.key
        /\ agent'.asChosen <=> keys[r.key] = r.type
      BY <1>2, <1>3, RequestFields, StartedTypes
  <1>7. /\ HasHad(r.key, r.type)
        /\ "agents" \notin overlap => agent = None /\ stored = None
      BY <1>1, <1>2 DEF ThreadsInv, ThreadInv, AgentThread
  <1>8. DaemonTypes' /\ UserTypes' /\ GhostTypes' /\ ChosenTypeUsed' /\ StoredKnown'
    <2>1. DaemonTypes' /\ UserTypes' /\ GhostTypes'
        BY <1>1, <1>2, <1>5, <1>6 DEF DaemonTypes, UserTypes, GhostTypes
    <2>2. ChosenTypeUsed'
        BY <1>2, <1>6, <1>7 DEF ChosenTypeUsed, HasHad
    <2>3. StoredKnown'
        BY <1>1, <1>2 DEF StoredKnown, HasHad
    <2> QED  BY <2>1, <2>2, <2>3
  <1>9. ThreadsInv'
    <2>1. ASSUME NEW g \in Threads \ {h} PROVE ThreadInv(g)' /\ KeysThread(g)'
        BY <1>1, <1>2, <1>4, <2>1 DEF ThreadsInv, ThreadInv, KeysThread, Serves, HasHad
    <2>2. ThreadInv(h)'
        BY <1>1, <1>2, <1>4 DEF ThreadsInv, ThreadInv, HasHad
    <2>3. KeysThread(h)'
        BY <1>4 DEF KeysThread, Serves
    <2>4. AgentThread(h)'
        BY <1>2, <1>4, <1>6, <1>7 DEF AgentThread, Serves, Owns
    <2>5. ASSUME NEW g \in Threads \ {h} PROVE AgentThread(g)'
      <3>1. CASE "agents" \in overlap
          BY <1>2, <3>1 DEF AgentThread
      <3>2. CASE "agents" \notin overlap
        <4>1. Changing(h, "agents")
            BY <1>2 DEF Changing, File
        <4>2. ~Changing(g, "agents")
            BY <1>1, <2>5, <3>2, <4>1 DEF ThreadsInv, Exclusive
        <4>3. ~Serves(g, "spawn", "checked")' /\ ~Serves(g, "spawn", "installed")'
            BY <1>4, <2>5, <4>2 DEF Serves, Changing, File
        <4> QED  BY <4>3 DEF AgentThread
      <3> QED  BY <3>1, <3>2
    <2>6. Exclusive'
      <3>1. \A g \in Threads, f \in {"agents", "keys"} : Changing(g, f)' => Changing(g, f)
          BY <1>2, <1>4 DEF Changing, File
      <3> QED  BY <1>1, <1>2, <3>1 DEF ThreadsInv, Exclusive
    <2> QED  BY <2>1, <2>2, <2>3, <2>4, <2>5, <2>6 DEF ThreadsInv
  <1>10. \A d \in Users : ServedInv(d)'
      BY <1>2, <1>4, <1>5, GoesOn
  <1>11. ASSUME NEW d \in Users PROVE UserInv(d)'
    <2>1. UserInv(d)
        BY DEF ClientsInv
    <2>2. Awaits(d)' /\ InDialogue(d)' /\ KeysKnown(d)'
        BY <1>2, <2>1 DEF UserInv, Awaits, InDialogue, KeysKnown, AnsweredOk, HasHad
    <2>3. (Reported(d)' <=> Reported(d)) /\ (Owns(d, stored)' <=> Owns(d, stored))
        BY <1>2 DEF Reported, AnsweredOk, Owns
    <2>4. Reported(d) => "agents" \in overlap
        BY <1>7, <2>1 DEF UserInv, Claims, Owns
    <2>5. Owns(d, agent)' => Saving(d)'
        BY <1>2, <1>4, <1>5, <1>6 DEF Owns, Saving, Serves
    <2>6. Claims(d)'
        BY <1>2, <2>1, <2>3, <2>4, <2>5 DEF UserInv, Claims
    <2> QED  BY <2>2, <2>6 DEF UserInv
  <1> QED  BY <1>8, <1>9, <1>10, <1>11 DEF ClientsInv

-----------------------------------------------------------------------------
(* The daemon ends and comes back.                                         *)

\* Every call fails, and whoever loses the answer to a spawn counts as one who
\* gave up.
LEMMA DownKeepsInv == ASSUME ClientsInv, Down PROVE ClientsInv'
  <1>1. /\ DaemonTypes /\ UserTypes /\ GhostTypes /\ StoredKnown
        /\ up' = FALSE /\ agent' = None /\ handler' = [h \in Threads |-> None]
        /\ UNCHANGED <<keys, stored, pc, want, choices, told, unsaved, rekeyed, overlap>>
      BY DEF ClientsInv, Down, dialogue, ghosts
  <1>2. PICK lost \in SUBSET {u \in Users : job[u] # None} :
            /\ {u \in Users : Waits(u)} \subseteq lost
            /\ job' = [u \in Users |->
                          IF u \in lost THEN Job(job[u].req, "unavailable") ELSE job[u]]
            /\ gaveUp' = gaveUp \cup {u \in lost : ~Waits(u) /\ job[u].req.method = "spawn"}
      BY DEF Down
  <1>3. ASSUME NEW u \in Users
        PROVE  /\ job'[u] \in Jobs \cup {None} /\ (job'[u] = None <=> job[u] = None)
               /\ job[u] # None => job'[u].req = job[u].req
               /\ IF u \in lost THEN job[u] # None /\ job'[u].answer = "unavailable"
                  ELSE job'[u] = job[u]
    <2>1. CASE u \in lost
      <3>1. job[u] \in Jobs /\ job[u].req \in Requests /\ job[u] # None
          BY <1>1, <1>2, <2>1, JobFields DEF UserTypes
      <3> QED  BY <1>2, <2>1, <3>1, JobTypes
    <2>2. CASE u \notin lost
        BY <1>1, <1>2, <2>2 DEF UserTypes
    <2> QED  BY <2>1, <2>2
  <1>4. DaemonTypes' /\ UserTypes' /\ GhostTypes'
    <2>1. job' = [u \in Users |-> job'[u]]
        BY <1>2
    <2>2. job' \in [Users -> Jobs \cup {None}]
        BY <1>3, <2>1
    <2> QED  BY <1>1, <1>2, <2>2 DEF DaemonTypes, UserTypes, GhostTypes
  <1>5. ThreadsInv' /\ \A u \in Users : ServedInv(u)'
    <2>1. \A h \in Threads : ThreadInv(h)' /\ KeysThread(h)' /\ AgentThread(h)'
        BY <1>1 DEF ThreadInv, KeysThread, AgentThread, Serves
    <2>2. Exclusive'
        BY <1>1 DEF Exclusive, Changing
    <2>3. \A u \in Users : ServedInv(u)'
        BY <1>1 DEF ServedInv, Served
    <2> QED  BY <2>1, <2>2, <2>3 DEF ThreadsInv
  <1>6. ASSUME NEW u \in Users PROVE UserInv(u)'
    <2>1. UserInv(u)
        BY DEF ClientsInv
    <2>2. Awaits(u)' /\ InDialogue(u)'
        BY <1>1, <1>3, <2>1 DEF UserInv, Awaits, InDialogue, Waiting
    <2>3. AnsweredOk(u, "adding")' => AnsweredOk(u, "adding") /\ job'[u] = job[u]
        BY <1>1, <1>3 DEF AnsweredOk
    <2>4. KeysKnown(u)'
        BY <1>1, <2>1, <2>3 DEF UserInv, KeysKnown, AnsweredOk, HasHad
    <2>5. AnsweredOk(u, "spawning")' => AnsweredOk(u, "spawning")
        BY <1>1, <1>3 DEF AnsweredOk
    <2>6. AnsweredOk(u, "spawning") /\ u \notin gaveUp' => AnsweredOk(u, "spawning")'
      <3>1. AnsweredOk(u, "spawning") => job[u].req.method = "spawn" /\ ~Waits(u)
          BY <2>1, NoneIsNoAnswer DEF AnsweredOk, UserInv, Awaits, Waits
      <3>2. AnsweredOk(u, "spawning") /\ u \notin gaveUp' => u \notin lost
          BY <1>2, <3>1
      <3> QED  BY <1>1, <1>3, <3>2 DEF AnsweredOk
    <2>7. u \notin gaveUp' => u \notin gaveUp
        BY <1>2
    <2>8. Claims(u)'
        BY <1>1, <2>1, <2>5, <2>6, <2>7 DEF UserInv, Claims, Reported, Owns
    <2> QED  BY <2>2, <2>4, <2>8 DEF UserInv
  <1>7. ChosenTypeUsed' /\ StoredKnown'
      BY <1>1 DEF ChosenTypeUsed, StoredKnown, HasHad
  <1> QED  BY <1>4, <1>5, <1>6, <1>7 DEF ClientsInv

\* A daemon that answers again has the stored agent, with the key it finds.
LEMMA UpKeepsInv == ASSUME ClientsInv, Up PROVE ClientsInv'
  <1>1. /\ DaemonTypes /\ UserTypes /\ GhostTypes /\ StoredKnown /\ ThreadsInv
        /\ ~up /\ up' = TRUE
        /\ UNCHANGED <<keys, stored, handler, pc, job, want, choices, told, gaveUp, unsaved, rekeyed, overlap>>
      BY DEF ClientsInv, Up, dialogue, ghosts
  <1>2. \A h \in Threads : handler[h] = None
      BY <1>1 DEF ThreadsInv, ThreadInv
  <1>3. /\ agent' \in Agents \cup {None} /\ (agent' = None <=> stored = None)
        /\ agent' # None => /\ agent'.by = stored.by /\ agent'.key = stored.key
                            /\ agent'.asChosen <=> keys[stored.key] = stored.chosen
    <2>1. CASE stored = None
        BY <2>1 DEF Up
    <2>2. CASE stored # None
      <3>1. agent' = Started(stored.by, stored.key, stored.chosen)
          BY <2>2 DEF Up
      <3>2. stored.by \in Users /\ stored.key \in Keys /\ stored.chosen \in Types
          BY <1>1, <2>2 DEF DaemonTypes, Agents
      <3> QED  BY <2>2, <3>1, <3>2, StartedTypes
    <2> QED  BY <2>1, <2>2
  <1>4. DaemonTypes' /\ UserTypes' /\ GhostTypes' /\ StoredKnown'
      BY <1>1, <1>3 DEF DaemonTypes, UserTypes, GhostTypes, StoredKnown, HasHad
  <1>5. ChosenTypeUsed'
      BY <1>1, <1>3 DEF ChosenTypeUsed, StoredKnown, HasHad
  <1>6. ThreadsInv' /\ \A u \in Users : ServedInv(u)'
    <2>1. \A h \in Threads : ThreadInv(h)' /\ KeysThread(h)' /\ AgentThread(h)'
        BY <1>1, <1>2 DEF ThreadInv, KeysThread, AgentThread, Serves
    <2>2. Exclusive'
        BY <1>1, <1>2 DEF Exclusive, Changing
    <2>3. \A u \in Users : ServedInv(u)'
        BY <1>1, <1>2 DEF ServedInv, Served
    <2> QED  BY <2>1, <2>2, <2>3 DEF ThreadsInv
  <1>7. ASSUME NEW u \in Users PROVE UserInv(u)'
    <2>1. UserInv(u)
        BY DEF ClientsInv
    <2>2. Awaits(u)' /\ InDialogue(u)' /\ KeysKnown(u)'
        BY <1>1, <2>1 DEF UserInv, Awaits, InDialogue, KeysKnown, AnsweredOk, HasHad
    <2>3. Owns(u, agent)' <=> Owns(u, stored)
        BY <1>3 DEF Owns
    <2>4. Claims(u)'
        BY <1>1, <2>1, <2>3 DEF UserInv, Claims, Reported, AnsweredOk, Owns
    <2> QED  BY <2>2, <2>4 DEF UserInv
  <1> QED  BY <1>4, <1>5, <1>6, <1>7 DEF ClientsInv

\* A step that changes nothing.
LEMMA StutterKeepsInv == ASSUME ClientsInv, UNCHANGED vars PROVE ClientsInv'
  <1>1. UNCHANGED <<up, keys, agent, stored, handler, pc, job, want, choices, told, gaveUp,
                    unsaved, rekeyed, overlap>>
      BY DEF vars, daemon, dialogue, ghosts
  <1>2. DaemonTypes' /\ UserTypes' /\ GhostTypes' /\ ChosenTypeUsed' /\ StoredKnown'
      BY <1>1 DEF ClientsInv, DaemonTypes, UserTypes, GhostTypes, ChosenTypeUsed, StoredKnown, HasHad
  <1>3. ThreadsInv'
    <2>1. \A h \in Threads : ThreadInv(h)' /\ KeysThread(h)' /\ AgentThread(h)'
        BY <1>1 DEF ClientsInv, ThreadsInv, ThreadInv, KeysThread, AgentThread, Serves, HasHad, Owns
    <2>2. Exclusive'
        BY <1>1 DEF ClientsInv, ThreadsInv, Exclusive, Changing
    <2> QED  BY <2>1, <2>2 DEF ThreadsInv
  <1>4. ASSUME NEW u \in Users PROVE UserInv(u)' /\ ServedInv(u)'
    <2>1. UserInv(u) /\ ServedInv(u)
        BY DEF ClientsInv
    <2>2. Awaits(u)' /\ InDialogue(u)' /\ KeysKnown(u)'
        BY <1>1, <2>1 DEF UserInv, Awaits, InDialogue, KeysKnown, AnsweredOk, HasHad
    <2>3. Claims(u)'
        BY <1>1, <2>1 DEF UserInv, Claims, Reported, AnsweredOk, Owns, Saving, Serves
    <2>4. ServedInv(u)'
        BY <1>1, <2>1 DEF ServedInv, Served, Waits
    <2> QED  BY <2>2, <2>3, <2>4 DEF UserInv
  <1> QED  BY <1>2, <1>3, <1>4 DEF ClientsInv

\* Every step keeps the invariant.
LEMMA ClientsStep == ClientsInv /\ [Next]_vars => ClientsInv'
  <1> SUFFICES ASSUME ClientsInv, [Next]_vars PROVE ClientsInv'
      OBVIOUS
  <1>1. ASSUME NEW u \in Users, Choices(u) \/ Continue(u) \/ TimeOut(u) PROVE ClientsInv'
      BY <1>1, ProgramsKeepInv
  <1>2. ASSUME NEW h \in Threads, Serve(h) PROVE ClientsInv'
    <2>1. CASE Look(h)
        BY <2>1, LookKeepsInv
    <2>2. CASE Check(h)
        BY <2>2, CheckKeepsInv
    <2>3. CASE WriteKeys(h)
        BY <2>3, WriteKeysKeepsInv
    <2>4. CASE StoreSecret(h)
        BY <2>4, StoreSecretKeepsInv
    <2>5. CASE Install(h)
        BY <2>5, InstallKeepsInv
    <2>6. CASE Save(h)
        BY <2>6, SaveKeepsInv
    <2>7. CASE Fail(h)
        BY <2>7, FailKeepsInv
    <2> QED  BY <1>2, <2>1, <2>2, <2>3, <2>4, <2>5, <2>6, <2>7 DEF Serve
  <1>3. CASE Down
      BY <1>3, DownKeepsInv
  <1>4. CASE Up
      BY <1>4, UpKeepsInv
  <1>5. CASE UNCHANGED vars
      BY <1>5, StutterKeepsInv
  <1> QED  BY <1>1, <1>2, <1>3, <1>4, <1>5 DEF Next

\* The invariant holds in every reachable state.
THEOREM ClientsInvariant == Spec => []ClientsInv
  <1> QED  BY ClientsInit, ClientsStep, PTL DEF Spec

-----------------------------------------------------------------------------
(* What it implies.                                                        *)

\* TypeOK: the types, and that a program waits for a request exactly at the steps
\* that call the daemon (daemon_client.py, rpc.rs).
THEOREM ClientsTypeOK == Spec => []TypeOK
  <1>1. ClientsInv => TypeOK
      BY DEF ClientsInv, DaemonTypes, UserTypes, GhostTypes, UserInv, Awaits, TypeOK
  <1> QED  BY <1>1, ClientsInvariant, PTL

\* SpawnReported: who was told that the agent is spawned has it, running and stored,
\* whatever other dialogues, time-outs, failures and ends of the daemon come in
\* between, unless two spawns overlapped; and who was refused does not have it,
\* unless a spawn was given up or its agent could not be stored (start_agent in
\* cli.py, AgentManager.spawn in daemon.py).
THEOREM SpawnIsReported == Spec => []SpawnReported
  <1>1. ASSUME ClientsInv, NEW u \in Users
        PROVE  /\ told[u] = "spawned" /\ "agents" \notin overlap =>
                      Owns(u, stored) /\ (up => Owns(u, agent))
               /\ told[u] = "refused" /\ u \notin gaveUp \cup unsaved =>
                      ~Owns(u, stored) /\ ~Owns(u, agent)
    <2>1. UserInv(u) /\ ServedInv(u) /\ ThreadsInv /\ UserTypes
        BY <1>1 DEF ClientsInv
    <2>2. told[u] = "refused" => ~Reported(u)
        BY <2>1 DEF UserInv, InDialogue, Dialogue, AnsweredOk, Reported
    <2>3. ASSUME told[u] = "refused", u \notin gaveUp PROVE ~Saving(u)
      <3>1. SUFFICES ASSUME NEW h \in Threads, Serves(h, "spawn", "installed"),
                            handler[h].user = u
                     PROVE  FALSE
          BY DEF Saving
      <3>2. h \in Served(u) /\ handler[h].req.method = "spawn"
          BY <2>1, <2>3, <3>1 DEF Serves, ThreadsInv, ThreadInv, Served
      <3>3. job[u] # None /\ job[u].req.method = "spawn"
          BY <2>1, <3>2 DEF ServedInv, Waits
      <3>4. pc[u] = "spawning"
          BY <2>1, <3>3, RequestTypes DEF UserInv, Awaits, Waiting
      <3> QED  BY <2>1, <2>3, <3>4 DEF UserInv, InDialogue, Dialogue
    <2> QED  BY <2>1, <2>2, <2>3 DEF UserInv, Claims, Reported
  <1>2. ClientsInv => SpawnReported
      BY <1>1 DEF SpawnReported
  <1> QED  BY <1>2, ClientsInvariant, PTL

\* ChosenTypeUsed: an agent runs with a key of the type its user chose, also after
\* a restart, unless that key was removed or two changes of keys.json overlapped
\* (choose_key in cli.py, _start in daemon.py).
THEOREM ChosenTypeIsUsed == Spec => []ChosenTypeUsed
  <1>1. ClientsInv => ChosenTypeUsed
      BY DEF ClientsInv
  <1> QED  BY <1>1, ClientsInvariant, PTL
=============================================================================
