---------------------------- MODULE AgentManager ----------------------------
(***************************************************************************)
(* The AgentManager of the daemon (src/src/opengeneral/daemon.py): the     *)
(* agents it runs, the three documents it persists and the secrets of its  *)
(* keys, changed by concurrent requests.                                   *)
(*                                                                         *)
(* Every client connection has a handler thread of its own and no lock     *)
(* protects the manager, so an operation is a sequence of steps: a step is *)
(* one access to state that other threads share (the dictionary of running *)
(* agents, one read, truncation or flush of a file, one call of the secret *)
(* store).  Any of these may raise, which ends the request where it        *)
(* stands, and the daemon may be killed between any two steps and started  *)
(* again.                                                                  *)
(*                                                                         *)
(* Requests that only read (list, show, status, wiring) change nothing and *)
(* are left out.  The secret store is seen here as the set of keys that    *)
(* have a secret (SecretStore models how it is kept); personas, which are  *)
(* files the daemon never writes, only as something that may be missing.   *)
(***************************************************************************)
EXTENDS ConfigFile

CONSTANTS
    Clients,     \* connections that may be served at the same time
    Names,       \* names of agents
    Ids,         \* fresh agent ids, one per spawn request: bounds the spawns
    Keys,        \* names of API keys
    Planes       \* names of Action Planes

ASSUME NoneAssumption == /\ None \notin Names \cup Ids \cup Keys \cup Planes
                         /\ None \notin {"static", "anthropic", "endpoint"}
                         /\ None \notin {"disk", "persona", "keyring", "provider"}

Configs  == [id : Ids, plane : Planes, key : Keys]   \* AgentConfig
KeyTypes == {"static", "anthropic"}                  \* without and with a secret
Endpoint == "endpoint"

ASSUME NoneIsNoConfig == None \notin Configs

AgentDocs == Documents(Names, Configs)
KeyDocs   == Documents(Keys, KeyTypes)
PlaneDocs == Documents(Planes, {Endpoint})

FileNames == {"agents", "keys", "planes"}

\* What starting an agent takes besides the contents of the documents: a disk
\* that can be read, its persona, a keyring that answers and a provider that
\* can be built.
Outside == {"disk", "persona", "keyring", "provider"}

\* The request a handler serves: the name it is about and, when it adds
\* something, what it adds.
AgentRequests == [op : {"spawn"}, target : Names, value : Configs]
                 \cup [op : {"remove_agent"}, target : Names, value : {None}]
KeyRequests   == [op : {"add_key"}, target : Keys, value : KeyTypes]
                 \cup [op : {"remove_key"}, target : Keys, value : {None}]
PlaneRequests == [op : {"add_plane"}, target : Planes, value : {Endpoint}]
                 \cup [op : {"remove_plane"}, target : Planes, value : {None}]
Requests      == AgentRequests \cup KeyRequests \cup PlaneRequests

NoRequest == [op |-> "none", target |-> None, value |-> None]

VARIABLES
    daemon,      \* "serving", "down" (killed or stopped), "refused" (exit code 78)
    agents,      \* AgentManager.agents: the agents that run
    files,       \* the persisted documents
    secrets,     \* the keys the secret store holds a secret for
    pc,          \* the next step of each client's handler, "idle" without a request
    req,         \* the request each handler serves
    snap,        \* the document each handler read and will write back, changed
    used,        \* the ids handed out so far
    \* Ghosts, read by properties only:
    disturbed,   \* documents two operations overlapped on, or a failure or crash cut short
    unfinished,  \* keys whose document was changed and whose secret then was not
    removed,     \* keys and planes some request removed
    broken       \* what was out of order outside when the daemon refused to start, or None

ghosts == <<disturbed, unfinished, removed, broken>>
vars == <<daemon, agents, files, secrets, pc, req, snap, used, ghosts>>

-----------------------------------------------------------------------------
AgentOps == {"spawn", "remove_agent"}
KeyOps   == {"add_key", "remove_key"}

FileOf(r) == CASE r.op \in AgentOps -> "agents"
               [] r.op \in KeyOps   -> "keys"
               [] OTHER             -> "planes"

\* remove_agent takes the agent out of memory before it reads the document;
\* every other operation starts with the read.
FirstStep(r) == IF r.op = "remove_agent" THEN "pop" ELSE "read"

\* The handler is inside the read-modify-write of its document: it has taken
\* its first step and not answered.
InSection(c) == pc[c] # "idle" /\ pc[c] # FirstStep(req[c])

Overlaps(c) == \E d \in Clients \ {c} : InSection(d) /\ FileOf(req[d]) = FileOf(req[c])

\* The ghost records a handler that enters a section somebody else is in.
EnterSection(c) ==
    disturbed' = IF Overlaps(c) THEN disturbed \cup {FileOf(req[c])} ELSE disturbed

\* Mutant: the handler's locals outlive the request.
AnswerKeepingSnapshot(c) ==
    /\ pc' = [pc EXCEPT ![c] = "idle"]
    /\ req' = [req EXCEPT ![c] = NoRequest]
    /\ UNCHANGED snap

\* The answer, a result or an error, is sent and the thread ends.
Answer(c) ==
    /\ pc' = [pc EXCEPT ![c] = "idle"]
    /\ req' = [req EXCEPT ![c] = NoRequest]
    /\ snap' = [snap EXCEPT ![c] = None]

GoTo(c, step) == pc' = [pc EXCEPT ![c] = step] /\ UNCHANGED req

At(c, step) == daemon = "serving" /\ pc[c] = step

Target(c) == req[c].target

-----------------------------------------------------------------------------
Init ==
    /\ daemon = "serving"
    /\ agents = EmptyDocument(Names)
    /\ files = [agents |-> Holding(EmptyDocument(Names)),
                keys   |-> Holding(EmptyDocument(Keys)),
                planes |-> Holding(EmptyDocument(Planes))]
    /\ secrets = {}
    /\ pc = [c \in Clients |-> "idle"]
    /\ req = [c \in Clients |-> NoRequest]
    /\ snap = [c \in Clients |-> None]
    /\ used = {}
    /\ disturbed = {}
    /\ unfinished = {}
    /\ removed = {}
    /\ broken = None

\* A request arrives.  The client drew the id of a spawn itself, a fresh uuid4.
Accept(c, r) ==
    /\ At(c, "idle")
    /\ IF r.op = "spawn"
       THEN r.value.id \notin used /\ used' = used \cup {r.value.id}
       ELSE UNCHANGED used
    /\ req' = [req EXCEPT ![c] = r]
    /\ pc' = [pc EXCEPT ![c] = FirstStep(r)]
    /\ UNCHANGED <<daemon, agents, files, secrets, snap, ghosts>>

\* remove_agent: the agent leaves memory, or there is none and the request fails.
Pop(c) ==
    /\ At(c, "pop")
    /\ IF agents[Target(c)] = None
       THEN Answer(c) /\ UNCHANGED <<agents, disturbed>>
       ELSE /\ agents' = [agents EXCEPT ![Target(c)] = None]
            /\ GoTo(c, "read")
            /\ EnterSection(c)
            /\ UNCHANGED snap
    /\ UNCHANGED <<daemon, files, secrets, used, unfinished, removed, broken>>

\* The check the operation makes on the document it has read.
Acceptable(r, doc) ==
    /\ r.op \in {"spawn", "add_key"}           => doc[r.target] = None
    /\ r.op \in {"remove_key", "remove_plane"} => doc[r.target] # None

\* from_path fails, or the operation finds its name taken (or missing).
ReadRefused(c) ==
    /\ At(c, "read")
    /\ LET file == files[FileOf(req[c])]
       IN  Readable(file) => ~Acceptable(req[c], file.doc)
    /\ Answer(c)
    /\ UNCHANGED <<daemon, agents, files, secrets, used, ghosts>>

\* Mutant: spawn overwrites an existing name, as add_action_plane does.
ReadUnchecked(c) ==
    /\ At(c, "read")
    /\ LET file == files[FileOf(req[c])]
       IN  /\ Readable(file)
           /\ snap' = [snap EXCEPT ![c] = file.doc]
    /\ GoTo(c, IF req[c].op = "spawn" THEN "plane" ELSE "truncate")
    /\ IF InSection(c) THEN UNCHANGED disturbed ELSE EnterSection(c)
    /\ UNCHANGED <<daemon, agents, files, secrets, used, unfinished, removed, broken>>

Read(c) ==
    /\ At(c, "read")
    /\ LET file == files[FileOf(req[c])]
       IN  /\ Readable(file)
           /\ Acceptable(req[c], file.doc)
           /\ snap' = [snap EXCEPT ![c] = file.doc]
    /\ GoTo(c, IF req[c].op = "spawn" THEN "check" ELSE "truncate")
    /\ IF InSection(c) THEN UNCHANGED disturbed ELSE EnterSection(c)
    /\ UNCHANGED <<daemon, agents, files, secrets, used, unfinished, removed, broken>>

-----------------------------------------------------------------------------
(* The steps of spawn between the read and the write (spawn, _start).      *)

Continue(c, ok, step) ==
    /\ IF ok THEN GoTo(c, step) /\ UNCHANGED snap ELSE Answer(c)
    /\ UNCHANGED <<daemon, agents, files, secrets, used, ghosts>>

\* No running agent has the name.
CheckName(c) == At(c, "check") /\ Continue(c, agents[Target(c)] = None, "plane")

HasPlane(config) == Readable(files.planes) /\ files.planes.doc[config.plane] # None
HasKey(config)   == Readable(files.keys) /\ files.keys.doc[config.key] # None
NeedsSecret(config) == files.keys.doc[config.key] # "static"

\* Mutant: a plane nobody configured is accepted.
ResolvePlaneUnchecked(c) == At(c, "plane") /\ Continue(c, Readable(files.planes), "key")

ResolvePlane(c) == At(c, "plane") /\ Continue(c, HasPlane(req[c].value), "key")

ResolveKey(c) ==
    /\ At(c, "key")
    /\ LET config == req[c].value
       IN  Continue(c, HasKey(config), IF NeedsSecret(config) THEN "secret" ELSE "install")

ResolveSecret(c) == At(c, "secret") /\ Continue(c, req[c].value.key \in secrets, "install")

Install(c) ==
    /\ At(c, "install")
    /\ agents' = [agents EXCEPT ![Target(c)] = req[c].value]
    /\ GoTo(c, "truncate")
    /\ UNCHANGED <<daemon, files, secrets, snap, used, ghosts>>

-----------------------------------------------------------------------------
(* The write back, common to all operations.                               *)

\* Mutant: a removal is made in memory only.
NewDocumentAdding(c) ==
    IF req[c].value = None THEN snap[c] ELSE [snap[c] EXCEPT ![Target(c)] = req[c].value]

NewDocument(c) == [snap[c] EXCEPT ![Target(c)] = req[c].value]

Truncate(c) ==
    /\ At(c, "truncate")
    /\ files' = [files EXCEPT ![FileOf(req[c])] = Truncated(@)]
    /\ GoTo(c, "flush")
    /\ UNCHANGED <<daemon, agents, secrets, snap, used, ghosts>>

Flush(c) ==
    /\ At(c, "flush")
    /\ \E file \in Written(files[FileOf(req[c])], NewDocument(c)) :
           files' = [files EXCEPT ![FileOf(req[c])] = file]
    /\ IF req[c].op \in KeyOps
       THEN GoTo(c, "secretStore") /\ UNCHANGED snap
       ELSE Answer(c)
    /\ removed' = IF req[c].op \in {"remove_key", "remove_plane"}
                  THEN removed \cup {Target(c)} ELSE removed
    /\ UNCHANGED <<daemon, agents, secrets, used, disturbed, unfinished, broken>>

\* Mutant: remove_key forgets the secret store.
StoreSecretOnly(c) ==
    /\ At(c, "secretStore")
    /\ secrets' = IF req[c].value = "anthropic" THEN secrets \cup {Target(c)} ELSE secrets
    /\ unfinished' = unfinished \ {Target(c)}
    /\ Answer(c)
    /\ UNCHANGED <<daemon, agents, files, used, disturbed, removed, broken>>

\* add_key and remove_key change the secret store after the document.  A secret
\* set or deleted also makes up for an earlier request that left this undone; a
\* key that needs none leaves the store alone.
StoreSecret(c) ==
    /\ At(c, "secretStore")
    /\ secrets' = CASE req[c].op = "remove_key"   -> secrets \ {Target(c)}
                    [] req[c].value = "anthropic" -> secrets \cup {Target(c)}
                    [] OTHER                      -> secrets
    /\ unfinished' = IF req[c].value = "static" THEN unfinished ELSE unfinished \ {Target(c)}
    /\ Answer(c)
    /\ UNCHANGED <<daemon, agents, files, used, disturbed, removed, broken>>

-----------------------------------------------------------------------------
(* Failure of a step.                                                      *)

\* The operation has changed memory, or truncated the document, and the other
\* does not follow.
HalfDone(c) ==
    \/ pc[c] = "flush"
    \/ pc[c] = "truncate" /\ req[c].op \in AgentOps
    \/ pc[c] = "read" /\ req[c].op = "remove_agent"

\* A step raises: a file that cannot be opened, read or written, a persona that
\* cannot be loaded (before "key"), a keyring that does not answer (at
\* "secret"), a provider that cannot be built (before "install").  The request
\* is answered with the error, and nothing is undone.  A dump that fails has
\* written nothing, or a part, which does not parse.  At "secretStore" the store
\* fails after the document was written; a deletion that the keyring did not
\* take is such a failure too, though the request is answered as done.
Fail(c) ==
    /\ daemon = "serving"
    /\ pc[c] \in {"read", "plane", "key", "secret", "install", "truncate", "flush", "secretStore"}
    /\ \/ UNCHANGED files
       \/ pc[c] = "flush" /\ files' = [files EXCEPT ![FileOf(req[c])] = Torn]
    /\ disturbed' = IF HalfDone(c) THEN disturbed \cup {FileOf(req[c])} ELSE disturbed
    /\ unfinished' = IF pc[c] = "secretStore" THEN unfinished \cup {Target(c)} ELSE unfinished
    /\ Answer(c)
    /\ UNCHANGED <<daemon, agents, secrets, used, removed, broken>>

-----------------------------------------------------------------------------
(* The end of the process and its next start.                              *)

\* A crash ends every handler where it stands.  The ghosts record the
\* documents that an unfinished rewrite leaves behind, and the keys whose
\* secret was still to follow.
Crash ==
    /\ daemon = "serving"
    /\ daemon' = "down"
    /\ agents' = EmptyDocument(Names)
    /\ pc' = [c \in Clients |-> "idle"]
    /\ req' = [c \in Clients |-> NoRequest]
    /\ snap' = [c \in Clients |-> None]
    /\ disturbed' = disturbed \cup {FileOf(req[c]) : c \in {d \in Clients : pc[d] = "flush"}}
    /\ unfinished' = unfinished \cup {Target(c) : c \in {d \in Clients : pc[d] = "secretStore"}}
    /\ UNCHANGED <<files, secrets, used, removed, broken>>

\* An agent starts when its plane and key are there, and its secret if it needs
\* one, and what it takes outside works.
Startable(config, lost) ==
    /\ HasPlane(config)
    /\ HasKey(config)
    /\ NeedsSecret(config) => config.key \in secrets /\ lost # "keyring"
    /\ lost \notin {"persona", "provider"}

\* load_existing succeeds: the document is readable and every agent of it starts.
Loadable(lost) ==
    /\ lost # "disk"
    /\ Readable(files.agents)
    /\ \A n \in Names : LET config == files.agents.doc[n]
                        IN  config # None => Startable(config, lost)

\* serve: load_existing runs before the first connection is accepted, so it is
\* one step, with whatever is out of order outside at that time.  The first
\* error fails it as a whole, with exit code 78, which the supervisor does not
\* answer with a restart.
Load ==
    /\ daemon = "down"
    /\ \E lost \in Outside \cup {None} :
          IF Loadable(lost)
          THEN daemon' = "serving" /\ agents' = files.agents.doc /\ UNCHANGED broken
          ELSE daemon' = "refused" /\ broken' = lost /\ UNCHANGED agents
    /\ UNCHANGED <<files, secrets, pc, req, snap, used, disturbed, unfinished, removed>>

\* The user may start the service again by hand.
StartByHand ==
    /\ daemon = "refused"
    /\ daemon' = "down"
    /\ broken' = None
    /\ UNCHANGED <<agents, files, secrets, pc, req, snap, used, disturbed, unfinished, removed>>

-----------------------------------------------------------------------------
Step(c) ==
    \/ \E r \in Requests : Accept(c, r)
    \/ Pop(c)
    \/ ReadRefused(c)
    \/ Read(c)
    \/ CheckName(c)
    \/ ResolvePlane(c)
    \/ ResolveKey(c)
    \/ ResolveSecret(c)
    \/ Install(c)
    \/ Truncate(c)
    \/ Flush(c)
    \/ StoreSecret(c)

Next ==
    \/ \E c \in Clients : Step(c) \/ Fail(c)
    \/ Crash
    \/ Load
    \/ StartByHand

Spec == Init /\ [][Next]_vars

\* The behaviours in which no step fails and the daemon is not killed.
SpecOfSuccess == Init /\ [][\E c \in Clients : Step(c)]_vars

-----------------------------------------------------------------------------
(* Properties.                                                             *)

\* The steps at which a handler may stand, by the operation it serves.
StepsOf(op) ==
    CASE op = "none"         -> {"idle"}
      [] op = "spawn"        -> {"read", "check", "plane", "key", "secret", "install",
                                 "truncate", "flush"}
      [] op = "remove_agent" -> {"pop", "read", "truncate", "flush"}
      [] op \in KeyOps       -> {"read", "truncate", "flush", "secretStore"}
      [] OTHER               -> {"read", "truncate", "flush"}

Steps == {"idle", "pop", "read", "check", "plane", "key", "secret", "install", "truncate",
          "flush", "secretStore"}

DocsOf(r) == CASE r.op \in AgentOps -> AgentDocs
               [] r.op \in KeyOps   -> KeyDocs
               [] OTHER             -> PlaneDocs

\* A handler stands at a step of the operation it serves, and holds a
\* document exactly between its read and its answer.
HandlerOK(c) ==
    /\ pc[c] \in StepsOf(req[c].op)
    /\ IF pc[c] \in {"idle", "pop", "read"} THEN snap[c] = None ELSE snap[c] \in DocsOf(req[c])

HandlersOK ==
    /\ req \in [Clients -> Requests \cup {NoRequest}]
    /\ pc \in [Clients -> Steps]
    /\ snap \in [Clients -> {None} \cup AgentDocs \cup KeyDocs \cup PlaneDocs]
    /\ \A c \in Clients : HandlerOK(c)

FilesOK ==
    files \in [agents : Files(AgentDocs), keys : Files(KeyDocs), planes : Files(PlaneDocs)]

\* Types: every variable keeps to its set, and every handler is in order.
TypeOK ==
    /\ daemon \in {"serving", "down", "refused"}
    /\ agents \in AgentDocs
    /\ FilesOK
    /\ secrets \subseteq Keys
    /\ HandlersOK
    /\ used \subseteq Ids
    /\ disturbed \subseteq FileNames
    /\ unfinished \subseteq Keys
    /\ removed \subseteq Keys \cup Planes
    /\ broken \in Outside \cup {None}

\* No handler is inside the read-modify-write of the document.
Quiet(file) == \A c \in Clients : InSection(c) => FileOf(req[c]) # file

\* As long as no two operations overlapped on agents.json and no failure or
\* crash cut one short, the file says exactly which agents run whenever no
\* spawn or remove is under way, across crashes and restarts, and whatever
\* happens on the other documents meanwhile (spawn, remove_agent, load_existing).
AgentsAgree ==
    daemon = "serving" /\ "agents" \notin disturbed /\ Quiet("agents")
        => files.agents = Holding(agents)

\* Likewise for keys.json and the secret store: a key that needs a secret has
\* one, and no secret outlives its key (add_key, remove_key).  A crash or a
\* failure of the store between the document and the secret excepts that one
\* key, until a later request about it sets or deletes the secret after all.
KeysAgree ==
    "keys" \notin disturbed /\ Quiet("keys")
        => /\ Readable(files.keys)
           /\ \A k \in Keys \ unfinished : k \in secrets <=> files.keys.doc[k] = "anthropic"

\* The daemon exits with code 78, never to be restarted by its supervisor,
\* only for a cause: overlapping or cut-short rewrites of a document, a disk
\* that cannot be read, or a stored agent that a request robbed of its key or
\* Action Plane, or whose persona, secret or provider is out of reach for a
\* reason outside the daemon.  What requests do otherwise, and what fails or
\* crashes on the way of them, is no cause (serve, load_existing, _start).
RefusesOnlyForCause ==
    daemon = "refused" =>
        \/ disturbed # {}
        \/ broken = "disk"
        \/ \E n \in Names : LET config == files.agents.doc[n]
                            IN  /\ config # None
                                /\ \/ {config.key, config.plane} \cap removed # {}
                                   \/ broken \in {"persona", "provider"}
                                   \/ broken = "keyring" /\ NeedsSecret(config)

Replaced(n) == agents[n] # None /\ agents'[n] # None /\ agents'[n] # agents[n]

\* A running agent is never replaced by another of its name, as long as no two
\* operations overlapped on agents.json (spawn, _start).
NoReplacement == [][ "agents" \notin disturbed' => \A n \in Names : ~Replaced(n) ]_vars

\* What the manual says of spawn and remove, with no condition: the agent is
\* stored in agents.json, or its record leaves it.  When no request is under
\* way, the file holds the agents that run.  Overlapping requests break it, even
\* if no step fails.
StoredWhenQuiet ==
    daemon = "serving" /\ (\A c \in Clients : pc[c] = "idle")
        => files.agents = Holding(agents)
=============================================================================
