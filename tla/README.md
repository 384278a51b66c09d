# A verification project for OpenGeneral

OpenGeneral runs AI agents in a local daemon. A command line and a terminal UI
talk to the daemon over a socket; the daemon owns the agents, the API keys and
the list of Action Planes, persists them, and for each message runs a loop of
model calls and tool calls. This directory holds TLA+ models of that program,
the TLC configurations that check them, and TLAPS proofs about them. Paths below
are relative to the repository (`daemon.py` is `src/opengeneral/daemon.py`).

```
tlc -workers 2 -config MCAgentManager.cfg MCAgentManager     # a run
tlapm AgentManagerProofs.tla                                 # the proofs of a module
```

## 1. The system

| Component | State | Operations | Talks to |
|---|---|---|---|
| Agent registry, `AgentManager` (`daemon.py`) | `agents` in memory | load_existing, spawn, remove_agent, send_message; add/remove of keys and Action Planes; listings | documents, secret store, agents |
| Persisted documents (`config.py`) | `agents.json`, `keys.json`, `action-planes.json` | from_path, write | registry |
| Secret store (`keyring_store.py`) | OS keyring, `secrets.json` | set, get, delete | registry |
| Daemon process (`daemon.py`) | Events `_serving`, `_shutdown_requested`, `stop_requested`; handler threads | serve, serve_forever, request_shutdown, signal handlers | clients, service manager |
| Agent turn (`agent.py`) | `history`, `last_tools_used`; `status`, `last_error` of `RunningAgent` | respond, /tools, /skills | model provider, Action Plane |
| Action Plane client (`action_plane.py`, `mcp.py`) | one session per turn | open, list_tools, call_tool, close | Action Plane |
| Daemon client (`daemon_client.py`, `tui/src/rpc.rs`) | none | one request per connection, with time-outs | daemon |
| Service managers (`service_*.py`) | unit or plist, registration | install with roll-back, start, stop, uninstall | systemd, launchd, SCM |
| Windows service and host (`service_windows.py`, `packaging/service_host.py`) | `daemon`, `_stop_requested`; the child process | SvcDoRun, SvcStop | SCM, daemon |
| Terminal UI (`tui/`) | `busy`, conversation, highlighted tools | submit, apply | daemon client |
| Command line, personas, skills, prompt, providers, installers | none of their own | lookups, formatting, I/O | daemon client |

What is hard here:

* **Threads without locks.** The daemon is a `ThreadingTCPServer`: each
  connection has a thread and, for asynchronous operations, an event loop of its
  own. Nothing protects the registry, the documents or an agent's conversation.
* **Documents rewritten in place.** Every change reads a whole document, changes
  a copy and rewrites the file, by truncating it first.
* **Crashes and restarts.** What is on disk decides whether the daemon starts;
  if it does not (exit code 78), its supervisor leaves it stopped.
* **Stop requests at any moment**: signals that interrupt the main thread
  anywhere, each other included, and `daemon.stop` from handler threads.
* **Turns that fail halfway** and leave their conversation to the next one.
* **Two stores for one secret**, of which either may be out of reach.
* **Service managers** that fail between two calls, and restart the daemon while
  a command is under way.
* **Callers that give up**: what a client stops waiting for goes on.

`PROJECT.json` lists every hazard at the line where it bites, with the
properties that would catch it.

### What makes each component correct

* Registry and documents: disk and memory agree when nobody is changing them; no
  running agent is replaced; a key has its secret exactly as long as it needs
  one; the daemon refuses to start only for a reason somebody can name.
* Daemon process: a stop is never overlooked, ends the process, deadlocks
  nobody, and costs no request that was read its answer.
* Turns: the conversation sent to the model is one its API accepts, the reply
  reports this turn's tools, the status tells the truth, every turn ends.
* Secret store: one secret changes at a time and at once, for every reader and
  across crashes; what was deleted stays deleted.
* Services: an install that fails puts back what it replaced; a daemon that was
  stopped stays stopped; a stop stops the service and leaves no child unattended.
* Clients: what a program reports is what the daemon has, and every call comes
  back to its program.

## 2. The modules

| Module | What it models |
|---|---|
| `ConfigFile` | A JSON document on disk: a mapping that is read whole, truncated, and written |
| `AgentManager` | Registry, three documents and secrets; concurrent handlers, crash, restart |
| `MCAgentManager` | `AgentManager` for TLC, with its symmetry and its constraint |
| `AgentManagerProofs` | Theorems about `AgentManager`: types, `agents.json` and memory |
| `AgentManagerFilesProofs` | More of them: `keys.json` and the secret store, refusals to start |
| `DaemonLifecycle` | `serve` from start-up to exit, the accept loop, signals, stop requests, handler threads |
| `MCDaemonLifecycle` | `DaemonLifecycle` for TLC |
| `DaemonLifecycleProofs` | Theorems about `DaemonLifecycle` |
| `AgentTurn` | Turns of one agent: `send_message` around `respond` |
| `MCAgentTurn` | `AgentTurn` for TLC, with its view |
| `AgentTurnProofs` | Theorems about `AgentTurn` |
| `SecretVault` | What the secret store promises: a mapping in which one secret changes at a time |
| `SecretStore` | The keyring and `secrets.json`; concurrent handlers, a keyring that comes and goes, crashes |
| `MCSecretStore` | `SecretStore` for TLC, with its symmetry |
| `SecretStoreProofs` | Theorems about `SecretStore`, the refinement of `SecretVault` among them |
| `ServiceManager` | The `daemon` commands against systemd and launchd, and the restarts of the daemon |
| `ServiceManagerProofs` | Theorems about `ServiceManager` |
| `WindowsService` | The `daemon` commands against the service control manager; the service in process and its host |
| `WindowsServiceProofs` | Theorems about `WindowsService` |
| `DaemonClients` | The programs that call the daemon: spawn dialogue, `keys remove`, `talk`, UI |
| `MCDaemonClients` | `DaemonClients` for TLC, with its symmetry and its views |
| `DaemonClientsProofs` | Theorems about `DaemonClients` |

The modules meet in the state they share with the code around them:
`AgentManager` sees the secret store as the set of names that have a secret,
which is what `SecretVault` promises; `ServiceManager` and `WindowsService` see
the daemon by its exit codes and its reaction to a stop, which is what
`DaemonLifecycle` details; `DaemonClients` sees of a request the steps that
other requests can come between (the check, the write, the installation), which
`AgentManager` and `AgentTurn` take apart further.

Operators whose comment starts with "Mutant:" are not part of a model. Each is a
plausible bug, the changed body of the operator it precedes, and shows that some
property would notice it; `PROJECT.json` pairs them with the properties.

### AgentManager

A step is one access to state that other threads share.

| Code | Actions |
|---|---|
| `_dispatch` receives a request | `Accept` |
| `spawn` | `Read` (with the check against the document), `CheckName`, `ResolvePlane`, `ResolveKey`, `ResolveSecret`, `Install`, `Truncate`, `Flush`; `ReadRefused` and the other branch of each check answer with an error |
| `remove_agent` | `Pop`, then `Read`, `Truncate`, `Flush` |
| `add_key`, `remove_key` | `Read`, `Truncate`, `Flush`, `StoreSecret` |
| `add_action_plane`, `remove_action_plane` | `Read`, `Truncate`, `Flush` |
| any step raises, and the request is answered with the error | `Fail` |
| the process is killed | `Crash` |
| `serve` calls `load_existing` | `Load` |
| the user starts the service again | `StartByHand` |

The five operations have one shape (read a document, change a copy, write it
back), so they share their actions; `FileOf` and `FirstStep` say where they
differ. A running agent is its configuration. `open("w")` and the buffered dump
are two steps, so that another thread, or a restart after a crash, can see the
empty file between them; if two writers have the file open, the one that flushes
last may leave the tail of the longer text behind (`Torn`). Which of the two
happens depends on lengths the model does not have: both are possible.

What else a request or a start needs is `Outside` the model: the disk, the
personas, the keyring, the constructor of a provider. During a request the lack
of any is a `Fail` at its step; a dump that fails leaves the document empty or
torn. A start meets at most one of them out of order (`Load`, `broken`); since
`load_existing` stops at the first error, a second would change nothing.

Left out, because it changes no state of the program: requests that only read;
a key added with an empty secret, which is as if the secret were missing.

Ghost variables remember what the properties make exceptions for: `disturbed`,
the documents on which two operations overlapped, or of which a failure or crash
cut a rewrite short; `unfinished`, the keys whose document was changed and whose
secret was not; `removed`, the keys and planes a request removed; and `broken`.
`unfinished` is per key, and ends with the next request that sets or deletes the
key's secret.

### DaemonLifecycle

The main thread goes through `serve`: `LoadAgents`, `CheckStop`, `Bind`,
`Publish`, `Recheck`, then `serve_forever` (`Enter`, `Announce`, the loop of
socketserver `Begin`, `Loop`, `AcceptConnection`, `Unwind`, then `Retire`), then
`server_close` (`Close`, `Join`) and `Exit`. An *activation* is one run of the
code that asks for a stop: by a signal handler, by a handler thread executing
`daemon.stop`, or by `serve` itself when it checks `stop_requested` a second
time. `request_shutdown` is four steps (`ReadFlag`, `EnterFlag`, `SetFlag`,
`Decide`). Signal handlers run on the main thread: `under` remembers what each
interrupted, and `CanRun` lets nobody on that stack go on before the handler on
top of it is done. `Event.set` takes a lock that is not reentrant; `lock`
models it, because a handler may interrupt it.

socketserver and `Event` are external and modelled from the standard library's
definition of what the daemon calls. The five things a client can do are
connecting, sending `daemon.stop`, sending anything else, going away, and
staying silent.

### AgentTurn

`Start` to `Finally` are `send_message`; `Begin` to `CloseSession` are `respond`
and `_render_tools`. A step ends where the code awaits the Action Plane or the
model. `Open` is the one place that survives a missing Action Plane; `Result` is
`_invoke_tool`, which turns every `Exception` into a message but not the
cancellation of the call when the session itself ends. A message of the
conversation is its role, its turn, its round and its number of calls: enough to
say which result answers which call.

The turns of an agent are not serialized by the code, nor by the model.
`overlapped` and `cut` are ghosts, for the two things that spoil a conversation
for good.

### SecretStore and SecretVault

`set_secret` and `delete_secret` try the keyring (`SetKeyring`,
`DeleteKeyring`), then read the file (`ReadFile`), create the temporary file
(`Open`), write it (`Write`) and rename it (`Replace`); `get_secret` looks into
the keyring (`GetKeyring`), then into the file (`Fallback`), and returns
(`Found`). All writers use one temporary name: `link` is the file an open
descriptor leads to, which another writer's `os.replace` may have given its
final name, or taken it from. `Flap` changes whether the keyring is usable, at
any moment; `Crash` is the end of the daemon and its next start.

`SecretVault` is the abstract store. `SecretStore` implements it with the secret
of a key being what `get_secret` would find now, until the store is spoiled:
until two handlers were inside the read-modify-write at once (`overlapped`), or
the keyring changed (`flapped`).

### ServiceManager

`system` chooses the backend; `Run` is its command, and each further action one
file operation or one call of `systemctl` or `launchctl`. A call may fail, and
where the manager's documentation has it so, fail with half of its effect: a
`disable` that removed the link or not, an `enable` that made it before it
failed, a `bootout` that came back before the daemon had ended. `Exit`,
`Respawn` and `Reboot` are the supervisors' part, by what the unit
(`Restart=on-failure`, `RestartPreventExitStatus=78`) and the plist
(`KeepAlive`/`Crashed`) say; `Interrupt` is Ctrl-C in the middle of a command.
Under systemd a daemon that was told to stop is not restarted however it ends;
launchd's `kill` is only a signal, and the end it causes is judged by
`KeepAlive`.

### WindowsService

`mode` chooses between the class that serves in its own process and the host of
the packaged build, which starts `opengeneral daemon run` and supervises it.
`SvcDoRun` and `SvcStop` run in two threads, one step per shared access. For the
class that is the lock around `_stop_requested` and the daemon, and the window
of `serve_forever` that `DaemonLifecycle` knows, and a handler thread that
`server_close` joins (`client`; one stands for all of them); for the host, the
event (which the wait resets), the child, and three time-outs after each of
which it is harsher. The child is the one-file binary
(`packaging/build.ps1:46`), which unpacks the daemon and runs it as a process of
its own: to terminate the binary may leave that process behind (`stray`), which
then holds the port and gets the stop requests meant for the next child. Assumed
of the manager: it passes a stop on to a service that accepts it, one control at
a time, and starts nothing while a `SvcStop` is under way; of pywin32: it
reports RUNNING before it calls `SvcDoRun`.

### DaemonClients

Each user runs one program at a time. `Send`, `Answer`, `TimeOut` are `request`
of `daemon_client.py` (and of `rpc.rs`); a program is what it does between its
requests. A request is served by a thread, in steps: `add` and `remove` read
`keys.json` (`Check`), write what they read with the change (`WriteKeys`), and
then turn to the secret store (`StoreSecret`); `spawn` checks the name
(`Check`), installs the agent with the key that `keys.json` has by then
(`Install`), and writes `agents.json` (`Save`). Other threads go on in between,
and any step may raise (`Fail`), which answers with an error and undoes nothing.
When its client times out or leaves (`TimeOut`, `Leave`, both `Abandon`), a
thread goes on, and nobody reads its answer. `Down` ends every thread and
connection, and may lose answers that were written; `Up` starts the stored agent
again, with the key as it is then. The dialogue of `spawn` takes its list of
keys once (`Look`) and spawns much later.

All dialogues give one agent name, which is what they race for. Agents of other
names, the removal of agents and reads of a document while it is written are in
`AgentManager`; here such a read is one of the failures. `overlap` records the
documents two requests were changing at the same time, `gaveUp` and `unsaved`
the users whose spawn was given up, or failed after the installation, and
`rekeyed` the keys that were removed.

## 3. Runs

| Run | Instance | Shows |
|---|---|---|
| `agent_manager` | 2 handlers, 2 names, 2 spawns, 1 key, 1 plane; symmetry and constraint; 2.7 M states | `TypeOK`, `AgentsAgree`, `KeysAgree`, `RefusesOnlyForCause`, `NoReplacement` |
| `agent_stored` | 2 handlers, 2 names; nothing fails or crashes | violation of `StoredWhenQuiet` |
| `daemon_lifecycle` | 2 signals, 1 client; 19 k states | `TypeOK`, `StopNotForgotten`, `EarlyStopNeverServes`, and under fairness `StopHonoured`, `StoppersEnd`, `ReadRequestsAnswered` |
| `daemon_window` | 1 signal, 1 client | violation of `StopAlwaysHonoured` |
| `daemon_deadlock` | 2 signals, 1 client | violation of `DeadlockSafe` |
| `agent_turn` | 2 turns, 3 rounds, 2 calls in each; view; 71 k states | `TypeOK`, `RequestsWellFormed`, `ToolsReported`, `StatusSettles`, `StatusTruthful`, and under fairness `EveryTurnEnds` |
| `agent_plane` | 1 turn | violation of `ActionPlaneNeverFailsTurn` |
| `secret_store` | 2 handlers, 2 keys, 2 secrets; symmetry; 1.2 M states | `TypeOK`, `FileIntact`, `DeletedForGood`, `ReadsCurrent`, and `IsVault`: `SecretStore` implements `SecretVault` |
| `services` | both systems, all commands; 12 k states | `TypeOK`, `InstallRollsBack`, `ManagerInStep`, `AtRestStaysDown`, `StartTakes`, `QuietUninstallIsComplete` |
| `windows` | both programs, all commands; 10 k states | `TypeOK`, `StoppedMeansGone`, and under fairness `StopHonoured`, `RemovalCompletes`, `ChildEndReported` |
| `clients` | 2 users, 1 key, 1 type, 2 threads; symmetry, view and constraint; 1.3 M states | `TypeOK`, `SpawnReported` |
| `client_calls` | 1 user, 2 types, 1 key, `talk` and the UI as well, 2 threads; view; 0.2 M states | `ChosenTypeUsed`, and under fairness `CallsReturn` |

**Why the bounds are enough.** Every hazard of the registry is a matter of two
operations on one document, or of one operation and a crash; two handlers, two
names (to collide on one, or to lose an update on two) and one key and plane (to
be removed under an agent) contain them all. There may be any number of crashes,
restarts, removals and additions of keys; only spawns are bounded, by `Ids`,
since each draws a fresh identifier. For the process, two signals can nest in
each other anywhere, and a client's request can run against both. The model may
call tools in every round, so that the limit of `agent.py:49` is reached; three
rounds have a first, a middle and a last one, and two calls are what a round
needs to be cut between them; two turns are what it takes to overlap, or for one
to inherit what the other left. Two handlers and two keys in the secret store
lose an update, or rename each other's file; two secrets tell an old copy from a
new one. The service modules have no bounds: any number of commands, restarts
and boots, one command at a time. Two users after one key and one agent name are
what the dialogue races with; a third would do what the second does. Two threads
are what overlaps; one may be busy with a request that was given up. A request
that finds no thread waits for its time-out, as one the daemon never reads does.
In `client_calls` one user is enough: what others could do to `keys.json` and to
the daemon meanwhile, the threads do that serve what that user gave up. The
theorems of section 5 hold without these bounds.

**Deadlock** is checked everywhere. The states in which the modelled system may
really stop have a stuttering step of their own and are named: `Gone` (the
process ended) and `Hung` (it deadlocked against itself, see below) in
`DaemonLifecycle`, `Over` (every message answered) in `AgentTurn`.

**Symmetry** is used in runs of safety properties only: clients, names, ids,
keys, secrets, users, types and threads are compared with each other, and
with nothing else.

**Views and constraints** leave out only what no property looks at any more, and
are defined, with the reason, in the MC modules. `AgentManager`: once all three
documents are disturbed, every property but the types holds for that reason
alone, and disturbances last; what follows is not explored. `AgentTurn`: once
turns have overlapped, the conversation and the list of tools, which no action
reads, no longer tell states apart. Every step changes what the view keeps, so
the view does not hide a step from `EveryTurnEnds` either, nor in `client_calls`
from `CallsReturn`. `DaemonClients`: the ghosts that excuse a user do so for
good, so it does not matter which of them it was, nor what happens once all are
excused; each of its two runs has the view of its property. The type invariants
are proved for the states that are left out.

## 4. Fairness

`AgentManager` is checked for safety only. `DaemonLifecycle` assumes that every
thread that can run goes on (weak fairness of the main thread, of each
activation, of each thread that calls `shutdown()`, of each handler), which is
the operating system's scheduling, and that a client that has connected sends a
line or goes away. The last is an assumption on clients: `readline` in the
handler has no time-out, so a client that connects and stays silent keeps
`server_close` waiting. Nothing forces a signal or a connection. `AgentTurn`
assumes that the model and the Action Plane answer or fail, as their HTTP
clients' time-outs make them; nothing forces a message to be sent.
`WindowsService` assumes that its two threads go on and that a terminated child
ends; of the host that is all, since its waits for the child have time-outs. The
class waits in `server_close` for its handler threads, without a time-out
(`service_windows.py:135`, `daemon.py:276`): weak fairness of `HandlerEnds` is
the assumption, as for `DaemonLifecycle`, that a client sends a line or goes
away and gets its answer. One that stays silent keeps the service in
STOP_PENDING, and `StopHonoured` and `RemovalCompletes` do not hold for it.
Nothing is assumed of a child that was asked to end, and nobody has to connect
or to send a stop. `DaemonClients` assumes that a read times out (15 and 600
seconds, `daemon_client.py:18-19`, `rpc.rs:18-20`) and that a program goes on
when its call has returned; it asks nothing of the daemon, nor of the user.
Connecting has a time-out in Python only: in `rpc.rs` it is the kernel's.
`SecretStore` and `ServiceManager` are checked for safety only: the commands
wait for programs the code does not control.

## 5. What is proved

The theorems hold for every value of the constants, under the assumptions named
in the modules: that `None` and the fixed names are none of the modelled
values, that activations are distinct, and that `max_iterations` is positive.

| Theorem | Property |
|---|---|
| `AgentManagerProofs!TypeCorrect` | `TypeOK` |
| `AgentManagerProofs!AgentsAgreement` | `AgentsAgree` |
| `AgentManagerProofs!RunningAgentsStay` | `NoReplacement` |
| `AgentManagerFilesProofs!KeysAgreement` | `KeysAgree` |
| `AgentManagerFilesProofs!RefusalHasCause` | `RefusesOnlyForCause` |
| `DaemonLifecycleProofs!TypeCorrect` | `TypeOK` |
| `DaemonLifecycleProofs!StopsRemembered` | `StopNotForgotten` |
| `DaemonLifecycleProofs!EarlyStopsHonoured` | `EarlyStopNeverServes` |
| `AgentTurnProofs!TypeCorrect` | `TypeOK` |
| `AgentTurnProofs!StatusSettlement` | `StatusSettles` |
| `AgentTurnProofs!StatusTruth` | `StatusTruthful` |
| `AgentTurnProofs!WellFormedRequests` | `RequestsWellFormed` |
| `AgentTurnProofs!ReportedTools` | `ToolsReported` |
| `SecretStoreProofs!StoreTypeOK` | `TypeOK` |
| `SecretStoreProofs!FileStaysIntact` | `FileIntact` |
| `SecretStoreProofs!DeletionLasts` | `DeletedForGood` |
| `SecretStoreProofs!ReadsAreCurrent` | `ReadsCurrent` |
| `SecretStoreProofs!StoreIsVault` | `IsVault`: `SecretStore` implements `SecretVault` |
| `ServiceManagerProofs!ServiceTypes` | `TypeOK` |
| `ServiceManagerProofs!InstallsWhole` | `InstallRollsBack` |
| `ServiceManagerProofs!ManagerTold` | `ManagerInStep` |
| `ServiceManagerProofs!RestLasts` | `AtRestStaysDown` |
| `ServiceManagerProofs!StartsTake` | `StartTakes` |
| `ServiceManagerProofs!QuietUninstalls` | `QuietUninstallIsComplete` |
| `WindowsServiceProofs!WindowsTypes` | `TypeOK` |
| `WindowsServiceProofs!NoChildLeftBehind` | `StoppedMeansGone` |
| `DaemonClientsProofs!ClientsTypeOK` | `TypeOK` |
| `DaemonClientsProofs!SpawnIsReported` | `SpawnReported` |
| `DaemonClientsProofs!ChosenTypeIsUsed` | `ChosenTypeUsed` |

`DiskInvariant`, `ConversationInvariant`, `StoreInvariant` and
`ClientsInvariant` state the invariants those of their module rest on. Each was
checked by TLC, on the instance of the run, before it was proved.

**AgentsAgreement.** `AgentsAgree` speaks of quiet moments only, so it is not
inductive: it does not say why a handler that finishes leaves agreement behind.
`AgentsInv` adds, as long as `agents.json` is undisturbed: `Alone`, at most one
handler is inside the read-modify-write of the document; `AllIdle`, nobody is
while the daemon is down; and `Progress`, what file, memory and snapshot look
like at each step of that one handler (before the installation the file still
equals memory; after it the snapshot with the change does; between truncation
and flush the file is empty). The proof has one lemma per action, and
`RunningAgentsStay` follows from the same invariant: a handler that installs an
agent has seen its name free and has been alone since.

**KeysAgreement, RefusalHasCause.** `DiskInv` says of every document what
`Progress` says of `agents.json`. `RewriteInv`: while it is undisturbed one
handler at most is inside its rewrite, the file holds what that handler read
until it truncates it and what it wrote once it has flushed, and the file can be
read unless that handler stands between the two. `SecretsInv`: until a handler
about a key takes its last step, the secret store is still what the document was
when the handler read it, but for the keys that are `unfinished`: a failure or a
crash between the two excepts that one key, and no other. `ReferenceInv` is what
a refusal needs: every running agent, every stored one, and every spawn that has
looked its key and plane up, refers to names that are `Kept`: in the document,
about to be flushed into it again, or removed by a request. `KeptStep` is the
central lemma: a rewrite loses nothing but what its request removes. A stored
agent that cannot be started when the daemon is down, and nobody is inside a
rewrite, has therefore lost its key or its plane to a request, or something
outside is out of order. Its secret cannot be missing alone: a key that is
referred to was looked up with its secret (`Usable`), and no request but its
removal takes that away, failed ones included.

**StopsRemembered, EarlyStopsHonoured.** `StopInv` adds: `HandlersOnTop`, what a
handler interrupted does not move until it is done; `PublishedInTime` and
`ServingInTime`, how the Events relate to the place of the main thread;
`FlagKnown` and `FreshHandlers`, what an activation that read the flag knows of
it; `StopPassedOn`, a recorded stop is handed to the daemon before
`serve_forever` looks; and `StopPending`, that while the daemon serves and the
flag is set somebody is on the way. The heart of the argument is that the
second look of `serve` at `stop_requested` comes after the publication of the
daemon, so every signal finds the daemon itself or is found by that look.

**StatusTruth, StatusSettlement.** `StatusInv` adds: `FailuresKnown`, a turn is
at its except clause only after it failed; `Alone`, the ghost is right; and
`StatusKnown`, the status is what the only turn under way made it.

**WellFormedRequests, ReportedTools.** `ConversationInv` adds to `StatusInv`:
`Unheard`, a turn that has not begun has no message in the conversation;
`ToolsInv`, the list of tools used is that of the only turn under way, and one
ahead of its tool messages between a call and its result; and `PairsInv`, where
the tail of the conversation is described while `Paired` does not hold: the
message at `RoundStart` carries the calls of the round, the results so far
follow it in order, and every other message is paired. `RoundBegins` and
`RoundAdvances` carry that description through a round, whose last result makes
the conversation paired again. A failure between a call and its result is the
one way out that skips this, which is why the property excepts `cut`.

**FileStaysIntact, DeletionLasts, ReadsAreCurrent, StoreIsVault.** `StoreInv`
adds to the types: `LinksLead` and `OneWriter`, a handler that is alone in the
rewrite has read what the file still holds and owns the temporary file, which
holds what it is about to rename; `ErasedInv`, an erased key is gone from the
keyring and from the file, or the handler that erases it is still on its way to
the file; `OneStore`, a keyring that stays as it was leaves one of the two
stores empty; `SeenInv`, what `get_secret` is about to find was there since it
began. The refinement rests on `OneStore`: with one store in use the step that
changes what a reader sees is a single one, `SetKeyring`, `DeleteKeyring` or
`Replace`, and it is the vault's `Put` or `Forget` (`OneSecretChanges`); every
other step, and a crash, is a stutter of the vault (`VaultStep`). Once rewrites
overlapped or the keyring changed the vault promises nothing, nor does the
theorem.

**SpawnIsReported, ChosenTypeIsUsed.** `ClientsInv` says of each user: `Awaits`
and `InDialogue`, the program waits at the steps that call the daemon, for the
request of that step; `KeysKnown`, the keys its dialogue deals with have, or
had, the chosen type (`HasHad`); `Claims`, the agent is the user's, running and
stored, when its spawn was reported, or has been answered with success and is
about to be, and only then unless the user is excused. Of each thread that has
checked and not yet written: `KeysThread`, the document it read is still the one
on disk, and `AgentThread`, the name is still free until it installs, both
unless the document's `overlap` is recorded; `Exclusive` is why, at most one
thread is between check and write of a document without such a record.
`ServedInv` ties a thread somebody listens to to the request that program waits
for, so that an answer reaches the call it belongs to, and the threads of
callers who gave up answer nobody. `StoredKnown` carries the type of a stored
agent's key across restarts.

**InstallsWhole, ManagerTold, RestLasts, StartsTake, QuietUninstalls.** The five
speak of moments when a command has answered; `ServiceInv` says what holds
before. `Answers`: until a command is over nothing but a warning has been told.
`InstallProgress`: at each step of an install the disk is as it was found, or
carries the new definition while `previous` keeps the old one, and a link that
was there stays until the command is over. `UninstallProgress`: an uninstall
without a warning has disabled the unit before it removes it. `InStep`: where
manager and disk differ, the command still has a call to make, except for a
restore that launchd had nothing loaded for. `Resting`: a daemon at rest, one
whose `systemctl stop` is awaited, and one whose plist is not loaded neither
runs nor waits to be restarted; the second covers the moment at which a stop
comes back, the third the step of an install that `Bootstraps`. The system these
theorems are about is finite but for what `None` is; what they add to the run is
the argument, in an invariant a reader can hold against the code.

**NoChildLeftBehind.** `ChildSeenTo` adds to the types that the host has a child
alive only between the step that starts it and the last time-out. `Wait` and
`Check` do not leave the loop without a child that is gone or a stop, and what
`SvcStop` does to the child from its own thread never brings one to life.

**Only model-checked.** Every safety property the passing runs check is proved.
What stays with TLC is everything temporal under fairness (`StopHonoured` of
both modules, `StoppersEnd`, `ReadRequestsAnswered`, `EveryTurnEnds`,
`RemovalCompletes`, `ChildEndReported`, `CallsReturn`): liveness and `ENABLED`
are beyond this version of the proof system. So are induction over data and
`RECURSIVE` operators; the models need neither.

## 6. What the runs found

Four runs end in a violation, each of something a document or a comment of the
repository says; `PROJECT.json` quotes the lines.

1. `agent_stored`: overlapping requests leave `agents.json` and memory
   different, after both are answered: a removed agent comes back with the next
   start, or a spawned one is gone.
2. `daemon_window`: a signal between `serve_forever`'s check and
   `_serving.set()` is dropped, and makes every later stop request a no-op.
3. `daemon_deadlock`: a second signal inside `_shutdown_requested.set()` makes
   the main thread wait for itself.
4. `agent_plane`: an Action Plane that breaks after its session was opened fails
   the turn, although the agent could answer without it.

Further differences between code and documents, found while modelling. The
models behave like the code; no run is spent on them.

* Two spawns of one name can both pass the check, and the second replaces the
  first's running agent (`daemon.py:60`, `:99`), although `cli.py:86-88` counts
  on "Agent already exists". `NoReplacement` says when it cannot happen.
* `/tools`, `/skills` and blank messages report the tools of an earlier turn:
  `respond` returns before it clears the list that `agent.py:30-31` says is
  reset at the start of each turn.
* A read that times out is reported as a daemon that is not running
  (`daemon_client.py:51`), the mistake its comment at `:44` means to avoid.
* `uninstall` of launchd ignores the result of `bootout`: the plist goes, the
  daemon may stay (`service_launchd.py:130`). `CLI.md` says that uninstall stops
  it. Under launchd, too, a `stop` in the pause before a restart reports a
  daemon that is stopped already, a `start` between a `kill` and the end of the
  process one that is running, and a failed reinstall may leave a daemon down
  that was up.
* A secret that cannot be stored after `keys.json` was written leaves a key
  without one, although the user is told of an error; one that cannot be deleted
  stays, and a deletion that an unusable keyring ignores is even answered as done
  (`daemon.py:212-214`, `:237-238`, `keyring_store.py:64-71`).
* A dump that fails leaves `agents.json`, `keys.json` or `action-planes.json`
  empty or torn, and the next start exits with 78. A spawn whose agent cannot be
  stored answers with an error although the agent runs (`daemon.py:65`).
* An `enable` that fails after it has made its link leaves the link: the rollback
  never disables, and if there was no unit the link leads nowhere. `CLI.md:143`
  promises the unit only.
* Two overlapping `add`s of one key name both pass the check
  (`daemon.py:207-212`): the second changes its type, without a removal.
* A daemon in the foreground next to an installed service that is stopped shows
  as "stopped (n agents)" (`cli.py:216-236`).

The passing properties say how far the damage goes: `AgentsAgree` and
`NoReplacement` hold as long as no operations overlapped on `agents.json` and no
failure or crash cut a rewrite of it short, `KeysAgree` likewise of `keys.json`,
and after a secret that could not be stored or deleted of every other key; a
stop is forgotten in that one window only; a conversation is spoilt only by
overlapping turns and by calls cut short; a secret only by two rewrites at once
and by a keyring that changes, and a deletion from a working keyring not even by
that; and a report of `spawn` is wrong only after two spawns of the name at
once, one that was given up, or one that could not be stored.

## 7. What is not modelled

Rendering and argument parsing of the command line, personas, skills, prompts
and the conversion for the model's API change no shared state: lookups,
assembly of strings and conversion of data. The drawing of the UI and what it
highlights, the installers and the release scripts are I/O. The MCP and HTTP
libraries are their users' nondeterminism. `status` commands read two sources
one after the other and change nothing. That `icacls` may fail after a Windows
service was registered is in the model (`Grant`), but no property speaks of it:
the code leaves the service registered. That the process of a Windows service is
killed, and its child with or without it, is left out. A crash is the end of a
process: what a loss of power does to files that were not synchronised is left
out, since the code synchronises none. `DaemonClients` has one agent name; what
two operations on other names do to `agents.json` is `AgentManager`'s.

## 8. Plan

Done, in this order: `ConfigFile`, `AgentManager`, `DaemonLifecycle`,
`AgentTurn`, with their proofs; then `SecretStore` with the refinement of
`SecretVault`, `ServiceManager`, `WindowsService` and `DaemonClients`; then the
proofs of every safety property. Left:

1. Proofs: the safety facts that the liveness properties rest on, such as that a
   thread that waits in `shutdown()` waits for a loop that runs or has ended.
2. Abstractions: a conversation as a sequence of complete exchanges, which
   `AgentTurn` implements while turns do not overlap.
