-------------------------- MODULE DaemonLifecycle ---------------------------
(***************************************************************************)
(* The life of the daemon process, from serve() to its exit                *)
(* (src/src/opengeneral/daemon.py): start-up, the accept loop, and the     *)
(* stop requests that may arrive at any moment, from signals that          *)
(* interrupt the main thread and from clients that call daemon.stop.       *)
(*                                                                         *)
(* The accept loop and shutdown() belong to socketserver, and Event to     *)
(* threading; they are modelled from how the standard library defines them *)
(* and from how the daemon calls them.                                     *)
(*                                                                         *)
(* An activation is one run of the code that asks for a stop: that of the  *)
(* main thread itself (serve checks once more after it published the       *)
(* daemon), of a signal handler, or of the handler thread of a client.     *)
(* Signal handlers run in the main thread, on top of whatever it was       *)
(* doing, another signal handler included.                                 *)
(***************************************************************************)
CONSTANTS
    Signals,     \* the SIGTERM and SIGINT deliveries that may happen: a bound
    Clients,     \* the connections that may be made: a bound
    None         \* nobody holds the lock

Activations == {"main"} \cup Signals \cup Clients

ExitCodes == {0, 1, 78}

ASSUME DistinctActivations ==
    /\ None \notin Activations /\ None \notin ExitCodes
    /\ "main" \notin Signals \cup Clients
    /\ Signals \cap Clients = {}

VARIABLES
    main,             \* the next step of the main thread
    code,             \* the exit code serve returns, or None
    stopRequested,    \* serve's Event stop_requested
    published,        \* daemon_ref[0] is the daemon
    flag,             \* the daemon's Event _shutdown_requested
    serving,          \* the daemon's Event _serving
    shutdownRequest,  \* socketserver's __shutdown_request
    isShutDown,       \* socketserver's Event __is_shut_down
    step,             \* the next step of each activation
    already,          \* what an activation found in flag
    under,            \* the activations of the main thread a signal handler interrupts
    lock,             \* who is inside set() of an Event, by Event
    stopper,          \* the thread an activation started to call shutdown()
    conn,             \* the state of each client's connection
    missed            \* ghost: a stop was asked for and dropped (see Decide)

mainVars    == <<main, code, published, serving, isShutDown, shutdownRequest>>
requestVars == <<stopRequested, flag, step, already, under, lock, stopper, missed>>
vars        == <<mainVars, requestVars, conn>>

-----------------------------------------------------------------------------
(* Who can run.                                                            *)

Running == main # "gone"
Active(a) == step[a] \notin {"none", "done"}

\* The activations that sit on the stack of the main thread.
MainStack == {"main"} \cup {s \in Signals : Active(s)}

\* Everything on the stack of the main thread waits for the latest signal handler.
CanRun(a) == Running /\ \A s \in Signals : Active(s) => a \notin under[s]

\* serve_forever is past its check and has not announced that it serves.
InWindow == main = "announce"

\* Somebody waits for an Event's lock that the code it interrupted holds: the
\* lock is not reentrant, and its holder can go on only when the waiter is done.
Waits(a, event) == step[a] = (CASE event = "stop" -> "markStop" [] OTHER -> "markFlag")
SelfLocked == \E s \in Signals : \E event \in {"stop", "flag"} :
                  Waits(s, event) /\ lock[event] \in under[s]

-----------------------------------------------------------------------------
Init ==
    /\ main = "load"
    /\ code = None
    /\ stopRequested = FALSE
    /\ published = FALSE
    /\ flag = FALSE
    /\ serving = FALSE
    /\ shutdownRequest = FALSE
    /\ isShutDown = FALSE
    /\ step = [a \in Activations |-> "none"]
    /\ already = [a \in Activations |-> FALSE]
    /\ under = [s \in Signals |-> {}]
    /\ lock = [stop |-> None, flag |-> None]
    /\ stopper = [a \in Activations |-> "none"]
    /\ conn = [c \in Clients |-> "none"]
    /\ missed = FALSE

-----------------------------------------------------------------------------
(* request_shutdown, and the signal handler that leads to it.              *)

GoTo(a, next) == step' = [step EXCEPT ![a] = next]

\* A signal arrives.  Its handler starts on top of the main thread's stack.
Deliver(s) ==
    /\ Running
    /\ step[s] = "none"
    /\ under' = [under EXCEPT ![s] = MainStack]
    /\ GoTo(s, "markStop")
    /\ UNCHANGED <<mainVars, stopRequested, flag, already, lock, stopper, missed, conn>>

\* stop_requested.set(): take the Event's lock, set, let go.
EnterStop(s) ==
    /\ CanRun(s) /\ step[s] = "markStop" /\ lock.stop = None
    /\ lock' = [lock EXCEPT !.stop = s]
    /\ GoTo(s, "setStop")
    /\ UNCHANGED <<mainVars, stopRequested, flag, already, under, stopper, missed, conn>>

SetStop(s) ==
    /\ CanRun(s) /\ step[s] = "setStop"
    /\ stopRequested' = TRUE
    /\ lock' = [lock EXCEPT !.stop = None]
    /\ GoTo(s, "ref")
    /\ UNCHANGED <<mainVars, flag, already, under, stopper, missed, conn>>

\* The daemon is asked only when there is one.
ReadRef(s) ==
    /\ CanRun(s) /\ step[s] = "ref"
    /\ GoTo(s, IF published THEN "already" ELSE "done")
    /\ UNCHANGED <<mainVars, stopRequested, flag, already, under, lock, stopper, missed, conn>>

\* Mutant: the Event is set first and read afterwards.
ReadFlagAfterSet(a) ==
    /\ CanRun(a) /\ step[a] = "already"
    /\ already' = [already EXCEPT ![a] = TRUE]
    /\ GoTo(a, "markFlag")
    /\ UNCHANGED <<mainVars, stopRequested, flag, under, lock, stopper, missed, conn>>

\* request_shutdown: was a stop requested before?
ReadFlag(a) ==
    /\ CanRun(a) /\ step[a] = "already"
    /\ already' = [already EXCEPT ![a] = flag]
    /\ GoTo(a, "markFlag")
    /\ UNCHANGED <<mainVars, stopRequested, flag, under, lock, stopper, missed, conn>>

EnterFlag(a) ==
    /\ CanRun(a) /\ step[a] = "markFlag" /\ lock.flag = None
    /\ lock' = [lock EXCEPT !.flag = a]
    /\ GoTo(a, "setFlag")
    /\ UNCHANGED <<mainVars, stopRequested, flag, already, under, stopper, missed, conn>>

SetFlag(a) ==
    /\ CanRun(a) /\ step[a] = "setFlag"
    /\ flag' = TRUE
    /\ lock' = [lock EXCEPT !.flag = None]
    /\ GoTo(a, "decide")
    /\ UNCHANGED <<mainVars, stopRequested, already, under, stopper, missed, conn>>

\* Mutant: shutdown() is called in place, by the thread that asks for the stop.
DecideInPlace(a) ==
    /\ CanRun(a) /\ step[a] = "decide"
    /\ IF already[a] \/ ~serving
       THEN GoTo(a, "done") /\ UNCHANGED shutdownRequest
       ELSE shutdownRequest' = TRUE /\ GoTo(a, IF isShutDown THEN "done" ELSE "decide")
    /\ UNCHANGED <<main, code, published, serving, isShutDown, stopRequested, flag, already,
                   under, lock, stopper, missed, conn>>

\* Mutant: a first request starts the thread whether or not the daemon serves.
DecideAlways(a) ==
    /\ CanRun(a) /\ step[a] = "decide"
    /\ stopper' = IF already[a] THEN stopper ELSE [stopper EXCEPT ![a] = "start"]
    /\ GoTo(a, "done")
    /\ UNCHANGED <<mainVars, stopRequested, flag, already, under, lock, missed, conn>>

\* The first to ask while the daemon serves starts a thread that calls
\* shutdown().  The ghost records a first request that found the daemon not
\* serving although serve_forever had made its check: nobody will act on it,
\* and every later request returns early because flag is set.
Decide(a) ==
    /\ CanRun(a) /\ step[a] = "decide"
    /\ LET starts == ~already[a] /\ serving
       IN  /\ stopper' = IF starts THEN [stopper EXCEPT ![a] = "start"] ELSE stopper
           /\ missed' = (missed \/ (~starts /\ InWindow))
    /\ GoTo(a, "done")
    /\ UNCHANGED <<mainVars, stopRequested, flag, already, under, lock, conn>>

\* socketserver.shutdown(), in the thread: ask, then wait until the loop is over.
StopperAsks(a) ==
    /\ Running
    /\ stopper[a] = "start"
    /\ shutdownRequest' = TRUE
    /\ stopper' = [stopper EXCEPT ![a] = "wait"]
    /\ UNCHANGED <<main, code, published, serving, isShutDown, stopRequested, flag, step,
                   already, under, lock, missed, conn>>

StopperEnds(a) ==
    /\ Running
    /\ stopper[a] = "wait"
    /\ isShutDown
    /\ stopper' = [stopper EXCEPT ![a] = "done"]
    /\ UNCHANGED <<mainVars, stopRequested, flag, step, already, under, lock, missed, conn>>

RequestStep(a) ==
    ReadFlag(a) \/ EnterFlag(a) \/ SetFlag(a) \/ Decide(a)

SignalStep(s) == EnterStop(s) \/ SetStop(s) \/ ReadRef(s)

StopperStep(a) == StopperAsks(a) \/ StopperEnds(a)

-----------------------------------------------------------------------------
(* The main thread: serve, serve_forever, socketserver's loop, the exit.   *)

MainAt(pc) == CanRun("main") /\ main = pc
Proceed(pc) == main' = pc

MainSteps == {"load", "checkStop", "bind", "publish", "recheck", "recheckWait", "enter",
              "announce", "begin", "loop", "accept", "unwind", "retire", "close", "join",
              "returned", "gone"}

\* serve returns, or raises, with an exit code.
Return(exitCode) == Proceed("returned") /\ code' = exitCode

\* load_existing fails on the configuration (78), or every agent is loaded.
LoadAgents ==
    /\ MainAt("load")
    /\ Return(78) \/ (Proceed("checkStop") /\ UNCHANGED code)
    /\ UNCHANGED <<published, serving, isShutDown, shutdownRequest, requestVars, conn>>

\* A stop during start-up ends it here.
CheckStop ==
    /\ MainAt("checkStop")
    /\ IF stopRequested THEN Return(0) ELSE Proceed("bind") /\ UNCHANGED code
    /\ UNCHANGED <<published, serving, isShutDown, shutdownRequest, requestVars, conn>>

\* The constructor binds the socket and listens; an OSError ends the process.
Bind ==
    /\ MainAt("bind")
    /\ Return(1) \/ (Proceed("publish") /\ UNCHANGED code)
    /\ UNCHANGED <<published, serving, isShutDown, shutdownRequest, requestVars, conn>>

Publish ==
    /\ MainAt("publish")
    /\ published' = TRUE
    /\ Proceed("recheck")
    /\ UNCHANGED <<code, serving, isShutDown, shutdownRequest, requestVars, conn>>

\* Mutant: no second look at stop_requested.
RecheckNothing ==
    /\ MainAt("recheck")
    /\ Proceed("enter")
    /\ UNCHANGED <<code, published, serving, isShutDown, shutdownRequest, requestVars, conn>>

\* A signal between the constructor and the publication found no daemon.
Recheck ==
    /\ MainAt("recheck")
    /\ IF stopRequested
       THEN Proceed("recheckWait") /\ GoTo("main", "already")
       ELSE Proceed("enter") /\ UNCHANGED step
    /\ UNCHANGED <<code, published, serving, isShutDown, shutdownRequest, stopRequested, flag,
                   already, under, lock, stopper, missed, conn>>

RecheckDone ==
    /\ MainAt("recheckWait")
    /\ step["main"] = "done"
    /\ Proceed("enter")
    /\ UNCHANGED <<code, published, serving, isShutDown, shutdownRequest, requestVars, conn>>

\* serve_forever: a stop that was asked for already makes it a no-op.
Enter ==
    /\ MainAt("enter")
    /\ Proceed(IF flag THEN "close" ELSE "announce")
    /\ UNCHANGED <<code, published, serving, isShutDown, shutdownRequest, requestVars, conn>>

Announce ==
    /\ MainAt("announce")
    /\ serving' = TRUE
    /\ Proceed("begin")
    /\ UNCHANGED <<code, published, isShutDown, shutdownRequest, requestVars, conn>>

\* socketserver's serve_forever, from its first statement ...
Begin ==
    /\ MainAt("begin")
    /\ isShutDown' = FALSE
    /\ Proceed("loop")
    /\ UNCHANGED <<code, published, serving, shutdownRequest, requestVars, conn>>

\* ... and its loop, which looks at the request before every wait and after it;
\* a wait that times out goes around.
Loop ==
    /\ MainAt("loop")
    /\ \/ shutdownRequest /\ Proceed("unwind")
       \/ ~shutdownRequest /\ (\E c \in Clients : conn[c] = "queued") /\ Proceed("accept")
       \/ ~shutdownRequest /\ UNCHANGED main
    /\ UNCHANGED <<code, published, serving, isShutDown, shutdownRequest, requestVars, conn>>

\* process_request starts a handler thread for the connection.
AcceptConnection ==
    /\ MainAt("accept")
    /\ \E c \in Clients : conn[c] = "queued" /\ conn' = [conn EXCEPT ![c] = "reading"]
    /\ Proceed("loop")
    /\ UNCHANGED <<code, published, serving, isShutDown, shutdownRequest, requestVars>>

\* Its finally clause.
Unwind ==
    /\ MainAt("unwind")
    /\ shutdownRequest' = FALSE
    /\ isShutDown' = TRUE
    /\ Proceed("retire")
    /\ UNCHANGED <<code, published, serving, requestVars, conn>>

\* The finally clause of the daemon's own serve_forever.
Retire ==
    /\ MainAt("retire")
    /\ serving' = FALSE
    /\ Proceed("close")
    /\ UNCHANGED <<code, published, isShutDown, shutdownRequest, requestVars, conn>>

\* server_close: the socket is closed, which resets connections nobody
\* accepted, ...
Close ==
    /\ MainAt("close")
    /\ conn' = [c \in Clients |-> IF conn[c] = "queued" THEN "reset" ELSE conn[c]]
    /\ Proceed("join")
    /\ UNCHANGED <<code, published, serving, isShutDown, shutdownRequest, requestVars>>

Handled(c) == conn[c] \in {"reading", "stop", "other", "reply"}

\* Mutant: serve falls off its end.
JoinWithoutCode ==
    /\ MainAt("join")
    /\ \A c \in Clients : ~Handled(c)
    /\ Proceed("returned")
    /\ UNCHANGED <<code, published, serving, isShutDown, shutdownRequest, requestVars, conn>>

\* Mutant: handler threads are not waited for.
JoinNobody ==
    /\ MainAt("join")
    /\ Return(0)
    /\ UNCHANGED <<published, serving, isShutDown, shutdownRequest, requestVars, conn>>

\* ... and every handler thread is joined.
Join ==
    /\ MainAt("join")
    /\ \A c \in Clients : ~Handled(c)
    /\ Return(0)
    /\ UNCHANGED <<published, serving, isShutDown, shutdownRequest, requestVars, conn>>

\* The interpreter waits for the threads that call shutdown(); then the process ends.
Exit ==
    /\ MainAt("returned")
    /\ \A a \in Activations : stopper[a] \in {"none", "done"}
    /\ Proceed("gone")
    /\ UNCHANGED <<code, published, serving, isShutDown, shutdownRequest, requestVars, conn>>

MainStep ==
    \/ LoadAgents \/ CheckStop \/ Bind \/ Publish \/ Recheck \/ RecheckDone
    \/ Enter \/ Announce \/ Begin \/ Loop \/ AcceptConnection \/ Unwind \/ Retire
    \/ Close \/ Join \/ Exit

-----------------------------------------------------------------------------
(* Clients and the handler threads that serve them.                        *)

Listening == main \in {"publish", "recheck", "recheckWait", "enter", "announce", "begin",
                       "loop", "accept", "unwind", "retire", "close"}

SetConn(c, state) == conn' = [conn EXCEPT ![c] = state]

\* The kernel completes the connection; the daemon has not accepted it yet.
Connect(c) ==
    /\ Listening
    /\ conn[c] = "none"
    /\ SetConn(c, "queued")
    /\ UNCHANGED <<mainVars, requestVars>>

\* The handler reads one line: a request to stop, any other, or, from a client
\* that went away, nothing.
Receive(c) ==
    /\ Running
    /\ conn[c] = "reading"
    /\ \/ SetConn(c, "stop") /\ GoTo(c, "already")
       \/ SetConn(c, "other") /\ UNCHANGED step
       \/ SetConn(c, "closed") /\ UNCHANGED step
    /\ UNCHANGED <<mainVars, stopRequested, flag, already, under, lock, stopper, missed>>

\* The request is executed: daemon.stop by request_shutdown, any other by the
\* manager, and answered.
Execute(c) ==
    /\ Running
    /\ conn[c] = "other" \/ (conn[c] = "stop" /\ step[c] = "done")
    /\ SetConn(c, "reply")
    /\ UNCHANGED <<mainVars, requestVars>>

Reply(c) ==
    /\ Running
    /\ conn[c] = "reply"
    /\ SetConn(c, "answered")
    /\ UNCHANGED <<mainVars, requestVars>>

HandlerStep(c) == Receive(c) \/ Execute(c) \/ Reply(c)

-----------------------------------------------------------------------------
\* The process is gone, or hangs (see SelfLocked).  These are the only states
\* where nothing may happen any more: any other is a deadlock TLC reports.
Gone == main = "gone" /\ UNCHANGED vars
Hung == SelfLocked /\ UNCHANGED vars

Next ==
    \/ MainStep
    \/ \E s \in Signals : Deliver(s) \/ SignalStep(s)
    \/ \E a \in Activations : RequestStep(a) \/ StopperStep(a)
    \/ \E c \in Clients : Connect(c) \/ HandlerStep(c)
    \/ Gone
    \/ Hung

\* Every thread that can run runs, and a connected client sends a line or goes
\* away.  Nothing forces a signal or a connection.
Fairness ==
    /\ WF_vars(MainStep)
    /\ \A s \in Signals : WF_vars(SignalStep(s))
    /\ \A a \in Activations : WF_vars(RequestStep(a)) /\ WF_vars(StopperStep(a))
    /\ \A c \in Clients : WF_vars(HandlerStep(c))

Spec == Init /\ [][Next]_vars /\ Fairness

-----------------------------------------------------------------------------
(* Properties.                                                             *)

\* A process that is over has an exit code, and no other has.
MainOK ==
    /\ main \in MainSteps
    /\ code \in {None} \cup ExitCodes
    /\ (code # None) <=> (main \in {"returned", "gone"})

EventsOK ==
    /\ stopRequested \in BOOLEAN /\ published \in BOOLEAN
    /\ flag \in BOOLEAN /\ serving \in BOOLEAN /\ missed \in BOOLEAN
    /\ shutdownRequest \in BOOLEAN /\ isShutDown \in BOOLEAN

ActivationsOK ==
    /\ step \in [Activations -> {"none", "markStop", "setStop", "ref", "already", "markFlag",
                                 "setFlag", "decide", "done"}]
    /\ already \in [Activations -> BOOLEAN]
    /\ under \in [Signals -> SUBSET ({"main"} \cup Signals)]
    /\ lock \in [stop : Signals \cup {None}, flag : Activations \cup {None}]
    /\ stopper \in [Activations -> {"none", "start", "wait", "done"}]

ConnectionsOK ==
    conn \in [Clients -> {"none", "queued", "reading", "stop", "other", "reply", "answered",
                         "closed", "reset"}]

\* Types of all variables.
TypeOK == MainOK /\ EventsOK /\ ActivationsOK /\ ConnectionsOK

\* A stop that a signal recorded before serve_forever's check is never overlooked:
\* the check lets the daemon go on to serve only when nobody has asked, whether
\* the signal came while agents were loading, between the constructor and the
\* publication of the daemon, or after it (serve, serve_forever).  A stop between
\* the check and the announcement is another matter: StopAlwaysHonoured.
EarlyStopNeverServes == [][ main = "enter" /\ main' = "announce" => ~stopRequested ]_vars

\* Somebody is on the way to end the accept loop.
StopUnderWay ==
    \/ shutdownRequest
    \/ \E a \in Activations : stopper[a] = "start" \/ (step[a] = "decide" /\ ~already[a])

\* While the daemon serves and _shutdown_requested is set, either somebody is on
\* the way to end the accept loop or the request fell into the window: the early
\* return of every later request (already) is right, because the first one acts
\* (request_shutdown).
StopNotForgotten ==
    main \in {"begin", "loop", "accept"} /\ flag /\ ~missed => StopUnderWay

\* A request_shutdown that nobody dropped and that is not deadlocked against
\* itself ends the process (request_shutdown, serve_forever, server_close).
StopHonoured == <>(missed \/ SelfLocked) \/ (flag ~> main = "gone")

\* Every thread that calls shutdown() comes back from it, so that it never keeps
\* the process from exiting: whether it asks before the loop begins, while it
\* runs, or when another thread has ended it already.
StoppersEnd ==
    <>SelfLocked \/ \A a \in Activations : stopper[a] = "start" ~> stopper[a] = "done"

\* A request that the daemon has read is answered, also when the daemon stops
\* meanwhile: server_close joins the handler threads.
ReadRequestsAnswered ==
    <>SelfLocked \/ \A c \in Clients : conn[c] \in {"stop", "other"} ~> conn[c] = "answered"

\* What request_shutdown says of itself: it may be called at any time, and
\* makes serve_forever return.
StopAlwaysHonoured == flag ~> main = "gone"

\* What request_shutdown says of itself: it is deadlock-safe.  No signal handler
\* waits in it for the lock of _shutdown_requested that the code it interrupts,
\* in request_shutdown too, holds.
DeadlockSafe == \A s \in Signals : Waits(s, "flag") => lock.flag \notin under[s]
=============================================================================
